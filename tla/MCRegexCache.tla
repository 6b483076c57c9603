----------------------------- MODULE MCRegexCache ------------------------------
(* Instances of RegexCache: patterns outnumber the room, one does not compile. *)
EXTENDS RegexCache
================================================================================
