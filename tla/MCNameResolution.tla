--------------------------- MODULE MCNameResolution ----------------------------
(* Instances of NameResolution: functions that two namespaces and the bare name may provide. *)
EXTENDS NameResolution

CONSTANTS Sign, Debug, Old

Called == {Sign, Debug, Old}
\* Any of the functions called Sign, and debug as the standard library has it.
AnySign == {ks \cup {Bare(Debug)} : ks \in SUBSET {k \in Keys : k.name = Sign}}
================================================================================
