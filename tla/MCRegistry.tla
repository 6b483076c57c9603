------------------------------ MODULE MCRegistry -------------------------------
(* Instances of Registry: two functions that call each other. *)
EXTENDS Registry, TLC

CONSTANTS F, G

Mutual == (F :> {G} @@ G :> {F})
Inlines == {{F}, {F, G}}
MCSymmetry == Permutations(Threads)
================================================================================
