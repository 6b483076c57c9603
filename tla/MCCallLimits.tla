----------------------------- MODULE MCCallLimits ------------------------------
(* Instances of CallLimits: the limits are small and the stack is deeper than both. *)
EXTENDS CallLimits, TLC

MCSymmetry == Permutations(Functions)
================================================================================
