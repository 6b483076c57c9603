------------------------------- MODULE MCScopes --------------------------------
(* Instances of Scopes: two names; three lambdas, so that one can be written in one
   that stands in a loop of a third; arguments of two values, or none, so that a
   binding that changes, one that goes and one that is left over all show. *)
EXTENDS Scopes, TLC

MCSymmetry == Permutations(Args)
================================================================================
