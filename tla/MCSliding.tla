----------------------------- MODULE MCSliding -----------------------------
(***************************************************************************)
(* The sliding limit of the Redis decorator, for callers that are alike.   *)
(***************************************************************************)
EXTENDS SlidingLimit, TLC

CallerSymmetry == Permutations(Callers)
=============================================================================
