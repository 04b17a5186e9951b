---------------------------- MODULE MCHashStorage ---------------------------
(***************************************************************************)
(* hash_storage for TLC: keys are small numbers that hash to themselves,   *)
(* so that two of three keys meet in one bucket and in one list of it.     *)
(***************************************************************************)
EXTENDS HashStorage

HashOfKey == [k \in Keys |-> k]

FairSpec == Spec /\ Fairness
=============================================================================
