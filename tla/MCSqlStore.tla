----------------------------- MODULE MCSqlStore -----------------------------
(***************************************************************************)
(* SqlStore for TLC.                                                       *)
(***************************************************************************)
EXTENDS SqlStore, TLC

Symmetry == Permutations(Sessions) \cup Permutations(Operations) \cup Permutations(Managers)
=============================================================================
