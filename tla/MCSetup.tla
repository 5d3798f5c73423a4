------------------------------ MODULE MCSetup ------------------------------
(***************************************************************************)
(* One home with two clones and two commands at the same time; one env     *)
(* file that may be missing.                                               *)
(***************************************************************************)
EXTENDS Setup, TLC

CONSTANTS w1, w2, c1, c2

Symmetry == Permutations({w1, w2}) \cup Permutations({c1, c2})
=============================================================================
