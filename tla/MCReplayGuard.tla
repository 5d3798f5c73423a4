--------------------------- MODULE MCReplayGuard ---------------------------
(***************************************************************************)
(* ReplayGuard for TLC.                                                    *)
(***************************************************************************)
EXTENDS ReplayGuard, TLC

Symmetry == Permutations(Handlers) \cup Permutations(SignedRequests)
=============================================================================
