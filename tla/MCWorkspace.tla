---------------------------- MODULE MCWorkspace ----------------------------
(***************************************************************************)
(* Workspace for TLC: two clones whose people change a setting each.       *)
(***************************************************************************)
EXTENDS Workspace, TLC

CONSTANTS w1, w2, a, b

OwnSetting == w1 :> {a} @@ w2 :> {b}

\* Commands are alike, and so are the clones with their people's settings.
Swap == w1 :> w2 @@ w2 :> w1 @@ a :> b @@ b :> a
Symmetry == Permutations(Commands) \cup {Swap}
=============================================================================
