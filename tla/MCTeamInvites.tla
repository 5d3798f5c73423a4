--------------------------- MODULE MCTeamInvites ---------------------------
(***************************************************************************)
(* TeamInvites for TLC: the entries invites and approvals give, and which  *)
(* parameters may be exchanged.                                            *)
(***************************************************************************)
EXTENDS TeamInvites, TLC

CONSTANTS alice, bob, carol, dev, prod

Entry(management, permission) ==
    [management |-> management,
     scopes |-> [s \in Scopes |-> IF s = dev THEN permission ELSE Unset]]

ManagerOnly == {Entry(TRUE, "write")}
ReaderOnly == {Entry(FALSE, "read")}

Symmetry == Permutations(Handlers) \cup Permutations(InviteIds)
                \cup Permutations(OpIds) \cup Permutations(Keys \ {alice})
=============================================================================
