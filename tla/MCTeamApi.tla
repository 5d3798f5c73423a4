----------------------------- MODULE MCTeamApi -----------------------------
(***************************************************************************)
(* TeamApi for TLC: three people, and the entries a manager or an invite   *)
(* gives them.                                                             *)
(***************************************************************************)
EXTENDS TeamApi, TLC

CONSTANTS alice, bob, carol, dev, prod

Entry(management, permission) ==
    [management |-> management,
     scopes |-> [s \in Scopes |-> IF s = dev THEN permission ELSE Unset]]

Manager  == Entry(TRUE, "write")
Writer   == Entry(FALSE, "write")
Reader   == Entry(FALSE, "read")
\* A manager with no permission of its own, as an invite with only the
\* management flag makes it, and what is left when the flag is taken away.
Lead     == Entry(TRUE, Unset)
Bare     == Entry(FALSE, Unset)

LeadOrBare == {Lead, Bare}
NoInvites == {}
ReaderOnly == {Reader}
ManagerOnly == {Manager}

\* Neither the properties nor the handlers tell these apart; alice set the
\* team up, bob and carol may only be exchanged where both are used alike.
Symmetry == Permutations(Handlers) \cup Permutations(OpIds)
                \cup Permutations(Keys \ {alice})
=============================================================================
