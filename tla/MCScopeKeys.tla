---------------------------- MODULE MCScopeKeys ----------------------------
(***************************************************************************)
(* Two members, three scopes of which two exist at first.  The configs     *)
(* take a scope out, put it back alone or together with a new one, and     *)
(* leave the number of scopes as it was while they exchange one.           *)
(***************************************************************************)
EXTENDS ScopeKeys, TLC

CONSTANTS ann, bob, dev, prod, qa, c1, c2

ReadBy(scopes, people) ==
    [scopes  |-> scopes,
     readers |-> [s \in {dev, prod, qa} |-> IF s \in scopes THEN people ELSE {}]]

MCConfigs == {ReadBy({dev}, {ann}),
              ReadBy({dev, prod, qa}, {ann, bob})}

MCOffers == {{prod}}

Symmetry == Permutations({c1, c2})
=============================================================================
