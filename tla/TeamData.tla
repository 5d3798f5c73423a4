------------------------------ MODULE TeamData ------------------------------
(***************************************************************************)
(* The data the Propagate backend keeps for one team: permissions, the     *)
(* entries of a config snapshot (the canonical JSON of propagate.yaml) and *)
(* the member records of the store.  A snapshot's member list is read the  *)
(* way applySnapshot reads it, last entry of a key wins, so it is a        *)
(* function of the key.                                                    *)
(***************************************************************************)
EXTENDS Naturals, FiniteSets, Sequences

CONSTANTS
    Keys,      \* public key fingerprints of the people involved
    Scopes,    \* scope names (dev, prod, ...)
    None       \* what an optional value is when it is not there

\* The permissions a request may carry ("" is a key that has none recorded).
Unset == ""
Permission == {"none", "read", "write", "admin"}

Grant == [management : BOOLEAN, scopes : [Scopes -> Permission \cup {Unset}]]

\* permissionRank and PermissionAllows.
Rank(permission) ==
    CASE permission = "admin" -> 3
      [] permission = "write" -> 2
      [] permission = "read"  -> 1
      [] OTHER                -> 0

PermissionAllows(actual, required) == Rank(actual) >= Rank(required)

NoAccess == [s \in Scopes |-> Unset]

Snapshot == [members : [Keys -> Grant \cup {None}], scopes : SUBSET Scopes]

Listed(snap) == {k \in Keys : snap.members[k] # None}

\* A member record of the store; status "absent" is a key with no record.
Status == {"absent", "pending", "active", "declined"}
Member == [status : Status, management : BOOLEAN,
           scopes : [Scopes -> Permission \cup {Unset}]]

Absent == [status |-> "absent", management |-> FALSE, scopes |-> NoAccess]

ActiveAs(grant) == [status |-> "active", management |-> grant.management,
                    scopes |-> grant.scopes]

\* Mutant: the store's record is appended, not a snapshot entry.
MutWithMember(snap, k, grant) == [snap EXCEPT !.members[k] = ActiveAs(grant)]

\* appendMemberToMemorySnapshot: the snapshot with one more entry at its end.
WithMember(snap, k, grant) == [snap EXCEPT !.members[k] = grant]
=============================================================================
