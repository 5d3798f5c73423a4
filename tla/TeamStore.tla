----------------------------- MODULE TeamStore -----------------------------
(***************************************************************************)
(* One team in the backend's MemoryStore: the published config snapshot    *)
(* and its revision, the member records, what each scope grants and to     *)
(* whom its key is wrapped, the versions of its variables, and the tables  *)
(* of operations already done.  Every operator below is one store method,  *)
(* which runs under the store's mutex and so is one atomic step.  `key' is *)
(* the authenticated caller and `manages' the management flag of the       *)
(* member record the API read when it verified the request: the store is   *)
(* handed that record and does not read the flag again.                    *)
(***************************************************************************)
EXTENDS TeamData

CONSTANTS
    Admin,     \* the key that set the team up
    Vars,      \* names of variables, the same few in each scope
    OpIds      \* operation ids clients put in their requests

ASSUME AdminAssumption == Admin \in Keys

VARIABLES
    revision,    \* team.revision
    snapshot,    \* team.configSnapshot (its hash is a function of it)
    members,     \* team.members
    scopes,      \* the names in team.scopes
    access,      \* scope.memberAccess
    envelopes,   \* keys each scope's key is wrapped for (scope.envelopes)
    secrets,     \* scope.variables: versions written, and the deleted flag
    configOps,   \* team.configOps: request and result of a config push
    envOps,      \* team.envOps: request and result of an env push
    published    \* history: published[n] is the snapshot of revision n

store == <<revision, snapshot, members, scopes, access, envelopes, secrets,
           configOps, envOps, published>>

Recipients == SUBSET (Scopes \X Keys)

\* ConfigPushRequest.  approved[k][s] is the permission of the approved
\* scope_access_change decision for k in s, Unset without one.
ConfigRequest ==
    [kind : {"config"}, op : OpIds, key : Keys, expected : Nat,
     target : Snapshot, declined : SUBSET Keys, recipients : Recipients,
     approved : [Keys -> [Scopes -> Permission \cup {Unset}]]]

\* EnvPushRequest.  seen[v] is the expected version id, 0 for the empty one.
EnvRequest ==
    [kind : {"env"}, op : OpIds, key : Keys, scope : Scopes, expected : Nat,
     target : Snapshot \cup {None}, upserts : SUBSET Vars,
     removals : SUBSET Vars, seen : [Vars -> Nat]]

\* A push that was applied, in the tables of operations.
ConfigResult == [request : ConfigRequest, result : Nat]
EnvResult == [request : EnvRequest, result : Nat]

ASSUME NoneAssumption ==
    /\ None \notin Snapshot
    /\ None \notin ConfigResult
    /\ None \notin EnvResult

\* A variable: the operations that wrote its versions, oldest first.
Variable == [versions : Seq(OpIds), deleted : BOOLEAN]

StoreTypeOK ==
    /\ revision \in Nat \ {0}
    /\ snapshot \in Snapshot
    /\ members \in [Keys -> Member]
    /\ scopes \in SUBSET Scopes
    /\ access \in [Scopes -> [Keys -> Permission \cup {Unset}]]
    /\ envelopes \in [Scopes -> SUBSET Keys]
    /\ secrets \in [Scopes -> [Vars -> Variable]]
    /\ configOps \in [OpIds -> ConfigResult \cup {None}]
    /\ envOps \in [OpIds -> EnvResult \cup {None}]
    /\ published \in Seq(Snapshot)

-----------------------------------------------------------------------------
\* CreateTeamSetup, for a team set up with the scopes `initial': the caller is
\* the one member, a manager with write access and an envelope in each scope.
CreateTeamSetup(initial) ==
    LET writes == [s \in Scopes |-> IF s \in initial THEN "write" ELSE Unset]
        admin  == [management |-> TRUE, scopes |-> writes]
    IN  /\ revision = 1
        /\ snapshot = [members |-> [k \in Keys |-> IF k = Admin THEN admin ELSE None],
                       scopes |-> initial]
        /\ members = [k \in Keys |-> IF k = Admin THEN ActiveAs(admin) ELSE Absent]
        /\ scopes = initial
        /\ access = [s \in Scopes |-> [k \in Keys |->
                        IF k = Admin THEN writes[s] ELSE Unset]]
        /\ envelopes = [s \in Scopes |-> IF s \in initial THEN {Admin} ELSE {}]
        /\ secrets = [s \in Scopes |-> [v \in Vars |->
                        [versions |-> <<>>, deleted |-> FALSE]]]
        /\ configOps = [op \in OpIds |-> None]
        /\ envOps = [op \in OpIds |-> None]
        /\ published = <<snapshot>>

-----------------------------------------------------------------------------
Active(key) == members[key].status = "active"

\* effectivePermission: what the scope records, else a manager is an admin.
EffectivePermission(key, manages, s) ==
    IF access[s][key] # Unset THEN access[s][key]
    ELSE IF manages THEN "admin" ELSE Unset

\* scopeForActor.
Allowed(key, manages, s, required) ==
    /\ Active(key)
    /\ s \in scopes
    /\ PermissionAllows(EffectivePermission(key, manages, s), required)

\* GetKeyEnvelope and PullBundle: what a member needs to read a scope's values.
HoldsKey(key, s) ==
    /\ Allowed(key, members[key].management, s, "read")
    /\ key \in envelopes[s]

\* The version a reader of variable v is given, 0 when there is none.
Current(s, v) == IF secrets[s][v].deleted THEN 0 ELSE Len(secrets[s][v].versions)

\* The snapshot becomes revision + 1.
Publish(snap) ==
    /\ revision' = revision + 1
    /\ snapshot' = snap
    /\ published' = Append(published, snap)

AddEnvelopes(recipients, known) ==
    envelopes' = [s \in Scopes |-> envelopes[s] \cup
                    {k \in Keys : s \in known /\ <<s, k>> \in recipients}]

-----------------------------------------------------------------------------
\* applySnapshot, applyApprovedAccessDecisions and applyDeclinedDecisions: the
\* member record of k after the config push r.
ScopesAfter(r) == scopes \cup r.target.scopes

MemberAfter(r, k) ==
    LET listed  == IF r.target.members[k] # None
                   THEN ActiveAs(r.target.members[k]) ELSE members[k]
        decided == [s \in Scopes |->
                      IF s \in ScopesAfter(r) /\ r.approved[k][s] # Unset
                      THEN r.approved[k][s] ELSE listed.scopes[s]]
    IN  [status     |-> IF k \in r.declined /\ listed.status = "pending"
                        THEN "declined" ELSE listed.status,
         management |-> listed.management,
         scopes     |-> IF listed.status = "absent" THEN listed.scopes ELSE decided]

\* Mutant: a permission already recorded is kept, not rebuilt.
MutAccessAfter(r, s, k) ==
    IF s \notin ScopesAfter(r) THEN Unset
    ELSE IF r.approved[k][s] # Unset THEN r.approved[k][s]
    ELSE IF access[s][k] # Unset THEN access[s][k] ELSE MemberAfter(r, k).scopes[s]

\* memberAccess is rebuilt from the records of all members, listed or not.
AccessAfter(r, s, k) ==
    IF s \notin ScopesAfter(r) THEN Unset
    ELSE IF r.approved[k][s] # Unset THEN r.approved[k][s]
    ELSE MemberAfter(r, k).scopes[s]

\* PushConfig, its checks and its effect when they pass.
MayPushConfig(r, manages) == Active(r.key) /\ manages

\* Mutant: the expected revision is not compared.
MutPushConfigAccepts(r, manages) ==
    /\ MayPushConfig(r, manages)
    /\ configOps[r.op] = None

PushConfigAccepts(r, manages) ==
    /\ MayPushConfig(r, manages)
    /\ configOps[r.op] = None
    /\ r.expected = revision

PushConfig(r, manages) ==
    /\ PushConfigAccepts(r, manages)
    /\ members' = [k \in Keys |-> MemberAfter(r, k)]
    /\ scopes' = ScopesAfter(r)
    /\ access' = [s \in Scopes |-> [k \in Keys |-> AccessAfter(r, s, k)]]
    /\ AddEnvelopes(r.recipients, ScopesAfter(r))
    /\ Publish(r.target)
    /\ configOps' = [configOps EXCEPT ![r.op] = [request |-> r, result |-> revision + 1]]
    /\ UNCHANGED <<secrets, envOps>>

\* Mutant: the payload is not compared with the recorded one.
MutPushConfigRepeats(r, manages) ==
    /\ MayPushConfig(r, manages)
    /\ configOps[r.op] # None

\* The same operation id and payload again: the recorded result is returned.
PushConfigRepeats(r, manages) ==
    /\ MayPushConfig(r, manages)
    /\ configOps[r.op] # None
    /\ configOps[r.op].request = r

-----------------------------------------------------------------------------
\* EnvPush.  Both checks of the variables treat an empty expectation as "any".
MayPushEnv(r, manages) == Allowed(r.key, manages, r.scope, "write")

NoConflict(r) ==
    \A v \in r.upserts \cup r.removals :
        r.seen[v] = 0 \/ r.seen[v] = Current(r.scope, v)

\* Mutants: the revision is not compared; the operation id is not looked up.
MutEnvPushAnyRevision(r, manages) ==
    /\ MayPushEnv(r, manages)
    /\ envOps[r.op] = None
    /\ NoConflict(r)

MutEnvPushAnew(r, manages) ==
    /\ MayPushEnv(r, manages)
    /\ r.expected = revision
    /\ NoConflict(r)

EnvPushAccepts(r, manages) ==
    /\ MayPushEnv(r, manages)
    /\ envOps[r.op] = None
    /\ r.expected = revision
    /\ NoConflict(r)

\* A removal of a variable nobody wrote still leaves a deleted record.
VariableAfter(r, v) ==
    LET written == IF v \in r.upserts
                   THEN [versions |-> Append(secrets[r.scope][v].versions, r.op),
                         deleted  |-> FALSE]
                   ELSE secrets[r.scope][v]
    IN  IF v \in r.removals THEN [written EXCEPT !.deleted = TRUE] ELSE written

\* A target snapshot is published as it is: no member record, scope or
\* permission is derived from it.
EnvPush(r, manages) ==
    /\ EnvPushAccepts(r, manages)
    /\ secrets' = [secrets EXCEPT ![r.scope] = [v \in Vars |-> VariableAfter(r, v)]]
    /\ \/ r.target # None /\ Publish(r.target)
       \/ r.target = None /\ UNCHANGED <<revision, snapshot, published>>
    /\ envOps' = [envOps EXCEPT ![r.op] =
                    [request |-> r, result |-> IF r.target = None THEN 0 ELSE revision + 1]]
    /\ UNCHANGED <<members, scopes, access, envelopes, configOps>>

EnvPushRepeats(r, manages) ==
    /\ MayPushEnv(r, manages)
    /\ envOps[r.op] # None
    /\ envOps[r.op].request = r

-----------------------------------------------------------------------------
\* CreateJoinRequest: anybody with no record may ask; the store keeps the
\* requested management flag and drops the requested scopes.
CreateJoinRequest(k, management) ==
    /\ members[k].status = "absent"
    /\ members' = [members EXCEPT ![k] = [status |-> "pending",
                                          management |-> management,
                                          scopes |-> NoAccess]]
    /\ UNCHANGED <<revision, snapshot, scopes, access, envelopes, secrets,
                   configOps, envOps, published>>

\* Mutant: the entry is appended to the snapshot under the same revision.
MutAdmit(k, grant, recipients) ==
    /\ members' = [members EXCEPT ![k] = ActiveAs(grant)]
    /\ access' = [s \in Scopes |->
                    IF s \in scopes /\ grant.scopes[s] # Unset
                    THEN [access[s] EXCEPT ![k] = grant.scopes[s]] ELSE access[s]]
    /\ AddEnvelopes(recipients, scopes)
    /\ snapshot' = WithMember(snapshot, k, grant)
    /\ UNCHANGED <<revision, published, scopes, secrets, configOps, envOps>>

\* The part ApproveJoinRequest and SubmitInvitePIN share: a record with the
\* granted access, its envelopes, and an entry appended to the snapshot.
Admit(k, grant, recipients) ==
    /\ members' = [members EXCEPT ![k] = ActiveAs(grant)]
    /\ access' = [s \in Scopes |->
                    IF s \in scopes /\ grant.scopes[s] # Unset
                    THEN [access[s] EXCEPT ![k] = grant.scopes[s]] ELSE access[s]]
    /\ AddEnvelopes(recipients, scopes)
    /\ Publish(WithMember(snapshot, k, grant))
    /\ UNCHANGED <<scopes, secrets, configOps, envOps>>

\* Mutant: the request may be decided already.
MutMayDecide(key, manages, joiner) == Active(key) /\ manages

MayDecide(key, manages, joiner) ==
    /\ Active(key) /\ manages
    /\ members[joiner].status = "pending"

ApproveJoinRequest(r, manages) ==
    /\ MayDecide(r.key, manages, r.joiner)
    /\ Admit(r.joiner, r.grant, r.recipients)

DeclineJoinRequest(r, manages) ==
    /\ MayDecide(r.key, manages, r.joiner)
    /\ members' = [members EXCEPT ![r.joiner].status = "declined"]
    /\ UNCHANGED <<revision, snapshot, scopes, access, envelopes, secrets,
                   configOps, envOps, published>>

\* The team's part of SubmitInvitePIN when the PIN is right and the relay
\* re-encrypted a bundle: the joiner's record is written whatever it was.
AdmitByInvite(k, grant, recipients) == Admit(k, grant, recipients)

-----------------------------------------------------------------------------
\* buildEnvelopesForJoiner: one envelope per granted scope, made from the
\* manager's own, so the manager must be able to read each of them.
Granted(grant) == {s \in Scopes : grant.scopes[s] \notin {Unset, "none"}}
JoinRecipients(grant, joiner) == Granted(grant) \X {joiner}
HoldsKeys(k, grant) == \A s \in Granted(grant) : HoldsKey(k, s)

\* The grant is what the joiner asked for.
Requested(j, grant) ==
    /\ members[j].status = "pending"
    /\ members[j].management = grant.management
=============================================================================
