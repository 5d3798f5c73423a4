--------------------------- MODULE TeamApiProofs ---------------------------
(***************************************************************************)
(* Theorems about TeamApi for any people, scopes, variables, operation     *)
(* ids, handlers and entries: type correctness, that a push takes effect   *)
(* only under the authority its sender has at that step, that the server   *)
(* implements the revision log of ConfigRevisions, that retries have one   *)
(* effect and one answer, that no value is replaced unseen, and that what  *)
(* is published is enforced, but for the edits env pushes publish, and has *)
(* keys, but for the scopes the CLI does not see as new.                   *)
(***************************************************************************)
EXTENDS TeamApi, TLAPS, FiniteSetTheorems

\* Editing a snapshot gives a snapshot.
LEMMA WithMemberType ==
    ASSUME NEW snap \in Snapshot, NEW k \in Keys, NEW g \in Grant \cup {None}
    PROVE  WithMember(snap, k, g) \in Snapshot
BY DEF WithMember, Snapshot

\* A step that leaves the store alone.
LEMMA StoreUnchanged ==
    ASSUME StoreTypeOK, UNCHANGED store
    PROVE  StoreTypeOK'
BY DEF StoreTypeOK, store

\* The version a reader is given is a number.
LEMMA CurrentType ==
    ASSUME StoreTypeOK, NEW s \in Scopes, NEW v \in Vars
    PROVE  Current(s, v) \in Nat
<1>1. secrets[s][v] \in Variable
  BY DEF StoreTypeOK
<1> QED
  BY <1>1 DEF Current, Variable

\* The envelopes an approval carries go to the joiner.
LEMMA JoinRecipientsType ==
    ASSUME NEW g, NEW k \in Keys
    PROVE  JoinRecipients(g, k) \in Recipients
BY DEF JoinRecipients, Granted, Recipients

-----------------------------------------------------------------------------
(* Each operation of the store leaves its variables in their types. *)

\* A team as it is set up.
LEMMA SetupType ==
    ASSUME NEW initial \in SUBSET Scopes, CreateTeamSetup(initial)
    PROVE  StoreTypeOK
<1> DEFINE writes == [s \in Scopes |-> IF s \in initial THEN "write" ELSE Unset]
           admin  == [management |-> TRUE, scopes |-> writes]
<1>1. writes \in [Scopes -> Permission \cup {Unset}]
  BY DEF Permission
<1>2. admin \in Grant
  BY <1>1 DEF Grant
<1>3. snapshot = [members |-> [k \in Keys |-> IF k = Admin THEN admin ELSE None],
                  scopes |-> initial]
  BY DEF CreateTeamSetup
<1>4. snapshot \in Snapshot
  <2>1. [k \in Keys |-> IF k = Admin THEN admin ELSE None] \in [Keys -> Grant \cup {None}]
    BY <1>2
  <2> QED
    BY <1>3, <2>1 DEF Snapshot
<1>5. members \in [Keys -> Member]
  <2>1. ActiveAs(admin) \in Member
    BY <1>1 DEF ActiveAs, Member, Status
  <2>2. Absent \in Member
    BY DEF Absent, Member, Status, NoAccess
  <2>3. members = [k \in Keys |-> IF k = Admin THEN ActiveAs(admin) ELSE Absent]
    BY DEF CreateTeamSetup
  <2> QED
    BY <2>1, <2>2, <2>3
<1>6. access \in [Scopes -> [Keys -> Permission \cup {Unset}]]
  <2>1. access = [s \in Scopes |-> [k \in Keys |-> IF k = Admin THEN writes[s] ELSE Unset]]
    BY DEF CreateTeamSetup
  <2> QED
    BY <1>1, <2>1
<1>7. secrets \in [Scopes -> [Vars -> Variable]]
  BY DEF CreateTeamSetup, Variable
<1>8. published \in Seq(Snapshot)
  BY <1>4 DEF CreateTeamSetup
<1>9. /\ revision \in Nat \ {0}
      /\ scopes \in SUBSET Scopes
      /\ envelopes \in [Scopes -> SUBSET Keys]
      /\ configOps = [op \in OpIds |-> None]
      /\ envOps = [op \in OpIds |-> None]
  BY AdminAssumption DEF CreateTeamSetup
<1> QED
  BY <1>4, <1>5, <1>6, <1>7, <1>8, <1>9 DEF StoreTypeOK

\* The next revision.
LEMMA PublishType ==
    ASSUME revision \in Nat \ {0}, published \in Seq(Snapshot),
           NEW snap \in Snapshot, Publish(snap)
    PROVE  /\ revision' \in Nat \ {0}
           /\ snapshot' \in Snapshot
           /\ published' \in Seq(Snapshot)
BY DEF Publish

\* Envelopes are added for keys of people.
LEMMA AddEnvelopesType ==
    ASSUME envelopes \in [Scopes -> SUBSET Keys],
           NEW recipients, NEW known, AddEnvelopes(recipients, known)
    PROVE  envelopes' \in [Scopes -> SUBSET Keys]
BY DEF AddEnvelopes

\* A config push makes a member record of each.
LEMMA MemberAfterType ==
    ASSUME StoreTypeOK, NEW r \in ConfigRequest, NEW k \in Keys
    PROVE  MemberAfter(r, k) \in Member
<1> DEFINE listed  == IF r.target.members[k] # None
                      THEN ActiveAs(r.target.members[k]) ELSE members[k]
           decided == [s \in Scopes |->
                         IF s \in ScopesAfter(r) /\ r.approved[k][s] # Unset
                         THEN r.approved[k][s] ELSE listed.scopes[s]]
<1>1. listed \in Member
  <2>1. CASE r.target.members[k] # None
    <3>1. r.target.members[k] \in Grant
      BY <2>1 DEF ConfigRequest, Snapshot
    <3> QED
      BY <2>1, <3>1 DEF ActiveAs, Grant, Member, Status
  <2>2. CASE r.target.members[k] = None
    BY <2>2 DEF StoreTypeOK
  <2> QED
    BY <2>1, <2>2
<1>2. decided \in [Scopes -> Permission \cup {Unset}]
  <2>1. r.approved[k] \in [Scopes -> Permission \cup {Unset}]
    BY DEF ConfigRequest
  <2>2. listed.scopes \in [Scopes -> Permission \cup {Unset}]
    BY <1>1 DEF Member
  <2> QED
    BY <2>1, <2>2
<1>3. listed.status \in Status /\ listed.management \in BOOLEAN
      /\ listed.scopes \in [Scopes -> Permission \cup {Unset}]
  BY <1>1 DEF Member
<1>4. MemberAfter(r, k) =
        [status     |-> IF k \in r.declined /\ listed.status = "pending"
                        THEN "declined" ELSE listed.status,
         management |-> listed.management,
         scopes     |-> IF listed.status = "absent" THEN listed.scopes ELSE decided]
  BY DEF MemberAfter
<1> HIDE DEF listed, decided
<1> QED
  BY <1>2, <1>3, <1>4 DEF Member, Status

\* A config push that is accepted.
LEMMA PushConfigType ==
    ASSUME StoreTypeOK, NEW r \in ConfigRequest, NEW manages, PushConfig(r, manages)
    PROVE  StoreTypeOK'
<1>1. members' \in [Keys -> Member]
  BY MemberAfterType DEF PushConfig
<1>2. r.target \in Snapshot /\ r.op \in OpIds
      /\ r.approved \in [Keys -> [Scopes -> Permission \cup {Unset}]]
  BY DEF ConfigRequest
<1>3. scopes' \in SUBSET Scopes
  BY <1>2 DEF PushConfig, ScopesAfter, Snapshot, StoreTypeOK
<1>4. access' \in [Scopes -> [Keys -> Permission \cup {Unset}]]
  <2>1. ASSUME NEW s \in Scopes, NEW k \in Keys
        PROVE  AccessAfter(r, s, k) \in Permission \cup {Unset}
    <3>1. MemberAfter(r, k).scopes[s] \in Permission \cup {Unset}
      BY MemberAfterType DEF Member
    <3> QED
      BY <1>2, <3>1 DEF AccessAfter
  <2> QED
    BY <2>1 DEF PushConfig
<1>5. envelopes' \in [Scopes -> SUBSET Keys]
  BY AddEnvelopesType DEF PushConfig, StoreTypeOK
<1>6. revision' \in Nat \ {0} /\ snapshot' \in Snapshot /\ published' \in Seq(Snapshot)
  BY <1>2, PublishType DEF PushConfig, StoreTypeOK
<1>7. configOps' \in [OpIds -> ConfigResult \cup {None}]
  <2>1. [request |-> r, result |-> revision + 1] \in ConfigResult
    BY DEF StoreTypeOK, ConfigResult
  <2> QED
    BY <1>2, <2>1 DEF PushConfig, StoreTypeOK
<1> QED
  BY <1>1, <1>3, <1>4, <1>5, <1>6, <1>7 DEF PushConfig, StoreTypeOK

\* An env push that is accepted.
LEMMA EnvPushType ==
    ASSUME StoreTypeOK, NEW r \in EnvRequest, NEW manages, EnvPush(r, manages)
    PROVE  StoreTypeOK'
<1>1. r.op \in OpIds /\ r.scope \in Scopes /\ r.target \in Snapshot \cup {None}
  BY DEF EnvRequest
<1>2. secrets' \in [Scopes -> [Vars -> Variable]]
  <2>1. ASSUME NEW v \in Vars
        PROVE  VariableAfter(r, v) \in Variable
    <3>1. secrets[r.scope][v] \in Variable
      BY <1>1 DEF StoreTypeOK
    <3> DEFINE written == IF v \in r.upserts
                          THEN [versions |-> Append(secrets[r.scope][v].versions, r.op),
                                deleted  |-> FALSE]
                          ELSE secrets[r.scope][v]
    <3>2. Append(secrets[r.scope][v].versions, r.op) \in Seq(OpIds)
      BY <1>1, <3>1 DEF Variable
    <3>3. written \in Variable
      BY <3>1, <3>2 DEF Variable
    <3>4. VariableAfter(r, v) = IF v \in r.removals
                               THEN [written EXCEPT !.deleted = TRUE] ELSE written
      BY DEF VariableAfter
    <3>5. [written EXCEPT !.deleted = TRUE] \in Variable
      <4> HIDE DEF written
      <4> QED
        BY <3>3 DEF Variable
    <3> QED
      BY <3>3, <3>4, <3>5
  <2> QED
    BY <1>1, <2>1 DEF EnvPush, StoreTypeOK
<1>3. revision' \in Nat \ {0} /\ snapshot' \in Snapshot /\ published' \in Seq(Snapshot)
  <2>1. CASE r.target # None /\ Publish(r.target)
    BY <1>1, <2>1, PublishType DEF StoreTypeOK
  <2>2. CASE r.target = None /\ UNCHANGED <<revision, snapshot, published>>
    BY <2>2 DEF StoreTypeOK
  <2> QED
    BY <2>1, <2>2 DEF EnvPush
<1>4. envOps' \in [OpIds -> EnvResult \cup {None}]
  <2>1. [request |-> r, result |-> IF r.target = None THEN 0 ELSE revision + 1]
            \in EnvResult
    BY DEF StoreTypeOK, EnvResult
  <2> QED
    BY <1>1, <2>1 DEF EnvPush, StoreTypeOK
<1> QED
  BY <1>2, <1>3, <1>4 DEF EnvPush, StoreTypeOK

\* The ways in, and a request that is declined.
LEMMA CreateJoinRequestType ==
    ASSUME StoreTypeOK, NEW k \in Keys, NEW management \in BOOLEAN,
           CreateJoinRequest(k, management)
    PROVE  StoreTypeOK'
<1>1. [status |-> "pending", management |-> management, scopes |-> NoAccess] \in Member
  BY DEF Member, Status, NoAccess
<1>2. members' \in [Keys -> Member]
  BY <1>1 DEF CreateJoinRequest, StoreTypeOK
<1> QED
  BY <1>2 DEF CreateJoinRequest, StoreTypeOK

LEMMA AdmitType ==
    ASSUME StoreTypeOK, NEW k \in Keys, NEW g \in Grant, NEW recipients,
           Admit(k, g, recipients)
    PROVE  StoreTypeOK'
<1>1. members' \in [Keys -> Member]
  <2>1. ActiveAs(g) \in Member
    BY DEF ActiveAs, Grant, Member, Status
  <2> QED
    BY <2>1 DEF Admit, StoreTypeOK
<1>2. access' \in [Scopes -> [Keys -> Permission \cup {Unset}]]
  <2>1. ASSUME NEW s \in Scopes
        PROVE  [access[s] EXCEPT ![k] = g.scopes[s]] \in [Keys -> Permission \cup {Unset}]
    BY <2>1 DEF Grant, StoreTypeOK
  <2> QED
    BY <2>1 DEF Admit, StoreTypeOK
<1>3. envelopes' \in [Scopes -> SUBSET Keys]
  BY AddEnvelopesType DEF Admit, StoreTypeOK
<1>4. revision' \in Nat \ {0} /\ snapshot' \in Snapshot /\ published' \in Seq(Snapshot)
  BY WithMemberType, PublishType DEF Admit, StoreTypeOK
<1> QED
  BY <1>1, <1>2, <1>3, <1>4 DEF Admit, StoreTypeOK

LEMMA DeclineType ==
    ASSUME StoreTypeOK, NEW r, r.joiner \in Keys, NEW manages,
           DeclineJoinRequest(r, manages)
    PROVE  StoreTypeOK'
<1>1. members' \in [Keys -> Member]
  <2>1. members \in [Keys -> Member]
    BY DEF StoreTypeOK
  <2>2. [members[r.joiner] EXCEPT !.status = "declined"] \in Member
    <3>1. members[r.joiner] \in Member
      BY <2>1
    <3> QED
      BY <3>1 DEF Member, Status
  <2>3. members' = [members EXCEPT ![r.joiner] =
                      [members[r.joiner] EXCEPT !.status = "declined"]]
    BY DEF DeclineJoinRequest
  <2> QED
    BY <2>1, <2>2, <2>3
<1> QED
  BY <1>1 DEF DeclineJoinRequest, StoreTypeOK

-----------------------------------------------------------------------------
(* The edits of a snapshot are snapshots. *)

LEMMA CreateScopeType ==
    ASSUME NEW snap \in Snapshot, NEW s \in Scopes
    PROVE  CreateScope(snap, s) \in Snapshot
<1> DEFINE entry(k) == IF snap.members[k] # None /\ snap.members[k].management
                       THEN [snap.members[k] EXCEPT !.scopes[s] = "write"]
                       ELSE snap.members[k]
<1>1. ASSUME NEW k \in Keys
      PROVE  entry(k) \in Grant \cup {None}
  BY <1>1 DEF Snapshot, Grant, Permission
<1>2. [k \in Keys |-> entry(k)] \in [Keys -> Grant \cup {None}]
  BY <1>1
<1>3. snap.scopes \cup {s} \in SUBSET Scopes
  BY DEF Snapshot
<1> QED
  BY <1>2, <1>3 DEF CreateScope, Snapshot

LEMMA EditsType ==
    ASSUME NEW snap \in Snapshot
    PROVE  Edits(snap) \subseteq Snapshot
<1> SUFFICES ASSUME NEW e \in Edits(snap) PROVE e \in Snapshot
  OBVIOUS
<1>1. CASE e = snap
  BY <1>1
<1>2. CASE \E k \in Keys, g \in Grants : e = WithMember(snap, k, g)
  BY <1>2, WithMemberType, GrantsAssumption
<1>3. CASE \E k \in Keys : e = [snap EXCEPT !.members[k] = None]
  BY <1>3 DEF Snapshot
<1>4. CASE \E s \in Scopes \ snap.scopes : e = CreateScope(snap, s)
  BY <1>4, CreateScopeType
<1>5. CASE \E s \in Scopes : e = [snap EXCEPT !.scopes = @ \ {s}]
  BY <1>5 DEF Snapshot
<1> QED
  BY <1>1, <1>2, <1>3, <1>4, <1>5 DEF Edits

-----------------------------------------------------------------------------
(* The requests clients compose are requests. *)

LEMMA ConfigPushOfType ==
    ASSUME StoreTypeOK, NEW k \in Keys, NEW op \in OpIds, NEW target \in Snapshot,
           NEW approved \in [Keys -> [Scopes -> Permission \cup {Unset}]],
           NEW declined \in SUBSET Keys, NEW recipients \in Recipients
    PROVE  ConfigPushOf(k, op, target, approved, declined, recipients) \in ConfigRequest
<1>1. NewScopeRecipients(target) \in Recipients
  BY DEF NewScopeRecipients, Recipients, Listed, Snapshot
<1>2. recipients \cup NewScopeRecipients(target) \in Recipients
  BY <1>1 DEF Recipients
<1>3. revision \in Nat
  BY DEF StoreTypeOK
<1> QED
  BY <1>2, <1>3 DEF ConfigPushOf, ConfigRequest

LEMMA NoDecisionsType ==
    NoDecisions \in [Keys -> [Scopes -> Permission \cup {Unset}]]
BY DEF NoDecisions, NoAccess

\* What a client may have sent, and the store does not change by sending.
LEMMA ComposeSends ==
    ASSUME TypeOK, NEW k \in Keys, NEW op \in OpIds, Compose(k, op)
    PROVE  \E r \in Request : Send(r)
<1> USE DEF TypeOK
<1>1. CASE ComposeConfigPush(k, op)
  <2>1. PICK local \in Edits(snapshot) :
          \/ Send(ConfigPushOf(k, op, local, NoDecisions, {}, {}))
          \/ \E j \in Keys, g \in Grants :
                Send(ConfigPushOf(k, op, WithMember(local, j, g),
                       [NoDecisions EXCEPT ![j] = g.scopes], {}, JoinRecipients(g, j)))
          \/ \E j \in Keys :
                Send(ConfigPushOf(k, op, local, NoDecisions, {j}, {}))
    BY <1>1 DEF ComposeConfigPush
  <2>2. local \in Snapshot
    BY EditsType DEF StoreTypeOK
  <2>3. {} \in Recipients
    BY DEF Recipients
  <2>4. CASE Send(ConfigPushOf(k, op, local, NoDecisions, {}, {}))
    BY <2>2, <2>3, <2>4, ConfigPushOfType, NoDecisionsType DEF Request
  <2>5. CASE \E j \in Keys, g \in Grants :
               Send(ConfigPushOf(k, op, WithMember(local, j, g),
                      [NoDecisions EXCEPT ![j] = g.scopes], {}, JoinRecipients(g, j)))
    <3>1. PICK j \in Keys, g \in Grants :
               Send(ConfigPushOf(k, op, WithMember(local, j, g),
                      [NoDecisions EXCEPT ![j] = g.scopes], {}, JoinRecipients(g, j)))
      BY <2>5
    <3>2. g \in Grant
      BY GrantsAssumption
    <3>3. WithMember(local, j, g) \in Snapshot
      BY <2>2, <3>2, WithMemberType
    <3>4. [NoDecisions EXCEPT ![j] = g.scopes]
            \in [Keys -> [Scopes -> Permission \cup {Unset}]]
      BY <3>2, NoDecisionsType DEF Grant
    <3> QED
      BY <3>1, <3>3, <3>4, ConfigPushOfType, JoinRecipientsType DEF Request
  <2>6. CASE \E j \in Keys : Send(ConfigPushOf(k, op, local, NoDecisions, {j}, {}))
    BY <2>2, <2>3, <2>6, ConfigPushOfType, NoDecisionsType DEF Request
  <2> QED
    BY <2>1, <2>4, <2>5, <2>6
<1>2. ASSUME NEW s \in Scopes, ComposeEnvPush(k, op, s)
      PROVE  \E r \in Request : Send(r)
  <2>1. PICK target \in EnvSnapshots, changed \in SUBSET Vars, removed \in SUBSET Vars :
          Send([kind |-> "env", op |-> op, key |-> k, scope |-> s,
                expected |-> revision, target |-> target,
                upserts |-> changed, removals |-> removed,
                seen |-> [v \in Vars |-> Current(s, v)]])
    BY <1>2 DEF ComposeEnvPush
  <2>2. target \in Snapshot \cup {None}
    BY EditsType DEF EnvSnapshots, StoreTypeOK
  <2>3. [v \in Vars |-> Current(s, v)] \in [Vars -> Nat]
    BY CurrentType
  <2> QED
    BY <2>1, <2>2, <2>3 DEF Request, EnvRequest, StoreTypeOK
<1>3. ASSUME NEW j \in Keys, ComposeApprove(k, op, j)
      PROVE  \E r \in Request : Send(r)
  BY <1>3, JoinRecipientsType, GrantsAssumption DEF ComposeApprove, Request, ApproveRequest
<1>4. ASSUME NEW j \in Keys, ComposeDecline(k, op, j)
      PROVE  \E r \in Request : Send(r)
  BY <1>4 DEF ComposeDecline, Request, DeclineRequest
<1> QED
  BY <1>1, <1>2, <1>3, <1>4 DEF Compose

\* The kind of a request says which request it is.
LEMMA KindOfRequest ==
    ASSUME NEW r \in Request
    PROVE  /\ r.op \in OpIds /\ r.key \in Keys
           /\ r.kind = "config"  => r \in ConfigRequest
           /\ r.kind = "env"     => r \in EnvRequest
           /\ r.kind = "approve" => r \in ApproveRequest
           /\ r.kind = "decline" => r \in DeclineRequest
BY DEF Request, ConfigRequest, EnvRequest, ApproveRequest, DeclineRequest

\* What a handler works on, and that giving it back leaves types alone.
LEMMA WorkingOn ==
    ASSUME TypeOK, NEW h \in Handlers, NEW kind, Working(h, kind), Release(h)
    PROVE  /\ handler[h] \in Verified
           /\ handler[h].request \in Request
           /\ handler[h].request.kind = kind
           /\ sent' \in SUBSET Request
           /\ handler' \in [Handlers -> Verified \cup {Idle}]
BY DEF TypeOK, Working, Release, Verified, Idle

THEOREM TypeCorrect == Spec => []TypeOK
<1>1. Init => TypeOK
  <2> SUFFICES ASSUME Init PROVE TypeOK
    OBVIOUS
  <2>1. StoreTypeOK
    BY SetupType, InitialScopesAssumption DEF Init
  <2> QED
    BY <2>1 DEF Init, TypeOK
<1>2. TypeOK /\ [Next]_vars => TypeOK'
  <2> SUFFICES ASSUME TypeOK, [Next]_vars PROVE TypeOK'
    OBVIOUS
  <2>0. StoreTypeOK
    BY DEF TypeOK
  <2>1. ASSUME NEW k \in Keys, NEW op \in OpIds, Compose(k, op)
        PROVE  TypeOK'
    <3>1. PICK r \in Request : Send(r)
      BY <2>1, ComposeSends
    <3>2. StoreTypeOK'
      BY <2>0, <3>1, StoreUnchanged DEF Send
    <3> QED
      BY <3>1, <3>2 DEF Send, TypeOK
  <2>2. ASSUME NEW h \in Handlers, NEW r \in sent, Verify(h, r)
        PROVE  TypeOK'
    <3>1. StoreTypeOK'
      BY <2>0, <2>2, StoreUnchanged DEF Verify
    <3>2. r \in Request
      BY DEF TypeOK
    <3>3. members[r.key].management \in BOOLEAN
      BY <2>0, <3>2, KindOfRequest DEF StoreTypeOK, Member
    <3>4. [request |-> r, manages |-> members[r.key].management] \in Verified
      BY <3>2, <3>3 DEF Verified
    <3> QED
      BY <2>2, <3>1, <3>4 DEF Verify, TypeOK
  <2>3. ASSUME NEW h \in Handlers, HandleConfigPush(h)
        PROVE  TypeOK'
    <3> DEFINE r == handler[h].request
    <3>1. r \in ConfigRequest /\ r \in Request /\ r.op \in OpIds
      BY <2>3, WorkingOn, KindOfRequest DEF HandleConfigPush
    <3>2. sent' \in SUBSET Request /\ handler' \in [Handlers -> Verified \cup {Idle}]
      BY <2>3, WorkingOn DEF HandleConfigPush
    <3>3. CASE PushConfig(r, handler[h].manages) /\ Answer(r, revision + 1)
      <4>1. StoreTypeOK'
        BY <2>0, <3>1, <3>3, PushConfigType
      <4>2. answers' \in SUBSET [request : Request, result : Nat]
        BY <2>0, <3>1, <3>3 DEF Answer, TypeOK, StoreTypeOK
      <4> QED
        BY <3>2, <4>1, <4>2 DEF TypeOK
    <3>4. CASE /\ PushConfigRepeats(r, handler[h].manages)
               /\ Answer(r, configOps[r.op].result)
               /\ UNCHANGED store
      <4>1. configOps[r.op].result \in Nat
        BY <2>0, <3>1, <3>4 DEF StoreTypeOK, ConfigResult, PushConfigRepeats
      <4>2. answers' \in SUBSET [request : Request, result : Nat]
        BY <3>1, <3>4, <4>1 DEF Answer, TypeOK
      <4> QED
        BY <2>0, <3>2, <3>4, <4>2, StoreUnchanged DEF TypeOK
    <3>5. CASE UNCHANGED <<store, answers>>
      BY <2>0, <3>2, <3>5, StoreUnchanged DEF TypeOK
    <3> QED
      BY <2>3, <3>3, <3>4, <3>5 DEF HandleConfigPush
  <2>4. ASSUME NEW h \in Handlers, HandleEnvPush(h)
        PROVE  TypeOK'
    <3> DEFINE r == handler[h].request
    <3>1. r \in EnvRequest /\ r \in Request /\ r.op \in OpIds
      BY <2>4, WorkingOn, KindOfRequest DEF HandleEnvPush
    <3>2. sent' \in SUBSET Request /\ handler' \in [Handlers -> Verified \cup {Idle}]
      BY <2>4, WorkingOn DEF HandleEnvPush
    <3>3. CASE EnvPush(r, handler[h].manages) /\ Answer(r, envOps'[r.op].result)
      <4>1. StoreTypeOK'
        BY <2>0, <3>1, <3>3, EnvPushType
      <4>2. envOps'[r.op].result \in Nat
        <5>1. envOps'[r.op] = [request |-> r,
                               result |-> IF r.target = None THEN 0 ELSE revision + 1]
          BY <2>0, <3>1, <3>3 DEF EnvPush, StoreTypeOK
        <5> QED
          BY <2>0, <5>1 DEF StoreTypeOK
      <4>3. answers' \in SUBSET [request : Request, result : Nat]
        BY <3>1, <3>3, <4>2 DEF Answer, TypeOK
      <4> QED
        BY <3>2, <4>1, <4>3 DEF TypeOK
    <3>4. CASE /\ EnvPushRepeats(r, handler[h].manages)
               /\ Answer(r, envOps[r.op].result)
               /\ UNCHANGED store
      <4>1. envOps[r.op].result \in Nat
        BY <2>0, <3>1, <3>4 DEF StoreTypeOK, EnvResult, EnvPushRepeats
      <4>2. answers' \in SUBSET [request : Request, result : Nat]
        BY <3>1, <3>4, <4>1 DEF Answer, TypeOK
      <4> QED
        BY <2>0, <3>2, <3>4, <4>2, StoreUnchanged DEF TypeOK
    <3>5. CASE UNCHANGED <<store, answers>>
      BY <2>0, <3>2, <3>5, StoreUnchanged DEF TypeOK
    <3> QED
      BY <2>4, <3>3, <3>4, <3>5 DEF HandleEnvPush
  <2>5. ASSUME NEW h \in Handlers, HandleApprove(h)
        PROVE  TypeOK'
    <3> DEFINE r == handler[h].request
    <3>1. r \in ApproveRequest /\ r \in Request
      BY <2>5, WorkingOn, KindOfRequest DEF HandleApprove
    <3>2. sent' \in SUBSET Request /\ handler' \in [Handlers -> Verified \cup {Idle}]
      BY <2>5, WorkingOn DEF HandleApprove
    <3>3. CASE ApproveJoinRequest(r, handler[h].manages) /\ Answer(r, revision + 1)
      <4>1. StoreTypeOK'
        BY <2>0, <3>1, <3>3, AdmitType, GrantsAssumption DEF ApproveJoinRequest, ApproveRequest
      <4>2. answers' \in SUBSET [request : Request, result : Nat]
        BY <2>0, <3>1, <3>3 DEF Answer, TypeOK, StoreTypeOK
      <4> QED
        BY <3>2, <4>1, <4>2 DEF TypeOK
    <3>4. CASE UNCHANGED <<store, answers>>
      BY <2>0, <3>2, <3>4, StoreUnchanged DEF TypeOK
    <3> QED
      BY <2>5, <3>3, <3>4 DEF HandleApprove
  <2>6. ASSUME NEW h \in Handlers, HandleDecline(h)
        PROVE  TypeOK'
    <3> DEFINE r == handler[h].request
    <3>1. r.joiner \in Keys
      BY <2>6, WorkingOn, KindOfRequest DEF HandleDecline, DeclineRequest
    <3>2. sent' \in SUBSET Request /\ handler' \in [Handlers -> Verified \cup {Idle}]
      BY <2>6, WorkingOn DEF HandleDecline
    <3>3. StoreTypeOK'
      BY <2>0, <2>6, <3>1, DeclineType, StoreUnchanged DEF HandleDecline
    <3> QED
      BY <2>6, <3>2, <3>3 DEF HandleDecline, TypeOK
  <2>7. ASSUME NEW k \in Keys, HandleJoin(k)
        PROVE  TypeOK'
    BY <2>0, <2>7, CreateJoinRequestType DEF HandleJoin, TypeOK
  <2>8. ASSUME NEW k \in Keys, RedeemInvite(k)
        PROVE  TypeOK'
    <3>1. PICK g \in InviteGrants, bundle \in SUBSET Scopes :
            AdmitByInvite(k, g, bundle \X {k})
      BY <2>8 DEF RedeemInvite
    <3>2. StoreTypeOK'
      BY <2>0, <3>1, AdmitType, GrantsAssumption DEF AdmitByInvite
    <3> QED
      BY <2>8, <3>2 DEF RedeemInvite, TypeOK
  <2>9. CASE UNCHANGED vars
    <3>1. UNCHANGED store
      BY <2>9 DEF vars, store
    <3> QED
      BY <2>0, <2>9, <3>1, StoreUnchanged DEF vars, TypeOK
  <2> QED
    BY <2>1, <2>2, <2>3, <2>4, <2>5, <2>6, <2>7, <2>8, <2>9 DEF Next, Handle
<1> QED
  BY <1>1, <1>2, PTL DEF Spec

-----------------------------------------------------------------------------
(* How one step moves the revision, the handlers and the members.          *)

\* Every step publishes one more revision or leaves the three config
\* variables alone.
LEMMA RevisionStep ==
    ASSUME [Next]_vars
    PROVE  \/ \E snap : Publish(snap)
           \/ UNCHANGED <<revision, snapshot, published>>
<1>1. ASSUME NEW k \in Keys, NEW op \in OpIds, Compose(k, op)
      PROVE  UNCHANGED <<revision, snapshot, published>>
  BY <1>1 DEF Compose, ComposeConfigPush, ComposeEnvPush, ComposeApprove,
              ComposeDecline, Send, store
<1>2. ASSUME NEW h \in Handlers, NEW r \in sent, Verify(h, r)
      PROVE  UNCHANGED <<revision, snapshot, published>>
  BY <1>2 DEF Verify, store
<1>3. ASSUME NEW h \in Handlers, HandleConfigPush(h)
      PROVE  \/ \E snap : Publish(snap)
             \/ UNCHANGED <<revision, snapshot, published>>
  BY <1>3 DEF HandleConfigPush, PushConfig, store
<1>4. ASSUME NEW h \in Handlers, HandleEnvPush(h)
      PROVE  \/ \E snap : Publish(snap)
             \/ UNCHANGED <<revision, snapshot, published>>
  BY <1>4 DEF HandleEnvPush, EnvPush, store
<1>5. ASSUME NEW h \in Handlers, HandleApprove(h)
      PROVE  \/ \E snap : Publish(snap)
             \/ UNCHANGED <<revision, snapshot, published>>
  BY <1>5 DEF HandleApprove, ApproveJoinRequest, Admit, store
<1>6. ASSUME NEW h \in Handlers, HandleDecline(h)
      PROVE  UNCHANGED <<revision, snapshot, published>>
  BY <1>6 DEF HandleDecline, DeclineJoinRequest, store
<1>7. ASSUME NEW k \in Keys, HandleJoin(k)
      PROVE  UNCHANGED <<revision, snapshot, published>>
  BY <1>7 DEF HandleJoin, CreateJoinRequest
<1>8. ASSUME NEW k \in Keys, RedeemInvite(k)
      PROVE  \E snap : Publish(snap)
  BY <1>8 DEF RedeemInvite, AdmitByInvite, Admit
<1>9. CASE UNCHANGED vars
  BY <1>9 DEF vars
<1> QED
  BY <1>1, <1>2, <1>3, <1>4, <1>5, <1>6, <1>7, <1>8, <1>9 DEF Next, Handle

\* An active member stays active, and its management flag changes only in a
\* step that makes a new revision.
LEMMA MemberStep ==
    ASSUME TypeOK, [Next]_vars, NEW k \in Keys, Active(k)
    PROVE  /\ members'[k].status = "active"
           /\ revision' = revision => members'[k].management = members[k].management
<1> USE DEF Active
<1>0. members \in [Keys -> Member] /\ revision \in Nat \ {0}
  BY DEF TypeOK, StoreTypeOK
<1>1. CASE UNCHANGED members
  BY <1>1
<1>2. ASSUME NEW h \in Handlers, HandleConfigPush(h)
      PROVE  /\ members'[k].status = "active"
             /\ revision' = revision => members'[k].management = members[k].management
  <2>1. CASE UNCHANGED store
    BY <2>1 DEF store
  <2>2. CASE PushConfig(handler[h].request, handler[h].manages)
    <3> DEFINE r == handler[h].request
    <3>1. MemberAfter(r, k).status = "active"
      BY DEF MemberAfter, ActiveAs
    <3> QED
      BY <1>0, <2>2, <3>1 DEF PushConfig, Publish
  <2> QED
    BY <1>2, <2>1, <2>2 DEF HandleConfigPush, store
<1>3. ASSUME NEW j \in Keys, NEW g, NEW recipients, Admit(j, g, recipients)
      PROVE  /\ members'[k].status = "active"
             /\ revision' = revision => members'[k].management = members[k].management
  BY <1>0, <1>3 DEF Admit, Publish, ActiveAs
<1>4. ASSUME NEW h \in Handlers, HandleApprove(h)
      PROVE  \/ UNCHANGED members
             \/ \E j \in Keys : \E g, recipients : Admit(j, g, recipients)
  <2>1. handler[h].request \in ApproveRequest
    BY <1>4, WorkingOn, KindOfRequest DEF HandleApprove
  <2> QED
    BY <1>4, <2>1 DEF HandleApprove, ApproveJoinRequest, ApproveRequest, store
<1>5. ASSUME NEW h \in Handlers, HandleDecline(h)
      PROVE  members'[k].status = "active" /\ members'[k].management = members[k].management
  <2>1. handler[h].request.joiner \in Keys
    BY <1>5, WorkingOn, KindOfRequest DEF HandleDecline, DeclineRequest
  <2>2. CASE DeclineJoinRequest(handler[h].request, handler[h].manages)
    BY <1>0, <2>1, <2>2 DEF DeclineJoinRequest, MayDecide, Member
  <2> QED
    BY <1>5, <2>2 DEF HandleDecline, store
<1>6. ASSUME NEW j \in Keys, HandleJoin(j)
      PROVE  members'[k].status = "active" /\ members'[k].management = members[k].management
  BY <1>0, <1>6 DEF HandleJoin, CreateJoinRequest
<1>7. ASSUME NEW j \in Keys, RedeemInvite(j)
      PROVE  \E g, recipients : Admit(j, g, recipients)
  BY <1>7 DEF RedeemInvite, AdmitByInvite
<1>8. ASSUME NEW j \in Keys, NEW op \in OpIds, Compose(j, op)
      PROVE  UNCHANGED members
  BY <1>8 DEF Compose, ComposeConfigPush, ComposeEnvPush, ComposeApprove,
              ComposeDecline, Send, store
<1>9. ASSUME NEW h \in Handlers, NEW r \in sent, Verify(h, r)
      PROVE  UNCHANGED members
  BY <1>9 DEF Verify, store
<1>10. ASSUME NEW h \in Handlers, HandleEnvPush(h)
       PROVE  UNCHANGED members
  BY <1>10 DEF HandleEnvPush, EnvPush, store
<1>11. CASE UNCHANGED vars
  BY <1>1, <1>11 DEF vars
<1> QED
  BY <1>1, <1>2, <1>3, <1>4, <1>5, <1>6, <1>7, <1>8, <1>9, <1>10, <1>11
  DEF Next, Handle

\* A busy handler was busy with the same request or has just verified it.
LEMMA HandlerStep ==
    ASSUME TypeOK, [Next]_vars, NEW h \in Handlers, handler'[h] # Idle
    PROVE  \/ handler'[h] = handler[h]
           \/ \E r \in sent : Verify(h, r)
<1>0. handler \in [Handlers -> Verified \cup {Idle}]
  BY DEF TypeOK
<1>1. ASSUME NEW k \in Keys, NEW op \in OpIds, Compose(k, op)
      PROVE  UNCHANGED handler
  BY <1>1, ComposeSends DEF Send
<1>2. ASSUME NEW g \in Handlers, NEW r \in sent, Verify(g, r)
      PROVE  handler'[h] = handler[h] \/ Verify(h, r)
  BY <1>0, <1>2 DEF Verify
<1>3. ASSUME NEW g \in Handlers, Release(g)
      PROVE  handler'[h] = handler[h]
  BY <1>0, <1>3 DEF Release, Idle
<1>4. ASSUME NEW k \in Keys, HandleJoin(k) \/ RedeemInvite(k)
      PROVE  UNCHANGED handler
  BY <1>4 DEF HandleJoin, RedeemInvite
<1>5. CASE UNCHANGED vars
  BY <1>5 DEF vars
<1> QED
  BY <1>1, <1>2, <1>3, <1>4, <1>5
  DEF Next, Handle, HandleConfigPush, HandleEnvPush, HandleApprove, HandleDecline

\* Requests are only added, and the only ones added are sent by clients.
LEMMA SentStep ==
    ASSUME TypeOK, [Next]_vars
    PROVE  \/ UNCHANGED sent
           \/ \E k \in Keys, op \in OpIds : Compose(k, op)
BY DEF Next, Handle, Verify, HandleConfigPush, HandleEnvPush, HandleApprove,
       HandleDecline, HandleJoin, RedeemInvite, Release, vars

-----------------------------------------------------------------------------
(* The inductive invariant: a request expects the revision whose snapshot  *)
(* its target edits, and a handler that can still be accepted has a        *)
(* current record of its sender.                                           *)

\* A client builds on the snapshot that has the revision it expects.
LEMMA ComposeBuildsOnRevision ==
    ASSUME NEW k \in Keys, NEW op \in OpIds, Compose(k, op)
    PROVE  \E r : /\ Send(r)
                  /\ r.kind \in {"config", "env"} =>
                        /\ r.expected = revision
                        /\ r.target = None \/ r.target \in Targets(snapshot)
<1>1. CASE ComposeConfigPush(k, op)
  <2>1. ASSUME NEW target, NEW approved, NEW declined, NEW recipients
        PROVE  /\ ConfigPushOf(k, op, target, approved, declined, recipients).expected = revision
               /\ ConfigPushOf(k, op, target, approved, declined, recipients).target = target
    BY DEF ConfigPushOf
  <2>2. ASSUME NEW local \in Edits(snapshot), NEW j \in Keys, NEW g \in Grants
        PROVE  WithMember(local, j, g) \in Targets(snapshot)
    BY <2>2 DEF Targets, Admissions
  <2>3. Edits(snapshot) \subseteq Targets(snapshot)
    BY DEF Targets
  <2>4. \E target \in Targets(snapshot) : \E approved, declined, recipients :
          Send(ConfigPushOf(k, op, target, approved, declined, recipients))
    BY <1>1, <2>2, <2>3 DEF ComposeConfigPush
  <2> QED
    BY <2>1, <2>4
<1>2. ASSUME NEW s \in Scopes, ComposeEnvPush(k, op, s)
      PROVE  \E r : /\ Send(r)
                    /\ r.expected = revision
                    /\ r.target = None \/ r.target \in Targets(snapshot)
  <2>1. PICK target \in EnvSnapshots, changed \in SUBSET Vars : \E removed :
          Send([kind |-> "env", op |-> op, key |-> k, scope |-> s,
                expected |-> revision, target |-> target,
                upserts |-> changed, removals |-> removed,
                seen |-> [v \in Vars |-> Current(s, v)]])
    BY <1>2 DEF ComposeEnvPush
  <2>2. target = None \/ target \in Targets(snapshot)
    BY DEF EnvSnapshots, Targets, Edits
  <2> QED
    BY <2>1, <2>2
<1>3. ASSUME NEW j \in Keys, ComposeApprove(k, op, j)
      PROVE  \E r : Send(r) /\ r.kind = "approve"
  BY <1>3 DEF ComposeApprove
<1>4. ASSUME NEW j \in Keys, ComposeDecline(k, op, j)
      PROVE  \E r : Send(r) /\ r.kind = "decline"
  BY <1>4 DEF ComposeDecline
<1> QED
  BY <1>1, <1>2, <1>3, <1>4 DEF Compose

LEMMA RevisionNamesSnapshotStep ==
    ASSUME TypeOK, RevisionNamesSnapshot, [Next]_vars
    PROVE  RevisionNamesSnapshot'
<1>0. /\ revision \in Nat \ {0} /\ published \in Seq(Snapshot)
      /\ Len(published) = revision /\ published[revision] = snapshot
  BY DEF TypeOK, StoreTypeOK, RevisionNamesSnapshot
<1>1. /\ Len(published') = revision'
      /\ published'[revision'] = snapshot'
      /\ \A n \in 1 .. revision : n \in 1 .. revision' /\ published'[n] = published[n]
  BY <1>0, RevisionStep DEF Publish
<1>2. ASSUME NEW r \in sent', r.kind \in {"config", "env"}
      PROVE  /\ r.expected \in 1 .. revision'
             /\ r.target = None \/ r.target \in Targets(published'[r.expected])
  <2>1. CASE r \in sent
    BY <1>1, <1>2, <2>1 DEF RevisionNamesSnapshot
  <2>2. CASE r \notin sent
    <3>1. PICK k \in Keys, op \in OpIds : Compose(k, op)
      BY <2>2, SentStep
    <3>2. UNCHANGED <<revision, snapshot, published>> /\ r.expected = revision
          /\ (r.target = None \/ r.target \in Targets(snapshot))
      BY <1>2, <2>2, <3>1, ComposeBuildsOnRevision DEF Send, store
    <3> QED
      BY <1>0, <3>2
  <2> QED
    BY <2>1, <2>2
<1> QED
  BY <1>1, <1>2 DEF RevisionNamesSnapshot

LEMMA VerifiedIsCurrentStep ==
    ASSUME TypeOK, RevisionNamesSnapshot, VerifiedIsCurrent, [Next]_vars
    PROVE  VerifiedIsCurrent'
<1>0. sent \subseteq sent'
  BY SentStep, ComposeSends DEF Send
\* A handler that goes on with the request it had.
<1>1. ASSUME NEW h \in Handlers, handler[h] # Idle, NEW r, r = handler[h].request
      PROVE  /\ r \in sent'
             /\ members'[r.key].status = "active"
             /\ r.kind \in {"config", "env"} /\ r.expected = revision'
                  => handler[h].manages = members'[r.key].management
  <2>1. /\ r \in sent /\ Active(r.key)
        /\ r.kind \in {"config", "env"} /\ r.expected = revision
             => handler[h].manages = members[r.key].management
    BY <1>1 DEF VerifiedIsCurrent
  <2>2. r.key \in Keys
    BY <2>1, KindOfRequest DEF TypeOK
  <2>3. /\ members'[r.key].status = "active"
        /\ revision' = revision => members'[r.key].management = members[r.key].management
    BY <2>1, <2>2, MemberStep
  <2>4. CASE revision' = revision
    BY <1>0, <2>1, <2>3, <2>4
  <2>5. CASE revision' # revision
    <3>1. revision' = revision + 1
      BY <2>5, RevisionStep DEF Publish
    <3>2. r.kind \in {"config", "env"} => r.expected \in 1 .. revision
      BY <2>1 DEF RevisionNamesSnapshot
    <3>3. revision \in Nat
      BY DEF TypeOK, StoreTypeOK
    <3>4. ~(r.kind \in {"config", "env"} /\ r.expected = revision')
      BY <3>1, <3>2, <3>3
    <3> QED
      BY <1>0, <2>1, <2>3, <3>4
  <2> QED
    BY <2>4, <2>5
\* A handler that verifies a request reads the member record in that step.
<1>2. ASSUME NEW h \in Handlers, NEW r \in sent, Verify(h, r)
      PROVE  /\ handler'[h].request = r
             /\ r \in sent'
             /\ members'[r.key].status = "active"
             /\ handler'[h].manages = members'[r.key].management
  BY <1>2 DEF Verify, Active, store, TypeOK
<1>3. ASSUME NEW h \in Handlers, handler'[h] # Idle
      PROVE  \E r : /\ r = handler'[h].request
                    /\ r \in sent'
                    /\ members'[r.key].status = "active"
                    /\ r.kind \in {"config", "env"} /\ r.expected = revision'
                         => handler'[h].manages = members'[r.key].management
  <2>1. CASE handler'[h] = handler[h]
    BY <1>1, <1>3, <2>1
  <2>2. CASE \E r \in sent : Verify(h, r)
    BY <1>2, <2>2
  <2> QED
    BY <1>3, <2>1, <2>2, HandlerStep
<1> QED
  BY <1>3, Zenon DEF VerifiedIsCurrent, Active, Idle

IInv == TypeOK /\ RevisionNamesSnapshot /\ VerifiedIsCurrent

THEOREM Invariance == Spec => []IInv
<1>1. Init => RevisionNamesSnapshot /\ VerifiedIsCurrent
  BY DEF Init, CreateTeamSetup, RevisionNamesSnapshot, VerifiedIsCurrent
<1>2. TypeOK /\ RevisionNamesSnapshot /\ VerifiedIsCurrent /\ [Next]_vars
        => RevisionNamesSnapshot' /\ VerifiedIsCurrent'
  BY RevisionNamesSnapshotStep, VerifiedIsCurrentStep
<1> QED
  BY <1>1, <1>2, TypeCorrect, PTL DEF Spec, IInv

\* The revision a request expects always names the config it edits.
THEOREM RevisionNames == Spec => []RevisionNamesSnapshot
BY Invariance, PTL DEF IInv

\* No acceptable request is judged by an outdated member record.
THEOREM VerifiedStaysCurrent == Spec => []VerifiedIsCurrent
BY Invariance, PTL DEF IInv

-----------------------------------------------------------------------------
(* Pushes take effect under the authority of their step, and make a log.   *)

\* The only steps that record a config push, or an env push, are those in
\* which the store accepts it.
LEMMA RecordingStep ==
    ASSUME [Next]_vars
    PROVE  /\ \/ \E h \in Handlers :
                    /\ Working(h, "config")
                    /\ PushConfig(handler[h].request, handler[h].manages)
              \/ UNCHANGED configOps
           /\ \/ \E h \in Handlers :
                    /\ Working(h, "env")
                    /\ EnvPush(handler[h].request, handler[h].manages)
              \/ UNCHANGED envOps
<1>1. ASSUME NEW k \in Keys, NEW op \in OpIds, Compose(k, op)
      PROVE  UNCHANGED <<configOps, envOps>>
  BY <1>1 DEF Compose, ComposeConfigPush, ComposeEnvPush, ComposeApprove,
              ComposeDecline, Send, store
<1>2. ASSUME NEW h \in Handlers, NEW r \in sent, Verify(h, r)
      PROVE  UNCHANGED <<configOps, envOps>>
  BY <1>2 DEF Verify, store
<1>3. ASSUME NEW h \in Handlers, HandleConfigPush(h)
      PROVE  /\ \/ /\ Working(h, "config")
                   /\ PushConfig(handler[h].request, handler[h].manages)
                \/ UNCHANGED configOps
             /\ UNCHANGED envOps
  BY <1>3 DEF HandleConfigPush, PushConfig, store
<1>4. ASSUME NEW h \in Handlers, HandleEnvPush(h)
      PROVE  /\ \/ /\ Working(h, "env")
                   /\ EnvPush(handler[h].request, handler[h].manages)
                \/ UNCHANGED envOps
             /\ UNCHANGED configOps
  BY <1>4 DEF HandleEnvPush, EnvPush, store
<1>5. ASSUME NEW h \in Handlers, HandleApprove(h)
      PROVE  UNCHANGED <<configOps, envOps>>
  BY <1>5 DEF HandleApprove, ApproveJoinRequest, Admit, store
<1>6. ASSUME NEW h \in Handlers, HandleDecline(h)
      PROVE  UNCHANGED <<configOps, envOps>>
  BY <1>6 DEF HandleDecline, DeclineJoinRequest, store
<1>7. ASSUME NEW k \in Keys, HandleJoin(k) \/ RedeemInvite(k)
      PROVE  UNCHANGED <<configOps, envOps>>
  BY <1>7 DEF HandleJoin, CreateJoinRequest, RedeemInvite, AdmitByInvite, Admit
<1>8. CASE UNCHANGED vars
  BY <1>8 DEF vars
<1> QED
  BY <1>1, <1>2, <1>3, <1>4, <1>5, <1>6, <1>7, <1>8 DEF Next, Handle

\* What a handler works on when the store can still accept it: a sent request
\* that edits the current config, verified with the current record.
LEMMA AcceptableRequest ==
    ASSUME IInv, NEW h \in Handlers, NEW r, r = handler[h].request,
           Working(h, "config") \/ Working(h, "env"), r.expected = revision
    PROVE  /\ r \in Request
           /\ handler[h].manages = members[r.key].management
           /\ r.target = None \/ r.target \in Targets(snapshot)
<1>1. handler[h] # Idle /\ r.kind \in {"config", "env"}
  BY DEF Working
<1>2. r \in sent /\ handler[h].manages = members[r.key].management
  BY <1>1 DEF IInv, VerifiedIsCurrent
<1> QED
  BY <1>1, <1>2 DEF IInv, TypeOK, RevisionNamesSnapshot

LEMMA AuthorityStep ==
    ASSUME IInv, [Next]_vars
    PROVE  PushedWithAuthority
<1>1. ASSUME NEW op \in OpIds, configOps[op] = None, configOps'[op] # None
      PROVE  /\ Active(configOps'[op].request.key)
             /\ members[configOps'[op].request.key].management
  <2>1. PICK h \in Handlers : /\ Working(h, "config")
                              /\ PushConfig(handler[h].request, handler[h].manages)
    BY <1>1, RecordingStep
  <2>2. PICK r : r = handler[h].request
    OBVIOUS
  <2>3. configOps'[op].request = r
    BY <1>1, <2>1, <2>2 DEF PushConfig, IInv, TypeOK, StoreTypeOK
  <2>4. Active(r.key) /\ handler[h].manages /\ r.expected = revision
    BY <2>1, <2>2 DEF PushConfig, PushConfigAccepts, MayPushConfig
  <2>5. handler[h].manages = members[r.key].management
    BY <2>1, <2>2, <2>4, AcceptableRequest
  <2> QED
    BY <2>3, <2>4, <2>5
<1>2. ASSUME NEW op \in OpIds, envOps[op] = None, envOps'[op] # None,
             NEW r, r = envOps'[op].request
      PROVE  Allowed(r.key, members[r.key].management, r.scope, "write")
  <2>1. PICK h \in Handlers : /\ Working(h, "env")
                              /\ EnvPush(handler[h].request, handler[h].manages)
    BY <1>2, RecordingStep
  <2>2. r = handler[h].request
    BY <1>2, <2>1 DEF EnvPush, IInv, TypeOK, StoreTypeOK
  <2>3. Allowed(r.key, handler[h].manages, r.scope, "write") /\ r.expected = revision
    BY <2>1, <2>2 DEF EnvPush, EnvPushAccepts, MayPushEnv
  <2>4. handler[h].manages = members[r.key].management
    BY <2>1, <2>2, <2>3, AcceptableRequest
  <2> QED
    BY <2>3, <2>4
<1> QED
  BY <1>1, <1>2 DEF PushedWithAuthority

\* No push ever takes effect without its sender's authority at that step,
\* although PushConfig and EnvPush judge by a record read earlier.
THEOREM Authority == Spec => AcceptedByCurrentAuthority
BY Invariance, AuthorityStep, PTL DEF Spec, AcceptedByCurrentAuthority

-----------------------------------------------------------------------------
(* What clients were told is what the tables of operations say.            *)

\* A recorded operation stays as it was recorded.
LEMMA RecordsStay ==
    ASSUME TypeOK, [Next]_vars, NEW op \in OpIds
    PROVE  /\ configOps[op] # None => configOps'[op] = configOps[op]
           /\ envOps[op] # None => envOps'[op] = envOps[op]
<1>1. configOps[op] # None => configOps'[op] = configOps[op]
  BY RecordingStep DEF TypeOK, StoreTypeOK, PushConfig, PushConfigAccepts
<1>2. envOps[op] # None => envOps'[op] = envOps[op]
  BY RecordingStep DEF TypeOK, StoreTypeOK, EnvPush, EnvPushAccepts
<1> QED
  BY <1>1, <1>2

AnswersRecorded ==
    \A a \in answers :
        /\ a.request.kind = "config" => configOps[a.request.op] = a
        /\ a.request.kind = "env" => envOps[a.request.op] = a

\* A new answer is the record of its operation.
LEMMA AnswerIsRecord ==
    ASSUME TypeOK, [Next]_vars, NEW a \in answers' \ answers
    PROVE  /\ a.request.kind = "config" => configOps'[a.request.op] = a
           /\ a.request.kind = "env" => envOps'[a.request.op] = a
<1>1. ASSUME NEW h \in Handlers, HandleConfigPush(h)
      PROVE  a.request.kind = "config" /\ configOps'[a.request.op] = a
  <2> DEFINE r == handler[h].request
  <2>1. r \in ConfigRequest /\ r.op \in OpIds /\ r.kind = "config"
    BY <1>1, WorkingOn, KindOfRequest DEF HandleConfigPush
  <2>2. CASE PushConfig(r, handler[h].manages) /\ Answer(r, revision + 1)
    BY <2>1, <2>2 DEF PushConfig, Answer, TypeOK, StoreTypeOK
  <2>3. CASE /\ PushConfigRepeats(r, handler[h].manages)
             /\ Answer(r, configOps[r.op].result)
             /\ UNCHANGED store
    <3>1. configOps[r.op] \in ConfigResult /\ configOps[r.op].request = r
      BY <2>1, <2>3 DEF PushConfigRepeats, TypeOK, StoreTypeOK
    <3>2. a = [request |-> r, result |-> configOps[r.op].result]
      BY <2>3 DEF Answer
    <3>3. a = configOps[r.op]
      BY <3>1, <3>2 DEF ConfigResult
    <3> QED
      BY <2>1, <2>3, <3>1, <3>3 DEF store
  <2> QED
    BY <1>1, <2>2, <2>3 DEF HandleConfigPush
<1>2. ASSUME NEW h \in Handlers, HandleEnvPush(h)
      PROVE  a.request.kind = "env" /\ envOps'[a.request.op] = a
  <2> DEFINE r == handler[h].request
  <2>1. r \in EnvRequest /\ r.op \in OpIds /\ r.kind = "env"
    BY <1>2, WorkingOn, KindOfRequest DEF HandleEnvPush
  <2>2. CASE EnvPush(r, handler[h].manages) /\ Answer(r, envOps'[r.op].result)
    BY <2>1, <2>2 DEF EnvPush, Answer, TypeOK, StoreTypeOK
  <2>3. CASE /\ EnvPushRepeats(r, handler[h].manages)
             /\ Answer(r, envOps[r.op].result)
             /\ UNCHANGED store
    <3>1. envOps[r.op] \in EnvResult /\ envOps[r.op].request = r
      BY <2>1, <2>3 DEF EnvPushRepeats, TypeOK, StoreTypeOK
    <3>2. a = [request |-> r, result |-> envOps[r.op].result]
      BY <2>3 DEF Answer
    <3>3. a = envOps[r.op]
      BY <3>1, <3>2 DEF EnvResult
    <3> QED
      BY <2>1, <2>3, <3>1, <3>3 DEF store
  <2> QED
    BY <1>2, <2>2, <2>3 DEF HandleEnvPush
<1>3. ASSUME NEW h \in Handlers, HandleApprove(h)
      PROVE  a.request.kind = "approve"
  BY <1>3 DEF HandleApprove, Working, Answer
<1>4. ASSUME NEW k \in Keys, NEW op \in OpIds, Compose(k, op)
      PROVE  FALSE
  BY <1>4 DEF Compose, ComposeConfigPush, ComposeEnvPush, ComposeApprove,
              ComposeDecline, Send
<1>5. ASSUME NEW h \in Handlers, \/ \E r \in sent : Verify(h, r)
                                 \/ HandleDecline(h)
      PROVE  FALSE
  BY <1>5 DEF Verify, HandleDecline
<1>6. ASSUME NEW k \in Keys, HandleJoin(k) \/ RedeemInvite(k)
      PROVE  FALSE
  BY <1>6 DEF HandleJoin, RedeemInvite
<1>7. ~UNCHANGED vars
  BY DEF vars
<1> QED
  BY <1>1, <1>2, <1>3, <1>4, <1>5, <1>6, <1>7 DEF Next, Handle

LEMMA AnswersRecordedStep ==
    ASSUME TypeOK, AnswersRecorded, [Next]_vars
    PROVE  AnswersRecorded'
<1>1. ASSUME NEW a \in answers
      PROVE  /\ a.request.kind = "config" => configOps'[a.request.op] = a
             /\ a.request.kind = "env" => envOps'[a.request.op] = a
  <2>1. a \in [request : Request, result : Nat] /\ a.request.op \in OpIds
    BY KindOfRequest DEF TypeOK
  <2>2. ASSUME a.request.kind = "config" PROVE a # None
    <3>1. a \in ConfigResult
      BY <2>1, <2>2, KindOfRequest DEF ConfigResult
    <3> QED
      BY <3>1, NoneAssumption
  <2>3. ASSUME a.request.kind = "env" PROVE a # None
    <3>1. a \in EnvResult
      BY <2>1, <2>3, KindOfRequest DEF EnvResult
    <3> QED
      BY <3>1, NoneAssumption
  <2> QED
    BY <2>1, <2>2, <2>3, RecordsStay DEF AnswersRecorded
<1> QED
  BY <1>1, AnswerIsRecord DEF AnswersRecorded

\* A client is told the same whenever it repeats a push, and no other push is
\* answered under its operation id: what is told is what was recorded first.
THEOREM AnswersAgree == Spec => []OneAnswerPerOperation
<1>1. Init => AnswersRecorded
  BY DEF Init, AnswersRecorded
<1>2. TypeOK /\ AnswersRecorded /\ [Next]_vars => AnswersRecorded'
  BY AnswersRecordedStep
<1>3. AnswersRecorded => OneAnswerPerOperation
  <2> SUFFICES ASSUME AnswersRecorded, NEW a \in answers, NEW b \in answers,
                      a.request.kind = b.request.kind,
                      a.request.kind \in {"config", "env"},
                      a.request.op = b.request.op
               PROVE  a = b
    BY DEF OneAnswerPerOperation
  <2> QED
    BY DEF AnswersRecorded
<1> QED
  BY <1>1, <1>2, <1>3, TypeCorrect, PTL DEF Spec

-----------------------------------------------------------------------------
(* What is stored is what was pushed, once, by those who had seen it.      *)

\* The versions that operation op wrote of a variable, and whether it is
\* recorded as one that writes it.
Wrote(op, s, v) ==
    {n \in DOMAIN secrets[s][v].versions : secrets[s][v].versions[n] = op}
Writes(op, s, v) ==
    /\ envOps[op] # None
    /\ envOps[op].request.scope = s
    /\ v \in envOps[op].request.upserts

WrittenOnce ==
    \A op \in OpIds, s \in Scopes, v \in Vars :
        /\ Writes(op, s, v) => \E n : Wrote(op, s, v) = {n}
        /\ ~Writes(op, s, v) => Wrote(op, s, v) = {}

\* The only steps that store values are env pushes that are accepted.
LEMMA WritingStep ==
    ASSUME [Next]_vars
    PROVE  \/ \E h \in Handlers :
                /\ Working(h, "env")
                /\ EnvPush(handler[h].request, handler[h].manages)
                /\ UNCHANGED sent
           \/ UNCHANGED <<secrets, envOps>>
<1>1. ASSUME NEW k \in Keys, NEW op \in OpIds, Compose(k, op)
      PROVE  UNCHANGED <<secrets, envOps>>
  BY <1>1 DEF Compose, ComposeConfigPush, ComposeEnvPush, ComposeApprove,
              ComposeDecline, Send, store
<1>2. ASSUME NEW h \in Handlers, NEW r \in sent, Verify(h, r)
      PROVE  UNCHANGED <<secrets, envOps>>
  BY <1>2 DEF Verify, store
<1>3. ASSUME NEW h \in Handlers, HandleConfigPush(h)
      PROVE  UNCHANGED <<secrets, envOps>>
  BY <1>3 DEF HandleConfigPush, PushConfig, store
<1>4. ASSUME NEW h \in Handlers, HandleEnvPush(h)
      PROVE  \/ /\ Working(h, "env")
                /\ EnvPush(handler[h].request, handler[h].manages)
                /\ UNCHANGED sent
             \/ UNCHANGED <<secrets, envOps>>
  BY <1>4 DEF HandleEnvPush, Release, store
<1>5. ASSUME NEW h \in Handlers, HandleApprove(h)
      PROVE  UNCHANGED <<secrets, envOps>>
  BY <1>5 DEF HandleApprove, ApproveJoinRequest, Admit, store
<1>6. ASSUME NEW h \in Handlers, HandleDecline(h)
      PROVE  UNCHANGED <<secrets, envOps>>
  BY <1>6 DEF HandleDecline, DeclineJoinRequest, store
<1>7. ASSUME NEW k \in Keys, HandleJoin(k) \/ RedeemInvite(k)
      PROVE  UNCHANGED <<secrets, envOps>>
  BY <1>7 DEF HandleJoin, CreateJoinRequest, RedeemInvite, AdmitByInvite, Admit
<1>8. CASE UNCHANGED vars
  BY <1>8 DEF vars
<1> QED
  BY <1>1, <1>2, <1>3, <1>4, <1>5, <1>6, <1>7, <1>8 DEF Next, Handle

\* What an accepted env push does to a variable and to the records.
LEMMA EnvPushWrites ==
    ASSUME TypeOK, NEW r \in EnvRequest, NEW manages, EnvPush(r, manages),
           NEW s \in Scopes, NEW v \in Vars
    PROVE  /\ secrets[s][v].versions \in Seq(OpIds)
           /\ secrets'[s][v].versions =
                IF s = r.scope /\ v \in r.upserts
                THEN Append(secrets[s][v].versions, r.op)
                ELSE secrets[s][v].versions
           /\ ~(s = r.scope /\ v \in r.upserts) /\ secrets[s][v].deleted =>
                secrets'[s][v].deleted
           /\ envOps[r.op] = None
           /\ envOps'[r.op] # None /\ envOps'[r.op].request = r
           /\ \A op \in OpIds \ {r.op} : envOps'[op] = envOps[op]
<1>1. r.op \in OpIds /\ r.scope \in Scopes
  BY DEF EnvRequest
<1>2. secrets[s][v] \in Variable /\ secrets[r.scope][v] \in Variable
  BY <1>1 DEF TypeOK, StoreTypeOK
<1>3. secrets' = [secrets EXCEPT ![r.scope] = [w \in Vars |-> VariableAfter(r, w)]]
  BY DEF EnvPush
<1>4. secrets'[s][v] = IF s = r.scope THEN VariableAfter(r, v) ELSE secrets[s][v]
  BY <1>1, <1>3 DEF TypeOK, StoreTypeOK
<1>5. /\ VariableAfter(r, v).versions =
           IF v \in r.upserts THEN Append(secrets[r.scope][v].versions, r.op)
           ELSE secrets[r.scope][v].versions
      /\ v \notin r.upserts /\ secrets[r.scope][v].deleted => VariableAfter(r, v).deleted
  BY <1>2 DEF VariableAfter, Variable
<1>6. envOps[r.op] = None
  BY DEF EnvPush, EnvPushAccepts
<1>7. envOps' = [envOps EXCEPT ![r.op] =
                  [request |-> r, result |-> IF r.target = None THEN 0 ELSE revision + 1]]
  BY DEF EnvPush
<1>8. [request |-> r, result |-> IF r.target = None THEN 0 ELSE revision + 1] \in EnvResult
  BY DEF TypeOK, StoreTypeOK, EnvResult
<1>9. envOps'[r.op] # None /\ envOps'[r.op].request = r
  BY <1>1, <1>7, <1>8, NoneAssumption DEF TypeOK, StoreTypeOK
<1>10. \A op \in OpIds \ {r.op} : envOps'[op] = envOps[op]
  BY <1>7 DEF TypeOK, StoreTypeOK
<1>11. secrets[s][v].versions \in Seq(OpIds)
  BY <1>2 DEF Variable
<1>12. /\ secrets'[s][v].versions =
            IF s = r.scope /\ v \in r.upserts
            THEN Append(secrets[s][v].versions, r.op)
            ELSE secrets[s][v].versions
       /\ ~(s = r.scope /\ v \in r.upserts) /\ secrets[s][v].deleted =>
            secrets'[s][v].deleted
  BY <1>4, <1>5
<1> QED
  BY <1>6, <1>9, <1>10, <1>11, <1>12

\* Appending one operation adds one place to it and none to the others.
LEMMA AppendPlaces ==
    ASSUME NEW seq \in Seq(OpIds), NEW new \in OpIds, NEW op \in OpIds
    PROVE  {n \in DOMAIN Append(seq, new) : Append(seq, new)[n] = op} =
             IF op = new THEN {n \in DOMAIN seq : seq[n] = op} \cup {Len(seq) + 1}
             ELSE {n \in DOMAIN seq : seq[n] = op}
<1>1. DOMAIN seq = 1 .. Len(seq) /\ Len(seq) \in Nat
  OBVIOUS
<1>2. DOMAIN Append(seq, new) = 1 .. Len(seq) + 1
  OBVIOUS
<1>3. \A n \in 1 .. Len(seq) : Append(seq, new)[n] = seq[n]
  OBVIOUS
<1>4. Append(seq, new)[Len(seq) + 1] = new
  OBVIOUS
<1>5. 1 .. Len(seq) + 1 = 1 .. Len(seq) \cup {Len(seq) + 1}
  BY <1>1
<1> QED
  BY <1>1, <1>2, <1>3, <1>4, <1>5

LEMMA WrittenOnceStep ==
    ASSUME TypeOK, WrittenOnce, [Next]_vars
    PROVE  WrittenOnce'
<1>1. CASE UNCHANGED <<secrets, envOps>>
  <2>1. \A op \in OpIds, s \in Scopes, v \in Vars :
            Writes(op, s, v)' = Writes(op, s, v) /\ Wrote(op, s, v)' = Wrote(op, s, v)
    BY <1>1 DEF Wrote, Writes
  <2> QED
    BY <2>1 DEF WrittenOnce
<1>2. ASSUME NEW r \in EnvRequest, NEW manages, EnvPush(r, manages)
      PROVE  WrittenOnce'
  <2> SUFFICES ASSUME NEW op \in OpIds, NEW s \in Scopes, NEW v \in Vars
               PROVE  /\ Writes(op, s, v)' => \E n : Wrote(op, s, v)' = {n}
                      /\ ~Writes(op, s, v)' => Wrote(op, s, v)' = {}
    BY DEF WrittenOnce
  <2>1. r.op \in OpIds
    BY DEF EnvRequest
  <2>2. Writes(op, s, v)' <=> IF op = r.op THEN s = r.scope /\ v \in r.upserts
                             ELSE Writes(op, s, v)
    BY <1>2, EnvPushWrites DEF Writes
  <2>3. op = r.op => ~Writes(op, s, v)
    BY <1>2, EnvPushWrites DEF Writes
  <2>4. /\ Writes(op, s, v) => \E n : Wrote(op, s, v) = {n}
        /\ ~Writes(op, s, v) => Wrote(op, s, v) = {}
    BY DEF WrittenOnce
  <2>5. CASE s = r.scope /\ v \in r.upserts
    <3>1. Wrote(op, s, v)' = IF op = r.op THEN Wrote(op, s, v) \cup
                                                 {Len(secrets[s][v].versions) + 1}
                             ELSE Wrote(op, s, v)
      <4> DEFINE seq == secrets[s][v].versions
      <4>1. seq \in Seq(OpIds) /\ secrets'[s][v].versions = Append(seq, r.op)
        BY <1>2, <2>5, EnvPushWrites
      <4>2. Wrote(op, s, v)' = {n \in DOMAIN Append(seq, r.op) : Append(seq, r.op)[n] = op}
        BY <4>1 DEF Wrote
      <4>3. Wrote(op, s, v) = {n \in DOMAIN seq : seq[n] = op}
        BY DEF Wrote
      <4> HIDE DEF seq
      <4>4. Wrote(op, s, v)' = IF op = r.op THEN Wrote(op, s, v) \cup {Len(seq) + 1}
                               ELSE Wrote(op, s, v)
        BY <2>1, <4>1, <4>2, <4>3, AppendPlaces
      <4> QED
        BY <4>4 DEF seq
    <3> QED
      BY <2>2, <2>3, <2>4, <2>5, <3>1
  <2>6. CASE ~(s = r.scope /\ v \in r.upserts)
    <3>1. Wrote(op, s, v)' = Wrote(op, s, v)
      BY <1>2, <2>6, EnvPushWrites DEF Wrote
    <3> QED
      BY <2>2, <2>3, <2>4, <2>6, <3>1
  <2> QED
    BY <2>5, <2>6
<1>3. ASSUME NEW h \in Handlers, Working(h, "env") PROVE handler[h].request \in EnvRequest
  BY <1>3, KindOfRequest DEF Working, TypeOK, Verified, Idle
<1> QED
  BY <1>1, <1>2, <1>3, WritingStep

LEMMA WrittenOnceInitially ==
    ASSUME Init
    PROVE  WrittenOnce
<1>1. ASSUME NEW op \in OpIds, NEW s \in Scopes, NEW v \in Vars
      PROVE  ~Writes(op, s, v) /\ Wrote(op, s, v) = {}
  <2>1. secrets[s][v].versions = <<>> /\ envOps[op] = None
    BY DEF Init, CreateTeamSetup
  <2> QED
    BY <2>1 DEF Writes, Wrote
<1> QED
  BY <1>1 DEF WrittenOnce

THEOREM WrittenOnceHolds == Spec => []WrittenOnce
<1>1. TypeOK /\ WrittenOnce /\ [Next]_vars => WrittenOnce'
  BY WrittenOnceStep
<1> QED
  BY <1>1, WrittenOnceInitially, TypeCorrect, PTL DEF Spec

\* A value that was pushed is there once, however often its push was
\* delivered, and no operation wrote a value it did not name.
THEOREM ValuesStoredOnce == Spec => []EnvPushStoredOnce
<1>1. WrittenOnce => EnvPushStoredOnce
  <2> SUFFICES ASSUME WrittenOnce, NEW op \in OpIds, NEW s \in Scopes, NEW v \in Vars
               PROVE  Cardinality(Wrote(op, s, v)) = IF Writes(op, s, v) THEN 1 ELSE 0
    BY DEF EnvPushStoredOnce, Wrote, Writes
  <2>1. CASE Writes(op, s, v)
    <3>1. PICK n : Wrote(op, s, v) = {n}
      BY <2>1 DEF WrittenOnce
    <3>2. Cardinality({n}) = 1
      BY FS_Singleton
    <3> QED
      BY <2>1, <3>1, <3>2
  <2>2. CASE ~Writes(op, s, v)
    <3>1. Wrote(op, s, v) = {}
      BY <2>2 DEF WrittenOnce
    <3>2. Cardinality({}) = 0
      BY FS_EmptySet
    <3> QED
      BY <2>2, <3>1, <3>2
  <2> QED
    BY <2>1, <2>2
<1> QED
  BY <1>1, WrittenOnceHolds, PTL

\* The env push that wrote the last version of a variable, and that a variable
\* is not there or was last written by a push that published nothing.
Writer(s, v) == envOps[secrets[s][v].versions[Len(secrets[s][v].versions)]].request
NewOrUnpublished(s, v) == Current(s, v) = 0 \/ Writer(s, v).target = None

\* While a push can be accepted, this holds of what it takes for new.
NewIsNew ==
    \A r \in sent :
        r.kind = "env" /\ r.expected = revision =>
            \A v \in r.upserts \cup r.removals :
                r.seen[v] = 0 => NewOrUnpublished(r.scope, v)

\* Within one revision it stays so.
LEMMA NewStaysNew ==
    ASSUME TypeOK, WrittenOnce, [Next]_vars, revision' = revision,
           NEW s \in Scopes, NEW v \in Vars, NewOrUnpublished(s, v)
    PROVE  NewOrUnpublished(s, v)'
<1>1. CASE UNCHANGED <<secrets, envOps>>
  BY <1>1 DEF NewOrUnpublished, Current, Writer
<1>2. ASSUME NEW r \in EnvRequest, NEW manages, EnvPush(r, manages)
      PROVE  NewOrUnpublished(s, v)'
  <2> DEFINE seq == secrets[s][v].versions
             seqAfter == secrets'[s][v].versions
  <2>1. seq \in Seq(OpIds) /\ r.op \in OpIds
    BY <1>2, EnvPushWrites DEF EnvRequest
  <2>2. CASE s = r.scope /\ v \in r.upserts
    <3>1. r.target = None
      BY <1>2 DEF EnvPush, Publish, TypeOK, StoreTypeOK
    <3>2. seqAfter = Append(seq, r.op)
      BY <1>2, <2>2, EnvPushWrites
    <3>3. seqAfter[Len(seqAfter)] = r.op
      <4> HIDE DEF seq, seqAfter
      <4> QED
        BY <2>1, <3>2
    <3>4. Writer(s, v)' = r
      BY <1>2, <3>3, EnvPushWrites DEF Writer
    <3> QED
      BY <3>1, <3>4 DEF NewOrUnpublished
  <2>3. CASE ~(s = r.scope /\ v \in r.upserts)
    <3>1. seqAfter = seq /\ (secrets[s][v].deleted => secrets'[s][v].deleted)
      BY <1>2, <2>3, EnvPushWrites
    <3>2. CASE Current(s, v) = 0
      <4>1. Current(s, v)' = 0
        BY <3>1, <3>2 DEF Current
      <4> QED
        BY <4>1 DEF NewOrUnpublished
    <3>3. CASE Current(s, v) # 0
      <4> DEFINE n  == Len(seq)
                 op == seq[n]
      <4>1. n \in DOMAIN seq /\ op \in OpIds
        <5>1. n # 0
          BY <3>3 DEF Current
        <5> HIDE DEF seq
        <5> QED
          BY <2>1, <5>1
      <4>2. n \in Wrote(op, s, v)
        BY <4>1 DEF Wrote
      <4>3. Writes(op, s, v)
        BY <4>1, <4>2 DEF WrittenOnce
      <4>4. op # r.op
        BY <1>2, <4>3, EnvPushWrites DEF Writes
      <4>5. envOps'[op] = envOps[op]
        BY <1>2, <4>1, <4>4, EnvPushWrites
      <4>6. Writer(s, v)' = Writer(s, v)
        BY <3>1, <4>5 DEF Writer
      <4> QED
        BY <3>3, <4>6 DEF NewOrUnpublished
    <3> QED
      BY <3>2, <3>3
  <2> QED
    BY <2>2, <2>3
<1>3. ASSUME NEW h \in Handlers, Working(h, "env") PROVE handler[h].request \in EnvRequest
  BY <1>3, KindOfRequest DEF Working, TypeOK, Verified, Idle
<1> QED
  BY <1>1, <1>2, <1>3, WritingStep

\* An env push is sent with the versions its sender was given.
LEMMA ComposeSeen ==
    ASSUME NEW k \in Keys, NEW op \in OpIds, Compose(k, op)
    PROVE  \E r : /\ Send(r)
                  /\ r.kind = "env" => \A v \in Vars : r.seen[v] = Current(r.scope, v)
<1>1. CASE ComposeConfigPush(k, op)
  <2>1. \E target, approved, declined, recipients :
          Send(ConfigPushOf(k, op, target, approved, declined, recipients))
    BY <1>1 DEF ComposeConfigPush
  <2>2. ASSUME NEW target, NEW approved, NEW declined, NEW recipients
        PROVE  ConfigPushOf(k, op, target, approved, declined, recipients).kind = "config"
    BY DEF ConfigPushOf
  <2> QED
    BY <2>1, <2>2
<1>2. ASSUME NEW s \in Scopes, ComposeEnvPush(k, op, s)
      PROVE  \E r : Send(r) /\ \A v \in Vars : r.seen[v] = Current(r.scope, v)
  <2>1. PICK target, changed, removed :
          Send([kind |-> "env", op |-> op, key |-> k, scope |-> s,
                expected |-> revision, target |-> target,
                upserts |-> changed, removals |-> removed,
                seen |-> [v \in Vars |-> Current(s, v)]])
    BY <1>2 DEF ComposeEnvPush
  <2> QED
    BY <2>1
<1>3. ASSUME NEW j \in Keys, ComposeApprove(k, op, j)
      PROVE  \E r : Send(r) /\ r.kind = "approve"
  BY <1>3 DEF ComposeApprove
<1>4. ASSUME NEW j \in Keys, ComposeDecline(k, op, j)
      PROVE  \E r : Send(r) /\ r.kind = "decline"
  BY <1>4 DEF ComposeDecline
<1> QED
  BY <1>1, <1>2, <1>3, <1>4 DEF Compose

LEMMA NewIsNewStep ==
    ASSUME TypeOK, RevisionNamesSnapshot, WrittenOnce, NewIsNew, [Next]_vars
    PROVE  NewIsNew'
<1>1. ASSUME NEW r \in sent, r.kind = "env", r.expected = revision',
             NEW v \in r.upserts \cup r.removals, r.seen[v] = 0
      PROVE  NewOrUnpublished(r.scope, v)'
  <2>1. r.scope \in Scopes /\ v \in Vars
    BY <1>1, KindOfRequest DEF TypeOK, EnvRequest
  <2>2. revision' = revision
    <3>1. r.expected \in 1 .. revision /\ revision \in Nat
      BY <1>1 DEF RevisionNamesSnapshot, TypeOK, StoreTypeOK
    <3>2. revision' \in {revision, revision + 1}
      BY RevisionStep DEF Publish
    <3> QED
      BY <1>1, <3>1, <3>2
  <2>3. NewOrUnpublished(r.scope, v)
    BY <1>1, <2>2 DEF NewIsNew
  <2> QED
    BY <2>1, <2>2, <2>3, NewStaysNew
<1>2. ASSUME NEW r \in sent' \ sent, r.kind = "env",
             NEW v \in r.upserts \cup r.removals, r.seen[v] = 0
      PROVE  NewOrUnpublished(r.scope, v)'
  <2>1. PICK k \in Keys, op \in OpIds : Compose(k, op)
    BY <1>2, SentStep
  <2>2. UNCHANGED store /\ r \in Request
    BY <1>2, <2>1, ComposeSends DEF Send
  <2>3. r.scope \in Scopes /\ v \in Vars
    BY <1>2, <2>2, KindOfRequest DEF EnvRequest
  <2>4. r.seen[v] = Current(r.scope, v)
    BY <1>2, <2>1, <2>3, ComposeSeen DEF Send
  <2>5. Current(r.scope, v)' = Current(r.scope, v)
    BY <2>2 DEF Current, store
  <2> QED
    BY <1>2, <2>4, <2>5 DEF NewOrUnpublished
<1> QED
  BY <1>1, <1>2 DEF NewIsNew

LEMMA SeenStep ==
    ASSUME IInv, NewIsNew, [Next]_vars, NEW op \in OpIds,
           envOps[op] = None, envOps'[op] # None,
           NEW r, r = envOps'[op].request, NEW v \in r.upserts \cup r.removals
    PROVE  \/ r.seen[v] = Current(r.scope, v)
           \/ r.seen[v] = 0 /\ Writer(r.scope, v).target = None
<1>1. PICK h \in Handlers : /\ Working(h, "env")
                            /\ EnvPush(handler[h].request, handler[h].manages)
  BY RecordingStep
<1>2. r = handler[h].request
  BY <1>1 DEF EnvPush, IInv, TypeOK, StoreTypeOK
<1>3. r \in sent /\ r.kind = "env"
  BY <1>1, <1>2 DEF Working, IInv, VerifiedIsCurrent
<1>4. r.expected = revision /\ NoConflict(r)
  BY <1>1, <1>2 DEF EnvPush, EnvPushAccepts
<1>5. r.seen[v] = 0 \/ r.seen[v] = Current(r.scope, v)
  BY <1>4 DEF NoConflict
<1>6. r.seen[v] = 0 => NewOrUnpublished(r.scope, v)
  BY <1>3, <1>4 DEF NewIsNew
<1> QED
  BY <1>5, <1>6 DEF NewOrUnpublished

\* Nobody replaces or removes a value they have not seen, whatever was pushed
\* between their reading and the step that applies their push; a value that
\* appeared meanwhile was made by a push that published no revision.
THEOREM NothingUnseenReplaced == Spec => NoBlindOverwrite
<1>1. Init => NewIsNew
  BY DEF Init, NewIsNew
<1>2. IInv /\ WrittenOnce /\ NewIsNew /\ [Next]_vars => NewIsNew'
  BY NewIsNewStep DEF IInv
<1>3. IInv /\ NewIsNew /\ [Next]_vars =>
        \A op \in OpIds :
          envOps[op] = None /\ envOps'[op] # None =>
            LET r == envOps'[op].request
                versions(v) == secrets[r.scope][v].versions
                writer(v) == envOps[versions(v)[Len(versions(v))]].request
            IN  \A v \in r.upserts \cup r.removals :
                    \/ r.seen[v] = Current(r.scope, v)
                    \/ r.seen[v] = 0 /\ writer(v).target = None
  BY SeenStep DEF Writer
<1> QED
  BY <1>1, <1>2, <1>3, Invariance, WrittenOnceHolds, PTL DEF Spec, NoBlindOverwrite

-----------------------------------------------------------------------------
(* The team's revisions implement the log of ConfigRevisions.              *)

\* A revision is published by an accepted push or by the server's admission.
LEMMA PublishingStep ==
    ASSUME TypeOK, [Next]_vars
    PROVE  \/ \E h \in Handlers :
                /\ Working(h, "config")
                /\ PushConfig(handler[h].request, handler[h].manages)
           \/ \E h \in Handlers :
                /\ Working(h, "env")
                /\ EnvPush(handler[h].request, handler[h].manages)
           \/ /\ \E new \in Admissions(snapshot) : Publish(new)
              /\ UNCHANGED <<configOps, envOps>>
           \/ UNCHANGED <<published, configOps, envOps>>
<1>1. ASSUME NEW k \in Keys, NEW op \in OpIds, Compose(k, op)
      PROVE  UNCHANGED <<published, configOps, envOps>>
  BY <1>1 DEF Compose, ComposeConfigPush, ComposeEnvPush, ComposeApprove,
              ComposeDecline, Send, store
<1>2. ASSUME NEW h \in Handlers, NEW r \in sent, Verify(h, r)
      PROVE  UNCHANGED <<published, configOps, envOps>>
  BY <1>2 DEF Verify, store
<1>3. ASSUME NEW h \in Handlers, HandleConfigPush(h)
      PROVE  \/ /\ Working(h, "config")
                /\ PushConfig(handler[h].request, handler[h].manages)
             \/ UNCHANGED <<published, configOps, envOps>>
  BY <1>3 DEF HandleConfigPush, store
<1>4. ASSUME NEW h \in Handlers, HandleEnvPush(h)
      PROVE  \/ /\ Working(h, "env")
                /\ EnvPush(handler[h].request, handler[h].manages)
             \/ UNCHANGED <<published, configOps, envOps>>
  BY <1>4 DEF HandleEnvPush, store
<1>5. ASSUME NEW k \in Keys, NEW g \in Grants \cup InviteGrants, NEW recipients,
             Admit(k, g, recipients)
      PROVE  /\ \E new \in Admissions(snapshot) : Publish(new)
             /\ UNCHANGED <<configOps, envOps>>
  <2>1. WithMember(snapshot, k, g) \in Admissions(snapshot)
    BY DEF Admissions
  <2> QED
    BY <1>5, <2>1 DEF Admit
<1>6. ASSUME NEW h \in Handlers, HandleApprove(h)
      PROVE  \/ \E k \in Keys, g \in Grants : \E recipients : Admit(k, g, recipients)
             \/ UNCHANGED <<published, configOps, envOps>>
  <2>1. handler[h].request \in ApproveRequest
    BY <1>6, WorkingOn, KindOfRequest DEF HandleApprove
  <2> QED
    BY <1>6, <2>1 DEF HandleApprove, ApproveJoinRequest, ApproveRequest, store
<1>7. ASSUME NEW h \in Handlers, HandleDecline(h)
      PROVE  UNCHANGED <<published, configOps, envOps>>
  BY <1>7 DEF HandleDecline, DeclineJoinRequest, store
<1>8. ASSUME NEW k \in Keys, HandleJoin(k)
      PROVE  UNCHANGED <<published, configOps, envOps>>
  BY <1>8 DEF HandleJoin, CreateJoinRequest
<1>9. ASSUME NEW k \in Keys, RedeemInvite(k)
      PROVE  \E g \in InviteGrants : \E recipients : Admit(k, g, recipients)
  BY <1>9 DEF RedeemInvite, AdmitByInvite
<1>10. CASE UNCHANGED vars
  BY <1>10 DEF vars
<1> QED
  BY <1>1, <1>2, <1>3, <1>4, <1>5, <1>6, <1>7, <1>8, <1>9, <1>10
  DEF Next, Handle

LEMMA LogStep ==
    ASSUME IInv, [Next]_vars
    PROVE  [Log!Next]_<<published, Applied>>
<1>0. /\ published \in Seq(Snapshot) /\ Log!Current = snapshot
      /\ configOps \in [OpIds -> ConfigResult \cup {None}]
      /\ envOps \in [OpIds -> EnvResult \cup {None}]
  BY DEF IInv, TypeOK, StoreTypeOK, RevisionNamesSnapshot, Log!Current
<1>1. ASSUME NEW h \in Handlers, Working(h, "config"),
             PushConfig(handler[h].request, handler[h].manages)
      PROVE  \E op \in {"config", "env"} \X OpIds : Log!Push(op)
  <2>1. PICK r : r = handler[h].request
    OBVIOUS
  <2>2. /\ r \in ConfigRequest /\ r.target \in Targets(snapshot)
    <3>1. r.expected = revision
      BY <1>1, <2>1 DEF PushConfig, PushConfigAccepts
    <3>2. /\ r \in Request /\ r.kind = "config"
          /\ r.target = None \/ r.target \in Targets(snapshot)
      BY <1>1, <2>1, <3>1, AcceptableRequest DEF Working
    <3>3. r \in ConfigRequest
      BY <3>2, KindOfRequest
    <3> QED
      BY <3>2, <3>3, NoneAssumption DEF ConfigRequest
  <2>3. r.op \in OpIds /\ configOps[r.op] = None
    BY <1>1, <2>1, <2>2 DEF PushConfig, PushConfigAccepts, ConfigRequest
  <2>4. Applied' = Applied \cup {<<"config", r.op>>}
    <3>1. [request |-> r, result |-> revision + 1] # None
      BY <2>2, NoneAssumption DEF ConfigResult, IInv, TypeOK, StoreTypeOK
    <3>2. configOps' = [configOps EXCEPT ![r.op] =
                          [request |-> r, result |-> revision + 1]]
          /\ UNCHANGED envOps
      BY <1>1, <2>1 DEF PushConfig
    <3>3. {o \in OpIds : configOps'[o] # None} = {o \in OpIds : configOps[o] # None} \cup {r.op}
      BY <1>0, <2>3, <3>1, <3>2
    <3> QED
      BY <3>2, <3>3 DEF Applied
  <2>5. <<"config", r.op>> \notin Applied
    BY <2>3 DEF Applied
  <2>6. published' = Append(published, r.target)
    BY <1>1, <2>1 DEF PushConfig, Publish
  <2>7. Log!Push(<<"config", r.op>>)
    BY <1>0, <2>2, <2>4, <2>5, <2>6 DEF Log!Push
  <2> QED
    BY <2>3, <2>7
<1>2. ASSUME NEW h \in Handlers, Working(h, "env"),
             EnvPush(handler[h].request, handler[h].manages)
      PROVE  \E op \in {"config", "env"} \X OpIds : Log!Push(op) \/ Log!Commit(op)
  <2>1. PICK r : r = handler[h].request
    OBVIOUS
  <2>2. /\ r \in EnvRequest
        /\ r.target = None \/ r.target \in Targets(snapshot)
    <3>1. r.expected = revision
      BY <1>2, <2>1 DEF EnvPush, EnvPushAccepts
    <3>2. /\ r \in Request /\ r.kind = "env"
          /\ r.target = None \/ r.target \in Targets(snapshot)
      BY <1>2, <2>1, <3>1, AcceptableRequest DEF Working
    <3> QED
      BY <3>2, KindOfRequest
  <2>3. r.op \in OpIds /\ envOps[r.op] = None
    BY <1>2, <2>1, <2>2 DEF EnvPush, EnvPushAccepts, EnvRequest
  <2>4. Applied' = Applied \cup {<<"env", r.op>>}
    <3> DEFINE entry == [request |-> r,
                         result |-> IF r.target = None THEN 0 ELSE revision + 1]
    <3>1. entry # None
      BY <2>2, NoneAssumption DEF EnvResult, IInv, TypeOK, StoreTypeOK
    <3>2. envOps' = [envOps EXCEPT ![r.op] = entry] /\ UNCHANGED configOps
      BY <1>2, <2>1 DEF EnvPush
    <3>3. {o \in OpIds : envOps'[o] # None} = {o \in OpIds : envOps[o] # None} \cup {r.op}
      BY <1>0, <2>3, <3>1, <3>2
    <3> QED
      BY <3>2, <3>3 DEF Applied
  <2>5. <<"env", r.op>> \notin Applied
    BY <2>3 DEF Applied
  <2>6. CASE r.target # None /\ Publish(r.target)
    <3>1. Log!Push(<<"env", r.op>>)
      BY <1>0, <2>2, <2>4, <2>5, <2>6 DEF Log!Push, Publish
    <3> QED
      BY <2>3, <3>1
  <2>7. CASE UNCHANGED <<revision, snapshot, published>>
    <3>1. Log!Commit(<<"env", r.op>>)
      BY <2>4, <2>5, <2>7 DEF Log!Commit
    <3> QED
      BY <2>3, <3>1
  <2> QED
    BY <1>2, <2>1, <2>6, <2>7 DEF EnvPush
<1>3. ASSUME NEW new \in Admissions(snapshot), Publish(new),
             UNCHANGED <<configOps, envOps>>
      PROVE  Log!Admit
  BY <1>0, <1>3 DEF Log!Admit, Publish, Applied
<1>4. CASE UNCHANGED <<published, configOps, envOps>>
  BY <1>4 DEF Applied
<1> QED
  BY <1>1, <1>2, <1>3, <1>4, PublishingStep DEF Log!Next, IInv

\* Every revision is one edit of the revision right before it, nobody's push
\* is lost or applied twice: PushConfig, EnvPush, ApproveJoinRequest and
\* SubmitInvitePIN implement the log of ConfigRevisions.
THEOREM RefinesRevisionLog == Spec => ImplementsRevisionLog
<1>1. Init => Log!Init
  BY DEF Init, CreateTeamSetup, Log!Init, Applied
<1>2. IInv /\ [Next]_vars => [Log!Next]_<<published, Applied>>
  BY LogStep
<1> QED
  BY <1>1, <1>2, Invariance, PTL DEF Spec, ImplementsRevisionLog, Log!Spec
-----------------------------------------------------------------------------
(* What is published is what is enforced, and has keys, but for what env   *)
(* pushes published and the store derived nothing from, and for scopes the *)
(* CLI's count misses.                                                     *)

\* What a step does to the store, and with which arguments.
LEMMA StoreStep ==
    ASSUME IInv, [Next]_vars
    PROVE  \/ \E r \in sent, manages \in BOOLEAN :
                r \in ConfigRequest /\ PushConfig(r, manages)
           \/ \E r \in sent, manages \in BOOLEAN : r \in EnvRequest /\ EnvPush(r, manages)
           \/ \E k \in Keys, g \in Grant : \E recipients : Admit(k, g, recipients)
           \/ \E r \in DeclineRequest, manages \in BOOLEAN : DeclineJoinRequest(r, manages)
           \/ \E k \in Keys, management \in BOOLEAN : CreateJoinRequest(k, management)
           \/ UNCHANGED store
<1>1. ASSUME NEW k \in Keys, NEW op \in OpIds, Compose(k, op)
      PROVE  UNCHANGED store
  BY <1>1, ComposeSends DEF Send, IInv
<1>2. ASSUME NEW h \in Handlers, NEW kind, Working(h, kind)
      PROVE  /\ handler[h].request \in sent /\ handler[h].request \in Request
             /\ handler[h].request.kind = kind /\ handler[h].manages \in BOOLEAN
  BY <1>2 DEF Working, IInv, TypeOK, VerifiedIsCurrent, Verified, Idle
<1>3. ASSUME NEW h \in Handlers, HandleConfigPush(h)
      PROVE  \/ \E r \in sent, manages \in BOOLEAN :
                  r \in ConfigRequest /\ PushConfig(r, manages)
             \/ UNCHANGED store
  BY <1>2, <1>3, KindOfRequest DEF HandleConfigPush
<1>4. ASSUME NEW h \in Handlers, HandleEnvPush(h)
      PROVE  \/ \E r \in sent, manages \in BOOLEAN : r \in EnvRequest /\ EnvPush(r, manages)
             \/ UNCHANGED store
  BY <1>2, <1>4, KindOfRequest DEF HandleEnvPush
<1>5. ASSUME NEW h \in Handlers, HandleApprove(h)
      PROVE  \/ \E k \in Keys, g \in Grant : \E recipients : Admit(k, g, recipients)
             \/ UNCHANGED store
  <2>1. handler[h].request \in ApproveRequest
    BY <1>2, <1>5, KindOfRequest DEF HandleApprove
  <2> QED
    BY <1>5, <2>1, GrantsAssumption DEF HandleApprove, ApproveJoinRequest, ApproveRequest
<1>6. ASSUME NEW h \in Handlers, HandleDecline(h)
      PROVE  \/ \E r \in DeclineRequest, manages \in BOOLEAN : DeclineJoinRequest(r, manages)
             \/ UNCHANGED store
  BY <1>2, <1>6, KindOfRequest DEF HandleDecline
<1>7. ASSUME NEW k \in Keys, RedeemInvite(k)
      PROVE  \E g \in Grant : \E recipients : Admit(k, g, recipients)
  BY <1>7, GrantsAssumption DEF RedeemInvite, AdmitByInvite
<1>8. CASE UNCHANGED vars
  BY <1>8 DEF vars, store
<1> QED
  BY <1>1, <1>3, <1>4, <1>5, <1>6, <1>7, <1>8 DEF Next, Handle, HandleJoin, Verify

\* A push of config approves for those it lists what it lists for them.
SentAsListed ==
    \A r \in sent :
        r.kind = "config" =>
            \A k \in Listed(r.target), s \in Scopes :
                r.approved[k][s] # Unset => r.approved[k][s] = r.target.members[k].scopes[s]

\* What is published stays.
LEMMA PublishedStays ==
    ASSUME TypeOK, RevisionNamesSnapshot, [Next]_vars
    PROVE  \A n \in 1 .. revision : published'[n] = published[n]
<1>1. /\ revision \in Nat /\ Len(published) = revision /\ published \in Seq(Snapshot)
      /\ snapshot \in Snapshot
  BY DEF RevisionNamesSnapshot, TypeOK, StoreTypeOK
<1>2. (\E snap : Publish(snap)) \/ UNCHANGED <<revision, snapshot, published>>
  BY RevisionStep
<1> QED
  BY <1>1, <1>2 DEF Publish

LEMMA SentAsListedStep ==
    ASSUME TypeOK, SentAsListed, [Next]_vars
    PROVE  SentAsListed'
<1> DEFINE AsListed(r) ==
             r.kind = "config" =>
                 \A k \in Listed(r.target), s \in Scopes :
                     r.approved[k][s] # Unset =>
                         r.approved[k][s] = r.target.members[k].scopes[s]
<1>1. ASSUME NEW k \in Keys, NEW op \in OpIds, ComposeConfigPush(k, op)
      PROVE  \E r : Send(r) /\ AsListed(r)
  <2>1. PICK local \in Edits(snapshot) :
          \/ Send(ConfigPushOf(k, op, local, NoDecisions, {}, {}))
          \/ \E j \in Keys, g \in Grants :
                Send(ConfigPushOf(k, op, WithMember(local, j, g),
                       [NoDecisions EXCEPT ![j] = g.scopes], {}, JoinRecipients(g, j)))
          \/ \E j \in Keys : Send(ConfigPushOf(k, op, local, NoDecisions, {j}, {}))
    BY <1>1 DEF ComposeConfigPush
  <2>2. local \in Snapshot
    BY EditsType DEF TypeOK, StoreTypeOK
  <2>3. ASSUME NEW declined PROVE AsListed(ConfigPushOf(k, op, local, NoDecisions, declined, {}))
    BY DEF ConfigPushOf, NoDecisions, NoAccess, Listed
  <2>4. ASSUME NEW j \in Keys, NEW g \in Grants
        PROVE  AsListed(ConfigPushOf(k, op, WithMember(local, j, g),
                          [NoDecisions EXCEPT ![j] = g.scopes], {}, JoinRecipients(g, j)))
    <3> DEFINE r == ConfigPushOf(k, op, WithMember(local, j, g),
                      [NoDecisions EXCEPT ![j] = g.scopes], {}, JoinRecipients(g, j))
    <3>1. /\ r.kind = "config" /\ r.target = WithMember(local, j, g)
          /\ r.approved = [NoDecisions EXCEPT ![j] = g.scopes]
      BY DEF ConfigPushOf
    <3>2. r.target.members[j] = g /\ r.approved[j] = g.scopes
      BY <2>2, <3>1 DEF WithMember, Snapshot, NoDecisions
    <3>3. ASSUME NEW i \in Keys, i # j, NEW s \in Scopes
          PROVE  r.approved[i][s] = Unset
      BY <3>1, <3>3 DEF NoDecisions, NoAccess
    <3> QED
      BY <3>1, <3>2, <3>3 DEF Listed
  <2> HIDE DEF AsListed
  <2> QED
    BY <2>1, <2>3, <2>4
<1>2. ASSUME NEW k \in Keys, NEW op \in OpIds, NEW s \in Scopes, ComposeEnvPush(k, op, s)
      PROVE  \E r : Send(r) /\ AsListed(r)
  <2>1. PICK r : Send(r) /\ r.kind = "env"
    BY <1>2 DEF ComposeEnvPush
  <2>2. AsListed(r)
    BY <2>1
  <2> QED
    BY <2>1, <2>2
<1>3. ASSUME NEW k \in Keys, NEW op \in OpIds, NEW j \in Keys,
             ComposeApprove(k, op, j) \/ ComposeDecline(k, op, j)
      PROVE  \E r : Send(r) /\ AsListed(r)
  <2>1. CASE ComposeApprove(k, op, j)
    <3>1. PICK r : Send(r) /\ r.kind = "approve"
      BY <2>1 DEF ComposeApprove
    <3>2. AsListed(r)
      BY <3>1
    <3> QED
      BY <3>1, <3>2
  <2>2. CASE ComposeDecline(k, op, j)
    <3>1. PICK r : Send(r) /\ r.kind = "decline"
      BY <2>2 DEF ComposeDecline
    <3>2. AsListed(r)
      BY <3>1
    <3> QED
      BY <3>1, <3>2
  <2> QED
    BY <1>3, <2>1, <2>2
<1>4. ASSUME NEW r \in sent' \ sent
      PROVE  AsListed(r)
  <2>1. PICK k \in Keys, op \in OpIds : Compose(k, op)
    BY <1>4, SentStep
  <2> HIDE DEF AsListed
  <2>2. \E q : Send(q) /\ AsListed(q)
    BY <1>1, <1>2, <1>3, <2>1 DEF Compose
  <2> QED
    BY <1>4, <2>2 DEF Send
<1> QED
  BY <1>4 DEF SentAsListed, Listed

\* After an accepted config push everybody it lists has what it lists.
LEMMA ListedAfterPush ==
    ASSUME StoreTypeOK, NEW r \in ConfigRequest, NEW manages, PushConfig(r, manages),
           NEW k \in Listed(r.target),
           \A s \in Scopes :
                r.approved[k][s] # Unset => r.approved[k][s] = r.target.members[k].scopes[s]
    PROVE  /\ members'[k].status = "active"
           /\ members'[k].management = r.target.members[k].management
           /\ \A s \in scopes' : access'[s][k] = r.target.members[k].scopes[s]
<1> DEFINE entry == r.target.members[k]
<1>1. k \in Keys /\ entry # None
  BY DEF Listed
<1>2. members'[k] = MemberAfter(r, k)
  BY <1>1 DEF PushConfig
<1>3. MemberAfter(r, k).status = "active" /\ MemberAfter(r, k).management = entry.management
  BY <1>1 DEF MemberAfter, ActiveAs
<1>4. ASSUME NEW s \in scopes'
      PROVE  access'[s][k] = entry.scopes[s]
  <2>1. s \in Scopes /\ s \in ScopesAfter(r)
    BY <1>4 DEF PushConfig, ScopesAfter, ConfigRequest, Snapshot, StoreTypeOK
  <2>2. MemberAfter(r, k).scopes[s]
          = IF r.approved[k][s] # Unset THEN r.approved[k][s] ELSE entry.scopes[s]
    BY <1>1, <2>1 DEF MemberAfter, ActiveAs
  <2>3. access'[s][k] = AccessAfter(r, s, k)
    BY <1>1, <2>1 DEF PushConfig
  <2> QED
    BY <2>1, <2>2, <2>3 DEF AccessAfter
<1> QED
  BY <1>2, <1>3, <1>4

LEMMA SentAsListedHolds == Spec => []SentAsListed
<1>1. Init => SentAsListed
  BY DEF Init, SentAsListed
<1>2. IInv /\ SentAsListed /\ [Next]_vars => SentAsListed'
  BY SentAsListedStep DEF IInv
<1> QED
  BY <1>1, <1>2, Invariance, PTL DEF Spec

\* A recorded push names revisions there were.
RecordedPast ==
    \A op \in OpIds :
        /\ configOps[op] # None => configOps[op].result \in 1 .. revision
        /\ envOps[op] # None => envOps[op].request.expected \in 1 .. revision

LEMMA RecordedPastStep ==
    ASSUME IInv, RecordedPast, [Next]_vars
    PROVE  RecordedPast'
<1>1. revision \in Nat \ {0} /\ revision' \in Nat /\ revision <= revision'
  BY RevisionStep DEF Publish, IInv, TypeOK, StoreTypeOK
<1>2. ASSUME NEW op \in OpIds, configOps'[op] # None
      PROVE  configOps'[op].result \in 1 .. revision'
  <2>1. CASE configOps[op] # None
    BY <1>1, <2>1, RecordsStay DEF IInv, RecordedPast
  <2>2. CASE configOps[op] = None
    <3>1. PICK r, manages : PushConfig(r, manages)
      BY <1>2, <2>2, RecordingStep
    <3>2. /\ configOps' = [configOps EXCEPT ![r.op] = [request |-> r, result |-> revision + 1]]
          /\ revision' = revision + 1
      BY <3>1 DEF PushConfig, Publish
    <3>3. configOps'[op].result = revision + 1
      BY <1>2, <2>2, <3>2 DEF IInv, TypeOK, StoreTypeOK
    <3> QED
      BY <1>1, <3>2, <3>3
  <2> QED
    BY <2>1, <2>2
<1>3. ASSUME NEW op \in OpIds, envOps'[op] # None
      PROVE  envOps'[op].request.expected \in 1 .. revision'
  <2>1. CASE envOps[op] # None
    BY <1>1, <2>1, RecordsStay DEF IInv, RecordedPast
  <2>2. CASE envOps[op] = None
    <3>1. PICK r, manages : EnvPush(r, manages)
      BY <1>3, <2>2, RecordingStep
    <3>2. r.expected = revision
      BY <3>1 DEF EnvPush, EnvPushAccepts
    <3>3. envOps'[op].request = r
      BY <1>3, <2>2, <3>1 DEF EnvPush, IInv, TypeOK, StoreTypeOK
    <3> QED
      BY <1>1, <3>2, <3>3
  <2> QED
    BY <2>1, <2>2
<1> QED
  BY <1>2, <1>3 DEF RecordedPast

\* An env push that published what it expected with an edit, at this step.
LEMMA EditingStep ==
    ASSUME IInv, RecordedPast, [Next]_vars,
           NEW r \in EnvRequest, NEW manages, EnvPush(r, manages), r.target # None
    PROVE  /\ envOps'[r.op].request = r
           /\ EnvEditOpen(r.op)'
           /\ EditedFrom(r.op)' = snapshot
<1>1. /\ r.expected = revision
      /\ envOps' = [envOps EXCEPT ![r.op] = [request |-> r, result |-> revision + 1]]
      /\ UNCHANGED configOps
  BY DEF EnvPush, EnvPushAccepts
<1>2. r.op \in OpIds /\ envOps \in [OpIds -> EnvResult \cup {None}]
  BY DEF EnvRequest, IInv, TypeOK, StoreTypeOK
<1>3. envOps'[r.op] = [request |-> r, result |-> revision + 1]
  BY <1>1, <1>2
<1>4. [request |-> r, result |-> revision + 1] # None
  <2>1. [request |-> r, result |-> revision + 1] \in EnvResult
    BY DEF EnvResult, IInv, TypeOK, StoreTypeOK
  <2> QED
    BY <2>1, NoneAssumption
<1>5. revision \in 1 .. revision /\ revision \in Nat
  BY DEF IInv, TypeOK, StoreTypeOK
<1>6. published'[revision] = snapshot
  BY <1>5, PublishedStays DEF IInv, RevisionNamesSnapshot
<1>7. \A o \in OpIds : configOps'[o] # None => configOps'[o].result < revision + 1
  BY <1>1, <1>5 DEF RecordedPast
<1> QED
  BY <1>1, <1>3, <1>4, <1>6, <1>7 DEF EnvEditOpen, EnvEdit, EditedFrom

\* What an env push edited remains edited, and open until a config push.
LEMMA EditStays ==
    ASSUME IInv, RecordedPast, [Next]_vars, NEW op \in OpIds, EnvEdit(op)
    PROVE  /\ EnvEdit(op)'
           /\ envOps'[op] = envOps[op]
           /\ EditedFrom(op)' = EditedFrom(op)
           /\ EnvEditOpen(op) /\ UNCHANGED configOps => EnvEditOpen(op)'
<1>1. envOps[op] # None /\ envOps'[op] = envOps[op]
  BY RecordsStay DEF EnvEdit, IInv
<1>2. envOps[op].request.expected \in 1 .. revision
  BY <1>1 DEF RecordedPast
<1>3. EditedFrom(op)' = EditedFrom(op)
  BY <1>1, <1>2, PublishedStays DEF EditedFrom, IInv
<1>4. EnvEdit(op)'
  BY <1>1 DEF EnvEdit
<1> QED
  BY <1>1, <1>3, <1>4 DEF EnvEditOpen

\* The entry of k is enforced, or an open env push edited it.
Excused(k) ==
    \E op \in OpIds :
        /\ EnvEditOpen(op)
        /\ envOps[op].request.target.members[k] # EditedFrom(op).members[k]

LEMMA ExcuseStays ==
    ASSUME IInv, RecordedPast, [Next]_vars, UNCHANGED configOps, NEW k, Excused(k)
    PROVE  Excused(k)'
<1>1. PICK op \in OpIds : /\ EnvEditOpen(op)
                          /\ envOps[op].request.target.members[k] # EditedFrom(op).members[k]
  BY DEF Excused
<1>2. /\ EnvEditOpen(op)' /\ envOps'[op] = envOps[op]
      /\ EditedFrom(op)' = EditedFrom(op)
  BY <1>1, EditStays DEF EnvEditOpen
<1> QED
  BY <1>1, <1>2 DEF Excused

LEMMA EnforcedStep ==
    ASSUME IInv, SentAsListed, RecordedPast, EnforcedUnlessEdited, [Next]_vars
    PROVE  EnforcedUnlessEdited'
<1> USE DEF Active
<1>0. /\ StoreTypeOK
      /\ \A k \in Listed(snapshot) : Enforced(k) \/ Excused(k)
  BY DEF IInv, TypeOK, EnforcedUnlessEdited, Excused
<1> SUFFICES ASSUME NEW k \in Keys, snapshot'.members[k] # None
             PROVE  Enforced(k)' \/ Excused(k)'
  BY DEF EnforcedUnlessEdited, Excused, Listed
\* An entry is as it was, and so is what is enforced of it.
<1>1. ASSUME snapshot'.members[k] = snapshot.members[k], members'[k] = members[k],
             scopes' = scopes, \A s \in scopes : access'[s][k] = access[s][k],
             UNCHANGED configOps
      PROVE  Enforced(k)' \/ Excused(k)'
  <2>1. Enforced(k) \/ Excused(k)
    BY <1>0, <1>1 DEF Listed
  <2>2. Enforced(k) => Enforced(k)'
    BY <1>1 DEF Enforced
  <2> QED
    BY <1>1, <2>1, <2>2, ExcuseStays
<1>2. ASSUME NEW r \in sent, NEW manages, r \in ConfigRequest, PushConfig(r, manages)
      PROVE  Enforced(k)'
  <2>1. snapshot' = r.target /\ k \in Listed(r.target)
    BY <1>2 DEF PushConfig, Publish, Listed
  <2>2. \A s \in Scopes : r.approved[k][s] # Unset
                            => r.approved[k][s] = r.target.members[k].scopes[s]
    BY <1>2, <2>1 DEF SentAsListed, ConfigRequest
  <2>3. /\ members'[k].status = "active"
        /\ members'[k].management = r.target.members[k].management
        /\ \A s \in scopes' : access'[s][k] = r.target.members[k].scopes[s]
    BY <1>0, <1>2, <2>1, <2>2, ListedAfterPush
  <2> QED
    BY <2>1, <2>3 DEF Enforced
<1>3. ASSUME NEW j \in Keys, NEW g \in Grant, NEW recipients, Admit(j, g, recipients)
      PROVE  Enforced(k)' \/ Excused(k)'
  <2>1. /\ members' = [members EXCEPT ![j] = ActiveAs(g)]
        /\ snapshot' = [snapshot EXCEPT !.members[j] = g]
        /\ scopes' = scopes
        /\ access' = [s \in Scopes |->
                        IF s \in scopes /\ g.scopes[s] # Unset
                        THEN [access[s] EXCEPT ![j] = g.scopes[s]] ELSE access[s]]
        /\ UNCHANGED configOps
    BY <1>3 DEF Admit, Publish, WithMember
  <2>2. /\ members \in [Keys -> Member] /\ snapshot \in Snapshot /\ scopes \subseteq Scopes
        /\ access \in [Scopes -> [Keys -> Permission \cup {Unset}]]
    BY <1>0 DEF StoreTypeOK
  <2>3. snapshot'.members[j] = g /\ (k # j => snapshot'.members[k] = snapshot.members[k])
    BY <2>1, <2>2 DEF Snapshot
  <2>4. CASE k = j
    <3>1. members'[k].status = "active" /\ members'[k].management = g.management
      BY <2>1, <2>2, <2>4 DEF ActiveAs
    <3>2. ASSUME NEW s \in scopes, g.scopes[s] # Unset
          PROVE  access'[s][k] = g.scopes[s]
      BY <2>1, <2>2, <2>4, <3>2
    <3> QED
      BY <2>1, <2>3, <2>4, <3>1, <3>2 DEF Enforced
  <2>5. CASE k # j
    <3>1. members'[k] = members[k] /\ \A s \in scopes : access'[s][k] = access[s][k]
      BY <2>1, <2>2, <2>5
    <3> QED
      BY <1>1, <2>1, <2>3, <2>5, <3>1
  <2> QED
    BY <2>4, <2>5
\* Those who ask to be let in, and those who are refused, are not active, so
\* that an entry they have is one an env push added.
<1>4. ASSUME NEW j \in Keys, ~Active(j), NEW x, members' = [members EXCEPT ![j] = x],
             UNCHANGED <<snapshot, scopes, access, configOps>>
      PROVE  Enforced(k)' \/ Excused(k)'
  <2>1. CASE k = j
    <3>1. Excused(k)
      BY <1>0, <1>4, <2>1 DEF Enforced, Listed
    <3> QED
      BY <1>4, <3>1, ExcuseStays
  <2>2. CASE k # j
    BY <1>0, <1>1, <1>4, <2>2 DEF StoreTypeOK
  <2> QED
    BY <2>1, <2>2
<1>5. ASSUME NEW r \in sent, NEW manages, r \in EnvRequest, EnvPush(r, manages)
      PROVE  Enforced(k)' \/ Excused(k)'
  <2>1. UNCHANGED <<members, scopes, access, configOps>>
    BY <1>5 DEF EnvPush
  <2>2. CASE snapshot'.members[k] = snapshot.members[k]
    BY <1>1, <2>1, <2>2
  <2>3. CASE snapshot'.members[k] # snapshot.members[k]
    <3>1. r.target # None /\ snapshot' = r.target
      BY <1>5, <2>3 DEF EnvPush, Publish
    <3>2. /\ envOps'[r.op].request = r
          /\ EnvEditOpen(r.op)'
          /\ EditedFrom(r.op)' = snapshot
      BY <1>5, <3>1, EditingStep
    <3>3. r.op \in OpIds
      BY <1>5 DEF EnvRequest
    <3> QED
      BY <2>3, <3>1, <3>2, <3>3 DEF Excused
  <2> QED
    BY <2>2, <2>3
<1>6. ASSUME NEW r \in DeclineRequest, NEW manages, DeclineJoinRequest(r, manages)
      PROVE  Enforced(k)' \/ Excused(k)'
  <2>1. r.joiner \in Keys /\ members[r.joiner].status = "pending"
    BY <1>6 DEF DeclineRequest, DeclineJoinRequest, MayDecide
  <2>2. members' = [members EXCEPT ![r.joiner] = [members[r.joiner] EXCEPT !.status = "declined"]]
        /\ UNCHANGED <<snapshot, scopes, access, configOps>>
    BY <1>6 DEF DeclineJoinRequest
  <2> QED
    BY <1>4, <2>1, <2>2
<1>7. ASSUME NEW j \in Keys, NEW management, CreateJoinRequest(j, management)
      PROVE  Enforced(k)' \/ Excused(k)'
  BY <1>4, <1>7 DEF CreateJoinRequest
<1>8. CASE UNCHANGED store
  BY <1>1, <1>8 DEF store
<1> QED
  BY <1>2, <1>3, <1>5, <1>6, <1>7, <1>8, StoreStep

LEMMA RecordedPastHolds == Spec => []RecordedPast
<1>1. Init => RecordedPast
  BY DEF Init, CreateTeamSetup, RecordedPast
<1>2. IInv /\ RecordedPast /\ [Next]_vars => RecordedPast'
  BY RecordedPastStep
<1> QED
  BY <1>1, <1>2, Invariance, PTL DEF Spec

\* What the published snapshot lists is what PushConfig, ApproveJoinRequest
\* and SubmitInvitePIN have made of the member records and of the permissions
\* in the scopes, whatever handlers overlap, in every entry but those that env
\* pushes have edited since the last config push.
THEOREM EnforcedAsPublished == Spec => []EnforcedUnlessEdited
<1>1. Init => EnforcedUnlessEdited
  <2> SUFFICES ASSUME Init, NEW k \in Listed(snapshot) PROVE Enforced(k)
    BY DEF EnforcedUnlessEdited
  <2>1. scopes \subseteq Scopes
    BY InitialScopesAssumption DEF Init, CreateTeamSetup
  <2>2. /\ k = Admin /\ Active(k)
        /\ members[k].management = snapshot.members[k].management
        /\ \A s \in Scopes : access[s][k] = snapshot.members[k].scopes[s]
    BY AdminAssumption DEF Init, CreateTeamSetup, Listed, Active, ActiveAs
  <2> QED
    BY <2>1, <2>2 DEF Enforced
<1>2. IInv /\ SentAsListed /\ RecordedPast /\ EnforcedUnlessEdited /\ [Next]_vars
        => EnforcedUnlessEdited'
  BY EnforcedStep
<1> QED
  BY <1>1, <1>2, Invariance, SentAsListedHolds, RecordedPastHolds, PTL DEF Spec
-----------------------------------------------------------------------------
(* Keys: a config push brings one for each scope it adds, unless a scope   *)
(* was dropped before or an env push has published the scope already.      *)

Finite == IsFiniteSet(snapshot.scopes)

\* Until a scope is dropped, all those the server knows are published.
ScopesKept == (\A m \in 2 .. revision : ~Drops(m)) => scopes \subseteq snapshot.scopes

\* A push that can be accepted brings a key for each scope it adds, unless the
\* server knows a scope that is not published.
NewScopesComeWithKeys ==
    \A r \in sent :
        r.kind = "config" /\ r.expected = revision /\ scopes \subseteq snapshot.scopes =>
            \A s \in r.target.scopes \ snapshot.scopes : \E k \in Keys : <<s, k>> \in r.recipients

\* The one edit that adds a scope is `scope create'.
LEMMA AddingEdit ==
    ASSUME NEW snap \in Snapshot, NEW e \in Edits(snap)
    PROVE  \/ e.scopes \subseteq snap.scopes
           \/ \E s \in Scopes \ snap.scopes : e = CreateScope(snap, s)
<1>1. CASE e = snap
  BY <1>1
<1>2. CASE \E k \in Keys, g \in Grants : e = WithMember(snap, k, g)
  BY <1>2 DEF WithMember, Snapshot
<1>3. CASE \E k \in Keys : e = [snap EXCEPT !.members[k] = None]
  BY <1>3 DEF Snapshot
<1>4. CASE \E s \in Scopes : e = [snap EXCEPT !.scopes = @ \ {s}]
  BY <1>4 DEF Snapshot
<1> QED
  BY <1>1, <1>2, <1>3, <1>4 DEF Edits

\* A new revision publishes some of the current scopes, or those and one more.
LEMMA TargetScopes ==
    ASSUME NEW snap \in Snapshot, NEW t \in Targets(snap)
    PROVE  \/ t.scopes \subseteq snap.scopes
           \/ \E s \in Scopes : t.scopes = snap.scopes \cup {s}
<1>1. ASSUME NEW e \in Edits(snap)
      PROVE  e.scopes \subseteq snap.scopes \/ \E s \in Scopes : e.scopes = snap.scopes \cup {s}
  BY AddingEdit DEF CreateScope
<1>2. ASSUME NEW e \in Edits(snap), NEW a \in Admissions(e)
      PROVE  a.scopes = e.scopes
  BY <1>2, EditsType DEF Admissions, WithMember, Snapshot
<1> QED
  BY <1>1, <1>2 DEF Targets

\* A step that publishes an accepted target, and one that changes no scope.
LEMMA ScopeStep ==
    ASSUME IInv, [Next]_vars
    PROVE  \/ \E r \in sent, manages \in BOOLEAN :
                r \in ConfigRequest /\ r.target \in Targets(snapshot) /\ PushConfig(r, manages)
           \/ \E r \in sent, manages \in BOOLEAN :
                /\ r \in EnvRequest /\ r.target \in Targets(snapshot)
                /\ r.target # None /\ EnvPush(r, manages)
           \/ /\ snapshot'.scopes = snapshot.scopes /\ scopes' = scopes
              /\ \A s \in Scopes : envelopes[s] \subseteq envelopes'[s]
              /\ \/ \E snap : Publish(snap)
                 \/ UNCHANGED <<revision, snapshot, published>>
<1>0. /\ StoreTypeOK /\ snapshot \in Snapshot
      /\ envelopes \in [Scopes -> SUBSET Keys]
  BY DEF IInv, TypeOK, StoreTypeOK
<1>1. ASSUME NEW r \in sent, NEW manages \in BOOLEAN, r \in ConfigRequest, PushConfig(r, manages)
      PROVE  r.target \in Targets(snapshot)
  <2>1. r.expected = revision /\ r.kind = "config" /\ r.target # None
    BY <1>1, NoneAssumption DEF PushConfig, PushConfigAccepts, ConfigRequest
  <2> QED
    BY <2>1 DEF IInv, RevisionNamesSnapshot
<1>2. ASSUME NEW r \in sent, NEW manages \in BOOLEAN, r \in EnvRequest, EnvPush(r, manages)
      PROVE  \/ r.target # None /\ r.target \in Targets(snapshot)
             \/ UNCHANGED <<revision, snapshot, published, scopes, envelopes>>
  <2>1. r.expected = revision /\ r.kind = "env"
    BY <1>2 DEF EnvPush, EnvPushAccepts, EnvRequest
  <2>2. r.target = None \/ r.target \in Targets(snapshot)
    BY <2>1 DEF IInv, RevisionNamesSnapshot
  <2> QED
    BY <1>2, <2>2 DEF EnvPush
<1>3. ASSUME NEW j \in Keys, NEW g \in Grant, NEW recipients, Admit(j, g, recipients)
      PROVE  /\ snapshot'.scopes = snapshot.scopes /\ scopes' = scopes
             /\ \A s \in Scopes : envelopes[s] \subseteq envelopes'[s]
             /\ \E snap : Publish(snap)
  <2>1. snapshot'.scopes = snapshot.scopes
    BY <1>0, <1>3 DEF Admit, Publish, WithMember, Snapshot
  <2> QED
    BY <1>3, <2>1 DEF Admit, AddEnvelopes
<1>4. ASSUME NEW r, NEW manages, DeclineJoinRequest(r, manages)
      PROVE  UNCHANGED <<revision, snapshot, published, scopes, envelopes>>
  BY <1>4 DEF DeclineJoinRequest
<1>5. ASSUME NEW k, NEW management, CreateJoinRequest(k, management)
      PROVE  UNCHANGED <<revision, snapshot, published, scopes, envelopes>>
  BY <1>5 DEF CreateJoinRequest
<1>6. CASE UNCHANGED store
  BY <1>6 DEF store
<1> QED
  BY <1>1, <1>2, <1>3, <1>4, <1>5, <1>6, StoreStep

\* What a revision dropped or added, it did.
LEMMA HistoryStays ==
    ASSUME IInv, [Next]_vars
    PROVE  /\ Len(published') = revision' /\ revision' \in Nat /\ revision <= revision'
           /\ \A n \in 2 .. revision : /\ Drops(n)' <=> Drops(n)
                                       /\ \A s : Adds(n, s)' <=> Adds(n, s)
<1>1. revision \in Nat /\ Len(published) = revision /\ published \in Seq(Snapshot)
  BY DEF IInv, RevisionNamesSnapshot, TypeOK, StoreTypeOK
<1>2. \A n \in 1 .. revision : published'[n] = published[n]
  BY PublishedStays DEF IInv
<1>3. Len(published') = revision' /\ revision' \in Nat /\ revision <= revision'
  <2>1. CASE \E snap : Publish(snap)
    BY <1>1, <2>1 DEF Publish
  <2>2. CASE UNCHANGED <<revision, snapshot, published>>
    BY <1>1, <2>2
  <2> QED
    BY <2>1, <2>2, RevisionStep
<1>4. ASSUME NEW n \in 2 .. revision
      PROVE  published'[n] = published[n] /\ published'[n - 1] = published[n - 1]
  <2>1. n \in 1 .. revision /\ n - 1 \in 1 .. revision
    BY <1>1
  <2> QED
    BY <1>2, <2>1
<1> QED
  BY <1>3, <1>4 DEF Drops, Adds

\* The revision a step adds, compared with the one before.
LEMMA NewRevision ==
    ASSUME IInv, [Next]_vars, NEW t \in Snapshot, Publish(t), NEW n, n = revision + 1
    PROVE  /\ revision' = n /\ n \in 2 .. n
           /\ Drops(n)' <=> ~ snapshot.scopes \subseteq t.scopes
           /\ \A s : Adds(n, s)' <=> s \in t.scopes \ snapshot.scopes
<1>1. /\ revision \in Nat \ {0} /\ Len(published) = revision /\ published \in Seq(Snapshot)
      /\ published[revision] = snapshot
  BY DEF IInv, RevisionNamesSnapshot, TypeOK, StoreTypeOK
<1>2. revision' = n /\ published' = Append(published, t)
  BY DEF Publish
<1>3. published'[n] = t /\ n - 1 = revision /\ published'[n - 1] = snapshot
  BY <1>1, <1>2
<1> QED
  BY <1>1, <1>2, <1>3 DEF Drops, Adds

\* `scope create' lets the manager who pushes it read the new scope, so that
\* the request has an envelope for them.
LEMMA CreatorGetsKey ==
    ASSUME StoreTypeOK, IsFiniteSet(snapshot.scopes), scopes \subseteq snapshot.scopes,
           NEW k \in Keys, NEW s \in Scopes \ snapshot.scopes, NEW local,
           local = CreateScope(snapshot, s),
           local.members[k] # None, local.members[k].management,
           NEW target, target.scopes = local.scopes, target.members[k] = local.members[k]
    PROVE  <<s, k>> \in NewScopeRecipients(target)
<1>1. snapshot.members[k] \in Grant \cup {None} /\ snapshot.scopes \subseteq Scopes
  BY DEF StoreTypeOK, Snapshot
<1>2. /\ target.scopes = snapshot.scopes \cup {s} /\ s \notin scopes
      /\ target.members[k] = IF snapshot.members[k] # None /\ snapshot.members[k].management
                             THEN [snapshot.members[k] EXCEPT !.scopes[s] = "write"]
                             ELSE snapshot.members[k]
  BY DEF CreateScope
<1>3. target.members[k].scopes[s] = "write"
  BY <1>1, <1>2 DEF Grant
<1>4. ~(Cardinality(target.scopes) <= Cardinality(scopes))
  <2>1. IsFiniteSet(target.scopes)
    BY <1>2, FS_AddElement
  <2>2. /\ Cardinality(scopes) <= Cardinality(target.scopes)
        /\ Cardinality(scopes) # Cardinality(target.scopes)
    BY <1>2, <2>1, FS_Subset
  <2>3. Cardinality(scopes) \in Nat /\ Cardinality(target.scopes) \in Nat
    BY <2>1, FS_CardinalityType, FS_Subset
  <2> QED
    BY <2>2, <2>3
<1>5. s \in target.scopes \ snapshot.scopes /\ k \in Listed(target)
  BY <1>2 DEF Listed
<1>6. PermissionAllows("write", "read")
  BY DEF PermissionAllows, Rank
<1> QED
  BY <1>3, <1>4, <1>5, <1>6 DEF NewScopeRecipients

LEMMA ComposeBringsKeys ==
    ASSUME TypeOK, IsFiniteSet(snapshot.scopes), scopes \subseteq snapshot.scopes,
           NEW k \in Keys, NEW op \in OpIds, Compose(k, op)
    PROVE  \E r : /\ Send(r)
                  /\ r.kind = "config" =>
                       \A s \in r.target.scopes \ snapshot.scopes :
                           \E j \in Keys : <<s, j>> \in r.recipients
<1> DEFINE BringsKeys(r) ==
             r.kind = "config" =>
               \A s \in r.target.scopes \ snapshot.scopes :
                   \E j \in Keys : <<s, j>> \in r.recipients
<1>0. StoreTypeOK /\ snapshot \in Snapshot
  BY DEF TypeOK, StoreTypeOK
<1>1. ASSUME NEW local \in Edits(snapshot), local.members[k] # None,
             local.members[k].management,
             NEW target, target.scopes = local.scopes, target.members[k] = local.members[k],
             NEW approved, NEW declined, NEW recipients
      PROVE  BringsKeys(ConfigPushOf(k, op, target, approved, declined, recipients))
  <2> DEFINE r == ConfigPushOf(k, op, target, approved, declined, recipients)
  <2>1. r.target = target /\ NewScopeRecipients(target) \subseteq r.recipients
    BY DEF ConfigPushOf
  <2>2. ASSUME NEW s \in target.scopes \ snapshot.scopes
        PROVE  <<s, k>> \in NewScopeRecipients(target)
    <3>1. PICK n \in Scopes \ snapshot.scopes : local = CreateScope(snapshot, n)
      BY <1>0, <1>1, <2>2, AddingEdit
    <3>2. s = n
      BY <1>1, <2>2, <3>1 DEF CreateScope
    <3> QED
      BY <1>0, <1>1, <3>1, <3>2, CreatorGetsKey
  <2> QED
    BY <2>1, <2>2
<1>2. ASSUME ComposeConfigPush(k, op)
      PROVE  \E r : Send(r) /\ BringsKeys(r)
  <2>1. PICK local \in Edits(snapshot) :
          /\ local.members[k] # None /\ local.members[k].management
          /\ \/ Send(ConfigPushOf(k, op, local, NoDecisions, {}, {}))
             \/ \E j \in Keys, g \in Grants :
                   /\ Requested(j, g)
                   /\ Send(ConfigPushOf(k, op, WithMember(local, j, g),
                            [NoDecisions EXCEPT ![j] = g.scopes], {}, JoinRecipients(g, j)))
             \/ \E j \in Keys : Send(ConfigPushOf(k, op, local, NoDecisions, {j}, {}))
    BY <1>2 DEF ComposeConfigPush
  <2>2. Active(k)
    BY <1>2 DEF ComposeConfigPush, MayCompose
  <2>3. ASSUME NEW j \in Keys, NEW g \in Grants, Requested(j, g)
        PROVE  /\ WithMember(local, j, g).scopes = local.scopes
               /\ WithMember(local, j, g).members[k] = local.members[k]
    <3>1. j # k
      BY <2>2, <2>3 DEF Requested, Active
    <3>2. local \in Snapshot
      BY <1>0, EditsType
    <3> QED
      BY <3>1, <3>2 DEF WithMember, Snapshot
  <2> HIDE DEF BringsKeys
  <2>4. CASE \E declined : Send(ConfigPushOf(k, op, local, NoDecisions, declined, {}))
    <3>1. PICK declined : Send(ConfigPushOf(k, op, local, NoDecisions, declined, {}))
      BY <2>4
    <3>2. BringsKeys(ConfigPushOf(k, op, local, NoDecisions, declined, {}))
      BY <1>1, <2>1
    <3> QED
      BY <3>1, <3>2
  <2>5. CASE \E j \in Keys, g \in Grants :
               /\ Requested(j, g)
               /\ Send(ConfigPushOf(k, op, WithMember(local, j, g),
                        [NoDecisions EXCEPT ![j] = g.scopes], {}, JoinRecipients(g, j)))
    <3>1. PICK j \in Keys, g \in Grants :
               /\ Requested(j, g)
               /\ Send(ConfigPushOf(k, op, WithMember(local, j, g),
                        [NoDecisions EXCEPT ![j] = g.scopes], {}, JoinRecipients(g, j)))
      BY <2>5
    <3>2. BringsKeys(ConfigPushOf(k, op, WithMember(local, j, g),
                       [NoDecisions EXCEPT ![j] = g.scopes], {}, JoinRecipients(g, j)))
      BY <1>1, <2>1, <2>3, <3>1
    <3> QED
      BY <3>1, <3>2
  <2> QED
    BY <2>1, <2>4, <2>5
<1>3. ASSUME NEW s \in Scopes, ComposeEnvPush(k, op, s)
      PROVE  \E r : Send(r) /\ r.kind = "env"
  BY <1>3 DEF ComposeEnvPush
<1>4. ASSUME NEW j \in Keys, ComposeApprove(k, op, j)
      PROVE  \E r : Send(r) /\ r.kind = "approve"
  BY <1>4 DEF ComposeApprove
<1>5. ASSUME NEW j \in Keys, ComposeDecline(k, op, j)
      PROVE  \E r : Send(r) /\ r.kind = "decline"
  BY <1>5 DEF ComposeDecline
<1>6. \E r : Send(r) /\ BringsKeys(r)
  <2>1. ASSUME NEW r, r.kind # "config" PROVE BringsKeys(r)
    BY <2>1
  <2>2. CASE ComposeConfigPush(k, op)
    BY <1>2, <2>2
  <2> HIDE DEF BringsKeys
  <2> QED
    BY <1>3, <1>4, <1>5, <2>1, <2>2 DEF Compose
<1> QED
  BY <1>6
LEMMA ScopesKeptStep ==
    ASSUME IInv, Finite, ScopesKept, [Next]_vars
    PROVE  Finite' /\ ScopesKept'
<1>0. /\ snapshot \in Snapshot /\ scopes \subseteq Scopes /\ revision \in Nat \ {0}
  BY DEF IInv, TypeOK, StoreTypeOK
<1>1. ASSUME \A m \in 2 .. revision' : ~Drops(m)'
      PROVE  scopes \subseteq snapshot.scopes
  <2>1. \A m \in 2 .. revision : m \in 2 .. revision' /\ (Drops(m)' <=> Drops(m))
    BY <1>0, HistoryStays
  <2> QED
    BY <1>1, <2>1 DEF ScopesKept
<1>2. ASSUME NEW t \in Targets(snapshot), Publish(t),
             scopes' = scopes \/ scopes' = scopes \cup t.scopes
      PROVE  Finite' /\ ScopesKept'
  <2>1. t \in Snapshot /\ snapshot' = t
    <3>1. \A e \in Snapshot : Admissions(e) \subseteq Snapshot
      BY WithMemberType, GrantsAssumption DEF Admissions
    <3> QED
      BY <1>0, <1>2, <3>1, EditsType DEF Targets, Publish
  <2>2. IsFiniteSet(t.scopes)
    BY <1>0, <1>2, TargetScopes, FS_Subset, FS_AddElement DEF Finite
  <2>3. ASSUME \A m \in 2 .. revision' : ~Drops(m)'
        PROVE  scopes' \subseteq t.scopes
    <3>1. PICK n : n = revision + 1
      OBVIOUS
    <3>2. revision' = n /\ n \in 2 .. n /\ (Drops(n)' <=> ~ snapshot.scopes \subseteq t.scopes)
      BY <1>2, <2>1, <3>1, NewRevision
    <3>3. snapshot.scopes \subseteq t.scopes
      BY <2>3, <3>2
    <3> QED
      BY <1>1, <1>2, <2>3, <3>3
  <2> QED
    BY <2>1, <2>2, <2>3 DEF Finite, ScopesKept
<1>3. CASE snapshot'.scopes = snapshot.scopes /\ scopes' = scopes
  <2>1. Finite'
    BY <1>3 DEF Finite
  <2>2. ScopesKept'
    BY <1>1, <1>3 DEF ScopesKept
  <2> QED
    BY <2>1, <2>2
<1>4. ASSUME NEW r, NEW manages, PushConfig(r, manages)
      PROVE  Publish(r.target) /\ scopes' = scopes \cup r.target.scopes
  BY <1>4 DEF PushConfig, ScopesAfter
<1>5. ASSUME NEW r, NEW manages, r.target # None, EnvPush(r, manages)
      PROVE  Publish(r.target) /\ scopes' = scopes
  BY <1>5 DEF EnvPush
<1> QED
  BY <1>2, <1>3, <1>4, <1>5, ScopeStep

\* A request that is acceptable after a step was acceptable before, or is new.
LEMMA NewScopesComeWithKeysStep ==
    ASSUME IInv, Finite, NewScopesComeWithKeys, [Next]_vars
    PROVE  NewScopesComeWithKeys'
<1>0. revision \in Nat \ {0} /\ TypeOK
  BY DEF IInv, TypeOK, StoreTypeOK
<1>1. \/ revision' = revision + 1
      \/ revision' = revision /\ snapshot' = snapshot /\ scopes' = scopes
  BY <1>0, ScopeStep DEF Publish, PushConfig, EnvPush
<1>2. ASSUME NEW r \in sent, r.kind = "config", r.expected = revision',
             scopes' \subseteq snapshot'.scopes,
             NEW s \in r.target.scopes \ snapshot'.scopes
      PROVE  \E k \in Keys : <<s, k>> \in r.recipients
  <2>1. r.expected \in 1 .. revision
    BY <1>2 DEF IInv, RevisionNamesSnapshot
  <2>2. revision' = revision /\ snapshot' = snapshot /\ scopes' = scopes
    BY <1>0, <1>1, <1>2, <2>1
  <2> QED
    BY <1>2, <2>2 DEF NewScopesComeWithKeys
<1>3. ASSUME NEW r \in sent' \ sent, r.kind = "config",
             scopes' \subseteq snapshot'.scopes,
             NEW s \in r.target.scopes \ snapshot'.scopes
      PROVE  \E k \in Keys : <<s, k>> \in r.recipients
  <2>1. PICK k \in Keys, op \in OpIds : Compose(k, op)
    BY <1>0, <1>3, SentStep
  <2>2. PICK q \in Request : Send(q)
    BY <1>0, <2>1, ComposeSends
  <2>3. snapshot' = snapshot /\ scopes' = scopes
    BY <2>2 DEF Send, store
  <2>4. PICK p : /\ Send(p)
                 /\ p.kind = "config" =>
                      \A n \in p.target.scopes \ snapshot.scopes :
                          \E j \in Keys : <<n, j>> \in p.recipients
    BY <1>0, <1>3, <2>1, <2>3, ComposeBringsKeys DEF Finite
  <2>5. r = p
    BY <1>3, <2>4 DEF Send
  <2> QED
    BY <1>3, <2>3, <2>4, <2>5
<1> QED
  BY <1>2, <1>3 DEF NewScopesComeWithKeys

\* The two reasons for a scope to lack a key.
PublishedByEnvPush(s) ==
    \E op \in OpIds :
        EnvEdit(op) /\ s \in envOps[op].request.target.scopes \ EditedFrom(op).scopes
AddedAfterDrop(s) ==
    \E n \in 2 .. Len(published) : Adds(n, s) /\ \E m \in 2 .. n : Drops(m)

LEMMA ReasonsStay ==
    ASSUME IInv, RecordedPast, [Next]_vars, NEW s \in Scopes
    PROVE  /\ PublishedByEnvPush(s) => PublishedByEnvPush(s)'
           /\ AddedAfterDrop(s) => AddedAfterDrop(s)'
<1>1. ASSUME PublishedByEnvPush(s)
      PROVE  PublishedByEnvPush(s)'
  <2>1. PICK op \in OpIds :
          EnvEdit(op) /\ s \in envOps[op].request.target.scopes \ EditedFrom(op).scopes
    BY <1>1 DEF PublishedByEnvPush
  <2>2. EnvEdit(op)' /\ envOps'[op] = envOps[op] /\ EditedFrom(op)' = EditedFrom(op)
    BY <2>1, EditStays
  <2> QED
    BY <2>1, <2>2 DEF PublishedByEnvPush
<1>2. ASSUME AddedAfterDrop(s)
      PROVE  AddedAfterDrop(s)'
  <2>1. Len(published) = revision /\ revision \in Nat
    BY DEF IInv, RevisionNamesSnapshot, TypeOK, StoreTypeOK
  <2>2. PICK n \in 2 .. revision : Adds(n, s) /\ \E m \in 2 .. n : Drops(m)
    BY <1>2, <2>1 DEF AddedAfterDrop
  <2>3. PICK m \in 2 .. n : Drops(m)
    BY <2>2
  <2>4. /\ Adds(n, s)' /\ Drops(m)'
        /\ n \in 2 .. Len(published')
    BY <2>1, <2>2, <2>3, HistoryStays
  <2> QED
    BY <2>4 DEF AddedAfterDrop
<1> QED
  BY <1>1, <1>2

LEMMA KeysStep ==
    ASSUME IInv, RecordedPast, ScopesKept, NewScopesComeWithKeys, KeysUnlessMissed, [Next]_vars
    PROVE  KeysUnlessMissed'
<1>0. /\ snapshot \in Snapshot /\ scopes \subseteq Scopes
      /\ envelopes \in [Scopes -> SUBSET Keys] /\ revision \in Nat \ {0}
  BY DEF IInv, TypeOK, StoreTypeOK
<1> SUFFICES ASSUME NEW s \in snapshot'.scopes
             PROVE  HasKey(s)' \/ PublishedByEnvPush(s)' \/ AddedAfterDrop(s)'
  BY DEF KeysUnlessMissed, PublishedByEnvPush, AddedAfterDrop
<1>1. s \in Scopes
  <2>1. \A r \in ConfigRequest : r.target.scopes \subseteq Scopes
    BY DEF ConfigRequest, Snapshot
  <2>2. \A r \in EnvRequest : r.target # None => r.target.scopes \subseteq Scopes
    BY DEF EnvRequest, Snapshot
  <2> QED
    BY <1>0, <2>1, <2>2, ScopeStep DEF PushConfig, EnvPush, Publish, Snapshot
\* No scope and no envelope is ever taken away.
<1>2. ASSUME s \in snapshot.scopes, scopes \subseteq scopes', envelopes[s] \subseteq envelopes'[s]
      PROVE  HasKey(s)' \/ PublishedByEnvPush(s)' \/ AddedAfterDrop(s)'
  <2>1. HasKey(s) \/ PublishedByEnvPush(s) \/ AddedAfterDrop(s)
    BY <1>2 DEF KeysUnlessMissed, PublishedByEnvPush, AddedAfterDrop
  <2>2. HasKey(s) => HasKey(s)'
    BY <1>2 DEF HasKey
  <2> QED
    BY <1>1, <2>1, <2>2, ReasonsStay
<1>3. ASSUME NEW r \in sent, NEW manages, r \in ConfigRequest, PushConfig(r, manages)
      PROVE  HasKey(s)' \/ PublishedByEnvPush(s)' \/ AddedAfterDrop(s)'
  <2>1. /\ r.kind = "config" /\ r.expected = revision /\ Publish(r.target)
        /\ scopes' = scopes \cup r.target.scopes
        /\ envelopes'[s] = envelopes[s] \cup
             {k \in Keys : s \in scopes' /\ <<s, k>> \in r.recipients}
    BY <1>1, <1>3 DEF PushConfig, PushConfigAccepts, ScopesAfter, AddEnvelopes, ConfigRequest
  <2>2. s \in r.target.scopes /\ r.target \in Snapshot
    BY <1>3, <2>1 DEF Publish, ConfigRequest
  <2>3. CASE s \in snapshot.scopes
    BY <1>2, <2>1, <2>3
  <2>4. CASE s \notin snapshot.scopes /\ \A m \in 2 .. revision' : ~Drops(m)'
    <3>1. \A m \in 2 .. revision : ~Drops(m)
      BY <1>0, <2>4, HistoryStays
    <3>2. \E k \in Keys : <<s, k>> \in r.recipients
      BY <1>3, <2>1, <2>2, <2>4, <3>1 DEF ScopesKept, NewScopesComeWithKeys
    <3> QED
      BY <2>1, <2>2, <3>2 DEF HasKey
  <2>5. CASE s \notin snapshot.scopes /\ \E m \in 2 .. revision' : Drops(m)'
    <3>1. PICK n : n = revision + 1
      OBVIOUS
    <3>2. revision' = n /\ n \in 2 .. n /\ Adds(n, s)'
      BY <2>1, <2>2, <2>5, <3>1, NewRevision
    <3>3. Len(published') = n
      BY <3>2, HistoryStays
    <3>4. PICK m \in 2 .. n : Drops(m)'
      BY <2>5, <3>2
    <3> QED
      BY <3>2, <3>3, <3>4 DEF AddedAfterDrop
  <2> QED
    BY <2>3, <2>4, <2>5
<1>4. ASSUME NEW r \in sent, NEW manages, r \in EnvRequest, r.target # None, EnvPush(r, manages)
      PROVE  HasKey(s)' \/ PublishedByEnvPush(s)' \/ AddedAfterDrop(s)'
  <2>1. snapshot' = r.target /\ UNCHANGED <<scopes, envelopes>>
    BY <1>4 DEF EnvPush, Publish
  <2>2. CASE s \in snapshot.scopes
    BY <1>2, <2>1, <2>2
  <2>3. CASE s \notin snapshot.scopes
    <3>1. /\ envOps'[r.op].request = r
          /\ EnvEditOpen(r.op)'
          /\ EditedFrom(r.op)' = snapshot
      BY <1>4, EditingStep
    <3>2. r.op \in OpIds
      BY <1>4 DEF EnvRequest
    <3> QED
      BY <2>1, <2>3, <3>1, <3>2 DEF PublishedByEnvPush, EnvEditOpen
  <2> QED
    BY <2>2, <2>3
<1>5. CASE /\ snapshot'.scopes = snapshot.scopes /\ scopes' = scopes
           /\ \A n \in Scopes : envelopes[n] \subseteq envelopes'[n]
  BY <1>1, <1>2, <1>5
<1> QED
  BY <1>3, <1>4, <1>5, ScopeStep

\* Somebody holds the key of each published scope, however pushes, approvals
\* and redemptions overlap, but for the two ways buildNewScopeEnvelopesIfNeeded
\* misses a new one: an env push had published it, or a scope was dropped
\* before, so that the count of scopes did not grow.
THEOREM ScopesHaveKeys == Spec => []KeysUnlessMissed
<1>1. Init => Finite /\ ScopesKept /\ NewScopesComeWithKeys /\ KeysUnlessMissed
  <2> SUFFICES ASSUME Init
               PROVE  Finite /\ ScopesKept /\ NewScopesComeWithKeys /\ KeysUnlessMissed
    OBVIOUS
  <2>1. /\ snapshot.scopes = InitialScopes /\ scopes = InitialScopes /\ sent = {}
        /\ \A s \in InitialScopes : envelopes[s] = {Admin}
    BY InitialScopesAssumption DEF Init, CreateTeamSetup
  <2> QED
    BY <2>1, InitialScopesAssumption
    DEF Finite, ScopesKept, NewScopesComeWithKeys, KeysUnlessMissed, HasKey
<1>2. IInv /\ RecordedPast /\ Finite /\ ScopesKept /\ NewScopesComeWithKeys /\
        KeysUnlessMissed /\ [Next]_vars
        => Finite' /\ ScopesKept' /\ NewScopesComeWithKeys' /\ KeysUnlessMissed'
  BY ScopesKeptStep, NewScopesComeWithKeysStep, KeysStep
<1> QED
  BY <1>1, <1>2, Invariance, RecordedPastHolds, PTL DEF Spec
=============================================================================
