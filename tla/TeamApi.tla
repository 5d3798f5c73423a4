------------------------------ MODULE TeamApi ------------------------------
(***************************************************************************)
(* The API over one team's store.  A CLI reads the team's state and sends  *)
(* a signed request; a handler goroutine first verifies it, which reads    *)
(* the sender's member record, and in a later step calls the store.  Any   *)
(* number of other handlers run in between.  A sent request stays around:  *)
(* it can be delayed, and delivered again when the client retries it with  *)
(* a fresh nonce (the nonces are in ReplayGuard).                          *)
(***************************************************************************)
EXTENDS TeamStore

CONSTANTS
    Handlers,        \* requests the server works on at the same time
    Grants,          \* entries a manager may give a member
    InviteGrants,    \* entries invites carry
    InitialScopes,   \* the scopes the team is set up with
    RequestKinds,    \* which of the requests the clients use
    EditKinds,       \* which edits of propagate.yaml they make
    EnvTargets,      \* what an env push publishes: "none", "read" or "edited"
    MaxRequests,     \* bound on the requests composed
    MaxRevision      \* bound on the revisions that invites add

ASSUME GrantsAssumption == Grants \subseteq Grant /\ InviteGrants \subseteq Grant
ASSUME InitialScopesAssumption == InitialScopes \subseteq Scopes /\ IsFiniteSet(InitialScopes)

VARIABLES
    sent,       \* the requests clients have signed
    handler,    \* per handler, the request verified and the flag read with it
    answers     \* history: the successful answers clients were given

vars == <<revision, snapshot, members, scopes, access, envelopes, secrets,
          configOps, envOps, published, sent, handler, answers>>

Idle == None

ApproveRequest == [kind : {"approve"}, op : OpIds, key : Keys, joiner : Keys,
                   grant : Grants, recipients : Recipients]
DeclineRequest == [kind : {"decline"}, op : OpIds, key : Keys, joiner : Keys]
Request == ConfigRequest \cup EnvRequest \cup ApproveRequest \cup DeclineRequest

Verified == [request : Request, manages : BOOLEAN]

TypeOK ==
    /\ StoreTypeOK
    /\ sent \in SUBSET Request
    /\ handler \in [Handlers -> Verified \cup {Idle}]
    /\ answers \in SUBSET [request : Request, result : Nat]

Init ==
    /\ CreateTeamSetup(InitialScopes)
    /\ sent = {}
    /\ handler = [h \in Handlers |-> Idle]
    /\ answers = {}

-----------------------------------------------------------------------------
\* What people do to the propagate.yaml they pulled.  `scope create' gives
\* every listed manager write access in the new scope.
CreateScope(snap, s) ==
    [members |-> [k \in Keys |->
        IF snap.members[k] # None /\ snap.members[k].management
        THEN [snap.members[k] EXCEPT !.scopes[s] = "write"] ELSE snap.members[k]],
     scopes  |-> snap.scopes \cup {s}]

Edits(snap) ==
    {snap}
    \cup {e \in {WithMember(snap, k, g) : k \in Keys, g \in Grants} : "grant" \in EditKinds}
    \cup {e \in {[snap EXCEPT !.members[k] = None] : k \in Keys} : "drop_member" \in EditKinds}
    \cup {e \in {CreateScope(snap, s) : s \in Scopes \ snap.scopes} : "add_scope" \in EditKinds}
    \cup {e \in {[snap EXCEPT !.scopes = @ \ {s}] : s \in Scopes} : "drop_scope" \in EditKinds}

\* With `--approve-join' a config push also appends the joiner's entry.
Admissions(snap) == {WithMember(snap, k, g) : k \in Keys, g \in Grants \cup InviteGrants}
Targets(snap) == Edits(snap) \cup UNION {Admissions(e) : e \in Edits(snap)}

\* Mutant: the first added scope is taken for a known one.
MutNewScopeRecipients(target) ==
    IF Cardinality(target.scopes) <= Cardinality(scopes) + 1 THEN {}
    ELSE {sk \in (target.scopes \ snapshot.scopes) \X Listed(target) :
            PermissionAllows(target.members[sk[2]].scopes[sk[1]], "read")}

\* buildNewScopeEnvelopesIfNeeded: it compares the number of scopes in the
\* target with the number the server reported, and only then their names.
NewScopeRecipients(target) ==
    IF Cardinality(target.scopes) <= Cardinality(scopes) THEN {}
    ELSE {sk \in (target.scopes \ snapshot.scopes) \X Listed(target) :
            PermissionAllows(target.members[sk[2]].scopes[sk[1]], "read")}

NoDecisions == [k \in Keys |-> NoAccess]

\* Mutant: the request expects the revision it will make.
MutConfigPushOf(k, op, target, approved, declined, recipients) ==
    [kind |-> "config", op |-> op, key |-> k, expected |-> revision + 1,
     target |-> target, approved |-> approved, declined |-> declined,
     recipients |-> recipients \cup NewScopeRecipients(target)]

ConfigPushOf(k, op, target, approved, declined, recipients) ==
    [kind |-> "config", op |-> op, key |-> k, expected |-> revision,
     target |-> target, approved |-> approved, declined |-> declined,
     recipients |-> recipients \cup NewScopeRecipients(target)]

MayCompose(kind, k) ==
    /\ kind \in RequestKinds
    /\ Cardinality(sent) < MaxRequests
    /\ Active(k)

Send(r) == sent' = sent \cup {r} /\ UNCHANGED <<store, handler, answers>>

\* `config push', by a manager of the yaml it pushes, which has the current
\* cloud revision.
ComposeConfigPush(k, op) ==
    /\ MayCompose("config", k)
    /\ \E local \in Edits(snapshot) :
        /\ local.members[k] # None
        /\ local.members[k].management
        /\ \/ /\ local # snapshot
              /\ Send(ConfigPushOf(k, op, local, NoDecisions, {}, {}))
           \/ \E j \in Keys, g \in Grants :
                /\ "approve" \in RequestKinds
                /\ Requested(j, g)
                /\ HoldsKeys(k, g)
                /\ Send(ConfigPushOf(k, op, WithMember(local, j, g),
                          [NoDecisions EXCEPT ![j] = g.scopes], {}, JoinRecipients(g, j)))
           \/ \E j \in Keys :
                /\ "decline" \in RequestKinds
                /\ members[j].status = "pending"
                /\ Send(ConfigPushOf(k, op, local, NoDecisions, {j}, {}))

\* `env push' and `env set': values of a scope of the local propagate.yaml whose
\* key the sender holds, and that yaml with its unpushed edits; it is pushed
\* with no value too when only declarations of variables changed.  The API
\* also takes a push that has no snapshot, which the CLI does not send.
EnvSnapshots ==
    {t \in {None} : "none" \in EnvTargets}
    \cup {t \in {snapshot} : "read" \in EnvTargets}
    \cup {t \in Edits(snapshot) : "edited" \in EnvTargets}

ComposeEnvPush(k, op, s) ==
    /\ MayCompose("env", k)
    /\ HoldsKey(k, s)
    /\ \E target \in EnvSnapshots, changed \in SUBSET Vars :
       \E removed \in SUBSET {v \in Vars \ changed : Current(s, v) # 0} :
        /\ s \in (IF target = None THEN snapshot ELSE target).scopes
        /\ target = None => changed \cup removed # {}
        /\ Send([kind |-> "env", op |-> op, key |-> k, scope |-> s,
                 expected |-> revision, target |-> target,
                 upserts |-> changed, removals |-> removed,
                 seen |-> [v \in Vars |-> Current(s, v)]])

\* `team approve', after the manager listed the pending requests, and
\* `team decline', which is sent unseen.
ComposeApprove(k, op, j) ==
    /\ MayCompose("approve", k)
    /\ members[k].management
    /\ \E g \in Grants :
        /\ Requested(j, g)
        /\ HoldsKeys(k, g)
        /\ Send([kind |-> "approve", op |-> op, key |-> k, joiner |-> j,
                 grant |-> g, recipients |-> JoinRecipients(g, j)])

ComposeDecline(k, op, j) ==
    /\ MayCompose("decline", k)
    /\ Send([kind |-> "decline", op |-> op, key |-> k, joiner |-> j])

-----------------------------------------------------------------------------
\* verifyProtectedRequest: the sender is an active member now.
Verify(h, r) ==
    /\ handler[h] = Idle
    /\ r \in sent
    /\ Active(r.key)
    /\ handler' = [handler EXCEPT ![h] =
                    [request |-> r, manages |-> members[r.key].management]]
    /\ UNCHANGED <<store, sent, answers>>

Release(h) == handler' = [handler EXCEPT ![h] = Idle] /\ UNCHANGED sent
Answer(r, result) == answers' = answers \cup {[request |-> r, result |-> result]}
Working(h, kind) == handler[h] # Idle /\ handler[h].request.kind = kind

\* handleConfigPush and handleEnvPush, after the verification: the request is
\* applied, answered from the table of operations, or refused.
HandleConfigPush(h) ==
    /\ Working(h, "config")
    /\ Release(h)
    /\ LET r == handler[h].request
           manages == handler[h].manages
       IN  \/ PushConfig(r, manages) /\ Answer(r, revision + 1)
           \/ /\ PushConfigRepeats(r, manages)
              /\ Answer(r, configOps[r.op].result)
              /\ UNCHANGED store
           \/ /\ ~PushConfigAccepts(r, manages)
              /\ ~PushConfigRepeats(r, manages)
              /\ UNCHANGED <<store, answers>>

HandleEnvPush(h) ==
    /\ Working(h, "env")
    /\ Release(h)
    /\ LET r == handler[h].request
           manages == handler[h].manages
       IN  \/ EnvPush(r, manages) /\ Answer(r, envOps'[r.op].result)
           \/ /\ EnvPushRepeats(r, manages)
              /\ Answer(r, envOps[r.op].result)
              /\ UNCHANGED store
           \/ /\ ~EnvPushAccepts(r, manages)
              /\ ~EnvPushRepeats(r, manages)
              /\ UNCHANGED <<store, answers>>

\* handleJoinRequestApprove and handleJoinRequestDecline.
HandleApprove(h) ==
    /\ Working(h, "approve")
    /\ Release(h)
    /\ LET r == handler[h].request
       IN  \/ ApproveJoinRequest(r, handler[h].manages) /\ Answer(r, revision + 1)
           \/ /\ ~MayDecide(r.key, handler[h].manages, r.joiner)
              /\ UNCHANGED <<store, answers>>

HandleDecline(h) ==
    /\ Working(h, "decline")
    /\ Release(h)
    /\ UNCHANGED answers
    /\ LET r == handler[h].request
       IN  \/ DeclineJoinRequest(r, handler[h].manages)
           \/ /\ ~MayDecide(r.key, handler[h].manages, r.joiner)
              /\ UNCHANGED store

\* handleJoinRequestCreate: the request is signed with the joiner's own key,
\* there is no member record to verify it against.
HandleJoin(k) ==
    /\ "join" \in RequestKinds
    /\ \E management \in BOOLEAN : CreateJoinRequest(k, management)
    /\ UNCHANGED <<sent, handler, answers>>

\* handleInvitePINSubmit, as far as the team sees it (see TeamInvites): the
\* invite carried the keys of some scopes, of which somebody had the key.
RedeemInvite(k) ==
    /\ revision < MaxRevision
    /\ \E g \in InviteGrants :
       \E bundle \in SUBSET {s \in Scopes : envelopes[s] # {}} :
        /\ bundle # {}
        /\ AdmitByInvite(k, g, bundle \X {k})
    /\ UNCHANGED <<sent, handler, answers>>

Compose(k, op) ==
    \/ ComposeConfigPush(k, op)
    \/ \E s \in Scopes : ComposeEnvPush(k, op, s)
    \/ \E j \in Keys : ComposeApprove(k, op, j)
    \/ \E j \in Keys : ComposeDecline(k, op, j)

Handle(h) ==
    \/ \E r \in sent : Verify(h, r)
    \/ HandleConfigPush(h)
    \/ HandleEnvPush(h)
    \/ HandleApprove(h)
    \/ HandleDecline(h)

Next ==
    \/ \E k \in Keys, op \in OpIds : Compose(k, op)
    \/ \E h \in Handlers : Handle(h)
    \/ \E k \in Keys : HandleJoin(k) \/ RedeemInvite(k)

Spec == Init /\ [][Next]_vars

-----------------------------------------------------------------------------
\* The revision a request expects names the config its sender edited: the
\* server's snapshot is the last of the log, numbered by the revision, and a
\* request's target is an edit of the entry that `expected' points at.
\* (memory.go PushConfig, EnvPush and the two ways to admit a member.)
RevisionNamesSnapshot ==
    /\ Len(published) = revision
    /\ published[revision] = snapshot
    /\ \A r \in sent :
        r.kind \in {"config", "env"} =>
            /\ r.expected \in 1 .. revision
            /\ r.target = None \/ r.target \in Targets(published[r.expected])

\* A member record read by a handler is still right while the request it
\* verified can be accepted: its sender stays active, and either the revision
\* has moved past the one expected or the management flag is unchanged.
VerifiedIsCurrent ==
    \A h \in Handlers :
        handler[h] # Idle =>
            LET r == handler[h].request
            IN  /\ r \in sent
                /\ Active(r.key)
                /\ r.kind \in {"config", "env"} /\ r.expected = revision
                    => handler[h].manages = members[r.key].management

\* A config push takes effect only if its sender is an active manager at that
\* very step, and an env push only if its sender may write the scope then,
\* although the store judges by a member record read earlier: any change of
\* that record moves the revision the request has to match.
PushedWithAuthority ==
    \A op \in OpIds :
        /\ configOps[op] = None /\ configOps'[op] # None =>
            LET k == configOps'[op].request.key
            IN  Active(k) /\ members[k].management
        /\ envOps[op] = None /\ envOps'[op] # None =>
            LET r == envOps'[op].request
            IN  Allowed(r.key, members[r.key].management, r.scope, "write")

AcceptedByCurrentAuthority == [][PushedWithAuthority]_vars

\* However often a push is delivered and whatever else reuses its operation
\* id, all the successes told to clients under one id are of one payload and
\* one result (configOps and envOps lookups).
OneAnswerPerOperation ==
    \A a, b \in answers :
        /\ a.request.kind = b.request.kind
        /\ a.request.kind \in {"config", "env"}
        /\ a.request.op = b.request.op
        => a = b

\* Every value pushed is stored exactly once: an accepted env push wrote one
\* version of each variable it named and nothing else, retries included.
EnvPushStoredOnce ==
    \A op \in OpIds, s \in Scopes, v \in Vars :
        Cardinality({n \in DOMAIN secrets[s][v].versions : secrets[s][v].versions[n] = op})
            = IF /\ envOps[op] # None
                 /\ envOps[op].request.scope = s
                 /\ v \in envOps[op].request.upserts
              THEN 1 ELSE 0

\* A value is replaced or removed only by somebody who saw it: at the step
\* that applies an env push, each variable it changes has the version the
\* sender read.  The one exception is a variable the sender took for new and
\* that a push publishing no revision has created since (EnvPush takes an
\* empty expectation as "any", and only the revision check protects it).
NoBlindOverwrite ==
    [][\A op \in OpIds :
        envOps[op] = None /\ envOps'[op] # None =>
            LET r == envOps'[op].request
                versions(v) == secrets[r.scope][v].versions
                writer(v) == envOps[versions(v)[Len(versions(v))]].request
            IN  \A v \in r.upserts \cup r.removals :
                    \/ r.seen[v] = Current(r.scope, v)
                    \/ r.seen[v] = 0 /\ writer(v).target = None]_vars

\* What the server enforces for a listed member is the entry: the member is
\* active with the listed management flag, and has the listed permission in
\* each scope the server knows.
Enforced(k) ==
    LET entry == snapshot.members[k]
    IN  /\ Active(k)
        /\ members[k].management = entry.management
        /\ \A s \in scopes : entry.scopes[s] # Unset => access[s][k] = entry.scopes[s]

\* An env push that published an edit, of which no config push came after.
EnvEdit(op) == envOps[op] # None /\ envOps[op].request.target # None
EnvEditOpen(op) ==
    /\ EnvEdit(op)
    /\ \A o \in OpIds : configOps[o] # None => configOps[o].result < envOps[op].result
EditedFrom(op) == published[envOps[op].request.expected]

\* What the published snapshot grants is what the server enforces, entry by
\* entry, through config pushes, approvals, declines and invites.  The one
\* exception is an entry an env push edited, until a config push: EnvPush
\* publishes the sender's unpushed edits and derives nothing from them.
EnforcedUnlessEdited ==
    \A k \in Listed(snapshot) :
        \/ Enforced(k)
        \/ \E op \in OpIds :
            /\ EnvEditOpen(op)
            /\ envOps[op].request.target.members[k] # EditedFrom(op).members[k]

\* The requests of the clients, applied, are a log of edits (ConfigRevisions).
Applied == {<<"config", op>> : op \in {o \in OpIds : configOps[o] # None}}
           \cup {<<"env", op>> : op \in {o \in OpIds : envOps[o] # None}}

Log == INSTANCE ConfigRevisions
         WITH log <- published, done <- Applied,
              Operations <- {"config", "env"} \X OpIds,
              Edits <- Targets, Admissions <- Admissions

\* Nobody's revision is lost: each one is an edit of the one right before it,
\* and no operation is applied twice.
ImplementsRevisionLog == Log!Spec

\* A scope the server knows, of which somebody has the key.  Without one
\* nobody can ever read or write a value in it.
HasKey(s) == s \in scopes /\ envelopes[s] # {}

\* Revision n dropped a scope, or added s.
Drops(n) == ~ published[n - 1].scopes \subseteq published[n].scopes
Adds(n, s) == s \in published[n].scopes \ published[n - 1].scopes

\* The requirements' "When publishing a new scope, `propagate config push' must
\* create a fresh scope key and upload encrypted scope key envelopes", as far as
\* the code does.  There are two ways to a scope without a key: an env push
\* published it before any config push did, and so the next one does not take
\* it for new; or it was added once a scope had been dropped, when the
\* comparison of counts in buildNewScopeEnvelopesIfNeeded may miss it.
KeysUnlessMissed ==
    \A s \in snapshot.scopes :
        \/ HasKey(s)
        \/ \E op \in OpIds :
            EnvEdit(op) /\ s \in envOps[op].request.target.scopes \ EditedFrom(op).scopes
        \/ \E n \in 2 .. Len(published) :
            Adds(n, s) /\ \E m \in 2 .. n : Drops(m)
=============================================================================
