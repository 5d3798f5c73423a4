------------------------------ MODULE SqlStore ------------------------------
(***************************************************************************)
(* The SQLStore of one team: what TeamStore's methods are as transactions  *)
(* on Postgres.  They run READ COMMITTED: a statement sees what has been   *)
(* committed when it starts, and waits only for rows, and keys of unique   *)
(* indexes, that another transaction has written.  So the guards of a      *)
(* method are evaluated at different times, and most of them under no      *)
(* lock.  The context of a transaction is its HTTP request's: it is rolled *)
(* back wherever it is when the client goes away.                          *)
(***************************************************************************)
EXTENDS Naturals, Sequences, FiniteSets

CONSTANTS
    Managers,      \* who has authority in the first config
    Joiner,        \* who may be let in
    Operations,    \* operation ids
    Sessions,      \* handlers, each with a transaction at a time
    None,
    MaxRequests,   \* bound on the requests clients make
    MaxRevision    \* bound on the revisions they expect

ASSUME PeopleAssumption == Joiner \notin Managers

People == Managers \cup {Joiner}

ASSUME NoneAssumption == None \notin Operations

VARIABLES
    current,         \* teams.current_config_revision
    revisions,       \* the rows of team_config_revisions
    access,          \* who has authority: members.management, scope_access_rules
    versions,        \* of the team's variable, the rows of secret_versions
    envOperations,   \* the rows of env_push_operations
    joiner,          \* the status of the joiner's row in members
    invite,          \* the status of the invite
    sent,            \* requests, which may be delivered any number of times
    tx               \* per session, its transaction

tables == <<current, revisions, access, versions, envOperations, joiner, invite>>
vars == <<tables, sent, tx>>

\* A config is the people it gives authority to, to push and to manage; it
\* lists the members who have none too.  A request's fingerprint is the
\* request.  Config and env pushes have the revision they expect, env
\* pushes the version they replace (0 for a variable they take for new), and
\* a snapshot only if they publish (else `config' is just what was read).
Requests ==
    [kind : {"config"}, operation : Operations, sender : People,
     expected : Nat, config : SUBSET People]
    \cup [kind : {"env"}, operation : Operations, sender : People,
          expected : Nat, config : SUBSET People, version : Nat, publishes : BOOLEAN]
    \cup [kind : {"approve"}, operation : Operations, sender : People, scoped : BOOLEAN]
    \cup [kind : {"redeem"}, operation : Operations, sender : {Joiner}, bundle : BOOLEAN]

\* The fingerprint of an admission, and the operation of setup, is null.
Revisions == [number : Nat, config : SUBSET People,
              operation : Operations \cup {None}, fingerprint : Requests \cup {None}]

\* Rows and index keys that transactions wait for each other on.  A foreign
\* key takes a share of the team's row, which only "for update" excludes.
Team == <<"team", "row">>
TeamForUpdate == <<"team", "for update">>
TeamShare == <<"team", "share">>
JoinerRow == <<"member", "row">>
InviteRow == <<"invite", "row">>
VariableRow == <<"variable", "row">>

Rows == {Team, TeamForUpdate, TeamShare, JoinerRow, InviteRow, VariableRow}
        \cup {"revision"} \X Nat
        \cup {"operation"} \X Operations

\* Named for the statement that is next.  The last ones, the update of teams
\* and inserts nobody waits for, go with the commit.
Steps == {"begin", "lock team", "apply", "read team", "permission", "versions",
          "upsert", "member", "append", "revision", "commit"}

Transactions == [request : Requests, step : Steps, holds : SUBSET Rows,
                 number : Nat, config : SUBSET People]

ASSUME NoValueAssumption == None \notin Requests /\ None \notin Transactions

\* The row a config push has locked stays locked until its transaction ends.
KeepsTeamLocked(t) ==
    t.request.kind = "config" /\ t.step \in {"apply", "revision", "commit"}
        => {Team, TeamForUpdate} \subseteq t.holds

\* The tables and transactions have their types, and locks last (SQLStore's
\* use of one sql.Tx per method).
SqlTypeOK ==
    /\ current \in Nat \ {0}
    /\ revisions \subseteq Revisions
    /\ access \subseteq People
    /\ versions \in Seq([operation : Operations, expected : Nat, published : BOOLEAN])
    /\ envOperations \subseteq [operation : Operations, fingerprint : Requests]
    /\ joiner \in {"none", "pending", "active", "declined"}
    /\ invite \in {"active", "redeemed", "revoked"}
    /\ sent \subseteq Requests
    /\ tx \in [Sessions -> Transactions \cup {None}]
    /\ \A s \in Sessions : tx[s] # None => KeepsTeamLocked(tx[s])

ConfigOf(n) == (CHOOSE row \in revisions : row.number = n).config

\* What a client makes of a config: it changes nothing, or one person.
Edits(config) == {config} \cup {(config \ {p}) \cup ({p} \ config) : p \in People}

Init ==
    /\ current = 1
    /\ revisions = {[number |-> 1, config |-> Managers, operation |-> None,
                     fingerprint |-> None]}
    /\ access = Managers
    /\ versions = <<>>
    /\ envOperations = {}
    /\ joiner = "none"
    /\ invite = "active"
    /\ sent = {}
    /\ tx = [s \in Sessions |-> None]

-----------------------------------------------------------------------------
(* Clients.                                                                *)

Send(request) ==
    /\ Cardinality(sent) < MaxRequests
    /\ sent' = sent \cup {request}
    /\ UNCHANGED <<tables, tx>>

SendConfigPush(p, op) ==
    /\ current < MaxRevision
    /\ \E config \in Edits(ConfigOf(current)) :
        Send([kind |-> "config", operation |-> op, sender |-> p,
              expected |-> current, config |-> config])

\* An env push carries the local config, its unpushed edits included.
SendEnvPush(p, op) ==
    /\ current < MaxRevision
    /\ \E publishes \in BOOLEAN, config \in Edits(ConfigOf(current)) :
        /\ publishes \/ config = ConfigOf(current)
        /\ Send([kind |-> "env", operation |-> op, sender |-> p,
                 expected |-> current, config |-> config,
                 version |-> Len(versions), publishes |-> publishes])

SendApproval(p, op) ==
    /\ joiner = "pending"
    /\ \E scoped \in BOOLEAN :
        Send([kind |-> "approve", operation |-> op, sender |-> p, scoped |-> scoped])

SendRedemption(op) ==
    /\ invite = "active"
    /\ \E bundle \in BOOLEAN :
        Send([kind |-> "redeem", operation |-> op, sender |-> Joiner, bundle |-> bundle])

Compose(p, op) ==
    \/ p \in access /\ (SendConfigPush(p, op) \/ SendEnvPush(p, op) \/ SendApproval(p, op))
    \/ p = Joiner /\ SendRedemption(op)

-----------------------------------------------------------------------------
(* Transactions.                                                           *)

\* The rows and keys the next statements write or lock.
Wants(s) ==
    LET t == tx[s]
    IN  CASE t.step = "lock team" -> {Team, TeamForUpdate}
          [] t.step = "apply" -> IF Joiner \in t.config \cup access THEN {JoinerRow} ELSE {}
          [] t.step = "upsert" -> {VariableRow}
          [] t.step = "commit" /\ t.number > 0 -> {Team}
          [] t.step = "commit" /\ t.number = 0 /\ t.request.kind = "env" -> {TeamShare}
          [] t.step = "member" -> {JoinerRow, TeamShare}
          [] t.step = "begin" /\ t.request.kind = "approve" -> {JoinerRow}
          [] t.step = "begin" /\ t.request.kind = "redeem" -> {InviteRow}
          [] t.step = "revision" ->
                {<<"revision", t.number>>, <<"operation", t.request.operation>>}
          [] OTHER -> {}

Excludes(a, b) ==
    \/ a = b /\ a # TeamShare
    \/ {a, b} \in {{TeamShare, TeamForUpdate}, {Team, TeamForUpdate}}

Holds(t, row) == tx[t] # None /\ \E held \in tx[t].holds : Excludes(row, held)

WaitsFor(s, t) == s # t /\ tx[s] # None /\ \E row \in Wants(s) : Holds(t, row)

\* The statement runs: no other transaction has what it wants.
At(s, kinds, step) ==
    /\ tx[s] # None
    /\ tx[s].request.kind \in kinds
    /\ tx[s].step = step
    /\ \A t \in Sessions : ~WaitsFor(s, t)

Locked(row) == \E t \in Sessions : Holds(t, row)

\* Mutant: a statement is run on the database, not in the transaction.
MutProceed(s, step) ==
    /\ tx' = [tx EXCEPT ![s].step = step, ![s].holds = Wants(s)]
    /\ UNCHANGED <<tables, sent>>

Proceed(s, step) ==
    /\ tx' = [tx EXCEPT ![s].step = step, ![s].holds = @ \cup Wants(s)]
    /\ UNCHANGED <<tables, sent>>

\* Mutant: a method returns early and leaves its transaction open.
MutRollback(s) == UNCHANGED tx

\* The end of a transaction, committed or not (defer tx.Rollback()).
Rollback(s) == tx' = [tx EXCEPT ![s] = None]

Refuse(s) == Rollback(s) /\ UNCHANGED <<tables, sent>>

\* Verification finds the sender active, and a manager; it reads the record
\* before the transaction begins.  (A redemption is verified by its PIN.)
Deliver(s, request) ==
    /\ tx[s] = None
    /\ request.kind # "redeem" => request.sender \in access
    /\ tx' = [tx EXCEPT ![s] = [request |-> request, step |-> "begin", holds |-> {},
                                number |-> 0, config |-> {}]]
    /\ UNCHANGED <<tables, sent>>

-----------------------------------------------------------------------------
\* PushConfig.  A retry is looked up before the team is locked.
LookUpConfigPush(s) ==
    /\ At(s, {"config"}, "begin")
    /\ LET repeats == \E row \in revisions : row.operation = tx[s].request.operation
       IN  IF repeats THEN Refuse(s) ELSE Proceed(s, "lock team")

\* Mutant: the revision is not compared.
MutLockTeam(s) ==
    /\ At(s, {"config"}, "lock team")
    /\ tx' = [tx EXCEPT ![s].step = "apply", ![s].holds = Wants(s),
                        ![s].number = current + 1,
                        ![s].config = tx[s].request.config]
    /\ UNCHANGED <<tables, sent>>

\* select ... for update, and the comparison of revisions.
LockTeam(s) ==
    /\ At(s, {"config"}, "lock team")
    /\ IF current = tx[s].request.expected
       THEN /\ tx' = [tx EXCEPT ![s].step = "apply", ![s].holds = Wants(s),
                                ![s].number = current + 1,
                                ![s].config = tx[s].request.config]
            /\ UNCHANGED <<tables, sent>>
       ELSE Refuse(s)

\* applyConfigSnapshotSQL writes the row of every member it lists.
ApplySnapshot(s) == At(s, {"config"}, "apply") /\ Proceed(s, "revision")

-----------------------------------------------------------------------------
\* EnvPush: requireScopePermission reads the revision and then the permission,
\* envPushConflictsSQL the version, and no row is locked.
LookUpEnvPush(s) ==
    /\ At(s, {"env"}, "begin")
    /\ LET repeats == \E row \in envOperations : row.operation = tx[s].request.operation
       IN  IF repeats THEN Refuse(s) ELSE Proceed(s, "read team")

ReadTeam(s) ==
    /\ At(s, {"env"}, "read team")
    /\ IF current = tx[s].request.expected THEN Proceed(s, "permission") ELSE Refuse(s)

CheckPermission(s) ==
    /\ At(s, {"env"}, "permission")
    /\ IF tx[s].request.sender \in access THEN Proceed(s, "versions") ELSE Refuse(s)

CheckVersion(s) ==
    /\ At(s, {"env"}, "versions")
    /\ IF tx[s].request.version \in {0, Len(versions)} THEN Proceed(s, "upsert") ELSE Refuse(s)

\* upsertSQL has the variable's row from here on; an operation writes a
\* variable once.
Upsert(s) ==
    /\ At(s, {"env"}, "upsert")
    /\ LET request == tx[s].request
       IN  IF \E i \in DOMAIN versions : versions[i].operation = request.operation
           THEN Refuse(s)
           ELSE /\ tx' = [tx EXCEPT ![s].step = IF request.publishes THEN "revision" ELSE "commit",
                                    ![s].holds = Wants(s),
                                    ![s].number = IF request.publishes THEN request.expected + 1 ELSE 0,
                                    ![s].config = request.config]
                /\ UNCHANGED <<tables, sent>>

-----------------------------------------------------------------------------
\* ApproveJoinRequest locks a pending row.  Its inserts of access rules and
\* envelopes name columns and constraints the schema does not have.
LockPending(s) ==
    /\ At(s, {"approve"}, "begin")
    /\ IF joiner = "pending" /\ ~tx[s].request.scoped THEN Proceed(s, "append") ELSE Refuse(s)

\* Mutant: select without for update.
MutLockInvite(s) ==
    /\ At(s, {"redeem"}, "begin")
    /\ IF invite = "active"
       THEN /\ tx' = [tx EXCEPT ![s].step = IF tx[s].request.bundle THEN "member" ELSE "commit"]
            /\ UNCHANGED <<tables, sent>>
       ELSE Refuse(s)

\* SubmitInvitePIN locks the invite, and lets in only with envelopes.
LockInvite(s) ==
    /\ At(s, {"redeem"}, "begin")
    /\ IF invite = "active"
       THEN Proceed(s, IF tx[s].request.bundle THEN "member" ELSE "commit")
       ELSE Refuse(s)

UpsertMember(s) == At(s, {"redeem"}, "member") /\ Proceed(s, "append")

\* appendMemberToConfigSnapshot reads the team and its config without a lock.
ReadConfig(s) ==
    /\ At(s, {"approve", "redeem"}, "append")
    /\ tx' = [tx EXCEPT ![s].step = "revision", ![s].number = current + 1,
                        ![s].config = ConfigOf(current) \cup {Joiner}]
    /\ UNCHANGED <<tables, sent>>

-----------------------------------------------------------------------------
\* Mutant: no unique index on the revision.
MutViolates(number, op) == \E row \in revisions : row.operation = op

\* A row with one of these keys is there.
Violates(number, op) ==
    \E row \in revisions : row.number = number \/ row.operation = op

InsertRevision(s) ==
    /\ At(s, {"config", "env", "approve", "redeem"}, "revision")
    /\ IF Violates(tx[s].number, tx[s].request.operation)
       THEN Refuse(s)
       ELSE Proceed(s, "commit")

\* The row that was inserted, and the update of teams.
Publish(s, fingerprint) ==
    /\ current' = tx[s].number
    /\ revisions' = revisions \cup
         {[number |-> tx[s].number, config |-> tx[s].config,
           operation |-> tx[s].request.operation, fingerprint |-> fingerprint]}

CommitConfigPush(s) ==
    /\ At(s, {"config"}, "commit")
    /\ Publish(s, tx[s].request)
    /\ access' = tx[s].config
    /\ joiner' = IF Joiner \in tx[s].config THEN "active" ELSE joiner
    /\ Rollback(s)
    /\ UNCHANGED <<versions, envOperations, invite, sent>>

\* The last insert, into env_push_operations, fails for a copy.  The config is
\* published as it is: no access rule is written.
CommitEnvPush(s) ==
    /\ At(s, {"env"}, "commit")
    /\ LET request == tx[s].request
       IN  IF \E row \in envOperations : row.operation = request.operation
           THEN Refuse(s)
           ELSE /\ versions' = Append(versions, [operation |-> request.operation,
                                                 expected |-> request.version,
                                                 published |-> request.publishes])
                /\ envOperations' = envOperations \cup
                     {[operation |-> request.operation, fingerprint |-> request]}
                /\ IF request.publishes
                   THEN Publish(s, request)
                   ELSE UNCHANGED <<current, revisions>>
                /\ Rollback(s)
                /\ UNCHANGED <<access, joiner, invite, sent>>

LetIn(s) ==
    /\ Publish(s, None)
    /\ access' = access \cup {Joiner}
    /\ joiner' = "active"

CommitApproval(s) ==
    /\ At(s, {"approve"}, "commit")
    /\ LetIn(s)
    /\ Rollback(s)
    /\ UNCHANGED <<versions, envOperations, invite, sent>>

CommitRedemption(s) ==
    /\ At(s, {"redeem"}, "commit")
    /\ invite' = "redeemed"
    /\ IF tx[s].request.bundle
       THEN LetIn(s)
       ELSE UNCHANGED <<current, revisions, access, joiner>>
    /\ Rollback(s)
    /\ UNCHANGED <<versions, envOperations, sent>>

Step(s) ==
    \/ LookUpConfigPush(s)
    \/ LockTeam(s)
    \/ ApplySnapshot(s)
    \/ LookUpEnvPush(s)
    \/ ReadTeam(s)
    \/ CheckPermission(s)
    \/ CheckVersion(s)
    \/ Upsert(s)
    \/ LockPending(s)
    \/ LockInvite(s)
    \/ UpsertMember(s)
    \/ ReadConfig(s)
    \/ InsertRevision(s)
    \/ CommitConfigPush(s)
    \/ CommitEnvPush(s)
    \/ CommitApproval(s)
    \/ CommitRedemption(s)

\* The client goes away, or the connection to the database does.
Cancel(s) == tx[s] # None /\ Refuse(s)

\* Postgres ends one of the transactions that wait for each other.
BreakDeadlock(s) ==
    /\ \E circle \in SUBSET Sessions :
        /\ s \in circle
        /\ \A t \in circle : \E u \in circle : WaitsFor(t, u)
    /\ Refuse(s)

-----------------------------------------------------------------------------
(* Methods of one statement: it waits for the row as the others do.        *)

CreateJoinRequest ==
    /\ joiner = "none" /\ ~Locked(JoinerRow) /\ ~Locked(TeamShare)
    /\ joiner' = "pending"
    /\ UNCHANGED <<current, revisions, access, versions, envOperations, invite, sent, tx>>

DeclineJoinRequest ==
    /\ joiner = "pending" /\ ~Locked(JoinerRow)
    /\ joiner' = "declined"
    /\ UNCHANGED <<current, revisions, access, versions, envOperations, invite, sent, tx>>

RevokeTeamInvite ==
    /\ invite = "active" /\ ~Locked(InviteRow)
    /\ invite' = "revoked"
    /\ UNCHANGED <<current, revisions, access, versions, envOperations, joiner, sent, tx>>

Next ==
    \/ \E p \in People, op \in Operations : Compose(p, op)
    \/ \E s \in Sessions :
        \/ \E request \in sent : Deliver(s, request)
        \/ Step(s)
        \/ Cancel(s)
        \/ BreakDeadlock(s)
    \/ CreateJoinRequest
    \/ DeclineJoinRequest
    \/ RevokeTeamInvite

\* Postgres grants a row to those who wait for it in turn, and looks for
\* deadlocks: whoever is not kept waiting forever goes on, or is ended.
Fairness == \A s \in Sessions : SF_vars(Step(s) \/ BreakDeadlock(s))

Spec == Init /\ [][Next]_vars
FairSpec == Spec /\ Fairness
-----------------------------------------------------------------------------
\* What the server makes of a config when it lets the joiner in.
Admissions(config) == {config \cup {Joiner}}

\* What the store promises is the log of ConfigRevisions: a revision is an
\* edit of the one before it, or adds a member to it, and no operation is
\* applied twice, though methods check revisions and operations before they
\* hold what they would need to hold (PushConfig, EnvPush,
\* appendMemberToConfigSnapshot).
RevisionLog == INSTANCE ConfigRevisions WITH
    Operations <- {"config", "env"} \X Operations,
    log <- [n \in 1 .. current |-> ConfigOf(n)],
    done <- {<<row.fingerprint.kind, row.operation>> : row \in
                {r \in revisions : r.fingerprint # None}}
            \cup {<<"env", row.operation>> : row \in envOperations}

ImplementsLog == RevisionLog!Spec

\* A push of values that published an edit of somebody's authority, which no
\* push of a config has put into force since.
Pushed(row, kind) == row.fingerprint # None /\ row.fingerprint.kind = kind

EditLeftOpen(row, p) ==
    /\ Pushed(row, "env")
    /\ (p \in row.config) # (p \in ConfigOf(row.number - 1))
    /\ \A later \in revisions : later.number > row.number => ~Pushed(later, "config")

\* The access rules in force are the published ones, person by person, though
\* pushes write the rules, and admissions add to them, in transactions that
\* read the config without a lock.  The one exception is whom a push of
\* values edited, until a push of a config: EnvPush publishes the sender's
\* local config, and writes none of the rules it lists.
PublishedUnlessEdited ==
    \A p \in People :
        \/ (p \in access) = (p \in ConfigOf(current))
        \/ \E row \in revisions : EditLeftOpen(row, p)

\* A push that publishes has seen every value it replaces that came with a
\* published config: what envPushConflictsSQL compares without a lock, the
\* unique revision makes up for.
PublishersSeeEachOther ==
    \A i, j \in DOMAIN versions :
        versions[i].published /\ versions[j].published /\ j < i
            => j <= versions[i].expected

\* A config or a push of values with a config is published only by somebody
\* who has authority at that moment, though verification and
\* requireScopePermission looked it up earlier.
CommittedUnderAuthority ==
    [][\A row \in revisions' \ revisions :
        row.fingerprint # None => row.fingerprint.sender \in access]_vars

\* Nobody is let in by an invite that was revoked or used meanwhile, nor by
\* the approval of a request that was declined meanwhile (SubmitInvitePIN,
\* ApproveJoinRequest against RevokeTeamInvite, DeclineJoinRequest).
AdmissionsStillPending ==
    [][\A s \in Sessions :
        /\ CommitRedemption(s) => invite = "active"
        /\ CommitApproval(s) => joiner = "pending"]_vars

\* Every method returns, and gives up its locks: whatever it waits for is
\* given up in the end, or Postgres sees the deadlock.
HandlersEnd == \A s \in Sessions : []<>(tx[s] = None)
=============================================================================
