--------------------------- MODULE SqlStoreProofs ---------------------------
(***************************************************************************)
(* Theorems about SqlStore for any people, operations and sessions: that   *)
(* the transactions implement the revision log, keep the access rules with *)
(* the published config, and commit under authority that is current,       *)
(* though most of what they check they read under no lock.  The invariant  *)
(* behind all of them: whoever is about to commit revision n holds its key *)
(* in the unique index, so that nobody else is, and n is the next one.     *)
(* The last section is about ReplayGuard, the same database's nonces.      *)
(***************************************************************************)
EXTENDS SqlStore, ReplayGuard, TLAPS

-----------------------------------------------------------------------------
(* The inductive invariant, part by part.                                  *)

\* The revisions are 1 to the current one, each there once; the first one no
\* push made.
RevisionsNumbered ==
    /\ \A row \in revisions : row.number \in 1 .. current
    /\ \A n \in 1 .. current : \E row \in revisions : row.number = n
    /\ \A a, b \in revisions : a.number = b.number => a = b
    /\ \A row \in revisions : row.fingerprint # None => row.number > 1

\* A push is an edit of the revision it expects; while that is the current
\* one, its sender has authority.
SentAgainstRevision ==
    \A r \in sent :
        r.kind \in {"config", "env"} =>
            /\ r.expected \in 1 .. current
            /\ r.expected = current => r.sender \in access
            /\ r.config \in Edits(ConfigOf(r.expected))

\* While no revision was added, its sender has seen all published values.
SentHavingSeen ==
    \A r \in sent :
        r.kind = "env" /\ r.expected = current =>
            \A j \in DOMAIN versions : versions[j].published => j <= r.version

\* Two transactions hold nothing that excludes each other.
LocksExclude ==
    \A s, t \in Sessions :
        s # t /\ tx[s] # None /\ tx[t] # None =>
            \A a \in tx[s].holds, b \in tx[t].holds : ~Excludes(a, b)

\* Whether a transaction adds a revision.
Publishes(t) ==
    /\ t.request.kind = "env" => t.request.publishes
    /\ t.request.kind = "redeem" => t.request.bundle

\* The number of a revision to be is one that can follow, and its config is
\* made from the one before it.
Numbered(t) ==
    /\ t.step = "begin" => t.number = 0
    /\ t.step \in {"apply", "revision"} => t.number > 0
    /\ t.step \in {"member", "append", "revision"} => Publishes(t)
    /\ t.step = "commit" => (t.number > 0 <=> Publishes(t))
    /\ t.number > 0 =>
        /\ t.number - 1 \in 1 .. current
        /\ t.request.kind \in {"config", "env"} =>
             t.number = t.request.expected + 1 /\ t.config = t.request.config
        /\ t.request.kind \in {"approve", "redeem"} =>
             t.config = ConfigOf(t.number - 1) \cup {Joiner}

\* A row that is inserted has the next number, and keeps others from it.
HasNext(t) ==
    t.step = "commit" /\ t.number > 0 =>
        /\ <<"revision", t.number>> \in t.holds
        /\ t.number = current + 1
        /\ \A row \in revisions : row.operation # t.request.operation

\* Who writes the joiner's row has locked it, and found it pending to approve it.
HasJoiner(t) ==
    /\ t.request.kind = "config" /\ t.step \in {"revision", "commit"} /\ Joiner \in t.config
        => JoinerRow \in t.holds
    /\ t.request.kind = "approve" /\ t.step # "begin" =>
        JoinerRow \in t.holds /\ joiner = "pending"
    /\ t.request.kind = "redeem" /\ t.step \in {"append", "revision", "commit"}
        /\ (t.step = "commit" => t.request.bundle) => JoinerRow \in t.holds

\* Who redeems the invite has locked it, and found it active.
HasInvite(t) ==
    t.request.kind = "redeem" /\ t.step # "begin" => InviteRow \in t.holds /\ invite = "active"

InOrder(t) ==
    t.request \in sent /\ Numbered(t) /\ HasNext(t) /\ HasJoiner(t) /\ HasInvite(t)

TransactionsInOrder == \A s \in Sessions : tx[s] # None => InOrder(tx[s])

SqlInv ==
    /\ SqlTypeOK
    /\ RevisionsNumbered
    /\ PublishedUnlessEdited
    /\ SentAgainstRevision
    /\ SentHavingSeen
    /\ LocksExclude
    /\ TransactionsInOrder

-----------------------------------------------------------------------------
(* Requests, revisions and rows.                                           *)

\* The kind of a request tells its fields.
LEMMA RequestFields ==
    ASSUME NEW r \in Requests
    PROVE  /\ r.kind \in {"config", "env", "approve", "redeem"}
           /\ r.operation \in Operations
           /\ r.kind \in {"config", "env"} =>
                r.sender \in People /\ r.expected \in Nat /\ r.config \in SUBSET People
           /\ r.kind = "env" => r.version \in Nat /\ r.publishes \in BOOLEAN
           /\ r.kind = "redeem" => r.bundle \in BOOLEAN
           /\ r.kind = "approve" => r.scoped \in BOOLEAN
BY DEF Requests

\* The config of a revision is that of its row, and a config.
LEMMA ConfigOfRow ==
    ASSUME RevisionsNumbered, NEW row \in revisions
    PROVE  ConfigOf(row.number) = row.config
<1>1. (CHOOSE x \in revisions : x.number = row.number) = row
  BY DEF RevisionsNumbered
<1> QED
  BY <1>1 DEF ConfigOf

LEMMA ConfigOfType ==
    ASSUME SqlTypeOK, RevisionsNumbered, NEW n \in 1 .. current
    PROVE  ConfigOf(n) \in SUBSET People
<1>1. PICK row \in revisions : row.number = n
  BY DEF RevisionsNumbered
<1>2. row.config \in SUBSET People
  BY DEF SqlTypeOK, Revisions
<1> QED
  BY <1>1, <1>2, ConfigOfRow

\* What was published and who has access is untouched.
LEMMA AccessUntouched ==
    ASSUME PublishedUnlessEdited, UNCHANGED <<current, revisions, access>>
    PROVE  PublishedUnlessEdited'
<1>1. \A n : ConfigOf(n)' = ConfigOf(n)
  BY DEF ConfigOf
<1>2. ConfigOf(current)' = ConfigOf(current)
  BY DEF ConfigOf
<1>3. ASSUME NEW row \in revisions, NEW p, EditLeftOpen(row, p)
      PROVE  EditLeftOpen(row, p)'
  BY <1>1, <1>3 DEF EditLeftOpen, Pushed
<1> QED
  BY <1>2, <1>3 DEF PublishedUnlessEdited

\* A client's edit of a config is a config, and leaving it alone is one.
LEMMA EditsType ==
    ASSUME NEW config \in SUBSET People
    PROVE  Edits(config) \subseteq SUBSET People /\ config \in Edits(config)
BY DEF Edits

\* A transaction is one.
LEMMA Transaction ==
    ASSUME SqlTypeOK, NEW s \in Sessions, tx[s] # None
    PROVE  /\ tx[s] \in Transactions
           /\ tx[s].request \in Requests /\ tx[s].step \in Steps
           /\ tx[s].holds \in SUBSET Rows /\ tx[s].number \in Nat
           /\ tx[s].config \in SUBSET People
           /\ KeepsTeamLocked(tx[s])
<1>1. tx[s] \in Transactions /\ KeepsTeamLocked(tx[s])
  BY DEF SqlTypeOK
<1> QED
  BY <1>1 DEF Transactions

LEMMA WantsType ==
    ASSUME SqlTypeOK, NEW s \in Sessions, tx[s] # None
    PROVE  Wants(s) \in SUBSET Rows
<1>1. tx[s].request.operation \in Operations /\ tx[s].number \in Nat
  BY Transaction, RequestFields
<1>2. /\ {Team, TeamForUpdate, TeamShare, JoinerRow, InviteRow, VariableRow} \subseteq Rows
      /\ <<"revision", tx[s].number>> \in Rows
      /\ <<"operation", tx[s].request.operation>> \in Rows
  BY <1>1 DEF Rows
<1> QED
  BY <1>2 DEF Wants

-----------------------------------------------------------------------------
(* Steps inside a transaction.                                             *)

\* A transaction is where it was, or begins, with t as what it has come to.
GoesOn(s, t) ==
    /\ tx' = [tx EXCEPT ![s] = t]
    /\ UNCHANGED <<tables, sent>>

\* Nothing that is granted to s excludes what another transaction holds.
Granted(s, holds) ==
    \A u \in Sessions :
        u # s /\ tx[u] # None => \A a \in holds, b \in tx[u].holds : ~Excludes(a, b)

\* Its next statement is one the invariant allows.
Allowed(s, t) ==
    t \in Transactions /\ KeepsTeamLocked(t) /\ InOrder(t) /\ Granted(s, t.holds)

LEMMA ExcludesSymmetric ==
    ASSUME NEW a, NEW b, Excludes(a, b)
    PROVE  Excludes(b, a)
<1>1. {a, b} = {b, a}
  OBVIOUS
<1> QED
  BY <1>1 DEF Excludes

\* What a statement waited for, and what the transaction had, is granted.
LEMMA NoWaiting ==
    ASSUME LocksExclude, NEW s \in Sessions, tx[s] # None,
           \A u \in Sessions : ~WaitsFor(s, u)
    PROVE  /\ Granted(s, Wants(s)) /\ Granted(s, tx[s].holds)
           /\ Granted(s, tx[s].holds \cup Wants(s))
<1>1. Granted(s, Wants(s))
  BY DEF WaitsFor, Holds, Granted
<1>2. Granted(s, tx[s].holds)
  BY DEF LocksExclude, Granted
<1> QED
  BY <1>1, <1>2 DEF Granted

\* An allowed step inside a transaction, or its begin, keeps the invariant.
LEMMA GoesOnInv ==
    ASSUME SqlInv, NEW s \in Sessions, NEW t, Allowed(s, t), GoesOn(s, t)
    PROVE  SqlInv'
<1>0. /\ SqlTypeOK /\ RevisionsNumbered /\ PublishedUnlessEdited /\ SentAgainstRevision
      /\ SentHavingSeen /\ LocksExclude /\ TransactionsInOrder
  BY DEF SqlInv
<1>1. UNCHANGED <<current, revisions, access, versions, envOperations, joiner, invite, sent>>
  BY DEF GoesOn, tables
<1>2. /\ tx'[s] = t /\ t # None /\ t \in Transactions
      /\ \A u \in Sessions : u # s => tx'[u] = tx[u]
      /\ tx' \in [Sessions -> Transactions \cup {None}]
  BY <1>0, NoValueAssumption DEF GoesOn, SqlTypeOK, Allowed
<1>3. /\ RevisionsNumbered' /\ PublishedUnlessEdited' /\ SentAgainstRevision' /\ SentHavingSeen'
  BY <1>0, <1>1, AccessUntouched DEF RevisionsNumbered, SentAgainstRevision, SentHavingSeen,
                    ConfigOf
<1>4. ASSUME NEW u \in Sessions, tx'[u] # None
      PROVE  KeepsTeamLocked(tx'[u])
  BY <1>0, <1>2, <1>4 DEF SqlTypeOK, Allowed
<1>5. SqlTypeOK'
  BY <1>0, <1>1, <1>2, <1>4 DEF SqlTypeOK, KeepsTeamLocked
<1>6. LocksExclude'
  <2> SUFFICES ASSUME NEW u \in Sessions, NEW v \in Sessions, u # v,
                      tx'[u] # None, tx'[v] # None,
                      NEW a \in tx'[u].holds, NEW b \in tx'[v].holds
               PROVE  ~Excludes(a, b)
    BY DEF LocksExclude
  <2>1. CASE u = s
    BY <2>1, <1>2 DEF Allowed, Granted
  <2>2. CASE v = s
    <3>1. ~Excludes(b, a)
      BY <2>2, <1>2 DEF Allowed, Granted
    <3> QED
      BY <3>1, ExcludesSymmetric
  <2>3. CASE u # s /\ v # s
    BY <2>3, <1>0, <1>2 DEF LocksExclude
  <2> QED
    BY <2>1, <2>2, <2>3
<1>7. ASSUME NEW u \in Sessions, tx'[u] # None
      PROVE  InOrder(tx'[u])
  BY <1>0, <1>2, <1>7 DEF TransactionsInOrder, Allowed
<1>8. ASSUME NEW u \in Sessions, InOrder(tx'[u])
      PROVE  InOrder(tx[u])'
  BY <1>1, <1>8 DEF InOrder, Numbered, HasNext, HasJoiner, HasInvite, Publishes, ConfigOf
<1>9. TransactionsInOrder'
  BY <1>7, <1>8 DEF TransactionsInOrder
<1> QED
  BY <1>3, <1>5, <1>6, <1>9 DEF SqlInv

\* A transaction that is rolled back keeps the invariant.
LEMMA RefuseInv ==
    ASSUME SqlInv, NEW s \in Sessions, Refuse(s)
    PROVE  SqlInv'
<1>0. /\ SqlTypeOK /\ RevisionsNumbered /\ PublishedUnlessEdited /\ SentAgainstRevision
      /\ SentHavingSeen /\ LocksExclude /\ TransactionsInOrder
  BY DEF SqlInv
<1>1. UNCHANGED <<current, revisions, access, versions, envOperations, joiner, invite, sent>>
  BY DEF Refuse, tables
<1>2. /\ tx'[s] = None
      /\ \A u \in Sessions : tx'[u] # None => u # s /\ tx'[u] = tx[u]
      /\ tx' \in [Sessions -> Transactions \cup {None}]
  BY <1>0 DEF Refuse, Rollback, SqlTypeOK
<1>3. /\ RevisionsNumbered' /\ PublishedUnlessEdited' /\ SentAgainstRevision' /\ SentHavingSeen'
  BY <1>0, <1>1, AccessUntouched DEF RevisionsNumbered, SentAgainstRevision, SentHavingSeen,
                    ConfigOf
<1>5. SqlTypeOK'
  BY <1>0, <1>1, <1>2 DEF SqlTypeOK, KeepsTeamLocked
<1>6. LocksExclude'
  BY <1>0, <1>2 DEF LocksExclude
<1>7. ASSUME NEW u \in Sessions, tx'[u] # None
      PROVE  InOrder(tx'[u])
  BY <1>0, <1>2, <1>7 DEF TransactionsInOrder
<1>8. ASSUME NEW u \in Sessions, InOrder(tx'[u])
      PROVE  InOrder(tx[u])'
  BY <1>1, <1>8 DEF InOrder, Numbered, HasNext, HasJoiner, HasInvite, Publishes, ConfigOf
<1>9. TransactionsInOrder'
  BY <1>7, <1>8 DEF TransactionsInOrder
<1> QED
  BY <1>3, <1>5, <1>6, <1>9 DEF SqlInv

\* What a transaction that can go on is, and what holds of it.
LEMMA Waited ==
    ASSUME SqlInv, NEW s \in Sessions, NEW kinds, NEW step, At(s, kinds, step)
    PROVE  /\ tx[s] # None /\ tx[s] \in Transactions /\ tx[s].request \in Requests
           /\ tx[s].request.kind \in kinds /\ tx[s].step = step
           /\ InOrder(tx[s]) /\ KeepsTeamLocked(tx[s])
           /\ tx[s].request \in sent
           /\ Wants(s) \in SUBSET Rows
           /\ Granted(s, Wants(s)) /\ Granted(s, tx[s].holds)
           /\ Granted(s, tx[s].holds \cup Wants(s))
<1>1. tx[s] # None /\ tx[s].request.kind \in kinds /\ tx[s].step = step
      /\ \A u \in Sessions : ~WaitsFor(s, u)
  BY DEF At
<1>2. SqlTypeOK /\ LocksExclude /\ TransactionsInOrder
  BY DEF SqlInv
<1>3. InOrder(tx[s]) /\ tx[s].request \in sent
  BY <1>1, <1>2 DEF TransactionsInOrder, InOrder
<1> QED
  BY <1>1, <1>2, <1>3, Transaction, WantsType, NoWaiting

\* A statement that runs leaves the rest of its transaction as it was.
LEMMA Proceeding ==
    ASSUME SqlTypeOK, NEW s \in Sessions, tx[s] # None, NEW step \in Steps, Proceed(s, step)
    PROVE  \E t \in Transactions :
             /\ t.request = tx[s].request /\ t.step = step /\ t.holds = tx[s].holds \cup Wants(s)
             /\ t.number = tx[s].number /\ t.config = tx[s].config
             /\ GoesOn(s, t)
<1> DEFINE t == [tx[s] EXCEPT !.step = step, !.holds = tx[s].holds \cup Wants(s)]
<1>1. tx[s] \in Transactions /\ Wants(s) \in SUBSET Rows
  BY Transaction, WantsType
<1>2. /\ t \in Transactions
      /\ t.request = tx[s].request /\ t.step = step /\ t.holds = tx[s].holds \cup Wants(s)
      /\ t.number = tx[s].number /\ t.config = tx[s].config
  BY <1>1 DEF Transactions
<1>3. tx' = [tx EXCEPT ![s].step = step, ![s].holds = @ \cup Wants(s)]
      /\ UNCHANGED <<tables, sent>>
  BY DEF Proceed
<1>4. tx' = [tx EXCEPT ![s] = t]
  BY <1>1, <1>3 DEF SqlTypeOK, Transactions
<1> QED
  BY <1>2, <1>3, <1>4 DEF GoesOn

\* Where the number does not matter, it stays allowed.
LEMMA InOrderOnTheWay ==
    ASSUME SqlInv, NEW s \in Sessions, tx[s] # None, InOrder(tx[s]), NEW t \in Transactions,
           t.request = tx[s].request, t.number = tx[s].number, t.config = tx[s].config,
           t.request.kind \in {"config", "env"},
           t.step \in {"lock team", "read team", "permission", "versions", "upsert"}
    PROVE  InOrder(t) /\ KeepsTeamLocked(t)
<1>1. t.request \in sent
  BY DEF InOrder
<1>2. Numbered(t)
  BY DEF InOrder, Numbered
<1>3. HasNext(t) /\ KeepsTeamLocked(t)
  BY DEF HasNext, KeepsTeamLocked
<1>4. HasJoiner(t)
  BY DEF HasJoiner
<1>5. HasInvite(t)
  BY DEF HasInvite
<1> QED
  BY <1>1, <1>2, <1>3, <1>4, <1>5 DEF InOrder

\* PushConfig's lookup, EnvPush's lookup and its three checks.
LEMMA ReadsInv ==
    ASSUME SqlInv, NEW s \in Sessions,
           \/ LookUpConfigPush(s) \/ LookUpEnvPush(s) \/ ReadTeam(s)
           \/ CheckPermission(s) \/ CheckVersion(s)
    PROVE  SqlInv'
<1>1. ASSUME NEW kind \in {"config", "env"}, NEW from, At(s, {kind}, from),
             NEW to \in {"lock team", "read team", "permission", "versions", "upsert"},
             Proceed(s, to)
      PROVE  SqlInv'
  <2>0. SqlTypeOK
    BY DEF SqlInv
  <2>1. /\ tx[s] # None /\ tx[s].request.kind \in {kind} /\ InOrder(tx[s])
        /\ Granted(s, tx[s].holds \cup Wants(s))
    BY <1>1, Waited
  <2>2. to \in Steps
    BY DEF Steps
  <2>3. PICK t \in Transactions :
             /\ t.request = tx[s].request /\ t.step = to /\ t.holds = tx[s].holds \cup Wants(s)
             /\ t.number = tx[s].number /\ t.config = tx[s].config
             /\ GoesOn(s, t)
    BY <1>1, <2>0, <2>1, <2>2, Proceeding
  <2>4. InOrder(t) /\ KeepsTeamLocked(t)
    BY <2>1, <2>3, InOrderOnTheWay
  <2> QED
    BY <2>1, <2>3, <2>4, GoesOnInv DEF Allowed
<1>2. CASE LookUpConfigPush(s)
  BY <1>1, <1>2, RefuseInv DEF LookUpConfigPush
<1>3. CASE LookUpEnvPush(s)
  BY <1>1, <1>3, RefuseInv DEF LookUpEnvPush
<1>4. CASE ReadTeam(s)
  BY <1>1, <1>4, RefuseInv DEF ReadTeam
<1>5. CASE CheckPermission(s)
  BY <1>1, <1>5, RefuseInv DEF CheckPermission
<1>6. CASE CheckVersion(s)
  BY <1>1, <1>6, RefuseInv DEF CheckVersion
<1> QED
  BY <1>2, <1>3, <1>4, <1>5, <1>6

\* A handler that gets a request begins a transaction with nothing locked.
LEMMA DeliverInv ==
    ASSUME SqlInv, NEW s \in Sessions, NEW request \in sent, Deliver(s, request)
    PROVE  SqlInv'
<1> DEFINE t == [request |-> request, step |-> "begin", holds |-> {},
                 number |-> 0, config |-> {}]
<1>1. t \in Transactions
  BY DEF SqlInv, SqlTypeOK, Transactions, Steps
<1>2. InOrder(t) /\ KeepsTeamLocked(t) /\ Granted(s, t.holds)
  BY DEF InOrder, Numbered, HasNext, HasJoiner, HasInvite, KeepsTeamLocked, Granted
<1>3. GoesOn(s, t)
  BY DEF Deliver, GoesOn
<1> HIDE DEF t
<1> QED
  BY <1>1, <1>2, <1>3, GoesOnInv DEF Allowed

\* The lock and the comparison: the next revision has the config pushed.
LEMMA LockTeamInv ==
    ASSUME SqlInv, NEW s \in Sessions, LockTeam(s)
    PROVE  SqlInv'
<1> DEFINE t == [tx[s] EXCEPT !.step = "apply", !.holds = Wants(s), !.number = current + 1,
                              !.config = tx[s].request.config]
<1>0. SqlTypeOK /\ SentAgainstRevision
  BY DEF SqlInv
<1>1. At(s, {"config"}, "lock team")
  BY DEF LockTeam
<1>2. /\ tx[s] # None /\ tx[s] \in Transactions /\ tx[s].request \in Requests
      /\ tx[s].request.kind \in {"config"} /\ tx[s].step = "lock team"
      /\ InOrder(tx[s]) /\ tx[s].request \in sent /\ Wants(s) \in SUBSET Rows
      /\ Granted(s, Wants(s))
  BY <1>1, Waited
<1>3. ASSUME ~Refuse(s)
      PROVE  SqlInv'
  <2>1. /\ current = tx[s].request.expected
        /\ tx' = [tx EXCEPT ![s].step = "apply", ![s].holds = Wants(s),
                            ![s].number = current + 1, ![s].config = tx[s].request.config]
        /\ UNCHANGED <<tables, sent>>
    BY <1>3 DEF LockTeam
  <2>2. tx[s].request.config \in SUBSET People /\ current \in Nat \ {0}
    BY <1>0, <1>2, RequestFields DEF SqlTypeOK
  <2>3. "apply" \in Steps /\ current + 1 \in Nat /\ current + 1 > 0
        /\ (current + 1) - 1 \in 1 .. current
    BY <2>2 DEF Steps
  <2>4. /\ t \in Transactions /\ t.request = tx[s].request /\ t.step = "apply"
        /\ t.holds = Wants(s) /\ t.number = current + 1 /\ t.config = tx[s].request.config
    BY <1>2, <2>2, <2>3 DEF Transactions
  <2>5. GoesOn(s, t)
    BY <1>0, <1>2, <2>1 DEF GoesOn, SqlTypeOK, Transactions
  <2> HIDE DEF t
  <2>6. Wants(s) = {Team, TeamForUpdate}
    BY <1>2 DEF Wants
  <2>7. KeepsTeamLocked(t)
    BY <2>4, <2>6 DEF KeepsTeamLocked
  <2>8. Numbered(t)
    BY <1>2, <2>1, <2>2, <2>3, <2>4 DEF Numbered
  <2>9. HasNext(t) /\ HasJoiner(t) /\ HasInvite(t)
    BY <1>2, <2>4 DEF HasNext, HasJoiner, HasInvite
  <2>10. Allowed(s, t)
    BY <1>2, <2>4, <2>7, <2>8, <2>9 DEF Allowed, InOrder
  <2> QED
    BY <2>5, <2>10, GoesOnInv
<1> QED
  BY <1>3, RefuseInv

\* The snapshot's statements have the joiner's row.
LEMMA ApplySnapshotInv ==
    ASSUME SqlInv, NEW s \in Sessions, ApplySnapshot(s)
    PROVE  SqlInv'
<1>0. SqlTypeOK
  BY DEF SqlInv
<1>1. At(s, {"config"}, "apply") /\ Proceed(s, "revision")
  BY DEF ApplySnapshot
<1>2. /\ tx[s] # None /\ tx[s].request.kind \in {"config"} /\ tx[s].step = "apply"
      /\ InOrder(tx[s]) /\ KeepsTeamLocked(tx[s]) /\ Granted(s, tx[s].holds \cup Wants(s))
  BY <1>1, Waited
<1>3. PICK t \in Transactions :
             /\ t.request = tx[s].request /\ t.step = "revision"
             /\ t.holds = tx[s].holds \cup Wants(s)
             /\ t.number = tx[s].number /\ t.config = tx[s].config
             /\ GoesOn(s, t)
  <2>1. "revision" \in Steps
    BY DEF Steps
  <2> QED
    BY <1>0, <1>1, <1>2, <2>1, Proceeding
<1>4. KeepsTeamLocked(t)
  BY <1>2, <1>3 DEF KeepsTeamLocked
<1>5. Numbered(t)
  BY <1>2, <1>3 DEF InOrder, Numbered, Publishes
<1>6. HasJoiner(t)
  <2>1. Joiner \in t.config => JoinerRow \in t.holds
    BY <1>2, <1>3 DEF Wants
  <2> QED
    BY <1>2, <1>3, <2>1 DEF HasJoiner
<1>7. HasNext(t) /\ HasInvite(t) /\ t.request \in sent
  BY <1>2, <1>3 DEF HasNext, HasInvite, InOrder
<1> QED
  BY <1>2, <1>3, <1>4, <1>5, <1>6, <1>7, GoesOnInv DEF Allowed, InOrder

\* A push of values that publishes has its expected revision and config.
LEMMA UpsertInv ==
    ASSUME SqlInv, NEW s \in Sessions, Upsert(s)
    PROVE  SqlInv'
<1> DEFINE request == tx[s].request
           step == IF request.publishes THEN "revision" ELSE "commit"
           number == IF request.publishes THEN request.expected + 1 ELSE 0
           t == [tx[s] EXCEPT !.step = step, !.holds = Wants(s), !.number = number,
                              !.config = request.config]
<1>0. SqlTypeOK /\ SentAgainstRevision
  BY DEF SqlInv
<1>1. At(s, {"env"}, "upsert")
  BY DEF Upsert
<1>2. /\ tx[s] # None /\ tx[s] \in Transactions /\ request \in Requests
      /\ request.kind \in {"env"} /\ InOrder(tx[s]) /\ request \in sent
      /\ Wants(s) \in SUBSET Rows /\ Granted(s, Wants(s))
  BY <1>1, Waited
<1>3. ASSUME ~Refuse(s)
      PROVE  SqlInv'
  <2>1. /\ tx' = [tx EXCEPT ![s].step = step, ![s].holds = Wants(s),
                            ![s].number = number, ![s].config = request.config]
        /\ UNCHANGED <<tables, sent>>
    BY <1>3 DEF Upsert
  <2>2. /\ request.config \in SUBSET People /\ request.publishes \in BOOLEAN
        /\ request.expected \in 1 .. current /\ current \in Nat \ {0}
    BY <1>0, <1>2, RequestFields DEF SqlTypeOK, SentAgainstRevision
  <2>3. step \in Steps /\ number \in Nat
    BY <2>2 DEF Steps
  <2>4. /\ t \in Transactions /\ t.request = request /\ t.step = step
        /\ t.holds = Wants(s) /\ t.number = number /\ t.config = request.config
    BY <1>2, <2>2, <2>3 DEF Transactions
  <2>5. GoesOn(s, t)
    BY <1>0, <1>2, <2>1 DEF GoesOn, SqlTypeOK, Transactions
  <2> HIDE DEF t
  <2>6. Numbered(t) /\ HasNext(t)
    BY <1>2, <2>2, <2>4 DEF Numbered, Publishes, HasNext
  <2>7. KeepsTeamLocked(t) /\ HasJoiner(t) /\ HasInvite(t)
    BY <1>2, <2>4 DEF KeepsTeamLocked, HasJoiner, HasInvite
  <2>8. Allowed(s, t)
    BY <1>2, <2>4, <2>6, <2>7 DEF Allowed, InOrder
  <2> QED
    BY <2>5, <2>8, GoesOnInv
<1> QED
  BY <1>3, RefuseInv

\* An approval goes on with the row of a joiner it found pending.
LEMMA LockPendingInv ==
    ASSUME SqlInv, NEW s \in Sessions, LockPending(s)
    PROVE  SqlInv'
<1> SUFFICES ASSUME ~Refuse(s)
             PROVE  SqlInv'
  BY RefuseInv
<1>0. SqlTypeOK
  BY DEF SqlInv
<1>1. At(s, {"approve"}, "begin") /\ joiner = "pending" /\ Proceed(s, "append")
  BY DEF LockPending
<1>2. /\ tx[s] # None /\ tx[s].request.kind \in {"approve"} /\ tx[s].step = "begin"
      /\ InOrder(tx[s]) /\ Granted(s, tx[s].holds \cup Wants(s))
  BY <1>1, Waited
<1>3. PICK t \in Transactions :
             /\ t.request = tx[s].request /\ t.step = "append"
             /\ t.holds = tx[s].holds \cup Wants(s)
             /\ t.number = tx[s].number /\ t.config = tx[s].config
             /\ GoesOn(s, t)
  <2>1. "append" \in Steps
    BY DEF Steps
  <2> QED
    BY <1>0, <1>1, <1>2, <2>1, Proceeding
<1>4. JoinerRow \in t.holds
  BY <1>2, <1>3 DEF Wants
<1>5. Numbered(t)
  BY <1>2, <1>3 DEF InOrder, Numbered, Publishes
<1>6. HasJoiner(t)
  BY <1>1, <1>2, <1>3, <1>4 DEF HasJoiner
<1>7. HasNext(t) /\ HasInvite(t) /\ KeepsTeamLocked(t) /\ t.request \in sent
  BY <1>2, <1>3 DEF HasNext, HasInvite, KeepsTeamLocked, InOrder
<1> QED
  BY <1>2, <1>3, <1>5, <1>6, <1>7, GoesOnInv DEF Allowed, InOrder

\* A redemption goes on with the invite it found active.
LEMMA LockInviteInv ==
    ASSUME SqlInv, NEW s \in Sessions, LockInvite(s)
    PROVE  SqlInv'
<1> SUFFICES ASSUME ~Refuse(s)
             PROVE  SqlInv'
  BY RefuseInv
<1> DEFINE step == IF tx[s].request.bundle THEN "member" ELSE "commit"
<1>0. SqlTypeOK
  BY DEF SqlInv
<1>1. At(s, {"redeem"}, "begin") /\ invite = "active" /\ Proceed(s, step)
  BY DEF LockInvite
<1>2. /\ tx[s] # None /\ tx[s].request.kind \in {"redeem"} /\ tx[s].step = "begin"
      /\ InOrder(tx[s]) /\ Granted(s, tx[s].holds \cup Wants(s))
      /\ tx[s].request \in Requests
  BY <1>1, Waited
<1>3. PICK t \in Transactions :
             /\ t.request = tx[s].request /\ t.step = step
             /\ t.holds = tx[s].holds \cup Wants(s)
             /\ t.number = tx[s].number /\ t.config = tx[s].config
             /\ GoesOn(s, t)
  <2>1. step \in Steps
    BY DEF Steps
  <2> HIDE DEF step
  <2> QED
    BY <1>0, <1>1, <1>2, <2>1, Proceeding
<1>4. InviteRow \in t.holds
  BY <1>2, <1>3 DEF Wants
<1>5. Numbered(t) /\ HasNext(t)
  <2>1. t.number = 0 /\ t.request.kind = "redeem" /\ t.request.bundle \in BOOLEAN
    BY <1>2, <1>3, RequestFields DEF InOrder, Numbered
  <2>2. t.step \in {"member", "commit"} /\ (t.step = "member" <=> t.request.bundle)
    BY <1>3, <2>1
  <2> QED
    BY <2>1, <2>2 DEF Numbered, Publishes, HasNext
<1>6. HasInvite(t)
  BY <1>1, <1>4 DEF HasInvite
<1>7. HasJoiner(t) /\ KeepsTeamLocked(t) /\ t.request \in sent
  BY <1>2, <1>3 DEF HasJoiner, KeepsTeamLocked, InOrder
<1> QED
  BY <1>2, <1>3, <1>5, <1>6, <1>7, GoesOnInv DEF Allowed, InOrder

\* A redemption has the joiner's row from the moment it writes it.
LEMMA UpsertMemberInv ==
    ASSUME SqlInv, NEW s \in Sessions, UpsertMember(s)
    PROVE  SqlInv'
<1>0. SqlTypeOK
  BY DEF SqlInv
<1>1. At(s, {"redeem"}, "member") /\ Proceed(s, "append")
  BY DEF UpsertMember
<1>2. /\ tx[s] # None /\ tx[s].request.kind \in {"redeem"} /\ tx[s].step = "member"
      /\ InOrder(tx[s]) /\ Granted(s, tx[s].holds \cup Wants(s))
  BY <1>1, Waited
<1>3. PICK t \in Transactions :
             /\ t.request = tx[s].request /\ t.step = "append"
             /\ t.holds = tx[s].holds \cup Wants(s)
             /\ t.number = tx[s].number /\ t.config = tx[s].config
             /\ GoesOn(s, t)
  <2>1. "append" \in Steps
    BY DEF Steps
  <2> QED
    BY <1>0, <1>1, <1>2, <2>1, Proceeding
<1>4. JoinerRow \in t.holds
  BY <1>2, <1>3 DEF Wants
<1>5. Numbered(t)
  BY <1>2, <1>3 DEF InOrder, Numbered, Publishes
<1>6. HasJoiner(t)
  BY <1>2, <1>3, <1>4 DEF HasJoiner
<1>7. HasNext(t) /\ HasInvite(t) /\ KeepsTeamLocked(t) /\ t.request \in sent
  BY <1>2, <1>3 DEF HasNext, HasInvite, KeepsTeamLocked, InOrder
<1> QED
  BY <1>2, <1>3, <1>5, <1>6, <1>7, GoesOnInv DEF Allowed, InOrder

\* An admission's revision follows the one whose config it read.
LEMMA ReadConfigInv ==
    ASSUME SqlInv, NEW s \in Sessions, ReadConfig(s)
    PROVE  SqlInv'
<1> DEFINE config == ConfigOf(current) \cup {Joiner}
           t == [tx[s] EXCEPT !.step = "revision", !.number = current + 1, !.config = config]
<1>0. SqlTypeOK /\ RevisionsNumbered /\ current \in Nat \ {0}
  BY DEF SqlInv, SqlTypeOK
<1>1. /\ At(s, {"approve", "redeem"}, "append")
      /\ tx' = [tx EXCEPT ![s].step = "revision", ![s].number = current + 1,
                          ![s].config = config]
      /\ UNCHANGED <<tables, sent>>
  BY DEF ReadConfig
<1>2. /\ tx[s] # None /\ tx[s] \in Transactions /\ tx[s].step = "append"
      /\ tx[s].request.kind \in {"approve", "redeem"}
      /\ InOrder(tx[s]) /\ Granted(s, tx[s].holds)
  BY <1>1, Waited
<1>3. "revision" \in Steps /\ current + 1 \in Nat /\ current + 1 > 0
      /\ (current + 1) - 1 = current /\ current \in 1 .. current
  BY <1>0 DEF Steps
<1>4. config \in SUBSET People
  BY <1>0, <1>3, ConfigOfType DEF People
<1>5. /\ t \in Transactions /\ t.request = tx[s].request /\ t.step = "revision"
      /\ t.holds = tx[s].holds /\ t.number = current + 1 /\ t.config = config
  BY <1>2, <1>3, <1>4 DEF Transactions
<1>6. GoesOn(s, t)
  BY <1>0, <1>1, <1>2 DEF GoesOn, SqlTypeOK, Transactions
<1> HIDE DEF t
<1>7. Numbered(t)
  <2>1. Publishes(t)
    BY <1>2, <1>5 DEF InOrder, Numbered, Publishes
  <2> QED
    BY <1>2, <1>3, <1>5, <2>1 DEF Numbered
<1>8. HasJoiner(t) /\ HasInvite(t)
  BY <1>2, <1>5 DEF InOrder, HasJoiner, HasInvite
<1>9. HasNext(t) /\ KeepsTeamLocked(t) /\ t.request \in sent
  BY <1>2, <1>5 DEF HasNext, KeepsTeamLocked, InOrder
<1> QED
  BY <1>2, <1>5, <1>6, <1>7, <1>8, <1>9, GoesOnInv DEF Allowed, InOrder

\* A row that violates no key has the number after the current one.
LEMMA InsertRevisionInv ==
    ASSUME SqlInv, NEW s \in Sessions, InsertRevision(s)
    PROVE  SqlInv'
<1> SUFFICES ASSUME ~Refuse(s)
             PROVE  SqlInv'
  BY RefuseInv
<1>0. SqlTypeOK /\ RevisionsNumbered /\ current \in Nat \ {0}
  BY DEF SqlInv, SqlTypeOK
<1>1. /\ At(s, {"config", "env", "approve", "redeem"}, "revision") /\ Proceed(s, "commit")
      /\ ~Violates(tx[s].number, tx[s].request.operation)
  BY DEF InsertRevision
<1>2. /\ tx[s] # None /\ tx[s] \in Transactions /\ tx[s].step = "revision"
      /\ tx[s].request.kind \in {"config", "env", "approve", "redeem"}
      /\ InOrder(tx[s]) /\ KeepsTeamLocked(tx[s]) /\ Granted(s, tx[s].holds \cup Wants(s))
  BY <1>1, Waited
<1>3. PICK t \in Transactions :
             /\ t.request = tx[s].request /\ t.step = "commit"
             /\ t.holds = tx[s].holds \cup Wants(s)
             /\ t.number = tx[s].number /\ t.config = tx[s].config
             /\ GoesOn(s, t)
  <2>1. "commit" \in Steps
    BY DEF Steps
  <2> QED
    BY <1>0, <1>1, <1>2, <2>1, Proceeding
<1>4. /\ t.number = current + 1 /\ t.number > 0
      /\ \A row \in revisions : row.operation # t.request.operation
  <2>1. t.number \in Nat /\ t.number > 0 /\ t.number - 1 \in 1 .. current
    BY <1>2, <1>3 DEF InOrder, Numbered, Transactions
  <2>2. t.number \notin 1 .. current
    BY <1>0, <1>1, <1>3 DEF RevisionsNumbered, Violates
  <2> QED
    BY <1>0, <1>1, <1>3, <2>1, <2>2 DEF Violates
<1>5. HasNext(t)
  <2>1. <<"revision", t.number>> \in t.holds
    BY <1>2, <1>3 DEF Wants
  <2> QED
    BY <1>4, <2>1 DEF HasNext
<1>6. Numbered(t)
  BY <1>2, <1>3, <1>4 DEF InOrder, Numbered, Publishes
<1>7. HasJoiner(t)
  BY <1>2, <1>3 DEF InOrder, HasJoiner
<1>8. HasInvite(t)
  BY <1>2, <1>3 DEF InOrder, HasInvite
<1>9. KeepsTeamLocked(t) /\ t.request \in sent
  BY <1>2, <1>3 DEF KeepsTeamLocked, InOrder
<1> QED
  BY <1>2, <1>3, <1>5, <1>6, <1>7, <1>8, <1>9, GoesOnInv DEF Allowed, InOrder

-----------------------------------------------------------------------------
(* Commits.                                                                *)

\* The commit of a transaction that adds a revision.
AddsRevision(s, fingerprint) ==
    /\ tx[s] # None /\ tx[s].step = "commit" /\ tx[s].number > 0
    /\ Publish(s, fingerprint)

\* The next revision is made from the current one: that is the one a push
\* expects, and the one an admission read.
LEMMA MadeFromCurrent ==
    ASSUME SqlInv, NEW s \in Sessions, tx[s] # None,
           tx[s].step = "commit", tx[s].number > 0
    PROVE  /\ tx[s].number = current + 1
           /\ <<"revision", tx[s].number>> \in tx[s].holds
           /\ \A row \in revisions : row.operation # tx[s].request.operation
           /\ tx[s].request.kind \in {"config", "env"} =>
                /\ tx[s].request.expected = current
                /\ tx[s].request.sender \in access
                /\ tx[s].config \in Edits(ConfigOf(current))
           /\ tx[s].request.kind \in {"approve", "redeem"} =>
                tx[s].config = ConfigOf(current) \cup {Joiner}
<1>0. /\ SqlTypeOK /\ RevisionsNumbered /\ SentAgainstRevision
      /\ TransactionsInOrder /\ current \in Nat \ {0}
  BY DEF SqlInv, SqlTypeOK
<1>1. InOrder(tx[s]) /\ tx[s].request \in Requests /\ tx[s].request \in sent
  BY <1>0, Transaction DEF TransactionsInOrder, InOrder
<1>2. /\ tx[s].number = current + 1
      /\ <<"revision", tx[s].number>> \in tx[s].holds
      /\ \A row \in revisions : row.operation # tx[s].request.operation
  BY <1>1 DEF InOrder, HasNext
<1>3. ASSUME tx[s].request.kind \in {"config", "env"}
      PROVE  /\ tx[s].request.expected = current
             /\ tx[s].request.sender \in access
             /\ tx[s].config \in Edits(ConfigOf(current))
  <2>1. tx[s].request.expected \in Nat
    BY <1>1, <1>3, RequestFields
  <2>2. tx[s].number = tx[s].request.expected + 1 /\ tx[s].config = tx[s].request.config
    BY <1>1, <1>3 DEF InOrder, Numbered
  <2>3. tx[s].request.expected = current
    BY <1>0, <1>2, <2>1, <2>2
  <2> QED
    BY <1>0, <1>1, <1>3, <2>2, <2>3 DEF SentAgainstRevision
<1>4. ASSUME tx[s].request.kind \in {"approve", "redeem"}
      PROVE  tx[s].config = ConfigOf(current) \cup {Joiner}
  <2>1. tx[s].number - 1 = current
    BY <1>0, <1>2
  <2> QED
    BY <1>1, <1>4, <2>1 DEF InOrder, Numbered
<1> QED
  BY <1>2, <1>3, <1>4

\* Nobody else is about to add a revision.
LEMMA NobodyElse ==
    ASSUME SqlInv, NEW s \in Sessions, tx[s] # None,
           tx[s].step = "commit", tx[s].number > 0,
           NEW u \in Sessions, u # s, tx[u] # None, tx[u].step = "commit"
    PROVE  tx[u].number = 0
<1> SUFFICES ASSUME tx[u].number > 0
             PROVE  FALSE
  <2>1. tx[u].number \in Nat
    BY Transaction DEF SqlInv
  <2> QED
    BY <2>1
<1> DEFINE key == <<"revision", current + 1>>
<1>1. key \in tx[s].holds /\ key \in tx[u].holds
  BY MadeFromCurrent
<1>2. key # TeamShare
  BY DEF TeamShare
<1>3. Excludes(key, key)
  BY <1>2 DEF Excludes
<1> QED
  BY <1>1, <1>3 DEF SqlInv, LocksExclude

\* The row with a number, where numbers are unique.
LEMMA RowOf ==
    ASSUME NEW rows, \A a, b \in rows : a.number = b.number => a = b, NEW row \in rows
    PROVE  (CHOOSE x \in rows : x.number = row.number) = row
OBVIOUS

\* Adding the row that comes next leaves the revisions before it alone.
LEMMA RevisionAdded ==
    ASSUME SqlInv, NEW s \in Sessions, NEW fingerprint \in Requests \cup {None},
           AddsRevision(s, fingerprint)
    PROVE  /\ current' = current + 1 /\ current' \in Nat \ {0}
           /\ revisions' \subseteq Revisions
           /\ RevisionsNumbered'
           /\ ConfigOf(current)' = tx[s].config
           /\ \A n \in 1 .. current : ConfigOf(n)' = ConfigOf(n)
<1> DEFINE row == [number |-> tx[s].number, config |-> tx[s].config,
                   operation |-> tx[s].request.operation, fingerprint |-> fingerprint]
<1>0. SqlTypeOK /\ RevisionsNumbered /\ current \in Nat \ {0} /\ revisions \subseteq Revisions
  BY DEF SqlInv, SqlTypeOK
<1>1. tx[s] # None /\ tx[s].number = current + 1 /\ current' = tx[s].number
      /\ revisions' = revisions \cup {row}
  BY MadeFromCurrent DEF AddsRevision, Publish
<1>2. row \in Revisions
  <2>1. tx[s].number \in Nat /\ tx[s].config \in SUBSET People
        /\ tx[s].request.operation \in Operations
    BY <1>0, <1>1, Transaction, RequestFields
  <2> QED
    BY <2>1 DEF Revisions
<1>3. row.number = current + 1 /\ row.config = tx[s].config
  BY <1>1
<1> HIDE DEF row
<1>4. RevisionsNumbered'
  <2>1. \A r \in revisions' : r.number \in 1 .. current'
    BY <1>0, <1>1, <1>3 DEF RevisionsNumbered
  <2>2. \A n \in 1 .. current' : \E r \in revisions' : r.number = n
    <3> SUFFICES ASSUME NEW n \in 1 .. current'
                 PROVE  \E r \in revisions' : r.number = n
      OBVIOUS
    <3>1. n \in 1 .. current \/ n = current + 1
      BY <1>0, <1>1
    <3> QED
      BY <1>0, <1>1, <1>3, <3>1 DEF RevisionsNumbered
  <2>3. \A a, b \in revisions' : a.number = b.number => a = b
    <3>1. \A r \in revisions : r.number # current + 1
      BY <1>0 DEF RevisionsNumbered
    <3> QED
      BY <1>0, <1>1, <1>3, <3>1 DEF RevisionsNumbered
  <2>4. \A r \in revisions' : r.fingerprint # None => r.number > 1
    BY <1>0, <1>1, <1>3 DEF RevisionsNumbered
  <2> QED
    BY <2>1, <2>2, <2>3, <2>4 DEF RevisionsNumbered
<1>5. \A r \in revisions' : ConfigOf(r.number)' = r.config
  <2> SUFFICES ASSUME NEW r \in revisions'
               PROVE  ConfigOf(r.number)' = r.config
    OBVIOUS
  <2>1. \A a, b \in revisions' : a.number = b.number => a = b
    BY <1>4 DEF RevisionsNumbered
  <2>2. (CHOOSE x \in revisions' : x.number = r.number) = r
    BY <2>1, RowOf
  <2> QED
    BY <2>2 DEF ConfigOf
<1>6. ConfigOf(current)' = tx[s].config
  <2>1. row \in revisions' /\ row.number = current'
    BY <1>1, <1>3
  <2>2. PICK r \in revisions' : r.number = current' /\ r.config = tx[s].config
    BY <1>3, <2>1
  <2>3. ConfigOf(r.number)' = r.config
    BY <1>5
  <2> QED
    BY <2>2, <2>3 DEF ConfigOf
<1>7. ASSUME NEW n \in 1 .. current
      PROVE  ConfigOf(n)' = ConfigOf(n)
  <2>1. PICK r \in revisions : r.number = n
    BY <1>0 DEF RevisionsNumbered
  <2>2. ConfigOf(n) = r.config
    BY <1>0, <2>1, ConfigOfRow
  <2>3. ConfigOf(r.number)' = r.config
    BY <1>1, <1>5, <2>1
  <2> QED
    BY <2>1, <2>2, <2>3
<1> QED
  BY <1>0, <1>1, <1>2, <1>4, <1>6, <1>7

\* A commit leaves the tables and the other transactions in order: what it
\* writes, it had locked.
LEMMA CommitInOrder ==
    ASSUME SqlInv, NEW s \in Sessions, tx[s] # None, Rollback(s), UNCHANGED sent,
           joiner' = joiner \/ JoinerRow \in tx[s].holds,
           invite' = invite \/ InviteRow \in tx[s].holds,
           \/ UNCHANGED <<current, revisions, access>>
           \/ \E fingerprint \in Requests \cup {None} : AddsRevision(s, fingerprint)
    PROVE  /\ current' \in Nat \ {0} /\ revisions' \subseteq Revisions
           /\ tx' \in [Sessions -> Transactions \cup {None}]
           /\ \A u \in Sessions : tx'[u] # None => KeepsTeamLocked(tx'[u])
           /\ RevisionsNumbered' /\ SentAgainstRevision'
           /\ LocksExclude' /\ TransactionsInOrder'
<1>0. /\ SqlTypeOK /\ RevisionsNumbered /\ SentAgainstRevision
      /\ LocksExclude /\ TransactionsInOrder /\ current \in Nat \ {0}
  BY DEF SqlInv, SqlTypeOK
<1>1. /\ \A u \in Sessions : tx'[u] # None => u # s /\ tx'[u] = tx[u]
      /\ tx' \in [Sessions -> Transactions \cup {None}]
  BY <1>0 DEF Rollback, SqlTypeOK
<1>2. \A u \in Sessions : tx'[u] # None => KeepsTeamLocked(tx'[u])
  BY <1>0, <1>1 DEF SqlTypeOK
<1>3. LocksExclude'
  BY <1>0, <1>1 DEF LocksExclude
<1>4. /\ current' \in Nat \ {0} /\ revisions' \subseteq Revisions /\ RevisionsNumbered'
      /\ 1 .. current \subseteq 1 .. current'
      /\ \A n \in 1 .. current : ConfigOf(n)' = ConfigOf(n)
      /\ current' \in 1 .. current => access' = access
  <2>1. CASE UNCHANGED <<current, revisions, access>>
    BY <1>0, <2>1 DEF SqlTypeOK, RevisionsNumbered, ConfigOf
  <2>2. CASE \E fingerprint \in Requests \cup {None} : AddsRevision(s, fingerprint)
    <3>1. /\ current' = current + 1 /\ current' \in Nat \ {0}
          /\ revisions' \subseteq Revisions /\ RevisionsNumbered'
          /\ \A n \in 1 .. current : ConfigOf(n)' = ConfigOf(n)
      BY <2>2, RevisionAdded
    <3> QED
      BY <1>0, <3>1
  <2> QED
    BY <2>1, <2>2
<1>5. SentAgainstRevision'
  <2> SUFFICES ASSUME NEW r \in sent, r.kind \in {"config", "env"}
               PROVE  /\ r.expected \in 1 .. current'
                      /\ r.expected = current' => r.sender \in access'
                      /\ r.config \in Edits(ConfigOf(r.expected))'
    BY DEF SentAgainstRevision
  <2>1. /\ r.expected \in 1 .. current
        /\ r.expected = current => r.sender \in access
        /\ r.config \in Edits(ConfigOf(r.expected))
    BY <1>0 DEF SentAgainstRevision
  <2>2. ConfigOf(r.expected)' = ConfigOf(r.expected)
    BY <1>4, <2>1
  <2>3. r.expected = current' => r.expected = current /\ access' = access
    BY <1>0, <1>4, <2>1
  <2> QED
    BY <1>4, <2>1, <2>2, <2>3 DEF Edits
<1>6. ASSUME NEW u \in Sessions, tx'[u] # None
      PROVE  InOrder(tx[u])'
  <2>1. /\ u # s /\ tx'[u] = tx[u] /\ tx[u] # None /\ tx[u] \in Transactions
        /\ tx[u].number \in Nat /\ InOrder(tx[u])
    BY <1>0, <1>1, <1>6, Transaction DEF TransactionsInOrder
  <2>2. PICK t : t = tx[u]
    OBVIOUS
  <2>3. tx'[u] = t /\ t.number \in Nat /\ InOrder(t)
    BY <2>1, <2>2
  <2>4. Numbered(t)'
    <3>1. t.number > 0 => /\ t.number - 1 \in 1 .. current
                          /\ t.number - 1 \in 1 .. current'
                          /\ ConfigOf(t.number - 1)' = ConfigOf(t.number - 1)
      BY <1>4, <2>3 DEF InOrder, Numbered
    <3>2. Numbered(t)
      BY <2>3 DEF InOrder
    <3> QED
      BY <3>1, <3>2 DEF Numbered, Publishes
  <2>5. HasNext(t)'
    <3>1. CASE UNCHANGED <<current, revisions>>
      BY <2>3, <3>1 DEF InOrder, HasNext
    <3>2. CASE \E fingerprint \in Requests \cup {None} : AddsRevision(s, fingerprint)
      <4>1. t.step = "commit" => t.number = 0
        BY <2>1, <2>2, <3>2, NobodyElse DEF AddsRevision
      <4> QED
        BY <4>1 DEF HasNext
    <3> QED
      BY <3>1, <3>2
  <2>6. ASSUME NEW row \in {JoinerRow, InviteRow}, row \in t.holds
        PROVE  row \notin tx[s].holds
    <3>1. row # TeamShare
      BY <2>6 DEF JoinerRow, InviteRow, TeamShare
    <3>2. Excludes(row, row)
      BY <3>1 DEF Excludes
    <3> QED
      BY <1>0, <2>1, <2>2, <2>6, <3>2 DEF LocksExclude
  <2>7. HasJoiner(t)'
    <3>1. JoinerRow \in t.holds => joiner' = joiner
      BY <2>6
    <3>2. HasJoiner(t)
      BY <2>3 DEF InOrder
    <3> QED
      BY <3>1, <3>2 DEF HasJoiner
  <2>8. HasInvite(t)'
    <3>1. InviteRow \in t.holds => invite' = invite
      BY <2>6
    <3>2. HasInvite(t)
      BY <2>3 DEF InOrder
    <3> QED
      BY <3>1, <3>2 DEF HasInvite
  <2>9. InOrder(t)'
    BY <2>3, <2>4, <2>5, <2>7, <2>8 DEF InOrder
  <2> QED
    BY <2>3, <2>9 DEF InOrder, Numbered, HasNext, HasJoiner, HasInvite, Publishes, ConfigOf
<1>7. TransactionsInOrder'
  BY <1>6 DEF TransactionsInOrder
<1> QED
  BY <1>1, <1>2, <1>3, <1>4, <1>5, <1>7

\* A revision that no push of a config makes leaves open what was open.
LEMMA EditsStayOpen ==
    ASSUME SqlInv, NEW s \in Sessions, NEW fingerprint \in Requests \cup {None},
           AddsRevision(s, fingerprint),
           fingerprint # None => fingerprint.kind # "config",
           NEW row \in revisions, NEW p, EditLeftOpen(row, p)
    PROVE  row \in revisions' /\ EditLeftOpen(row, p)'
<1> DEFINE new == [number |-> tx[s].number, config |-> tx[s].config,
                   operation |-> tx[s].request.operation, fingerprint |-> fingerprint]
<1>1. /\ revisions' = revisions \cup {new} /\ new.fingerprint = fingerprint
  BY DEF AddsRevision, Publish
<1>2. ~Pushed(new, "config")
  BY <1>1 DEF Pushed
<1>3. ConfigOf(row.number - 1)' = ConfigOf(row.number - 1)
  <2>1. row.number \in 1 .. current /\ row.number > 1 /\ current \in Nat
    BY DEF SqlInv, SqlTypeOK, RevisionsNumbered, EditLeftOpen, Pushed
  <2>2. row.number - 1 \in 1 .. current
    BY <2>1
  <2> QED
    BY <2>2, RevisionAdded
<1> HIDE DEF new
<1>4. \A later \in revisions' : later.number > row.number => ~Pushed(later, "config")
  BY <1>1, <1>2 DEF EditLeftOpen
<1>5. /\ Pushed(row, "env")
      /\ (p \in row.config) # (p \in ConfigOf(row.number - 1))
  BY DEF EditLeftOpen
<1>6. row \in revisions'
  BY <1>1
<1> QED
  BY <1>3, <1>4, <1>5, <1>6 DEF EditLeftOpen, Pushed

\* No request can have seen a revision that was not there yet.
LEMMA NothingSentYet ==
    ASSUME SqlInv, current' = current + 1, UNCHANGED sent
    PROVE  SentHavingSeen'
<1>1. \A r \in sent : r.kind = "env" => r.expected \in 1 .. current
  BY DEF SqlInv, SentAgainstRevision
<1>2. current \in Nat
  BY DEF SqlInv, SqlTypeOK
<1> QED
  BY <1>1, <1>2 DEF SentHavingSeen

LEMMA CommitConfigPushInv ==
    ASSUME SqlInv, NEW s \in Sessions, CommitConfigPush(s)
    PROVE  SqlInv'
<1>0. SqlTypeOK
  BY DEF SqlInv
<1>1. /\ At(s, {"config"}, "commit") /\ Publish(s, tx[s].request) /\ access' = tx[s].config
      /\ joiner' = IF Joiner \in tx[s].config THEN "active" ELSE joiner
      /\ Rollback(s) /\ UNCHANGED <<versions, envOperations, invite, sent>>
  BY DEF CommitConfigPush
<1>2. /\ tx[s] # None /\ tx[s].request \in Requests /\ tx[s].request.kind \in {"config"}
      /\ tx[s].step = "commit" /\ InOrder(tx[s])
  BY <1>1, Waited
<1>3. /\ tx[s] # None /\ tx[s].request \in Requests /\ tx[s].request.kind = "config"
      /\ tx[s].step = "commit" /\ InOrder(tx[s]) /\ tx[s].config \in SUBSET People
  BY <1>0, <1>2, Transaction
<1>4. AddsRevision(s, tx[s].request)
  BY <1>1, <1>3 DEF InOrder, Numbered, Publishes, AddsRevision
<1>5. joiner' = joiner \/ JoinerRow \in tx[s].holds
  BY <1>1, <1>3 DEF InOrder, HasJoiner
<1>6. /\ current' \in Nat \ {0} /\ revisions' \subseteq Revisions
      /\ tx' \in [Sessions -> Transactions \cup {None}]
      /\ \A u \in Sessions : tx'[u] # None => KeepsTeamLocked(tx'[u])
      /\ RevisionsNumbered' /\ SentAgainstRevision' /\ LocksExclude' /\ TransactionsInOrder'
  BY <1>1, <1>3, <1>4, <1>5, CommitInOrder
<1>7. current' = current + 1 /\ ConfigOf(current)' = tx[s].config
  BY <1>3, <1>4, RevisionAdded
<1>8. SqlTypeOK'
  BY <1>0, <1>1, <1>3, <1>6 DEF SqlTypeOK, KeepsTeamLocked
<1>9. PublishedUnlessEdited' /\ SentHavingSeen'
  BY <1>1, <1>7, NothingSentYet DEF PublishedUnlessEdited
<1> QED
  BY <1>6, <1>8, <1>9 DEF SqlInv

LEMMA CommitEnvPushInv ==
    ASSUME SqlInv, NEW s \in Sessions, CommitEnvPush(s)
    PROVE  SqlInv'
<1> SUFFICES ASSUME ~Refuse(s)
             PROVE  SqlInv'
  BY RefuseInv
<1> DEFINE request == tx[s].request
           version == [operation |-> request.operation, expected |-> request.version,
                       published |-> request.publishes]
<1>0. SqlTypeOK /\ PublishedUnlessEdited /\ SentHavingSeen
  BY DEF SqlInv
<1>1. /\ At(s, {"env"}, "commit")
      /\ versions' = Append(versions, version)
      /\ envOperations' = envOperations \cup
           {[operation |-> request.operation, fingerprint |-> request]}
      /\ IF request.publishes THEN Publish(s, request) ELSE UNCHANGED <<current, revisions>>
      /\ Rollback(s) /\ UNCHANGED <<access, joiner, invite, sent>>
  BY DEF CommitEnvPush
<1>2. /\ tx[s] # None /\ request \in Requests /\ request.kind \in {"env"}
      /\ tx[s].step = "commit" /\ InOrder(tx[s])
  BY <1>1, Waited
<1>3. /\ tx[s] # None /\ request \in Requests /\ request.kind = "env"
      /\ tx[s].step = "commit" /\ InOrder(tx[s]) /\ tx[s].config \in SUBSET People
  BY <1>0, <1>2, Transaction
<1>4. /\ request.publishes \in BOOLEAN /\ request.operation \in Operations
      /\ request.version \in Nat
  BY <1>3, RequestFields
<1>5. request.publishes => AddsRevision(s, request)
  BY <1>1, <1>3 DEF InOrder, Numbered, Publishes, AddsRevision
<1>6. /\ current' \in Nat \ {0} /\ revisions' \subseteq Revisions
      /\ tx' \in [Sessions -> Transactions \cup {None}]
      /\ \A u \in Sessions : tx'[u] # None => KeepsTeamLocked(tx'[u])
      /\ RevisionsNumbered' /\ SentAgainstRevision' /\ LocksExclude' /\ TransactionsInOrder'
  BY <1>1, <1>3, <1>4, <1>5, CommitInOrder
<1>7. SqlTypeOK'
  <2>1. version \in [operation : Operations, expected : Nat, published : BOOLEAN]
    BY <1>4
  <2>2. versions' \in Seq([operation : Operations, expected : Nat, published : BOOLEAN])
    BY <1>0, <1>1, <2>1 DEF SqlTypeOK
  <2>3. envOperations' \subseteq [operation : Operations, fingerprint : Requests]
    BY <1>0, <1>1, <1>3, <1>4 DEF SqlTypeOK
  <2> QED
    BY <1>0, <1>1, <1>6, <2>2, <2>3 DEF SqlTypeOK, KeepsTeamLocked
<1>8. CASE request.publishes
  <2>1. current' = current + 1 /\ ConfigOf(current)' = tx[s].config
    BY <1>3, <1>5, <1>8, RevisionAdded
  <2>2. ASSUME NEW p \in People, (p \in access) # (p \in tx[s].config)
        PROVE  \E row \in revisions' : EditLeftOpen(row, p)'
    <3>1. CASE (p \in access) # (p \in ConfigOf(current))
      <4>1. PICK row \in revisions : EditLeftOpen(row, p)
        BY <1>0, <3>1 DEF PublishedUnlessEdited
      <4> QED
        BY <1>3, <1>5, <1>8, <4>1, EditsStayOpen
    <3>2. CASE (p \in access) = (p \in ConfigOf(current))
      <4>1. PICK new : new = [number |-> tx[s].number, config |-> tx[s].config,
                              operation |-> request.operation, fingerprint |-> request]
        OBVIOUS
      <4>2. /\ new \in revisions' /\ request # None
            /\ new.number = current + 1 /\ new.config = tx[s].config
            /\ new.fingerprint = request
        BY <1>1, <1>3, <1>5, <1>8, <4>1, NoValueAssumption, MadeFromCurrent
           DEF AddsRevision, Publish
      <4>3. current \in Nat /\ current' = current + 1 /\ RevisionsNumbered'
            /\ current \in 1 .. current
        BY <1>0, <1>6, <2>1 DEF SqlTypeOK
      <4>4. ConfigOf(new.number - 1)' = ConfigOf(current)
        <5>1. new.number - 1 = current
          BY <4>2, <4>3
        <5>2. new.number - 1 \in 1 .. current
          BY <4>3, <5>1
        <5>3. ConfigOf(new.number - 1)' = ConfigOf(new.number - 1)
          BY <1>3, <1>5, <1>8, <5>2, RevisionAdded
        <5> QED
          BY <5>1, <5>3
      <4>5. \A later \in revisions' : ~(later.number > new.number)
        BY <4>2, <4>3 DEF RevisionsNumbered
      <4>6. (p \in new.config) # (p \in ConfigOf(new.number - 1)')
        BY <2>2, <3>2, <4>2, <4>4
      <4>7. EditLeftOpen(new, p)'
        BY <1>3, <4>2, <4>5, <4>6 DEF EditLeftOpen, Pushed
      <4> QED
        BY <4>2, <4>7
    <3> QED
      BY <3>1, <3>2
  <2>3. PublishedUnlessEdited' /\ SentHavingSeen'
    BY <1>1, <2>1, <2>2, NothingSentYet DEF PublishedUnlessEdited
  <2> QED
    BY <1>6, <1>7, <2>3 DEF SqlInv
<1>9. CASE ~request.publishes
  <2>1. PublishedUnlessEdited'
    BY <1>0, <1>1, <1>9, AccessUntouched
  <2>2. ASSUME NEW j \in DOMAIN versions', versions'[j].published
        PROVE  j \in DOMAIN versions /\ versions[j].published
    <3>1. version.published = FALSE
      BY <1>4, <1>9
    <3>2. versions \in Seq([operation : Operations, expected : Nat, published : BOOLEAN])
      BY <1>0 DEF SqlTypeOK
    <3> HIDE DEF version
    <3> QED
      BY <1>1, <2>2, <3>1, <3>2
  <2>3. SentHavingSeen'
    BY <1>0, <1>1, <1>9, <2>2 DEF SentHavingSeen
  <2> QED
    BY <1>6, <1>7, <2>1, <2>3 DEF SqlInv
<1> QED
  BY <1>4, <1>8, <1>9

\* The two ways to let the joiner in.
LEMMA LetInInv ==
    ASSUME SqlInv, NEW s \in Sessions, tx[s] # None,
           tx[s].step = "commit", tx[s].request.kind \in {"approve", "redeem"},
           tx[s].request.kind = "redeem" => tx[s].request.bundle,
           LetIn(s), Rollback(s), UNCHANGED <<versions, envOperations, sent>>,
           invite' = invite \/ InviteRow \in tx[s].holds,
           invite' \in {"active", "redeemed", "revoked"}
    PROVE  SqlInv'
<1>0. SqlTypeOK
  BY DEF SqlInv
<1>1. Publish(s, None) /\ access' = access \cup {Joiner} /\ joiner' = "active"
  BY DEF LetIn
<1>2. InOrder(tx[s])
  BY DEF SqlInv, TransactionsInOrder
<1>3. AddsRevision(s, None)
  BY <1>1, <1>2 DEF InOrder, Numbered, Publishes, AddsRevision
<1>4. JoinerRow \in tx[s].holds
  BY <1>2 DEF InOrder, HasJoiner
<1>5. /\ current' \in Nat \ {0} /\ revisions' \subseteq Revisions
      /\ tx' \in [Sessions -> Transactions \cup {None}]
      /\ \A u \in Sessions : tx'[u] # None => KeepsTeamLocked(tx'[u])
      /\ RevisionsNumbered' /\ SentAgainstRevision' /\ LocksExclude' /\ TransactionsInOrder'
  BY <1>3, <1>4, CommitInOrder
<1>6. current' = current + 1 /\ ConfigOf(current)' = tx[s].config
  BY <1>3, RevisionAdded
<1>7. tx[s].config = ConfigOf(current) \cup {Joiner}
  BY <1>3, MadeFromCurrent DEF AddsRevision
<1>8. SqlTypeOK'
  BY <1>0, <1>1, <1>5 DEF SqlTypeOK, KeepsTeamLocked, People
<1>9. ASSUME NEW p \in People, (p \in access') # (p \in tx[s].config)
      PROVE  \E row \in revisions' : EditLeftOpen(row, p)'
  <2>1. (p \in access) # (p \in ConfigOf(current))
    BY <1>1, <1>7, <1>9
  <2>2. PICK row \in revisions : EditLeftOpen(row, p)
    BY <2>1 DEF SqlInv, PublishedUnlessEdited
  <2> QED
    BY <1>3, <2>2, EditsStayOpen
<1>10. PublishedUnlessEdited' /\ SentHavingSeen'
  BY <1>6, <1>9, NothingSentYet DEF PublishedUnlessEdited
<1> QED
  BY <1>5, <1>8, <1>10 DEF SqlInv

LEMMA CommitApprovalInv ==
    ASSUME SqlInv, NEW s \in Sessions, CommitApproval(s)
    PROVE  SqlInv'
<1>1. /\ At(s, {"approve"}, "commit") /\ LetIn(s) /\ Rollback(s)
      /\ UNCHANGED <<versions, envOperations, invite, sent>>
  BY DEF CommitApproval
<1>2. tx[s] # None /\ tx[s].step = "commit" /\ tx[s].request.kind = "approve"
  BY <1>1 DEF At
<1>3. invite \in {"active", "redeemed", "revoked"}
  BY DEF SqlInv, SqlTypeOK
<1> QED
  BY <1>1, <1>2, <1>3, LetInInv

LEMMA CommitRedemptionInv ==
    ASSUME SqlInv, NEW s \in Sessions, CommitRedemption(s)
    PROVE  SqlInv'
<1>0. SqlTypeOK /\ PublishedUnlessEdited /\ SentHavingSeen
  BY DEF SqlInv
<1>1. /\ At(s, {"redeem"}, "commit") /\ invite' = "redeemed" /\ Rollback(s)
      /\ IF tx[s].request.bundle
         THEN LetIn(s) ELSE UNCHANGED <<current, revisions, access, joiner>>
      /\ UNCHANGED <<versions, envOperations, sent>>
  BY DEF CommitRedemption
<1>2. /\ tx[s] # None /\ tx[s].request \in Requests /\ tx[s].request.kind \in {"redeem"}
      /\ tx[s].step = "commit" /\ InOrder(tx[s])
  BY <1>1, Waited
<1>3. InviteRow \in tx[s].holds
  BY <1>2 DEF InOrder, HasInvite
<1>4. CASE tx[s].request.bundle
  BY <1>1, <1>2, <1>3, <1>4, LetInInv
<1>5. CASE ~tx[s].request.bundle
  <2>1. /\ current' \in Nat \ {0} /\ revisions' \subseteq Revisions
        /\ tx' \in [Sessions -> Transactions \cup {None}]
        /\ \A u \in Sessions : tx'[u] # None => KeepsTeamLocked(tx'[u])
        /\ RevisionsNumbered' /\ SentAgainstRevision' /\ LocksExclude' /\ TransactionsInOrder'
    BY <1>1, <1>2, <1>3, <1>5, CommitInOrder
  <2>2. SqlTypeOK'
    BY <1>0, <1>1, <1>5, <2>1 DEF SqlTypeOK, KeepsTeamLocked
  <2>3. PublishedUnlessEdited' /\ SentHavingSeen'
    BY <1>0, <1>1, <1>5, AccessUntouched DEF SentHavingSeen
  <2> QED
    BY <2>1, <2>2, <2>3 DEF SqlInv
<1> QED
  BY <1>4, <1>5

-----------------------------------------------------------------------------
(* The other steps, and the invariant.                                     *)

\* A statement of its own changes a row only when nobody has locked it.
LEMMA StatementInv ==
    ASSUME SqlInv, UNCHANGED <<current, revisions, access, versions, envOperations, sent, tx>>,
           joiner' = joiner \/ ~Locked(JoinerRow),
           invite' = invite \/ ~Locked(InviteRow),
           joiner' \in {"none", "pending", "active", "declined"},
           invite' \in {"active", "redeemed", "revoked"}
    PROVE  SqlInv'
<1>0. /\ SqlTypeOK /\ RevisionsNumbered /\ PublishedUnlessEdited /\ SentAgainstRevision
      /\ SentHavingSeen /\ LocksExclude /\ TransactionsInOrder
  BY DEF SqlInv
<1>1. /\ SqlTypeOK' /\ RevisionsNumbered' /\ PublishedUnlessEdited' /\ SentAgainstRevision'
      /\ SentHavingSeen' /\ LocksExclude'
  <2>1. PublishedUnlessEdited'
    BY <1>0, AccessUntouched
  <2>2. SqlTypeOK' /\ RevisionsNumbered' /\ SentHavingSeen' /\ LocksExclude'
    BY <1>0 DEF SqlTypeOK, KeepsTeamLocked, RevisionsNumbered, SentHavingSeen, LocksExclude
  <2>3. SentAgainstRevision'
    BY <1>0 DEF SentAgainstRevision, ConfigOf
  <2> QED
    BY <2>1, <2>2, <2>3
<1>2. ASSUME NEW u \in Sessions, tx[u] # None
      PROVE  InOrder(tx[u])'
  <2>1. InOrder(tx[u])
    BY <1>0, <1>2 DEF TransactionsInOrder
  <2>2. ASSUME NEW row \in {JoinerRow, InviteRow}, row \in tx[u].holds
        PROVE  Locked(row)
    <3>1. row # TeamShare
      BY <2>2 DEF JoinerRow, InviteRow, TeamShare
    <3>2. Excludes(row, row)
      BY <3>1 DEF Excludes
    <3> QED
      BY <1>2, <2>2, <3>2 DEF Locked, Holds
  <2>3. HasJoiner(tx[u])'
    <3>1. HasJoiner(tx[u]) /\ (JoinerRow \in tx[u].holds => joiner' = joiner)
      BY <2>1, <2>2 DEF InOrder
    <3> QED
      BY <3>1 DEF HasJoiner
  <2>4. HasInvite(tx[u])'
    <3>1. HasInvite(tx[u]) /\ (InviteRow \in tx[u].holds => invite' = invite)
      BY <2>1, <2>2 DEF InOrder
    <3> QED
      BY <3>1 DEF HasInvite
  <2>5. Numbered(tx[u])' /\ HasNext(tx[u])' /\ (tx[u].request \in sent)'
    BY <2>1 DEF InOrder, Numbered, HasNext, Publishes, ConfigOf
  <2> QED
    BY <2>3, <2>4, <2>5 DEF InOrder
<1>3. TransactionsInOrder'
  BY <1>2 DEF TransactionsInOrder
<1> QED
  BY <1>1, <1>3 DEF SqlInv

\* A request is composed from the current config, by somebody who has
\* authority now, and has seen every value.
LEMMA SendInv ==
    ASSUME SqlInv, NEW r \in Requests, Send(r),
           r.kind \in {"config", "env"} =>
             /\ r.expected = current /\ r.sender \in access
             /\ r.config \in Edits(ConfigOf(current))
             /\ r.kind = "env" => r.version = Len(versions)
    PROVE  SqlInv'
<1>0. /\ SqlTypeOK /\ RevisionsNumbered /\ PublishedUnlessEdited /\ SentAgainstRevision
      /\ SentHavingSeen /\ LocksExclude /\ TransactionsInOrder /\ current \in Nat \ {0}
  BY DEF SqlInv, SqlTypeOK
<1>1. /\ sent' = sent \cup {r}
      /\ UNCHANGED <<current, revisions, access, versions, envOperations, joiner, invite, tx>>
  BY DEF Send, tables
<1>2. SqlTypeOK' /\ RevisionsNumbered' /\ PublishedUnlessEdited' /\ LocksExclude'
  BY <1>0, <1>1, AccessUntouched DEF SqlTypeOK, KeepsTeamLocked, RevisionsNumbered, LocksExclude
<1>3. SentAgainstRevision'
  <2>1. \A n : ConfigOf(n)' = ConfigOf(n)
    BY <1>1 DEF ConfigOf
  <2>2. ASSUME NEW q \in sent', q.kind \in {"config", "env"}
        PROVE  /\ q.expected \in 1 .. current
               /\ q.expected = current => q.sender \in access
               /\ q.config \in Edits(ConfigOf(q.expected))
    BY <1>0, <1>1, <2>2 DEF SentAgainstRevision
  <2> QED
    BY <1>1, <2>1, <2>2 DEF SentAgainstRevision, Edits
<1>4. SentHavingSeen'
  <2>1. \A j \in DOMAIN versions : j <= Len(versions)
    BY <1>0 DEF SqlTypeOK
  <2> QED
    BY <1>0, <1>1, <2>1 DEF SentHavingSeen
<1>5. TransactionsInOrder'
  <2>1. ASSUME NEW s \in Sessions, tx[s] # None
        PROVE  InOrder(tx[s])'
    <3>1. InOrder(tx[s])
      BY <1>0, <2>1 DEF TransactionsInOrder
    <3>2. Numbered(tx[s])'
      BY <1>1, <3>1 DEF InOrder, Numbered, Publishes, ConfigOf
    <3>3. HasNext(tx[s])' /\ HasJoiner(tx[s])' /\ HasInvite(tx[s])'
      BY <1>1, <3>1 DEF InOrder, HasNext, HasJoiner, HasInvite
    <3> QED
      BY <1>1, <3>1, <3>2, <3>3 DEF InOrder
  <2> QED
    BY <1>1, <2>1 DEF TransactionsInOrder
<1> QED
  BY <1>2, <1>3, <1>4, <1>5 DEF SqlInv

LEMMA ComposeInv ==
    ASSUME SqlInv, NEW p \in People, NEW op \in Operations, Compose(p, op)
    PROVE  SqlInv'
<1>0. SqlTypeOK /\ RevisionsNumbered /\ current \in Nat \ {0}
  BY DEF SqlInv, SqlTypeOK
<1>1. ConfigOf(current) \in SUBSET People
  BY <1>0, ConfigOfType
<1>2. CASE p \in access /\ SendConfigPush(p, op)
  <2>1. PICK config \in Edits(ConfigOf(current)) :
             Send([kind |-> "config", operation |-> op, sender |-> p,
                   expected |-> current, config |-> config])
    BY <1>2 DEF SendConfigPush
  <2>2. PICK r : r = [kind |-> "config", operation |-> op, sender |-> p,
                      expected |-> current, config |-> config]
    OBVIOUS
  <2>3. r \in Requests
    BY <1>0, <1>1, <2>2, EditsType DEF Requests
  <2> QED
    BY <1>2, <2>1, <2>2, <2>3, SendInv
<1>3. CASE p \in access /\ SendEnvPush(p, op)
  <2>1. PICK publishes \in BOOLEAN, config \in Edits(ConfigOf(current)) :
             Send([kind |-> "env", operation |-> op, sender |-> p,
                   expected |-> current, config |-> config,
                   version |-> Len(versions), publishes |-> publishes])
    BY <1>3 DEF SendEnvPush
  <2>2. PICK r : r = [kind |-> "env", operation |-> op, sender |-> p,
                      expected |-> current, config |-> config,
                      version |-> Len(versions), publishes |-> publishes]
    OBVIOUS
  <2>3. Len(versions) \in Nat
    BY <1>0 DEF SqlTypeOK
  <2>4. r \in Requests
    BY <1>0, <1>1, <2>2, <2>3, EditsType DEF Requests
  <2> QED
    BY <1>3, <2>1, <2>2, <2>4, SendInv
<1>4. CASE SendApproval(p, op)
  <2>1. PICK scoped \in BOOLEAN :
             Send([kind |-> "approve", operation |-> op, sender |-> p, scoped |-> scoped])
    BY <1>4 DEF SendApproval
  <2>2. PICK r : r = [kind |-> "approve", operation |-> op, sender |-> p, scoped |-> scoped]
    OBVIOUS
  <2>3. r \in Requests
    BY <2>2 DEF Requests
  <2> QED
    BY <2>1, <2>2, <2>3, SendInv
<1>5. CASE SendRedemption(op)
  <2>1. PICK bundle \in BOOLEAN :
             Send([kind |-> "redeem", operation |-> op, sender |-> Joiner, bundle |-> bundle])
    BY <1>5 DEF SendRedemption
  <2>2. PICK r : r = [kind |-> "redeem", operation |-> op, sender |-> Joiner, bundle |-> bundle]
    OBVIOUS
  <2>3. r \in Requests
    BY <2>2 DEF Requests
  <2> QED
    BY <2>1, <2>2, <2>3, SendInv
<1> QED
  BY <1>2, <1>3, <1>4, <1>5 DEF Compose

LEMMA SqlInitInv == Init => SqlInv
<1> SUFFICES ASSUME Init
             PROVE  SqlInv
  OBVIOUS
<1>1. /\ current = 1 /\ access = Managers /\ versions = <<>> /\ envOperations = {}
      /\ revisions = {[number |-> 1, config |-> Managers, operation |-> None,
                       fingerprint |-> None]}
      /\ joiner = "none" /\ invite = "active" /\ sent = {} /\ tx = [s \in Sessions |-> None]
  BY DEF Init
<1>2. SqlTypeOK
  BY <1>1 DEF SqlTypeOK, Revisions, People
<1>3. RevisionsNumbered
  BY <1>1 DEF RevisionsNumbered
<1>4. PublishedUnlessEdited
  <2>1. PICK row \in revisions : row.number = 1 /\ row.config = Managers
    BY <1>1
  <2>2. ConfigOf(1) = Managers
    BY <1>3, <2>1, ConfigOfRow
  <2> QED
    BY <1>1, <2>2 DEF PublishedUnlessEdited
<1>5. SentAgainstRevision /\ SentHavingSeen /\ LocksExclude /\ TransactionsInOrder
  BY <1>1 DEF SentAgainstRevision, SentHavingSeen, LocksExclude, TransactionsInOrder
<1> QED
  BY <1>2, <1>3, <1>4, <1>5 DEF SqlInv

LEMMA SqlStepInv == SqlInv /\ [Next]_vars => SqlInv'
<1> SUFFICES ASSUME SqlInv, [Next]_vars
             PROVE  SqlInv'
  OBVIOUS
<1>1. CASE \E p \in People, op \in Operations : Compose(p, op)
  BY <1>1, ComposeInv
<1>2. ASSUME NEW s \in Sessions, \E request \in sent : Deliver(s, request)
      PROVE  SqlInv'
  BY <1>2, DeliverInv
<1>3. ASSUME NEW s \in Sessions, Step(s)
      PROVE  SqlInv'
  BY <1>3, ReadsInv, LockTeamInv, ApplySnapshotInv, UpsertInv, LockPendingInv, LockInviteInv,
     UpsertMemberInv, ReadConfigInv, InsertRevisionInv, CommitConfigPushInv, CommitEnvPushInv,
     CommitApprovalInv, CommitRedemptionInv DEF Step
<1>4. ASSUME NEW s \in Sessions, Cancel(s) \/ BreakDeadlock(s)
      PROVE  SqlInv'
  BY <1>4, RefuseInv DEF Cancel, BreakDeadlock
<1>0. /\ joiner \in {"none", "pending", "active", "declined"}
      /\ invite \in {"active", "redeemed", "revoked"}
  BY DEF SqlInv, SqlTypeOK
<1>5. CASE CreateJoinRequest
  BY <1>0, <1>5, StatementInv DEF CreateJoinRequest
<1>6. CASE DeclineJoinRequest
  BY <1>0, <1>6, StatementInv DEF DeclineJoinRequest
<1>7. CASE RevokeTeamInvite
  BY <1>0, <1>7, StatementInv DEF RevokeTeamInvite
<1>8. CASE UNCHANGED vars
  <2>1. UNCHANGED <<current, revisions, access, versions, envOperations, joiner, invite, sent, tx>>
    BY <1>8 DEF vars, tables
  <2>2. /\ joiner' \in {"none", "pending", "active", "declined"}
        /\ invite' \in {"active", "redeemed", "revoked"}
    BY <2>1 DEF SqlInv, SqlTypeOK
  <2> QED
    BY <2>1, <2>2, StatementInv
<1> QED
  BY <1>1, <1>2, <1>3, <1>4, <1>5, <1>6, <1>7, <1>8 DEF Next

LEMMA SqlInvHolds == Spec => []SqlInv
BY SqlInitInv, SqlStepInv, PTL DEF Spec

-----------------------------------------------------------------------------
(* Theorems.                                                               *)

\* The tables and transactions have their types, and a config push keeps the
\* team's row to its end.
THEOREM SqlTypeCorrect == Spec => []SqlTypeOK
<1>1. SqlInv => SqlTypeOK
  BY DEF SqlInv
<1> QED
  BY <1>1, SqlInvHolds, PTL

\* The access rules in force are the published ones, but for the people an
\* env push edited, whatever transactions of PushConfig, EnvPush,
\* ApproveJoinRequest and SubmitInvitePIN overlap.
THEOREM AccessIsPublished == Spec => []PublishedUnlessEdited
<1>1. SqlInv => PublishedUnlessEdited
  BY DEF SqlInv
<1> QED
  BY <1>1, SqlInvHolds, PTL

\* The published config, the values and the operations change when one of
\* the four kinds of transactions commits.
LEMMA CommitsOnly ==
    ASSUME [Next]_vars
    PROVE  \/ UNCHANGED <<current, revisions, access, versions, envOperations>>
           \/ \E s \in Sessions : \/ CommitConfigPush(s) \/ (CommitEnvPush(s) /\ ~Refuse(s))
                                  \/ CommitApproval(s) \/ CommitRedemption(s)
<1> DEFINE Same == UNCHANGED <<current, revisions, access, versions, envOperations>>
<1>1. ASSUME \E p \in People, op \in Operations : Compose(p, op)
      PROVE  Same
  BY <1>1 DEF Compose, SendConfigPush, SendEnvPush, SendApproval, SendRedemption, Send, tables
<1>2. ASSUME NEW s \in Sessions, Refuse(s)
      PROVE  Same
  BY <1>2 DEF Refuse, tables
<1>3. ASSUME NEW s \in Sessions, NEW step, Proceed(s, step)
      PROVE  Same
  BY <1>3 DEF Proceed, tables
<1>4. ASSUME NEW s \in Sessions, \E request \in sent : Deliver(s, request)
      PROVE  Same
  BY <1>4 DEF Deliver, tables
<1>5. ASSUME NEW s \in Sessions, LockTeam(s) \/ Upsert(s) \/ ReadConfig(s)
      PROVE  Same
  BY <1>2, <1>5 DEF LockTeam, Upsert, ReadConfig, tables
<1>6. ASSUME NEW s \in Sessions,
             \/ LookUpConfigPush(s) \/ ApplySnapshot(s) \/ LookUpEnvPush(s) \/ ReadTeam(s)
             \/ CheckPermission(s) \/ CheckVersion(s)
      PROVE  Same
  BY <1>2, <1>3, <1>6 DEF LookUpConfigPush, ApplySnapshot, LookUpEnvPush, ReadTeam,
                          CheckPermission, CheckVersion
<1>7. ASSUME NEW s \in Sessions,
             LockPending(s) \/ LockInvite(s) \/ UpsertMember(s) \/ InsertRevision(s)
      PROVE  Same
  BY <1>2, <1>3, <1>7 DEF LockPending, LockInvite, UpsertMember, InsertRevision
<1>8. ASSUME CreateJoinRequest \/ DeclineJoinRequest \/ RevokeTeamInvite
      PROVE  Same
  BY <1>8 DEF CreateJoinRequest, DeclineJoinRequest, RevokeTeamInvite
<1>9. ASSUME UNCHANGED vars
      PROVE  Same
  BY <1>9 DEF vars, tables
<1> HIDE DEF Same
<1>10. ASSUME NEW s \in Sessions, Cancel(s) \/ BreakDeadlock(s)
       PROVE  Same
  BY <1>2, <1>10 DEF Cancel, BreakDeadlock
<1>11. ASSUME NEW s \in Sessions, Step(s)
       PROVE  \/ Same
              \/ CommitConfigPush(s) \/ (CommitEnvPush(s) /\ ~Refuse(s))
              \/ CommitApproval(s) \/ CommitRedemption(s)
  BY <1>2, <1>5, <1>6, <1>7, <1>11 DEF Step
<1>12. CASE \E s \in Sessions : Step(s)
  BY <1>11, <1>12 DEF Same
<1>13. CASE ~ \E s \in Sessions : Step(s)
  <2>1. Same
    BY <1>1, <1>4, <1>8, <1>9, <1>10, <1>13 DEF Next
  <2> QED
    BY <2>1 DEF Same
<1> QED
  BY <1>12, <1>13

\* A push that published has seen every value it replaced that came with a
\* published config: EnvPush's comparison of versions, made up for by the
\* unique revision.
LEMMA SeenStep == SqlInv /\ PublishersSeeEachOther /\ [Next]_vars => PublishersSeeEachOther'
<1> SUFFICES ASSUME SqlInv, PublishersSeeEachOther, [Next]_vars
             PROVE  PublishersSeeEachOther'
  OBVIOUS
<1>1. CASE UNCHANGED versions
  BY <1>1 DEF PublishersSeeEachOther
<1>2. ASSUME NEW s \in Sessions, CommitEnvPush(s), ~Refuse(s)
      PROVE  PublishersSeeEachOther'
  <2> DEFINE request == tx[s].request
             version == [operation |-> request.operation, expected |-> request.version,
                         published |-> request.publishes]
  <2>1. At(s, {"env"}, "commit") /\ versions' = Append(versions, version)
    BY <1>2 DEF CommitEnvPush
  <2>2. /\ tx[s] # None /\ request \in Requests /\ request.kind \in {"env"}
        /\ tx[s].step = "commit" /\ InOrder(tx[s]) /\ request \in sent
    BY <2>1, Waited
  <2>3. request.publishes =>
          \A j \in DOMAIN versions : versions[j].published => j <= request.version
    <3> SUFFICES ASSUME request.publishes
                 PROVE  \A j \in DOMAIN versions : versions[j].published => j <= request.version
      OBVIOUS
    <3>1. tx[s].number > 0
      BY <2>2 DEF InOrder, Numbered, Publishes
    <3>2. request.expected = current
      BY <2>2, <3>1, MadeFromCurrent
    <3> QED
      BY <2>2, <3>2 DEF SqlInv, SentHavingSeen
  <2>4. versions \in Seq([operation : Operations, expected : Nat, published : BOOLEAN])
    BY DEF SqlInv, SqlTypeOK
  <2>5. version.expected = request.version /\ version.published = request.publishes
    OBVIOUS
  <2> HIDE DEF version
  <2>6. /\ DOMAIN versions' = 1 .. Len(versions) + 1
        /\ versions'[Len(versions) + 1] = version
        /\ \A j \in DOMAIN versions : versions'[j] = versions[j]
        /\ DOMAIN versions = 1 .. Len(versions) /\ Len(versions) \in Nat
    BY <2>1, <2>4
  <2> SUFFICES ASSUME NEW i \in DOMAIN versions', NEW j \in DOMAIN versions',
                      versions'[i].published, versions'[j].published, j < i
               PROVE  j <= versions'[i].expected
    BY DEF PublishersSeeEachOther
  <2>7. j \in DOMAIN versions /\ versions[j].published
    BY <2>6
  <2>8. CASE i \in DOMAIN versions
    BY <2>6, <2>7, <2>8 DEF PublishersSeeEachOther
  <2>9. CASE i = Len(versions) + 1
    BY <2>3, <2>5, <2>6, <2>7, <2>9
  <2> QED
    BY <2>6, <2>8, <2>9
<1>3. (\E s \in Sessions : CommitEnvPush(s) /\ ~Refuse(s)) \/ UNCHANGED versions
  BY CommitsOnly DEF CommitConfigPush, CommitApproval, CommitRedemption
<1> QED
  BY <1>1, <1>2, <1>3

THEOREM PublishersHaveSeen == Spec => []PublishersSeeEachOther
<1>1. Init => PublishersSeeEachOther
  BY DEF Init, PublishersSeeEachOther
<1> QED
  BY <1>1, SqlInvHolds, SeenStep, PTL DEF Spec

\* What a commit adds to the revisions, and by whom.
LEMMA CommitAdds ==
    ASSUME SqlInv, NEW s \in Sessions
    PROVE  /\ CommitConfigPush(s) =>
                tx[s].request \in Requests /\ tx[s].request.kind = "config"
                /\ AddsRevision(s, tx[s].request)
           /\ CommitEnvPush(s) /\ ~Refuse(s) =>
                /\ tx[s].request \in Requests /\ tx[s].request.kind = "env"
                /\ IF tx[s].request.publishes
                   THEN AddsRevision(s, tx[s].request)
                   ELSE UNCHANGED <<current, revisions>>
           /\ CommitApproval(s) => AddsRevision(s, None)
                /\ tx[s].request.kind = "approve" /\ joiner = "pending"
           /\ CommitRedemption(s) =>
                /\ tx[s].request.kind = "redeem" /\ invite = "active"
                /\ IF tx[s].request.bundle
                   THEN AddsRevision(s, None)
                   ELSE UNCHANGED <<current, revisions>>
<1>1. ASSUME CommitConfigPush(s)
      PROVE  tx[s].request \in Requests /\ tx[s].request.kind = "config"
             /\ AddsRevision(s, tx[s].request)
  <2>1. At(s, {"config"}, "commit") /\ Publish(s, tx[s].request)
    BY <1>1 DEF CommitConfigPush
  <2>2. /\ tx[s] # None /\ tx[s].request \in Requests /\ tx[s].request.kind \in {"config"}
        /\ tx[s].step = "commit" /\ InOrder(tx[s])
    BY <2>1, Waited
  <2> QED
    BY <2>1, <2>2 DEF InOrder, Numbered, Publishes, AddsRevision
<1>2. ASSUME CommitEnvPush(s), ~Refuse(s)
      PROVE  /\ tx[s].request \in Requests /\ tx[s].request.kind = "env"
             /\ IF tx[s].request.publishes
                THEN AddsRevision(s, tx[s].request)
                ELSE UNCHANGED <<current, revisions>>
  <2>1. /\ At(s, {"env"}, "commit")
        /\ IF tx[s].request.publishes
           THEN Publish(s, tx[s].request) ELSE UNCHANGED <<current, revisions>>
    BY <1>2 DEF CommitEnvPush
  <2>2. /\ tx[s] # None /\ tx[s].request \in Requests /\ tx[s].request.kind \in {"env"}
        /\ tx[s].step = "commit" /\ InOrder(tx[s])
    BY <2>1, Waited
  <2> QED
    BY <2>1, <2>2 DEF InOrder, Numbered, Publishes, AddsRevision
<1>3. ASSUME CommitApproval(s)
      PROVE  AddsRevision(s, None) /\ tx[s].request.kind = "approve" /\ joiner = "pending"
  <2>1. At(s, {"approve"}, "commit") /\ Publish(s, None)
    BY <1>3 DEF CommitApproval, LetIn
  <2>2. /\ tx[s] # None /\ tx[s].request.kind \in {"approve"}
        /\ tx[s].step = "commit" /\ InOrder(tx[s])
    BY <2>1, Waited
  <2> QED
    BY <2>1, <2>2 DEF InOrder, Numbered, Publishes, HasJoiner, AddsRevision
<1>4. ASSUME CommitRedemption(s)
      PROVE  /\ tx[s].request.kind = "redeem" /\ invite = "active"
             /\ IF tx[s].request.bundle
                THEN AddsRevision(s, None)
                ELSE UNCHANGED <<current, revisions>>
  <2>1. /\ At(s, {"redeem"}, "commit")
        /\ IF tx[s].request.bundle
           THEN Publish(s, None) ELSE UNCHANGED <<current, revisions>>
    BY <1>4 DEF CommitRedemption, LetIn
  <2>2. /\ tx[s] # None /\ tx[s].request.kind \in {"redeem"}
        /\ tx[s].step = "commit" /\ InOrder(tx[s])
    BY <2>1, Waited
  <2> QED
    BY <2>1, <2>2 DEF InOrder, Numbered, Publishes, HasInvite, AddsRevision
<1> QED
  BY <1>1, <1>2, <1>3, <1>4

\* Whoever publishes a config, or values with one, has authority when it is
\* committed: since the revision expected is still the current one, what
\* verification and requireScopePermission read is still true.
THEOREM PublishersHaveAuthority == Spec => CommittedUnderAuthority
<1> DEFINE Authority ==
        \A row \in revisions' \ revisions :
            row.fingerprint # None => row.fingerprint.sender \in access
<1>1. ASSUME SqlInv, [Next]_vars
      PROVE  Authority
  <2>1. ASSUME NEW s \in Sessions, AddsRevision(s, tx[s].request),
               tx[s].request.kind \in {"config", "env"}
        PROVE  Authority
    <3>1. tx[s].request.sender \in access
      BY <1>1, <2>1, MadeFromCurrent DEF AddsRevision
    <3>2. \A row \in revisions' \ revisions : row.fingerprint = tx[s].request
      BY <2>1 DEF AddsRevision, Publish
    <3> QED
      BY <3>1, <3>2
  <2>2. ASSUME NEW s \in Sessions, AddsRevision(s, None)
        PROVE  Authority
    BY <2>2 DEF AddsRevision, Publish
  <2>3. CASE UNCHANGED revisions
    BY <2>3
  <2> HIDE DEF Authority
  <2>4. ASSUME NEW s \in Sessions, CommitConfigPush(s)
        PROVE  Authority
    BY <1>1, <2>1, <2>4, CommitAdds
  <2>5. ASSUME NEW s \in Sessions, CommitEnvPush(s), ~Refuse(s)
        PROVE  Authority
    BY <1>1, <2>1, <2>3, <2>5, CommitAdds
  <2>6. ASSUME NEW s \in Sessions, CommitApproval(s) \/ CommitRedemption(s)
        PROVE  Authority
    BY <1>1, <2>2, <2>3, <2>6, CommitAdds
  <2> QED
    BY <1>1, <2>3, <2>4, <2>5, <2>6, CommitsOnly
<1>2. SqlInv /\ [Next]_vars => [Authority]_vars
  BY <1>1
<1> QED
  BY <1>2, SqlInvHolds, PTL DEF Spec, CommittedUnderAuthority

\* Whoever is let in is let in by an invite that is still active, or by the
\* approval of a request that is still pending: the row was locked when it
\* was looked at.
THEOREM AdmissionsArePending == Spec => AdmissionsStillPending
<1> DEFINE Pending ==
        \A s \in Sessions :
            /\ CommitRedemption(s) => invite = "active"
            /\ CommitApproval(s) => joiner = "pending"
<1>1. SqlInv => Pending
  BY CommitAdds
<1> QED
  BY <1>1, SqlInvHolds, PTL DEF Spec, AdmissionsStillPending

-----------------------------------------------------------------------------
(* The revision log.                                                       *)

\* The log and the operations done that the tables stand for.
Log == [n \in 1 .. current |-> ConfigOf(n)]

Done ==
    {<<row.fingerprint.kind, row.operation>> : row \in
        {r \in revisions : r.fingerprint # None}}
    \cup {<<"env", row.operation>> : row \in envOperations}

\* A revision that came with a push of values has its operation recorded.
EnvPushesRecorded ==
    \A row \in revisions :
        row.fingerprint # None /\ row.fingerprint.kind = "env" =>
            \E e \in envOperations : e.operation = row.operation

LEMMA RecordedStep == SqlInv /\ EnvPushesRecorded /\ [Next]_vars => EnvPushesRecorded'
<1> SUFFICES ASSUME SqlInv, EnvPushesRecorded, [Next]_vars
             PROVE  EnvPushesRecorded'
  OBVIOUS
<1>1. CASE UNCHANGED <<current, revisions, access, versions, envOperations>>
  BY <1>1 DEF EnvPushesRecorded
<1>2. ASSUME NEW s \in Sessions, CommitConfigPush(s)
      PROVE  EnvPushesRecorded'
  <2>1. tx[s].request.kind = "config" /\ UNCHANGED envOperations
        /\ \A row \in revisions' : row \in revisions \/ row.fingerprint = tx[s].request
    BY <1>2, CommitAdds DEF CommitConfigPush, AddsRevision, Publish
  <2> QED
    BY <2>1 DEF EnvPushesRecorded
<1>3. ASSUME NEW s \in Sessions, CommitEnvPush(s), ~Refuse(s)
      PROVE  EnvPushesRecorded'
  <2>1. envOperations' = envOperations \cup
          {[operation |-> tx[s].request.operation, fingerprint |-> tx[s].request]}
    BY <1>3 DEF CommitEnvPush
  <2>2. \A row \in revisions' : row \in revisions \/ row.operation = tx[s].request.operation
    BY <1>3, CommitAdds DEF AddsRevision, Publish
  <2>3. \E e \in envOperations' : e.operation = tx[s].request.operation
    <3> DEFINE e == [operation |-> tx[s].request.operation, fingerprint |-> tx[s].request]
    <3>1. e \in envOperations' /\ e.operation = tx[s].request.operation
      BY <2>1
    <3> HIDE DEF e
    <3> QED
      BY <3>1
  <2>4. envOperations \subseteq envOperations'
    BY <2>1
  <2> SUFFICES ASSUME NEW row \in revisions',
                      row.fingerprint # None, row.fingerprint.kind = "env"
               PROVE  \E e \in envOperations' : e.operation = row.operation
    BY DEF EnvPushesRecorded
  <2>5. CASE row \in revisions
    BY <2>4, <2>5 DEF EnvPushesRecorded
  <2>6. CASE row.operation = tx[s].request.operation
    BY <2>3, <2>6
  <2> QED
    BY <2>2, <2>5, <2>6
<1>4. ASSUME NEW s \in Sessions, CommitApproval(s) \/ CommitRedemption(s)
      PROVE  EnvPushesRecorded'
  <2>1. UNCHANGED envOperations
        /\ \A row \in revisions' : row \in revisions \/ row.fingerprint = None
    BY <1>4, CommitAdds DEF CommitApproval, CommitRedemption, AddsRevision, Publish
  <2> QED
    BY <2>1 DEF EnvPushesRecorded
<1> QED
  BY <1>1, <1>2, <1>3, <1>4, CommitsOnly

LEMMA RecordedHolds == Spec => []EnvPushesRecorded
<1>1. Init => EnvPushesRecorded
  BY DEF Init, EnvPushesRecorded
<1> QED
  BY <1>1, SqlInvHolds, RecordedStep, PTL DEF Spec

\* The log ends with the config in force.
LEMMA LogIsCurrent ==
    ASSUME SqlInv
    PROVE  Log \in Seq(SUBSET People) /\ Len(Log) = current /\ Log[Len(Log)] = ConfigOf(current)
<1>1. current \in Nat \ {0} /\ SqlTypeOK /\ RevisionsNumbered
  BY DEF SqlInv, SqlTypeOK
<1>2. \A n \in 1 .. current : ConfigOf(n) \in SUBSET People
  BY <1>1, ConfigOfType
<1>3. Log \in [1 .. current -> SUBSET People]
  BY <1>2 DEF Log
<1>4. Log \in Seq(SUBSET People) /\ Len(Log) = current
  BY <1>1, <1>3
<1>5. Log[current] = ConfigOf(current)
  BY <1>1 DEF Log
<1> QED
  BY <1>1, <1>4, <1>5

\* A commit that adds a revision appends its config to the log.
LEMMA LogGrows ==
    ASSUME SqlInv, NEW s \in Sessions, NEW fingerprint \in Requests \cup {None},
           AddsRevision(s, fingerprint)
    PROVE  Log' = Append(Log, tx[s].config)
<1>1. /\ current' = current + 1 /\ current \in Nat
      /\ ConfigOf(current)' = tx[s].config
      /\ \A n \in 1 .. current : ConfigOf(n)' = ConfigOf(n)
  BY RevisionAdded DEF SqlInv, SqlTypeOK
<1>2. Log \in Seq(SUBSET People) /\ Len(Log) = current
  BY LogIsCurrent
<1>3. Log' = [n \in 1 .. current' |-> ConfigOf(n)']
  BY DEF Log
<1>4. \A n \in 1 .. current : Log[n] = ConfigOf(n)
  BY DEF Log
<1>5. DOMAIN Log' = 1 .. current + 1
  BY <1>1, <1>3
<1>6. \A n \in 1 .. current : Log'[n] = Log[n]
  BY <1>1, <1>3, <1>4
<1>7. Log'[current + 1] = tx[s].config
  <2>1. PICK n : n = current'
    OBVIOUS
  <2>2. Log'[n] = ConfigOf(n)'
    BY <1>1, <1>3, <2>1
  <2>3. ConfigOf(n)' = ConfigOf(current)'
    BY <2>1 DEF ConfigOf
  <2> QED
    BY <1>1, <2>1, <2>2, <2>3
<1>8. Append(Log, tx[s].config) =
        [n \in 1 .. current + 1 |-> IF n = current + 1 THEN tx[s].config ELSE Log[n]]
  BY <1>1, <1>2
<1>9. Log' = [n \in 1 .. current + 1 |-> IF n = current + 1 THEN tx[s].config ELSE Log[n]]
  <2>1. ASSUME NEW n \in 1 .. current + 1
        PROVE  ConfigOf(n)' = IF n = current + 1 THEN tx[s].config ELSE Log[n]
    <3>1. Log'[n] = ConfigOf(n)'
      BY <1>1, <1>3
    <3>2. n # current + 1 => n \in 1 .. current
      BY <1>1
    <3> QED
      BY <1>6, <1>7, <3>1, <3>2
  <2> QED
    BY <1>1, <1>3, <2>1
<1> QED
  BY <1>8, <1>9

LEMMA OneMoreOperation ==
    ASSUME NEW rows, NEW row
    PROVE  {<<"env", r.operation>> : r \in rows \cup {row}}
           = {<<"env", r.operation>> : r \in rows} \cup {<<"env", row.operation>>}
OBVIOUS

\* A commit that adds a revision for a request does that request's operation.
LEMMA DoesOperation ==
    ASSUME NEW s \in Sessions, tx[s].request \in Requests, AddsRevision(s, tx[s].request),
           \/ UNCHANGED envOperations /\ tx[s].request.kind = "config"
           \/ /\ tx[s].request.kind = "env"
              /\ envOperations' = envOperations \cup
                   {[operation |-> tx[s].request.operation, fingerprint |-> tx[s].request]}
    PROVE  Done' = Done \cup {<<tx[s].request.kind, tx[s].request.operation>>}
<1> DEFINE request == tx[s].request
           row == [number |-> tx[s].number, config |-> tx[s].config,
                   operation |-> request.operation, fingerprint |-> request]
<1>1. revisions' = revisions \cup {row} /\ request # None
  BY NoValueAssumption DEF AddsRevision, Publish
<1>2. row.operation = request.operation /\ row.fingerprint = request
  OBVIOUS
<1>3. PICK kind : kind = request.kind
  OBVIOUS
<1>4. PICK operation : operation = request.operation
  OBVIOUS
<1> HIDE DEF row
<1>5. {<<r.fingerprint.kind, r.operation>> : r \in {q \in revisions' : q.fingerprint # None}}
      = {<<r.fingerprint.kind, r.operation>> : r \in {q \in revisions : q.fingerprint # None}}
        \cup {<<kind, operation>>}
  BY <1>1, <1>2, <1>3, <1>4
<1>6. CASE UNCHANGED envOperations
  BY <1>3, <1>4, <1>5, <1>6 DEF Done
<1>7. CASE kind = "env" /\ envOperations' = envOperations \cup
             {[operation |-> request.operation, fingerprint |-> request]}
  <2> DEFINE new == [operation |-> request.operation, fingerprint |-> request]
  <2>1. new.operation = operation
    BY <1>4
  <2> HIDE DEF new
  <2>2. {<<"env", e.operation>> : e \in envOperations'}
        = {<<"env", e.operation>> : e \in envOperations} \cup {<<kind, operation>>}
    BY <1>7, <2>1, OneMoreOperation DEF new
  <2> QED
    BY <1>3, <1>4, <1>5, <2>2 DEF Done
<1> QED
  BY <1>3, <1>6, <1>7

LEMMA InitLog == Init => RevisionLog!Init
<1> SUFFICES ASSUME Init
             PROVE  Len(Log) = 1 /\ Done = {}
  BY DEF RevisionLog!Init, Log, Done
<1>1. Len(Log) = 1
  BY SqlInitInv, LogIsCurrent DEF Init
<1>2. Done = {}
  BY DEF Init, Done
<1> QED
  BY <1>1, <1>2

LEMMA ConfigPushInLog ==
    ASSUME SqlInv, NEW s \in Sessions, CommitConfigPush(s)
    PROVE  RevisionLog!Next
<1> DEFINE request == tx[s].request
           op == <<"config", request.operation>>
<1>1. /\ request \in Requests /\ request.kind = "config" /\ AddsRevision(s, request)
      /\ UNCHANGED envOperations
  BY CommitAdds DEF CommitConfigPush
<1>2. /\ \A row \in revisions : row.operation # request.operation
      /\ tx[s].config \in Edits(ConfigOf(current))
  BY <1>1, MadeFromCurrent DEF AddsRevision
<1>3. Log' = Append(Log, tx[s].config) /\ Log[Len(Log)] = ConfigOf(current)
  BY <1>1, LogGrows, LogIsCurrent
<1>4. op \notin Done
  BY <1>2 DEF Done
<1>5. Done' = Done \cup {op}
  BY <1>1, DoesOperation
<1>6. op \in {"config", "env"} \X Operations
  BY <1>1, RequestFields
<1>7. PICK id : id = op
  OBVIOUS
<1> HIDE DEF op
<1>8. RevisionLog!Push(id)
  BY <1>2, <1>3, <1>4, <1>5, <1>7 DEF RevisionLog!Push, RevisionLog!Current, Log, Done
<1> QED
  BY <1>6, <1>7, <1>8 DEF RevisionLog!Next

LEMMA EnvPushInLog ==
    ASSUME SqlInv, EnvPushesRecorded, NEW s \in Sessions, CommitEnvPush(s), ~Refuse(s)
    PROVE  RevisionLog!Next
<1> DEFINE request == tx[s].request
           op == <<"env", request.operation>>
<1>1. /\ request \in Requests /\ request.kind = "env" /\ request.publishes \in BOOLEAN
      /\ IF request.publishes THEN AddsRevision(s, request) ELSE UNCHANGED <<current, revisions>>
  BY CommitAdds, RequestFields
<1>2. /\ envOperations' = envOperations \cup
           {[operation |-> request.operation, fingerprint |-> request]}
      /\ ~ \E row \in envOperations : row.operation = request.operation
  BY DEF CommitEnvPush
<1>3. op \notin Done
  BY <1>2 DEF Done, EnvPushesRecorded
<1>4. op \in {"config", "env"} \X Operations
  BY <1>1, RequestFields
<1>5. PICK id : id = op
  OBVIOUS
<1>6. CASE request.publishes
  <2>1. Log' = Append(Log, tx[s].config) /\ Log[Len(Log)] = ConfigOf(current)
    BY <1>1, <1>6, LogGrows, LogIsCurrent
  <2>2. tx[s].config \in Edits(ConfigOf(current))
    BY <1>1, <1>6, MadeFromCurrent DEF AddsRevision
  <2>3. Done' = Done \cup {op}
    BY <1>1, <1>2, <1>6, DoesOperation
  <2> HIDE DEF op
  <2>4. RevisionLog!Push(id)
    BY <1>3, <1>5, <2>1, <2>2, <2>3 DEF RevisionLog!Push, RevisionLog!Current, Log, Done
  <2> QED
    BY <1>4, <1>5, <2>4 DEF RevisionLog!Next
<1>7. CASE ~request.publishes
  <2>1. UNCHANGED <<current, revisions>>
    BY <1>1, <1>7
  <2>2. Log' = Log
    BY <2>1 DEF Log, ConfigOf
  <2>3. PICK operation : operation = request.operation
    OBVIOUS
  <2>4. {<<"env", e.operation>> : e \in envOperations'}
        = {<<"env", e.operation>> : e \in envOperations} \cup {<<"env", operation>>}
    BY <1>2, <2>3, OneMoreOperation
  <2>5. Done' = Done \cup {op}
    BY <2>1, <2>3, <2>4 DEF Done
  <2> HIDE DEF op
  <2>6. RevisionLog!Commit(id)
    BY <1>3, <1>5, <2>2, <2>5 DEF RevisionLog!Commit, Log, Done
  <2> QED
    BY <1>4, <1>5, <2>6 DEF RevisionLog!Next
<1> QED
  BY <1>1, <1>6, <1>7

\* Letting the joiner in is an admission; using up an invite alone is not.
LEMMA AdmissionInLog ==
    ASSUME SqlInv, NEW s \in Sessions, CommitApproval(s) \/ CommitRedemption(s)
    PROVE  RevisionLog!Next \/ UNCHANGED <<Log, Done>>
<1>1. UNCHANGED envOperations
  BY DEF CommitApproval, CommitRedemption
<1>2. CASE UNCHANGED <<current, revisions>>
  BY <1>1, <1>2 DEF Log, Done, ConfigOf
<1>3. CASE AddsRevision(s, None)
  <2>1. Log' = Append(Log, tx[s].config) /\ Log[Len(Log)] = ConfigOf(current)
    BY <1>3, LogGrows, LogIsCurrent
  <2>2. tx[s].request.kind \in {"approve", "redeem"}
    BY CommitAdds
  <2>3. tx[s].config \in Admissions(ConfigOf(current))
    BY <1>3, <2>2, MadeFromCurrent DEF AddsRevision, Admissions
  <2>4. {r \in revisions' : r.fingerprint # None} = {r \in revisions : r.fingerprint # None}
    BY <1>3 DEF AddsRevision, Publish
  <2>5. Done' = Done
    BY <1>1, <2>4 DEF Done
  <2>6. RevisionLog!Admit
    BY <2>1, <2>3, <2>5 DEF RevisionLog!Admit, RevisionLog!Current, Log, Done
  <2> QED
    BY <2>6 DEF RevisionLog!Next
<1> QED
  BY <1>2, <1>3, CommitAdds

LEMMA StepInLog ==
    ASSUME SqlInv, EnvPushesRecorded, [Next]_vars
    PROVE  RevisionLog!Next \/ UNCHANGED <<Log, Done>>
<1>1. CASE UNCHANGED <<current, revisions, access, versions, envOperations>>
  BY <1>1 DEF Log, Done, ConfigOf
<1> QED
  BY <1>1, CommitsOnly, ConfigPushInLog, EnvPushInLog, AdmissionInLog

\* The transactions implement the revision log: every revision is an edit of
\* the one right before it, made by whoever expected it, or lets the joiner
\* in; and no operation is done twice, though methods look for revisions and
\* operations before they hold what they would need to hold.
THEOREM SqlImplementsLog == Spec => ImplementsLog
<1>1. SqlInv /\ EnvPushesRecorded /\ [Next]_vars => [RevisionLog!Next]_<<Log, Done>>
  BY StepInLog
<1> QED
  BY <1>1, InitLog, SqlInvHolds, RecordedHolds, PTL
     DEF Spec, ImplementsLog, RevisionLog!Spec, Log, Done

-----------------------------------------------------------------------------
(* The nonces, which ReserveNonce keeps in the same database.  For any      *)
(* number of requests, copies and handlers, any times and any length of a  *)
(* handler's work: a copy of a signed request passes after another only at *)
(* the end of the nonce's life, and then only if the request's timestamp   *)
(* was ahead of the server's clock by the margin, less that work.          *)

ReplayInv ==
    ReplayTypeOK /\ CheckedInWindow /\ AcceptedInWindow /\ RememberedUntilOver /\ KeptApart

LEMMA Times ==
    /\ Skew \in Nat /\ Margin \in Nat /\ Patience \in Nat /\ Horizon \in Nat
    /\ Margin > 0
BY TimesAssumption

\* The arithmetic of a nonce that was over when a handler looked for it.
LEMMA OverByThen ==
    ASSUME NEW first \in Nat, NEW now \in Nat, NEW checked \in Nat,
           first + Skew + Margin <= now, now <= checked + Patience
    PROVE  checked + Patience >= first + Skew + Margin
BY Times

\* The arithmetic of two copies as far apart, both in the accepted window.
LEMMA AheadByMargin ==
    ASSUME NEW first \in Nat, NEW second \in Nat, NEW signed \in Nat,
           second + Patience >= first + Skew + Margin, second <= signed + Skew
    PROVE  signed + Patience >= first + Margin
BY Times

LEMMA Appended ==
    ASSUME NEW seq \in Seq(Nat), NEW time \in Nat
    PROVE  /\ Len(Append(seq, time)) = Len(seq) + 1
           /\ Append(seq, time)[Len(seq) + 1] = time
           /\ \A i \in 1 .. Len(seq) : Append(seq, time)[i] = seq[i]
           /\ Append(seq, time) # <<>>
OBVIOUS

LEMMA ReplayInitially == ReplayInit => ReplayInv
<1> SUFFICES ASSUME ReplayInit PROVE ReplayInv
  OBVIOUS
<1>1. ReplayTypeOK
  BY Times DEF ReplayInit, ReplayTypeOK, Verification, Phase
<1>2. CheckedInWindow
  BY DEF ReplayInit, CheckedInWindow, Busy
<1>3. \A q \in SignedRequests :
        accepted[q] = <<>> /\ expiry[q] = 0 /\ 1 .. Len(accepted[q]) = {}
  BY DEF ReplayInit
<1>4. AcceptedInWindow /\ RememberedUntilOver /\ KeptApart
  BY <1>3 DEF AcceptedInWindow, RememberedUntilOver, KeptApart
<1> QED
  BY <1>1, <1>2, <1>4 DEF ReplayInv

LEMMA ReplayTypeStep ==
    ASSUME ReplayTypeOK, [ReplayNext]_replayVars
    PROVE  ReplayTypeOK'
<1> USE Times DEF ReplayTypeOK
<1>1. CASE Tick
  BY <1>1 DEF Tick
<1>2. ASSUME NEW h \in Handlers, NEW q \in SignedRequests, Verify(h, q)
      PROVE  ReplayTypeOK'
  BY <1>2 DEF Verify, Verification, Phase
<1>3. ASSUME NEW h \in Handlers, Sweep(h)
      PROVE  ReplayTypeOK'
  BY <1>3 DEF Sweep, Verification, Phase
<1>4. ASSUME NEW h \in Handlers, Reserve(h)
      PROVE  ReplayTypeOK'
  <2>1. handler' \in [Handlers -> Verification]
    BY <1>4 DEF Reserve, Verification, Phase
  <2>2. /\ handler[h].request \in SignedRequests
        /\ handler[h].checked \in Nat /\ Expiry(handler[h].checked) \in Nat
    BY DEF Verification, Expiry
  <2>3. \A q \in SignedRequests : Append(accepted[q], handler[h].checked) \in Seq(Nat)
    BY <2>2
  <2>4. /\ stamp' = stamp /\ clock' = clock
        /\ \/ expiry' = expiry /\ accepted' = accepted
           \/ \E q \in SignedRequests :
                /\ expiry' = [expiry EXCEPT ![q] = Expiry(handler[h].checked)]
                /\ accepted' = [accepted EXCEPT ![q] = Append(accepted[q], handler[h].checked)]
    BY <1>4, <2>2 DEF Reserve
  <2>5. expiry' \in [SignedRequests -> Nat] /\ accepted' \in [SignedRequests -> Seq(Nat)]
    BY <2>2, <2>3, <2>4
  <2> QED
    BY <2>1, <2>4, <2>5
<1>5. CASE UNCHANGED replayVars
  BY <1>5 DEF replayVars
<1> QED
  BY <1>1, <1>2, <1>3, <1>4, <1>5 DEF ReplayNext

LEMMA CheckedInWindowStep ==
    ASSUME ReplayInv, [ReplayNext]_replayVars
    PROVE  CheckedInWindow'
<1> USE Times DEF ReplayInv, ReplayTypeOK, CheckedInWindow, Busy
<1>1. CASE Tick
  <2>1. /\ clock' = clock + 1 /\ stamp' = stamp /\ handler' = handler /\ clock \in Nat
        /\ \A h \in Handlers : Busy(h) => clock < handler[h].checked + Patience
    BY <1>1 DEF Tick
  <2>2. \A h \in Handlers : handler[h].checked \in Nat
    BY DEF Verification
  <2> SUFFICES ASSUME NEW h \in Handlers, Busy(h)'
               PROVE  /\ handler[h].checked <= clock'
                      /\ clock' <= handler[h].checked + Patience
                      /\ handler[h].checked <= stamp[handler[h].request] + Skew
    BY <2>1
  <2>3. Busy(h)
    BY <2>1
  <2>4. handler[h].checked <= clock /\ handler[h].checked <= stamp[handler[h].request] + Skew
    BY <2>3
  <2>5. clock < handler[h].checked + Patience
    BY <2>1, <2>3
  <2> QED
    BY <2>1, <2>2, <2>4, <2>5
<1>2. ASSUME NEW h \in Handlers, NEW q \in SignedRequests, Verify(h, q)
      PROVE  CheckedInWindow'
  <2>1. /\ handler' = [handler EXCEPT ![h] =
                        [phase |-> "verified", request |-> q, checked |-> clock]]
        /\ stamp' = stamp /\ clock' = clock /\ clock \in Nat
        /\ clock <= stamp[q] + Skew
    BY <1>2 DEF Verify
  <2>2. handler'[h].checked = clock /\ handler'[h].request = q
    BY <2>1
  <2>3. clock <= clock + Patience
    BY <2>1
  <2>4. \A i \in Handlers \ {h} : handler'[i] = handler[i]
    BY <2>1
  <2> QED
    BY <2>1, <2>2, <2>3, <2>4
<1>3. ASSUME NEW h \in Handlers, Sweep(h)
      PROVE  CheckedInWindow'
  BY <1>3 DEF Sweep, Verification
<1>4. ASSUME NEW h \in Handlers, Reserve(h)
      PROVE  CheckedInWindow'
  BY <1>4 DEF Reserve, Verification
<1>5. CASE UNCHANGED replayVars
  BY <1>5 DEF replayVars
<1> QED
  BY <1>1, <1>2, <1>3, <1>4, <1>5 DEF ReplayNext

\* What a handler appends to the history when it finds no nonce: its own look
\* at the clock, after which the lives of all accepted nonces had ended or
\* were to end within Patience.
LEMMA ReservedAnew ==
    ASSUME ReplayInv, NEW h \in Handlers, Busy(h), expiry[handler[h].request] = 0
    PROVE  LET q == handler[h].request
               checked == handler[h].checked
           IN  /\ checked <= stamp[q] + Skew
               /\ \A i \in 1 .. Len(accepted[q]) :
                    checked + Patience >= accepted[q][i] + Skew + Margin
<1> DEFINE q == handler[h].request
           checked == handler[h].checked
<1>1. /\ q \in SignedRequests /\ checked \in Nat /\ stamp[q] \in Nat /\ clock \in Nat
      /\ accepted[q] \in Seq(Nat)
  BY DEF ReplayInv, ReplayTypeOK, Verification
<1>2. clock <= checked + Patience /\ checked <= stamp[q] + Skew
  BY DEF ReplayInv, CheckedInWindow
<1>3. ASSUME NEW i \in 1 .. Len(accepted[q])
      PROVE  checked + Patience >= accepted[q][i] + Skew + Margin
  <2>1. accepted[q][i] + Skew + Margin <= clock
    BY <1>1 DEF ReplayInv, RememberedUntilOver
  <2>2. accepted[q][i] \in Nat
    BY <1>1
  <2> QED
    BY <1>1, <1>2, <2>1, <2>2, OverByThen
<1> QED
  BY <1>2, <1>3

\* The three parts about the history, when a handler reserves a nonce.
LEMMA ReserveStep ==
    ASSUME ReplayInv, NEW h \in Handlers, Reserve(h)
    PROVE  (AcceptedInWindow /\ RememberedUntilOver /\ KeptApart)'
<1> USE Times DEF ReplayInv, ReplayTypeOK
<1> DEFINE q == handler[h].request
           checked == handler[h].checked
<1>1. q \in SignedRequests /\ checked \in Nat
  BY DEF Verification
<1>2. Busy(h)
  BY DEF Reserve, Busy
<1>3. CASE expiry[q] # 0
  <2>1. UNCHANGED <<stamp, clock, expiry, accepted>>
    BY <1>3 DEF Reserve
  <2> QED
    BY <2>1 DEF AcceptedInWindow, RememberedUntilOver, KeptApart
<1>4. CASE expiry[q] = 0
  <2>1. /\ stamp' = stamp /\ clock' = clock
        /\ expiry' = [expiry EXCEPT ![q] = checked + Skew + Margin]
        /\ accepted' = [accepted EXCEPT ![q] = Append(@, checked)]
    BY <1>4 DEF Reserve, Expiry
  <2>2. /\ checked <= stamp[q] + Skew
        /\ \A i \in 1 .. Len(accepted[q]) :
             checked + Patience >= accepted[q][i] + Skew + Margin
    BY <1>2, <1>4, ReservedAnew
  <2>3. \A p \in SignedRequests \ {q} :
            accepted'[p] = accepted[p] /\ expiry'[p] = expiry[p]
    BY <2>1
  <2>4. /\ accepted[q] \in Seq(Nat)
        /\ accepted'[q] = Append(accepted[q], checked)
        /\ expiry'[q] = checked + Skew + Margin
    BY <1>1, <2>1
  <2> DEFINE n == Len(accepted[q])
  <2>5. n \in Nat /\ 1 .. n + 1 = (1 .. n) \cup {n + 1}
    BY <2>4
  <2>6. /\ Len(accepted'[q]) = n + 1
        /\ accepted'[q][n + 1] = checked
        /\ \A i \in 1 .. n : accepted'[q][i] = accepted[q][i]
        /\ accepted'[q] # <<>>
    <3> HIDE DEF q, checked
    <3>1. accepted[q] \in Seq(Nat) /\ checked \in Nat
      BY <1>1, <2>4
    <3>2. /\ Len(Append(accepted[q], checked)) = n + 1
          /\ Append(accepted[q], checked)[n + 1] = checked
          /\ \A i \in 1 .. n : Append(accepted[q], checked)[i] = accepted[q][i]
          /\ Append(accepted[q], checked) # <<>>
      BY <3>1, Appended, Zenon
    <3> QED
      BY <2>4, <3>2, Zenon
  <2> HIDE DEF n
  <2>8. AcceptedInWindow'
    <3>1. \A i \in 1 .. n + 1 : accepted'[q][i] <= stamp[q] + Skew
      BY <1>1, <2>2, <2>5, <2>6 DEF AcceptedInWindow, n
    <3>2. ASSUME NEW p \in SignedRequests, NEW i \in 1 .. Len(accepted'[p])
          PROVE  accepted'[p][i] <= stamp'[p] + Skew
      BY <2>1, <2>3, <2>6, <3>1 DEF AcceptedInWindow
    <3> QED
      BY <3>2 DEF AcceptedInWindow
  <2>9. RememberedUntilOver'
    <3>1. \A i \in 1 .. n : accepted[q][i] + Skew + Margin <= clock
      BY <1>1, <1>4 DEF RememberedUntilOver, n
    <3>2. /\ expiry'[q] = accepted'[q][Len(accepted'[q])] + Skew + Margin
          /\ expiry'[q] # 0 /\ accepted'[q] # <<>>
      BY <1>1, <2>4, <2>6
    <3>3. ASSUME NEW i \in 1 .. Len(accepted'[q]), i < Len(accepted'[q])
          PROVE  accepted'[q][i] + Skew + Margin <= clock'
      <4>1. i \in 1 .. n
        BY <2>5, <2>6, <3>3
      <4> QED
        BY <2>1, <2>6, <3>1, <4>1
    <3>4. /\ expiry'[q] # 0
          /\ accepted'[q] # <<>>
          /\ expiry'[q] = accepted'[q][Len(accepted'[q])] + Skew + Margin
          /\ \A i \in 1 .. Len(accepted'[q]) :
               i < Len(accepted'[q]) => accepted'[q][i] + Skew + Margin <= clock'
      BY <3>2, <3>3
    <3>5. \A p \in SignedRequests \ {q} :
            /\ accepted'[p] = accepted[p] /\ expiry'[p] = expiry[p] /\ clock' = clock
      BY <2>1, <2>3
    <3> HIDE DEF q, checked
    <3> QED
      BY <3>4, <3>5 DEF RememberedUntilOver
  <2>10. KeptApart'
    <3>1. ASSUME NEW i \in 1 .. n + 1, NEW j \in 1 .. n + 1, i < j
          PROVE  accepted'[q][j] + Patience >= accepted'[q][i] + Skew + Margin
      <4>1. i \in 1 .. n
        BY <2>5, <3>1
      <4>2. CASE j = n + 1
        BY <2>2, <2>6, <4>1, <4>2 DEF n
      <4>3. CASE j \in 1 .. n
        <5>1. accepted[q][j] + Patience >= accepted[q][i] + Skew + Margin
          BY <1>1, <3>1, <4>1, <4>3 DEF KeptApart, n
        <5> QED
          BY <2>6, <4>1, <4>3, <5>1
      <4> QED
        BY <2>5, <4>2, <4>3
    <3>2. ASSUME NEW p \in SignedRequests,
                 NEW i \in 1 .. Len(accepted'[p]), NEW j \in 1 .. Len(accepted'[p]), i < j
          PROVE  accepted'[p][j] + Patience >= accepted'[p][i] + Skew + Margin
      BY <2>3, <2>6, <3>1, <3>2 DEF KeptApart
    <3> QED
      BY <3>2 DEF KeptApart
  <2> QED
    BY <2>8, <2>9, <2>10
<1> QED
  BY <1>3, <1>4

LEMMA HistoryStep ==
    ASSUME ReplayInv, [ReplayNext]_replayVars
    PROVE  (AcceptedInWindow /\ RememberedUntilOver /\ KeptApart)'
<1>1. ASSUME stamp' = stamp, accepted' = accepted
      PROVE  AcceptedInWindow' /\ KeptApart'
  BY <1>1 DEF ReplayInv, AcceptedInWindow, KeptApart
<1>2. CASE Tick
  <2>1. \A q \in SignedRequests : \A i \in 1 .. Len(accepted[q]) : accepted[q][i] \in Nat
    BY DEF ReplayInv, ReplayTypeOK
  <2>2. clock \in Nat /\ clock' = clock + 1 /\ accepted' = accepted /\ expiry' = expiry
    BY <1>2 DEF Tick, ReplayInv, ReplayTypeOK
  <2>3. RememberedUntilOver'
    BY <2>1, <2>2, Times DEF ReplayInv, RememberedUntilOver
  <2> QED
    BY <1>1, <1>2, <2>3 DEF Tick
<1>3. ASSUME NEW h \in Handlers, NEW q \in SignedRequests, Verify(h, q)
      PROVE  (AcceptedInWindow /\ RememberedUntilOver /\ KeptApart)'
  BY <1>1, <1>3 DEF Verify, ReplayInv, RememberedUntilOver
<1>4. ASSUME NEW h \in Handlers, Sweep(h)
      PROVE  (AcceptedInWindow /\ RememberedUntilOver /\ KeptApart)'
  <2>1. /\ clock' = clock /\ accepted' = accepted /\ stamp' = stamp
        /\ \A q \in SignedRequests :
             expiry'[q] = IF expiry[q] <= clock THEN 0 ELSE expiry[q]
    BY <1>4 DEF Sweep
  <2>2. ASSUME NEW q \in SignedRequests
        PROVE  /\ expiry'[q] # 0 => expiry'[q] = expiry[q]
               /\ expiry'[q] = 0 =>
                    \A i \in 1 .. Len(accepted[q]) :
                        accepted[q][i] + Skew + Margin <= clock
    <3>1. CASE expiry[q] = 0 \/ ~(expiry[q] <= clock)
      BY <2>1, <3>1 DEF ReplayInv, RememberedUntilOver
    <3>2. CASE expiry[q] # 0 /\ expiry[q] <= clock
      <4>1. accepted[q][Len(accepted[q])] + Skew + Margin <= clock
        BY <3>2 DEF ReplayInv, RememberedUntilOver
      <4>2. \A i \in 1 .. Len(accepted[q]) :
              i < Len(accepted[q]) => accepted[q][i] + Skew + Margin <= clock
        BY DEF ReplayInv, RememberedUntilOver
      <4>3. Len(accepted[q]) \in Nat
        BY DEF ReplayInv, ReplayTypeOK
      <4>4. \A i \in 1 .. Len(accepted[q]) : i < Len(accepted[q]) \/ i = Len(accepted[q])
        BY <4>3
      <4> QED
        BY <2>1, <3>2, <4>1, <4>2, <4>4
    <3> QED
      BY <3>1, <3>2
  <2>3. RememberedUntilOver'
    BY <2>1, <2>2 DEF ReplayInv, RememberedUntilOver
  <2> QED
    BY <1>1, <2>1, <2>3
<1>5. ASSUME NEW h \in Handlers, Reserve(h)
      PROVE  (AcceptedInWindow /\ RememberedUntilOver /\ KeptApart)'
  BY <1>5, ReserveStep
<1>6. CASE UNCHANGED replayVars
  BY <1>1, <1>6 DEF replayVars, ReplayInv, RememberedUntilOver
<1> QED
  BY <1>2, <1>3, <1>4, <1>5, <1>6 DEF ReplayNext

LEMMA ReplayInvariance == ReplaySpec => []ReplayInv
<1>1. ReplayInv /\ [ReplayNext]_replayVars => ReplayInv'
  BY ReplayTypeStep, CheckedInWindowStep, HistoryStep DEF ReplayInv
<1> QED
  BY <1>1, ReplayInitially, PTL DEF ReplaySpec

\* A copy passes after another one only at the end of the nonce's life (the
\* run's KeptApart).
THEOREM NoncesKeptApart == ReplaySpec => []KeptApart
<1>1. ReplayInv => KeptApart
  BY DEF ReplayInv
<1> QED
  BY <1>1, ReplayInvariance, PTL

\* A signed request passes verification once, unless its timestamp was ahead
\* by the margin or more, less Patience (the run's OnceUnlessAhead).
THEOREM AcceptedOnceUnlessAhead == ReplaySpec => []OnceUnlessAhead
<1>1. ASSUME ReplayInv PROVE OnceUnlessAhead
  <2> SUFFICES ASSUME NEW q \in SignedRequests, Len(accepted[q]) > 1
               PROVE  stamp[q] + Patience >= accepted[q][1] + Margin
    BY DEF OnceUnlessAhead
  <2>1. accepted[q] \in Seq(Nat) /\ stamp[q] \in Nat
    BY <1>1 DEF ReplayInv, ReplayTypeOK
  <2>2. 1 \in 1 .. Len(accepted[q]) /\ 2 \in 1 .. Len(accepted[q])
    BY <2>1
  <2>3. accepted[q][1] \in Nat /\ accepted[q][2] \in Nat
    BY <2>1, <2>2
  <2>4. accepted[q][2] + Patience >= accepted[q][1] + Skew + Margin
    BY <1>1, <2>2 DEF ReplayInv, KeptApart
  <2>5. accepted[q][2] <= stamp[q] + Skew
    BY <1>1, <2>2 DEF ReplayInv, AcceptedInWindow
  <2> QED
    BY <2>1, <2>3, <2>4, <2>5, AheadByMargin
<1> QED
  BY <1>1, ReplayInvariance, PTL
=============================================================================
