--------------------------- MODULE EnvFilesProofs ---------------------------
(***************************************************************************)
(* Proofs about EnvFiles, for any clones, files, variables, values and     *)
(* commands: lines of env files, and pushes and merges on their way, never *)
(* lose sight of the revision they were made from; and so a config         *)
(* declares the values that are stored with it, but of variables that were *)
(* left out of a push.                                                     *)
(***************************************************************************)
EXTENDS EnvFiles, WellFoundedInduction, TLAPS

\* ValueAt and ChangedAt in any log of revisions.
ValueIn(log, v, n) == IF n = 0 THEN Absent ELSE log[n].value[v]
ChangedIn(log, v, n) ==
    Max({0} \cup {m \in 1 .. n : ValueIn(log, v, m) # ValueIn(log, v, m - 1)})

\* A line that no person changed has the value of the revision it names.
LineComes(log, v, line) ==
    /\ line.base <= Len(log)
    /\ ~line.edited => line.value = ValueIn(log, v, line.base)

\* The declarations are those of the values, but for the variables skipped.
Declares(declared, value, skipped) ==
    \A v \in Vars : v \notin skipped => declared[v] = value[v]

\* What a command is about to send or to write was made from a revision: the
\* declarations of a push are those of the values as they will be.
CommandComes(log, c) ==
    /\ c.step \in {"pushing", "planning", "merging"} => c.at \in 1 .. Len(log)
    /\ c.step = "pushing" =>
        /\ DOMAIN c.payload = c.approved
        /\ Declares(c.declared, Overlay(log[c.at].value, c.payload), c.skipped)
    /\ c.step = "merging" => \A v \in Vars : LineComes(log, v, c.line[v])

CommandsCome == \A p \in Commands : command[p] # None => CommandComes(cloud, command[p])

IInv == EnvTypeOK /\ DeclaredUnlessSkipped /\ LinesComeFromTheirRevision /\ CommandsCome

-----------------------------------------------------------------------------
(* Facts about revisions.                                                  *)

\* A set of numbers has a least one.
LEMMA LeastNumber ==
    ASSUME NEW S \in SUBSET Nat, S # {}
    PROVE  \E m \in S : \A k \in S : m <= k
<1> DEFINE R == OpToRel(<, Nat)
<1>1. IsWellFoundedOn(R, Nat)
  BY NatLessThanWellFounded
<1>2. \E m \in S : \A k \in S : <<k, m>> \notin R
  <2> HIDE DEF R
  <2> QED
    BY <1>1, WFMin
<1>3. PICK m \in S : \A k \in S : <<k, m>> \notin R
  BY <1>2
<1>4. \A k \in S : m <= k
  <2> TAKE k \in S
  <2>1. <<k, m>> \notin {ss \in Nat \X Nat : ss[1] < ss[2]}
    BY <1>3 DEF OpToRel
  <2>2. k \in Nat /\ m \in Nat
    OBVIOUS
  <2> QED
    BY <2>1, <2>2
<1> QED
  BY <1>4

\* So a set of numbers up to n has a largest one, which Max is.
LEMMA LargestUpTo ==
    ASSUME NEW n \in Nat, NEW S \in SUBSET (0 .. n), S # {}
    PROVE  /\ Max(S) \in S
           /\ \A k \in S : k <= Max(S)
<1> DEFINE T == {n - k : k \in S}
<1>1. T \in SUBSET Nat /\ T # {}
  <2>1. T \in SUBSET Nat
    OBVIOUS
  <2>2. T # {}
    OBVIOUS
  <2> QED
    BY <2>1, <2>2
<1>2. \E t \in T : \A k \in T : t <= k
  <2> HIDE DEF T
  <2> QED
    BY <1>1, LeastNumber
<1>3. PICK m \in S : \A k \in T : n - m <= k
  BY <1>2
<1>4. \A k \in S : m >= k
  <2> TAKE k \in S
  <2>1. n - m <= n - k
    BY <1>3
  <2>2. m \in 0 .. n /\ k \in 0 .. n
    OBVIOUS
  <2> QED
    BY <2>1, <2>2
<1> QED
  BY <1>4 DEF Max

LEMMA InThisLog ==
    /\ \A v, n : ValueAt(v, n) = ValueIn(cloud, v, n)
    /\ \A v, n : ChangedAt(v, n) = ChangedIn(cloud, v, n)
    /\ LinesComeFromTheirRevision <=>
            \A w \in Clones, v \in Vars : LineComes(cloud, v, disk[w].line[v])
<1>1. \A v, n : ValueAt(v, n) = ValueIn(cloud, v, n)
  BY DEF ValueAt, ValueIn
<1>2. \A v, n : ChangedAt(v, n) = ChangedIn(cloud, v, n)
  BY <1>1 DEF ChangedAt, ChangedIn
<1> QED
  BY <1>1, <1>2 DEF LinesComeFromTheirRevision, LineComes, Revision

LEMMA InNextLog ==
    LinesComeFromTheirRevision' <=>
        \A w \in Clones, v \in Vars : LineComes(cloud', v, disk'[w].line[v])
BY DEF LinesComeFromTheirRevision, LineComes, Revision, ValueAt, ValueIn

\* The revision that ChangedIn finds gave v the value it had at n: after it the
\* value did not change again.
LEMMA ChangedGives ==
    ASSUME NEW log \in Seq(Entry), NEW v \in Vars, NEW n \in 0 .. Len(log)
    PROVE  /\ ChangedIn(log, v, n) \in 0 .. n
           /\ ValueIn(log, v, ChangedIn(log, v, n)) = ValueIn(log, v, n)
<1> DEFINE S == {0} \cup {m \in 1 .. n : ValueIn(log, v, m) # ValueIn(log, v, m - 1)}
           m == ChangedIn(log, v, n)
<1>0. n \in Nat
  OBVIOUS
<1>1. S \in SUBSET (0 .. n) /\ S # {}
  BY <1>0
<1>2. m = Max(S)
  BY DEF ChangedIn
<1>3. \A k \in 1 .. n : ValueIn(log, v, k) # ValueIn(log, v, k - 1) => k \in S
  OBVIOUS
<1> HIDE DEF S, m
<1>4. m \in S /\ \A k \in S : k <= m
  BY <1>0, <1>1, <1>2, LargestUpTo
<1>5. m \in 0 .. n /\ m \in Nat
  BY <1>0, <1>1, <1>4
<1> DEFINE Later == {k \in Nat : m <= k /\ k <= n /\ ValueIn(log, v, k) # ValueIn(log, v, m)}
<1>6. Later = {}
  <2> SUFFICES ASSUME Later # {} PROVE FALSE
    OBVIOUS
  <2>1. Later \in SUBSET Nat
    OBVIOUS
  <2>2. PICK k \in Later : \A j \in Later : k <= j
    <3> HIDE DEF Later
    <3> QED
      BY <2>1, LeastNumber
  <2>3. k \in Nat /\ m <= k /\ k <= n /\ k # m
    BY <2>2
  <2>4. k - 1 \in Nat /\ m <= k - 1 /\ k - 1 <= n /\ k - 1 \notin Later
    <3>1. k - 1 \in Nat /\ m <= k - 1 /\ k - 1 <= n /\ ~(k <= k - 1)
      BY <1>0, <1>5, <2>3
    <3> HIDE DEF Later
    <3> QED
      BY <2>2, <3>1
  <2>5. ValueIn(log, v, k - 1) = ValueIn(log, v, m)
    BY <2>4
  <2>6. ValueIn(log, v, k) # ValueIn(log, v, k - 1)
    BY <2>2, <2>5
  <2>7. k \in 1 .. n
    BY <1>0, <1>5, <2>3
  <2>8. k <= m
    BY <1>3, <1>4, <2>6, <2>7
  <2> QED
    BY <1>5, <2>3, <2>8
<1>7. ValueIn(log, v, m) = ValueIn(log, v, n)
  BY <1>0, <1>5, <1>6
<1> QED
  BY <1>5, <1>7 DEF m

\* Revisions stay what they were.
LEMMA LineInLongerLog ==
    ASSUME NEW log \in Seq(Entry), NEW e \in Entry, NEW v \in Vars, NEW line \in Line,
           LineComes(log, v, line)
    PROVE  LineComes(Append(log, e), v, line)
BY DEF LineComes, ValueIn, Line

LEMMA CommandInLongerLog ==
    ASSUME NEW log \in Seq(Entry), NEW e \in Entry, NEW c \in Command,
           CommandComes(log, c)
    PROVE  CommandComes(Append(log, e), c)
<1>1. c.step = "merging" => \A v \in Vars : c.line[v] \in Line
  BY DEF Command
<1>2. c.step = "merging" => \A v \in Vars : LineComes(Append(log, e), v, c.line[v])
  BY <1>1, LineInLongerLog DEF CommandComes
<1>3. Len(Append(log, e)) = Len(log) + 1 /\ Len(log) \in Nat
  OBVIOUS
<1>4. \A n \in 1 .. Len(log) : Append(log, e)[n] = log[n] /\ n \in 1 .. Len(Append(log, e))
  BY <1>3
<1> QED
  BY <1>2, <1>4 DEF CommandComes

-----------------------------------------------------------------------------
(* The invariant holds in the beginning, and commands keep it.             *)

\* A state with the values of a payload laid over it is a state.
LEMMA OverlayType ==
    ASSUME NEW state \in State, NEW some, NEW S \in SUBSET Vars,
           some \in [S -> Values \cup {Absent}]
    PROVE  Overlay(state, some) \in State
BY DEF Overlay, State

LEMMA RevisionFacts ==
    ASSUME IInv
    PROVE  /\ Revision \in Nat /\ Revision >= 1 /\ Revision \in 1 .. Revision
           /\ \A n \in 1 .. Revision :
                /\ cloud[n] \in Entry
                /\ Declares(cloud[n].declared, cloud[n].value, cloud[n].skipped)
BY DEF IInv, EnvTypeOK, DeclaredUnlessSkipped, Declares, Revision

LEMMA ValueType ==
    ASSUME IInv, NEW v \in Vars, NEW n \in 0 .. Revision
    PROVE  /\ ValueAt(v, n) \in Values \cup {Absent}
           /\ ChangedAt(v, n) \in 0 .. n
           /\ ValueAt(v, ChangedAt(v, n)) = ValueAt(v, n)
<1>1. ValueAt(v, n) \in Values \cup {Absent}
  BY RevisionFacts DEF ValueAt, Entry, State
<1> QED
  BY <1>1, ChangedGives, InThisLog DEF IInv, EnvTypeOK, Revision

LEMMA LineAtComes ==
    ASSUME IInv, NEW v \in Vars, NEW n \in 0 .. Revision
    PROVE  LineAt(v, n) \in Line /\ LineComes(cloud, v, LineAt(v, n))
<1>1. Revision \in Nat
  BY RevisionFacts
<1>2. ChangedAt(v, n) \in Nat /\ ChangedAt(v, n) <= Revision
  BY <1>1, ValueType
<1>3. LineAt(v, n) \in Line
  BY <1>2, ValueType DEF LineAt, Line
<1>4. LineComes(cloud, v, LineAt(v, n))
  BY <1>2, ValueType, InThisLog DEF LineAt, LineComes, Revision
<1> QED
  BY <1>3, <1>4

LEMMA Begins == Init => IInv
<1> SUFFICES ASSUME Init PROVE IInv
  OBVIOUS
<1>1. PICK value \in Imported : cloud = <<[value |-> value, declared |-> value, skipped |-> {}]>>
  BY DEF Init
<1>2. value \in State
  BY ImportedAssumption DEF State
<1>3. cloud \in Seq(Entry) \ {<<>>} /\ Len(cloud) = 1
  BY <1>1, <1>2 DEF Entry
<1>4. \A v \in Vars, n \in 0 .. 1 :
        /\ ValueAt(v, n) \in Values \cup {Absent}
        /\ ChangedAt(v, n) \in 0 .. n
        /\ ValueAt(v, ChangedAt(v, n)) = ValueAt(v, n)
  <2> TAKE v \in Vars, n \in 0 .. 1
  <2>1. ValueAt(v, n) \in Values \cup {Absent}
    BY <1>1, <1>2 DEF ValueAt, State
  <2> QED
    BY <2>1, <1>3, ChangedGives, InThisLog
<1>5. \A d \in {Pulled(1)} \cup {Fresh(some) : some \in SUBSET Files} :
        d \in Disk /\ \A v \in Vars : LineComes(cloud, v, d.line[v])
  <2>1. \A v \in Vars : ChangedAt(v, 1) \in Nat /\ ChangedAt(v, 1) <= 1
    BY <1>4
  <2>2. Pulled(1) \in Disk
    BY <1>4, <2>1 DEF Pulled, LineAt, Disk, Line
  <2>3. \A v \in Vars : LineComes(cloud, v, Pulled(1).line[v])
    BY <1>3, <1>4, <2>1, InThisLog DEF Pulled, LineAt, LineComes
  <2>4. \A some \in SUBSET Files : Fresh(some) \in Disk
    BY DEF Fresh, Disk, Line
  <2>5. \A some \in SUBSET Files : \A v \in Vars : LineComes(cloud, v, Fresh(some).line[v])
    BY <1>3 DEF Fresh, LineComes, ValueIn
  <2> QED
    BY <2>2, <2>3, <2>4, <2>5
<1>6. EnvTypeOK
  BY <1>3, <1>5 DEF Init, EnvTypeOK
<1>7. DeclaredUnlessSkipped
  BY <1>1 DEF DeclaredUnlessSkipped, Revision
<1>8. LinesComeFromTheirRevision
  BY <1>5, InThisLog DEF Init
<1>9. CommandsCome
  BY DEF Init, CommandsCome
<1> QED
  BY <1>6, <1>7, <1>8, <1>9 DEF IInv

\* A command goes on to c, and there is no new revision.
LEMMA CommandStep ==
    ASSUME IInv, cloud' = cloud, NEW p \in Commands, NEW c,
           command' = [command EXCEPT ![p] = c],
           c = None \/ (c \in Command /\ CommandComes(cloud, c))
    PROVE  command' \in [Commands -> Command \cup {None}] /\ CommandsCome'
<1>1. command' \in [Commands -> Command \cup {None}]
  BY DEF IInv, EnvTypeOK
<1>2. \A q \in Commands : command'[q] # None => CommandComes(cloud, command'[q])
  <2> TAKE q \in Commands
  <2>1. command'[q] = IF q = p THEN c ELSE command[q]
    BY DEF IInv, EnvTypeOK
  <2> QED
    BY <2>1 DEF IInv, CommandsCome
<1> QED
  BY <1>1, <1>2 DEF CommandsCome

\* A command goes on to c, and nothing else happens.
LEMMA CommandOnly ==
    ASSUME IInv, UNCHANGED <<cloud, yaml, disk>>, NEW p \in Commands, NEW c,
           command' = [command EXCEPT ![p] = c],
           c = None \/ (c \in Command /\ CommandComes(cloud, c))
    PROVE  IInv'
<1>1. command' \in [Commands -> Command \cup {None}] /\ CommandsCome'
  BY CommandStep
<1>2. LinesComeFromTheirRevision'
  BY InThisLog, InNextLog DEF IInv
<1> QED
  BY <1>1, <1>2 DEF IInv, EnvTypeOK, DeclaredUnlessSkipped, Revision

\* Env files change, and there is no new revision.
LEMMA DiskStep ==
    ASSUME IInv, cloud' = cloud, disk' \in [Clones -> Disk],
           \A w \in Clones, v \in Vars : LineComes(cloud, v, disk'[w].line[v]),
           yaml' \in [Clones -> Nat],
           command' \in [Commands -> Command \cup {None}], CommandsCome'
    PROVE  IInv'
<1>1. LinesComeFromTheirRevision'
  BY InNextLog
<1>2. DeclaredUnlessSkipped'
  BY DEF IInv, DeclaredUnlessSkipped, Revision
<1>3. EnvTypeOK'
  BY DEF IInv, EnvTypeOK
<1> QED
  BY <1>1, <1>2, <1>3 DEF IInv

LEMMA EditKeeps ==
    ASSUME IInv, NEW w \in Clones, NEW v \in Vars, Edit(w, v)
    PROVE  IInv'
<1>1. PICK x \in Values \cup {Absent, Twice} :
        disk' = [disk EXCEPT ![w] =
            [files |-> disk[w].files \cup {File(v)},
             line |-> [disk[w].line EXCEPT ![v] =
                [value |-> x, base |-> disk[w].line[v].base, edited |-> TRUE]]]]
  BY DEF Edit
<1>2. File(v) \in Files
  BY DEF File, Vars
<1>3. \A u \in Clones : disk[u] \in Disk
  BY DEF IInv, EnvTypeOK
<1>4. \A u \in Vars : disk[w].line[u] \in Line
  BY <1>3 DEF Disk
<1> DEFINE new == [value |-> x, base |-> disk[w].line[v].base, edited |-> TRUE]
           d == [files |-> disk[w].files \cup {File(v)},
                 line |-> [disk[w].line EXCEPT ![v] = new]]
<1>5. new \in Line
  BY <1>4 DEF Line
<1>6. disk' = [disk EXCEPT ![w] = d]
  BY <1>1, Zenon
<1>7. d \in Disk
  BY <1>2, <1>3, <1>5 DEF Disk
<1>8. \A u \in Vars : LineComes(cloud, u, d.line[u])
  BY <1>3, InThisLog DEF IInv, LineComes, Disk
<1>9. disk' \in [Clones -> Disk]
  <2> HIDE DEF d
  <2> QED
    BY <1>6, <1>7 DEF IInv, EnvTypeOK
<1>10. \A u \in Clones, z \in Vars : LineComes(cloud, z, disk'[u].line[z])
  <2> HIDE DEF d
  <2> QED
    BY <1>6, <1>8, InThisLog DEF IInv, EnvTypeOK
<1> QED
  BY <1>9, <1>10, DiskStep DEF Edit, IInv, EnvTypeOK, CommandsCome

\* A revision with the same declarations, or with those of a push.
LEMMA NextRevision ==
    ASSUME IInv, NEW e \in Entry, Declares(e.declared, e.value, e.skipped),
           cloud' = Append(cloud, e)
    PROVE  /\ cloud' \in Seq(Entry) \ {<<>>}
           /\ DeclaredUnlessSkipped'
<1>1. /\ cloud \in Seq(Entry) /\ Len(cloud) \in Nat /\ Len(cloud') = Len(cloud) + 1
      /\ cloud' \in Seq(Entry)
  BY DEF IInv, EnvTypeOK
<1>2. \A n \in 1 .. Len(cloud') :
        Declares(cloud'[n].declared, cloud'[n].value, cloud'[n].skipped)
  <2> TAKE n \in 1 .. Len(cloud')
  <2>1. CASE n \in 1 .. Len(cloud)
    BY <1>1, <2>1, RevisionFacts DEF Revision
  <2>2. CASE n = Len(cloud) + 1
    BY <1>1, <2>2
  <2> QED
    BY <1>1, <2>1, <2>2
<1> QED
  BY <1>1, <1>2 DEF DeclaredUnlessSkipped, Declares, Revision

\* Commands that are under way when there is a new revision.
LEMMA CommandsInLongerLog ==
    ASSUME IInv, NEW e \in Entry, cloud' = Append(cloud, e), NEW q \in Commands,
           command[q] # None
    PROVE  CommandComes(cloud', command[q])
<1>1. cloud \in Seq(Entry) /\ command[q] \in Command /\ CommandComes(cloud, command[q])
  BY DEF IInv, EnvTypeOK, CommandsCome
<1> QED
  BY <1>1, CommandInLongerLog

\* Lines that stay when there is a new revision.
LEMMA LinesInLongerLog ==
    ASSUME IInv, NEW e \in Entry, cloud' = Append(cloud, e),
           NEW w \in Clones, NEW v \in Vars
    PROVE  LineComes(cloud', v, disk[w].line[v])
<1>1. cloud \in Seq(Entry) /\ disk[w].line[v] \in Line
  BY DEF IInv, EnvTypeOK, Disk
<1>2. LineComes(cloud, v, disk[w].line[v])
  BY InThisLog DEF IInv
<1> QED
  BY <1>1, <1>2, LineInLongerLog

LEMMA ConfigMovesKeeps ==
    ASSUME IInv, ConfigMoves
    PROVE  IInv'
<1>1. /\ cloud[Revision] \in Entry
      /\ Declares(cloud[Revision].declared, cloud[Revision].value, cloud[Revision].skipped)
  BY RevisionFacts
<1>2. cloud' = Append(cloud, cloud[Revision])
  BY DEF ConfigMoves
<1>3. cloud' \in Seq(Entry) \ {<<>>} /\ DeclaredUnlessSkipped'
  BY <1>1, <1>2, NextRevision
<1>4. LinesComeFromTheirRevision'
  BY <1>1, <1>2, LinesInLongerLog, InNextLog DEF ConfigMoves
<1>5. CommandsCome'
  BY <1>1, <1>2, CommandsInLongerLog DEF ConfigMoves, CommandsCome
<1> QED
  BY <1>3, <1>4, <1>5 DEF IInv, EnvTypeOK, ConfigMoves

LEMMA ConfigPullKeeps ==
    ASSUME IInv, NEW w \in Clones, ConfigPull(w)
    PROVE  IInv'
<1>1. yaml' \in [Clones -> Nat]
  BY RevisionFacts DEF ConfigPull, IInv, EnvTypeOK
<1>2. \A u \in Clones, v \in Vars : LineComes(cloud, v, disk[u].line[v])
  BY InThisLog DEF IInv
<1> QED
  BY <1>1, <1>2, DiskStep DEF ConfigPull, IInv, EnvTypeOK, CommandsCome

LEMMA ReadFilesKeeps ==
    ASSUME IInv, NEW p \in Commands, NEW w \in Clones, ReadFiles(p, w)
    PROVE  IInv'
<1> DEFINE local == Assignments(disk[w].line)
           c == [step |-> "diffing", clone |-> w, yaml |-> yaml[w], local |-> local]
<1>1. command' = [command EXCEPT ![p] = c]
  BY DEF ReadFiles, Begin
<1>2. local \in State
  BY DEF IInv, EnvTypeOK, Disk, Line, ReadFiles, State, Assignments
<1>3. c \in Command
  <2> HIDE DEF local
  <2> QED
    BY <1>2 DEF IInv, EnvTypeOK, Command
<1>4. CommandComes(cloud, c)
  BY DEF CommandComes
<1> HIDE DEF c
<1> QED
  BY <1>1, <1>3, <1>4, CommandOnly DEF ReadFiles

LEMMA AtFacts ==
    ASSUME IInv, NEW p \in Commands, command[p] # None
    PROVE  /\ command[p] \in Command /\ CommandComes(cloud, command[p])
           /\ command[p].clone \in Clones
           /\ command[p].step = "diffing" => command[p].local \in State
           /\ command[p].step = "writing" => command[p].yaml \in Nat
<1>1. command[p] \in Command /\ CommandComes(cloud, command[p])
  BY DEF IInv, EnvTypeOK, CommandsCome
<1> QED
  BY <1>1 DEF Command

\* A push to be sent, with the declarations of what it stores.
LEMMA PushIsCommand ==
    ASSUME IInv, NEW w \in Clones, NEW some \in SUBSET Vars, NEW payload,
           payload \in [some -> Values \cup {Absent}], NEW files \in BOOLEAN,
           NEW declared \in State, NEW skipped \in SUBSET Vars,
           Declares(declared, Overlay(Current, payload), skipped),
           NEW c, c = [step |-> "pushing", clone |-> w, at |-> Revision, approved |-> some,
                       payload |-> payload, declared |-> declared, skipped |-> skipped,
                       files |-> files]
    PROVE  c \in Command /\ CommandComes(cloud, c)
<1>1. payload \in UNION {[sm -> Values \cup {Absent}] : sm \in SUBSET Vars}
  OBVIOUS
<1>2. c \in Command
  BY <1>1, RevisionFacts DEF Command
<1>3. DOMAIN payload = some
  OBVIOUS
<1>4. CommandComes(cloud, c)
  BY <1>3, RevisionFacts DEF CommandComes, Current, Revision
<1> QED
  BY <1>2, <1>4

\* Whatever is approved, the declarations are made for all changes; those of
\* variables that neither the files nor the cloud have stay.
LEMMA DeclaresLocal ==
    ASSUME NEW n, NEW local, NEW approved, approved \subseteq Changes(local), NEW v \in Vars
    PROVE  /\ v \in Changes(local) \cup Unchanged(local)
                => Declarations(n, local, approved)[v] = local[v]
           /\ v \notin Changes(local) \cup Unchanged(local)
                => Declarations(n, local, approved)[v] = cloud[n].declared[v]
<1> DEFINE declared == cloud[n].declared
           all == Redeclared(declared, local, Changes(local))
<1>1. all[v] = IF v \in Changes(local) \cup Unchanged(local)
               THEN local[v] ELSE declared[v]
  BY DEF Redeclared
<1>2. Redeclared(all, local, approved)[v]
        = IF v \in approved \cup Unchanged(local) THEN local[v] ELSE all[v]
  BY DEF Redeclared
<1> HIDE DEF all
<1>3. Redeclared(all, local, approved)[v] = all[v]
  BY <1>1, <1>2
<1>4. Declarations(n, local, approved) \in {all, Redeclared(all, local, approved)}
  BY DEF Declarations, all
<1> QED
  BY <1>1, <1>3, <1>4

LEMMA DeclarationsType ==
    ASSUME NEW n, cloud[n].declared \in State, NEW local \in State,
           NEW approved \in SUBSET Changes(local)
    PROVE  Declarations(n, local, approved) \in State
BY DEF Declarations, Redeclared, State

\* What a push from the files declares is what it leaves stored, but for what
\* it leaves out, and what was left out and is neither here nor there.
LEMMA PushDeclares ==
    ASSUME NEW n, NEW local \in State, NEW approved \in SUBSET Changes(local),
           Declares(cloud[n].declared, Current, cloud[n].skipped)
    PROVE  Declares(Declarations(n, local, approved),
                    Overlay(Current, Payload(local, approved)),
                    Skipped(cloud[n].skipped, local, approved))
<1> DEFINE stored == Overlay(Current, Payload(local, approved))
<1> SUFFICES ASSUME NEW v \in Vars, v \notin Skipped(cloud[n].skipped, local, approved)
             PROVE  Declarations(n, local, approved)[v] = stored[v]
  BY DEF Declares
<1>1. stored[v] = IF v \in approved THEN local[v] ELSE Current[v]
  BY DEF Overlay, Payload
<1>2. CASE v \in Changes(local) \cup Unchanged(local)
  <2>1. v \in approved \/ local[v] = Current[v]
    BY <1>2 DEF Changes, Unchanged, Skipped
  <2>2. stored[v] = local[v]
    BY <1>1, <2>1
  <2>3. Declarations(n, local, approved)[v] = local[v]
    BY <1>2, DeclaresLocal
  <2> QED
    BY <2>2, <2>3
<1>3. CASE v \notin Changes(local) \cup Unchanged(local)
  <2>1. cloud[n].declared[v] = Current[v]
    BY <1>3 DEF Skipped, Declares
  <2>2. v \notin approved
    BY <1>3
  <2>3. stored[v] = Current[v]
    BY <1>1, <2>2
  <2>4. Declarations(n, local, approved)[v] = cloud[n].declared[v]
    BY <1>3, DeclaresLocal
  <2> QED
    BY <2>1, <2>3, <2>4
<1> QED
  BY <1>2, <1>3

LEMMA DiffKeeps ==
    ASSUME IInv, NEW p \in Commands, Diff(p)
    PROVE  IInv'
<1> DEFINE c == command[p]
<1>1. command[p] # None /\ c.step = "diffing"
  BY DEF Diff, At
<1>2. c.clone \in Clones /\ c.local \in State
  BY <1>1, AtFacts
<1>3. CASE End(p)
  BY <1>3, CommandOnly DEF Diff, End
<1>4. ASSUME NEW approved \in SUBSET Changes(c.local), c.yaml = Revision,
             Become(p, [step |-> "pushing", clone |-> c.clone,
                        at |-> Revision, approved |-> approved,
                        payload |-> Payload(c.local, approved),
                        declared |-> Declarations(c.yaml, c.local, approved),
                        skipped |-> Skipped(cloud[c.yaml].skipped, c.local, approved),
                        files |-> TRUE])
      PROVE  IInv'
  <2> DEFINE payload == Payload(c.local, approved)
             declared == Declarations(Revision, c.local, approved)
             skipped == Skipped(cloud[Revision].skipped, c.local, approved)
             push == [step |-> "pushing", clone |-> c.clone, at |-> Revision,
                      approved |-> approved, payload |-> payload,
                      declared |-> declared, skipped |-> skipped, files |-> TRUE]
  <2>1. /\ cloud[Revision] \in Entry
        /\ Declares(cloud[Revision].declared, Current, cloud[Revision].skipped)
    BY RevisionFacts DEF Current
  <2>2. /\ approved \in SUBSET Vars /\ skipped \in SUBSET Vars
        /\ cloud[Revision].declared \in State
    BY <2>1 DEF Changes, Skipped, Entry
  <2>3. payload \in [approved -> Values \cup {Absent}]
    <3>1. \A v \in approved : c.local[v] \in Values \cup {Absent}
      BY <1>2, <2>2 DEF State
    <3> QED
      BY <3>1 DEF Payload
  <2>4. declared \in State
    BY <1>2, <2>2, DeclarationsType
  <2>5. Declares(declared, Overlay(Current, payload), skipped)
    BY <1>2, <2>1, PushDeclares
  <2>6. command' = [command EXCEPT ![p] = push]
    BY <1>4 DEF Become
  <2> HIDE DEF payload, declared, skipped
  <2>7. push \in Command /\ CommandComes(cloud, push)
    BY <1>2, <2>2, <2>3, <2>4, <2>5, PushIsCommand
  <2> HIDE DEF push
  <2> QED
    BY <2>6, <2>7, CommandOnly DEF Diff
<1>5. Selections(Changes(c.local)) \subseteq SUBSET Changes(c.local)
  BY DEF Selections
<1> QED
  BY <1>3, <1>4, <1>5 DEF Diff

LEMMA ReadProjectKeeps ==
    ASSUME IInv, NEW p \in Commands, NEW w \in Clones, ReadProject(p, w)
    PROVE  IInv'
<1> DEFINE c == [step |-> "setting", clone |-> w, yaml |-> yaml[w]]
<1>1. command' = [command EXCEPT ![p] = c]
  BY DEF ReadProject, Begin
<1>2. c \in Command
  BY DEF IInv, EnvTypeOK, Command
<1>3. CommandComes(cloud, c)
  BY DEF CommandComes
<1> HIDE DEF c
<1> QED
  BY <1>1, <1>2, <1>3, CommandOnly DEF ReadProject

LEMMA TargetType ==
    ASSUME NEW name \in Names
    PROVE  Target(name) \in Vars
<1>1. CASE Found(name) = {}
  BY <1>1, FirstAssumption DEF Target, Vars
<1>2. CASE Found(name) # {}
  BY <1>2 DEF Target, Found
<1> QED
  BY <1>1, <1>2

LEMMA SetKeeps ==
    ASSUME IInv, NEW p \in Commands, Set(p)
    PROVE  IInv'
<1> DEFINE c == command[p]
<1>1. c.clone \in Clones
  BY AtFacts DEF Set, At
<1>2. CASE End(p)
  BY <1>2, CommandOnly DEF Set, End
<1>3. ASSUME NEW name \in Names, NEW x \in Values, c.yaml = Revision,
             Become(p, [step |-> "pushing", clone |-> c.clone, at |-> Revision,
                        approved |-> {Target(name)},
                        payload |-> [u \in {Target(name)} |-> x], files |-> FALSE,
                        declared |-> Overlay(cloud[c.yaml].declared,
                                             [u \in {Target(name)} |-> x]),
                        skipped |-> cloud[c.yaml].skipped \ {Target(name)}])
      PROVE  IInv'
  <2> DEFINE payload == [u \in {Target(name)} |-> x]
             declared == Overlay(cloud[Revision].declared, payload)
             skipped == cloud[Revision].skipped \ {Target(name)}
             push == [step |-> "pushing", clone |-> c.clone, at |-> Revision,
                      approved |-> {Target(name)}, payload |-> payload,
                      declared |-> declared, skipped |-> skipped, files |-> FALSE]
  <2>1. {Target(name)} \in SUBSET Vars
    BY TargetType
  <2>2. payload \in [{Target(name)} -> Values \cup {Absent}]
    OBVIOUS
  <2>3. /\ cloud[Revision] \in Entry
        /\ Declares(cloud[Revision].declared, cloud[Revision].value, cloud[Revision].skipped)
    BY RevisionFacts
  <2>4. skipped \in SUBSET Vars
    BY <2>3 DEF Entry
  <2>5. Declares(declared, Overlay(Current, payload), skipped)
    BY <2>3 DEF Declares, Overlay, Current
  <2>6. command' = [command EXCEPT ![p] = push]
    BY <1>3 DEF Become
  <2> HIDE DEF payload
  <2>7. declared \in State
    BY <2>1, <2>2, <2>3, OverlayType DEF Entry
  <2> HIDE DEF declared, skipped
  <2>8. push \in Command /\ CommandComes(cloud, push)
    BY <1>1, <2>1, <2>2, <2>4, <2>5, <2>7, PushIsCommand
  <2> HIDE DEF push
  <2> QED
    BY <2>6, <2>8, CommandOnly DEF Set
<1> QED
  BY <1>2, <1>3 DEF Set

LEMMA FetchKeeps ==
    ASSUME IInv, NEW p \in Commands, NEW w \in Clones, Fetch(p, w)
    PROVE  IInv'
<1> DEFINE c == [step |-> "planning", clone |-> w, at |-> Revision]
<1>1. command' = [command EXCEPT ![p] = c]
  BY DEF Fetch, Begin
<1>2. c \in Command
  BY RevisionFacts DEF Command
<1>3. CommandComes(cloud, c)
  BY RevisionFacts DEF CommandComes, Revision
<1> HIDE DEF c
<1> QED
  BY <1>1, <1>2, <1>3, CommandOnly DEF Fetch

LEMMA WriteYamlKeeps ==
    ASSUME IInv, NEW p \in Commands, WriteYaml(p)
    PROVE  IInv'
<1>1. command[p].yaml \in Nat
  BY AtFacts DEF WriteYaml, At
<1>2. yaml' \in [Clones -> Nat]
  BY <1>1 DEF WriteYaml, IInv, EnvTypeOK
<1>3. command' \in [Commands -> Command \cup {None}] /\ CommandsCome'
  BY CommandStep DEF WriteYaml, End
<1>4. \A u \in Clones, v \in Vars : LineComes(cloud, v, disk[u].line[v])
  BY InThisLog DEF IInv
<1> QED
  BY <1>2, <1>3, <1>4, DiskStep DEF WriteYaml, IInv, EnvTypeOK

LEMMA FailKeeps ==
    ASSUME IInv, NEW p \in Commands, Fail(p)
    PROVE  IInv'
BY CommandOnly DEF Fail, End

LEMMA PlanKeeps ==
    ASSUME IInv, NEW p \in Commands, Plan(p)
    PROVE  IInv'
<1> DEFINE c == command[p]
           w == c.clone
           n == c.at
           line == disk[w].line
<1>1. c # None /\ c.step = "planning"
  BY DEF Plan, At
<1>2. w \in Clones /\ n \in 1 .. Revision /\ n \in 0 .. Revision /\ n \in Nat
  BY <1>1, AtFacts, RevisionFacts DEF CommandComes, Revision
<1>3. disk[w] \in Disk /\ line \in [Vars -> Line]
  BY <1>2 DEF IInv, EnvTypeOK, Disk
<1>4. \A v \in Vars : line[v] \in Line /\ LineComes(cloud, v, line[v])
  BY <1>2, <1>3, InThisLog DEF IInv
<1>5. \A v \in Vars : LineAt(v, n) \in Line /\ LineComes(cloud, v, LineAt(v, n))
  BY <1>2, LineAtComes
<1> HIDE DEF line
<1>6. ASSUME End(p)
      PROVE  command' \in [Commands -> Command \cup {None}] /\ CommandsCome'
  BY <1>6, CommandStep DEF Plan, End
<1>7. ASSUME Become(p, [step |-> "merging", clone |-> w, at |-> n,
                        todo |-> Changed(line, n), line |-> PlanMerge(line, n)])
      PROVE  command' \in [Commands -> Command \cup {None}] /\ CommandsCome'
  <2> DEFINE merge == [step |-> "merging", clone |-> w, at |-> n,
                       todo |-> Changed(line, n), line |-> PlanMerge(line, n)]
  <2>1. Changed(line, n) \in SUBSET Files
    BY DEF Changed
  <2>2. PlanMerge(line, n) \in [Vars -> Line]
    BY <1>4, <1>5 DEF PlanMerge
  <2>3. \A v \in Vars : LineComes(cloud, v, PlanMerge(line, n)[v])
    BY <1>4, <1>5 DEF PlanMerge
  <2>4. merge \in Command
    BY <1>2, <2>1, <2>2 DEF Command
  <2>5. CommandComes(cloud, merge)
    BY <1>2, <2>3 DEF CommandComes, Revision
  <2>6. command' = [command EXCEPT ![p] = merge]
    BY <1>7 DEF Become
  <2> HIDE DEF merge
  <2> QED
    BY <2>4, <2>5, <2>6, CommandStep DEF Plan
<1>8. command' \in [Commands -> Command \cup {None}] /\ CommandsCome'
  BY <1>6, <1>7 DEF Plan, line
<1> DEFINE d == Agreeing(disk[w], n)
<1>9. d \in Disk
  BY <1>3, <1>4, <1>5 DEF Agreeing, Disk, line
<1>10. \A v \in Vars : LineComes(cloud, v, d.line[v])
  BY <1>4, <1>5 DEF Agreeing, line
<1>11. disk' = [disk EXCEPT ![w] = d]
  BY DEF Plan
<1> HIDE DEF d
<1>12. disk' \in [Clones -> Disk]
  BY <1>9, <1>11 DEF IInv, EnvTypeOK
<1>13. \A u \in Clones, v \in Vars : LineComes(cloud, v, disk'[u].line[v])
  BY <1>2, <1>10, <1>11, InThisLog DEF IInv, EnvTypeOK
<1> QED
  BY <1>8, <1>12, <1>13, DiskStep DEF Plan, IInv, EnvTypeOK

LEMMA WriteEnvFileKeeps ==
    ASSUME IInv, NEW p \in Commands, NEW f \in Files, WriteEnvFile(p, f)
    PROVE  IInv'
<1> DEFINE c == command[p]
           w == c.clone
           d == [files |-> disk[w].files \cup {f},
                 line |-> [v \in Vars |-> IF File(v) = f THEN c.line[v] ELSE disk[w].line[v]]]
<1>1. c # None /\ c.step = "merging" /\ f \in c.todo
  BY DEF WriteEnvFile, At
<1>2. c \in Command /\ CommandComes(cloud, c) /\ w \in Clones
  BY <1>1, AtFacts
<1>3. c.at \in Nat /\ c.todo \in SUBSET Files /\ c.line \in [Vars -> Line]
      /\ c = [step |-> "merging", clone |-> w, at |-> c.at, todo |-> c.todo, line |-> c.line]
  BY <1>1, <1>2 DEF Command
<1>4. disk[w] \in Disk
  BY <1>2 DEF IInv, EnvTypeOK
<1>5. \A v \in Vars : LineComes(cloud, v, c.line[v]) /\ LineComes(cloud, v, disk[w].line[v])
  BY <1>1, <1>2, InThisLog DEF IInv, CommandComes
<1>6. disk' = [disk EXCEPT ![w] = d]
  BY DEF WriteEnvFile
<1>7. d \in Disk
  BY <1>3, <1>4 DEF Disk
<1>8. \A v \in Vars : LineComes(cloud, v, d.line[v])
  BY <1>5
<1>9. disk' \in [Clones -> Disk]
  <2> HIDE DEF d
  <2> QED
    BY <1>6, <1>7 DEF IInv, EnvTypeOK
<1>10. \A u \in Clones, v \in Vars : LineComes(cloud, v, disk'[u].line[v])
  <2> HIDE DEF d
  <2> QED
    BY <1>2, <1>6, <1>8, InThisLog DEF IInv, EnvTypeOK
<1>11. ASSUME End(p)
       PROVE  command' \in [Commands -> Command \cup {None}] /\ CommandsCome'
  BY <1>11, CommandStep DEF WriteEnvFile, End
<1>12. ASSUME command' = [command EXCEPT ![p].todo = @ \ {f}]
       PROVE  command' \in [Commands -> Command \cup {None}] /\ CommandsCome'
  <2> DEFINE rest == [step |-> "merging", clone |-> w, at |-> c.at,
                      todo |-> c.todo \ {f}, line |-> c.line]
  <2>1. [c EXCEPT !.todo = @ \ {f}] = rest
    BY <1>3
  <2>2. command' = [command EXCEPT ![p] = rest]
    BY <1>12, <2>1
  <2>3. rest \in Command
    BY <1>2, <1>3 DEF Command
  <2>4. CommandComes(cloud, rest)
    BY <1>1, <1>2 DEF CommandComes
  <2> HIDE DEF rest
  <2> QED
    BY <2>2, <2>3, <2>4, CommandStep DEF WriteEnvFile
<1>13. command' \in [Commands -> Command \cup {None}] /\ CommandsCome'
  BY <1>11, <1>12 DEF WriteEnvFile
<1> QED
  BY <1>9, <1>10, <1>13, DiskStep DEF WriteEnvFile, IInv, EnvTypeOK

LEMMA ServePushKeeps ==
    ASSUME IInv, NEW p \in Commands, ServePush(p)
    PROVE  IInv'
<1> DEFINE c == command[p]
           w == c.clone
           e == [value |-> Overlay(Current, c.payload), declared |-> c.declared,
                 skipped |-> c.skipped]
<1>1. c # None /\ c.step = "pushing"
  BY DEF ServePush, At
<1>2. c \in Command /\ CommandComes(cloud, c) /\ w \in Clones
  BY <1>1, AtFacts
<1>3. c.declared \in State /\ c.skipped \in SUBSET Vars /\ c.files \in BOOLEAN
      /\ \E some \in SUBSET Vars : c.payload \in [some -> Values \cup {Absent}]
  BY <1>1, <1>2 DEF Command
<1>4. CASE ~Accepts(c)
  BY <1>4, CommandOnly DEF ServePush, End
<1>5. CASE Accepts(c)
  <2>1. c.at = Revision
    BY <1>5 DEF Accepts
  <2>2. Declares(e.declared, e.value, e.skipped)
    BY <1>1, <1>2, <2>1 DEF CommandComes, Current
  <2>3. e \in Entry
    BY <1>3, OverlayType, RevisionFacts DEF Entry, Current
  <2>4. cloud' = Append(cloud, e)
    BY <1>5 DEF ServePush
  <2>5. \A v \in Vars : v \in DOMAIN c.payload => e.value[v] = c.payload[v]
    BY DEF Overlay
  <2> HIDE DEF e
  <2>6. cloud' \in Seq(Entry) \ {<<>>} /\ DeclaredUnlessSkipped'
    BY <2>2, <2>3, <2>4, NextRevision
  <2>7. Revision \in Nat /\ Len(cloud') = Revision + 1 /\ cloud'[Revision + 1] = e
    BY <2>4 DEF IInv, EnvTypeOK, Revision
  <2>8. \A u \in Clones, v \in Vars :
            disk[u].line[v] \in Line /\ LineComes(cloud', v, disk[u].line[v])
    BY <2>3, <2>4, LinesInLongerLog DEF IInv, EnvTypeOK, Disk
  <2>9. \A v \in Vars : v \in DOMAIN c.payload =>
            LET line == Pushed(disk[w].line[v], c.payload[v])
            IN  line \in Line /\ LineComes(cloud', v, line)
    <3> SUFFICES ASSUME NEW v \in Vars, v \in DOMAIN c.payload
                 PROVE  LET line == Pushed(disk[w].line[v], c.payload[v])
                        IN  line \in Line /\ LineComes(cloud', v, line)
      OBVIOUS
    <3> DEFINE old == disk[w].line[v]
               x == c.payload[v]
               changed == old.value # x
               line == [value |-> old.value, base |-> Revision + 1, edited |-> changed]
    <3>1. old \in Line /\ LineComes(cloud', v, old)
      BY <1>2, <2>8
    <3>2. line \in Line
      <4>1. changed \in BOOLEAN
        OBVIOUS
      <4> HIDE DEF changed
      <4> QED
        BY <2>7, <3>1, <4>1 DEF Line
    <3>3. line.base = Revision + 1 /\ line.value = old.value /\ (~line.edited => old.value = x)
      BY <3>1 DEF Line
    <3>4. ValueIn(cloud', v, Revision + 1) = x
      BY <2>5, <2>7 DEF ValueIn
    <3> HIDE DEF line
    <3>5. LineComes(cloud', v, line)
      BY <2>7, <3>3, <3>4 DEF LineComes
    <3> QED
      BY <3>1, <3>2, <3>5 DEF Pushed, line
  <2> DEFINE lines == [v \in Vars |-> IF v \in DOMAIN c.payload
                                      THEN Pushed(disk[w].line[v], c.payload[v])
                                      ELSE disk[w].line[v]]
             d == [files |-> disk[w].files, line |-> lines]
  <2>10. disk[w] \in Disk
    BY <1>2 DEF IInv, EnvTypeOK
  <2>11. lines \in [Vars -> Line] /\ \A v \in Vars : LineComes(cloud', v, lines[v])
    BY <1>2, <2>8, <2>9
  <2>12. c.files => disk' = [disk EXCEPT ![w].line = lines]
    BY <1>5 DEF ServePush
  <2> HIDE DEF lines
  <2>13. d \in Disk
    BY <2>10, <2>11 DEF Disk
  <2>14. [disk[w] EXCEPT !.line = lines] = d
    BY <2>10 DEF Disk
  <2>15. c.files => disk' = [disk EXCEPT ![w] = d]
    BY <2>12, <2>14
  <2>16. ~c.files => disk' = disk
    BY <1>5 DEF ServePush
  <2>17. \A v \in Vars : LineComes(cloud', v, d.line[v])
    BY <2>11
  <2> HIDE DEF d
  <2>18. disk' \in [Clones -> Disk]
    BY <1>3, <2>13, <2>15, <2>16 DEF IInv, EnvTypeOK
  <2>19. \A u \in Clones, v \in Vars : LineComes(cloud', v, disk'[u].line[v])
    BY <1>3, <2>8, <2>15, <2>16, <2>17 DEF IInv, EnvTypeOK
  <2> DEFINE next == [step |-> "writing", clone |-> w, yaml |-> Revision + 1]
  <2>20. command' = [command EXCEPT ![p] = next]
    BY <1>5 DEF ServePush, Become
  <2>21. next \in Command /\ CommandComes(cloud', next)
    BY <1>2, <2>7 DEF Command, CommandComes
  <2> HIDE DEF next
  <2>22. command' \in [Commands -> Command \cup {None}]
    BY <2>20, <2>21 DEF IInv, EnvTypeOK
  <2>23. CommandsCome'
    <3> SUFFICES ASSUME NEW q \in Commands, command'[q] # None
                 PROVE  CommandComes(cloud', command'[q])
      BY DEF CommandsCome
    <3>1. CASE q = p
      BY <2>20, <2>21, <3>1 DEF IInv, EnvTypeOK
    <3>2. CASE q # p
      <4>1. command'[q] = command[q]
        BY <2>20, <3>2 DEF IInv, EnvTypeOK
      <4> QED
        BY <2>3, <2>4, <4>1, CommandsInLongerLog
    <3> QED
      BY <3>1, <3>2
  <2>24. LinesComeFromTheirRevision'
    BY <2>19, InNextLog
  <2>25. EnvTypeOK'
    BY <2>6, <2>18, <2>22 DEF ServePush, IInv, EnvTypeOK
  <2> QED
    BY <2>6, <2>23, <2>24, <2>25 DEF IInv
<1> QED
  BY <1>4, <1>5

LEMMA StepsKeep == IInv /\ [Next]_vars => IInv'
<1> SUFFICES ASSUME IInv, [Next]_vars PROVE IInv'
  OBVIOUS
<1>1. CASE UNCHANGED vars
  BY <1>1, InThisLog, InNextLog
     DEF vars, IInv, EnvTypeOK, DeclaredUnlessSkipped, CommandsCome, Revision
<1>2. ASSUME NEW p \in Commands, Run(p)
      PROVE  IInv'
  BY <1>2, ReadFilesKeeps, ReadProjectKeeps, FetchKeeps, DiffKeeps, SetKeeps, ServePushKeeps,
     WriteYamlKeeps, PlanKeeps, WriteEnvFileKeeps, FailKeeps DEF Run
<1>3. ASSUME NEW w \in Clones, NEW v \in Own[w], Edit(w, v)
      PROVE  IInv'
  BY <1>3, EditKeeps, OwnAssumption
<1>4. ASSUME NEW w \in Clones, ConfigPull(w)
      PROVE  IInv'
  BY <1>4, ConfigPullKeeps
<1> QED
  BY <1>1, <1>2, <1>3, <1>4, ConfigMovesKeeps DEF Next

-----------------------------------------------------------------------------
\* Revisions, env files and commands have their types.
THEOREM EnvTypeCorrect == Spec => []EnvTypeOK
<1>1. IInv => EnvTypeOK
  BY DEF IInv
<1> QED
  BY Begins, StepsKeep, <1>1, PTL DEF Spec

\* Every revision declares the values that are stored with it, but of variables
\* left out of a push, for `env push', `env set' and config pushes in any order.
THEOREM DeclarationsMatch == Spec => []DeclaredUnlessSkipped
<1>1. IInv => DeclaredUnlessSkipped
  BY DEF IInv
<1> QED
  BY Begins, StepsKeep, <1>1, PTL DEF Spec

\* A line of an env file that no person changed has the value of the revision
\* it is said to be from, whatever pulls and pushes overlap or break off.
THEOREM LinesFromRevisions == Spec => []LinesComeFromTheirRevision
<1>1. IInv => LinesComeFromTheirRevision
  BY DEF IInv
<1> QED
  BY Begins, StepsKeep, <1>1, PTL DEF Spec

-----------------------------------------------------------------------------
\* What takes a command from the push it sends to the file it writes is the
\* answer of the store.
LEMMA PushStep ==
    ASSUME IInv, [Next]_vars, NEW p \in Commands, At(p, "pushing"), At(p, "writing")'
    PROVE  ServePush(p)
<1>1. /\ command[p] # None /\ command[p].step = "pushing"
      /\ command'[p] # None /\ command'[p].step = "writing"
  BY DEF At
<1>2. command \in [Commands -> Command \cup {None}]
  BY DEF IInv, EnvTypeOK
<1>3. command'[p] # command[p]
  BY <1>1
<1>4. PICK q \in Commands : Run(q)
  BY <1>3 DEF Next, vars, ConfigMoves, ConfigPull, Edit
<1>5. q = p
  <2> SUFFICES ASSUME q # p PROVE command'[p] = command[p]
    BY <1>3
  <2>1. \A c : command' = [command EXCEPT ![q] = c] => command'[p] = command[p]
    BY <1>2
  <2>2. CASE \E w \in Clones : ReadFiles(q, w) \/ ReadProject(q, w) \/ Fetch(q, w)
    BY <2>1, <2>2 DEF ReadFiles, ReadProject, Fetch, Begin
  <2>3. CASE Diff(q) \/ Set(q) \/ WriteYaml(q) \/ Fail(q)
    BY <2>1, <2>3 DEF Diff, Set, WriteYaml, Fail, Become, End
  <2>4. CASE ServePush(q) \/ Plan(q)
    BY <2>1, <2>4 DEF ServePush, Plan, Become, End
  <2>5. CASE \E f \in Files : WriteEnvFile(q, f)
    BY <1>2, <2>5 DEF WriteEnvFile, End
  <2> QED
    BY <1>4, <2>2, <2>3, <2>4, <2>5 DEF Run
<1>6. ~(\E w \in Clones : ReadFiles(p, w) \/ ReadProject(p, w) \/ Fetch(p, w))
  BY <1>1 DEF ReadFiles, ReadProject, Fetch, Begin
<1>7. ~Diff(p) /\ ~Set(p) /\ ~WriteYaml(p) /\ ~Plan(p)
  BY <1>1 DEF Diff, Set, WriteYaml, Plan, At
<1>8. \A f \in Files : ~WriteEnvFile(p, f)
  BY <1>1 DEF WriteEnvFile, At
<1>9. ~Fail(p)
  BY <1>1, <1>2 DEF Fail, End
<1> QED
  BY <1>4, <1>5, <1>6, <1>7, <1>8, <1>9 DEF Run

\* A push changes values its sender approved, and each from the value that it
\* was compared with.
THEOREM ApprovedOnly == Spec => PushesAsApproved
<1> DEFINE Step == \A p \in Commands :
        At(p, "pushing") /\ At(p, "writing")'
        => \A v \in Vars : Current'[v] # Current[v] =>
            /\ v \in command[p].approved
            /\ Current[v] = ValueAt(v, command[p].at)
<1>1. IInv /\ [Next]_vars => [Step]_vars
  <2> SUFFICES ASSUME IInv, [Next]_vars, NEW p \in Commands,
                      At(p, "pushing"), At(p, "writing")',
                      NEW v \in Vars, Current'[v] # Current[v]
               PROVE  /\ v \in command[p].approved
                      /\ Current[v] = ValueAt(v, command[p].at)
    OBVIOUS
  <2> DEFINE c == command[p]
             e == [value |-> Overlay(Current, c.payload), declared |-> c.declared,
                   skipped |-> c.skipped]
  <2>1. ServePush(p)
    BY PushStep
  <2>2. c # None /\ c.step = "pushing"
    BY DEF At
  <2>3. DOMAIN c.payload = c.approved
    BY <2>2, AtFacts DEF CommandComes
  <2>4. Accepts(c) /\ cloud' = Append(cloud, e)
    <3>1. command'[p] # None
      BY DEF At
    <3>2. ~End(p)
      BY <3>1 DEF End, IInv, EnvTypeOK
    <3> QED
      BY <2>1, <3>2 DEF ServePush
  <2>5. Current' = e.value
    BY <2>4 DEF Current, Revision, IInv, EnvTypeOK
  <2>6. v \in DOMAIN c.payload
    BY <2>5 DEF Overlay
  <2>7. Current[v] = ValueAt(v, c.at)
    BY <2>4, RevisionFacts DEF Accepts, ValueAt, Current
  <2> QED
    BY <2>3, <2>6, <2>7
<1>2. [][Step]_vars => PushesAsApproved
  BY DEF PushesAsApproved
<1> QED
  BY Begins, StepsKeep, <1>1, <1>2, PTL DEF Spec
=============================================================================
