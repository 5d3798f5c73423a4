------------------------------ MODULE EnvFiles ------------------------------
(***************************************************************************)
(* The env files of one scope in the clones of a repository, and the CLI   *)
(* commands that move values between them and the cloud.  `env push' reads *)
(* the files, compares them with the values it fetches, lets a person      *)
(* choose among the differences and sends those; `env pull' fetches the    *)
(* values, plans a merge with the files and writes them one after the      *)
(* other; `env set' sends one value and touches no env file.  Commands     *)
(* overlap, also in one clone, people edit meanwhile, and a command can end *)
(* between any two of its steps.                                           *)
(*                                                                         *)
(* A propagate.yaml is the one of a revision (module Workspace has its     *)
(* edits), and what matters here is the variables it declares.             *)
(***************************************************************************)
EXTENDS Naturals, Sequences, FiniteSets, FiniteSetsExt

CONSTANTS
    Clones,        \* clones of the repository
    Files,         \* the env files of the scope
    First,         \* the one that is listed first
    Names,         \* names of variables
    Values,        \* values of variables, in the clear
    Absent,        \* no such variable
    Twice,         \* in a file: assigned more than once
    Own,           \* Own[w]: the variables people change in clone w
    Commands,      \* commands that run at the same time
    None,          \* no command
    Imported,      \* what `init' may have imported
    MaxRevision,   \* bound on the revisions pushed
    MaxEdited      \* bound on the lines that are edited at a time

Vars == Files \X Names
File(v) == v[1]
Name(v) == v[2]

ASSUME FirstAssumption == First \in Files
ASSUME ValueAssumption == Absent \notin Values /\ Twice \notin Values \cup {Absent}
ASSUME ImportedAssumption == Imported \subseteq [Vars -> Values \cup {Absent}]
ASSUME OwnAssumption == Own \in [Clones -> SUBSET Vars]

VARIABLES
    cloud,      \* per revision: the values, and the declarations in the config
    yaml,       \* per clone, the revision its propagate.yaml is of
    disk,       \* per clone, its env files
    command     \* per command, how far it is

vars == <<cloud, yaml, disk, command>>

State == [Vars -> Values \cup {Absent}]

\* A declaration holds a digest, or a literal, of the value it was made for: it
\* stands for that value.  History: the variables that somebody has left out of
\* a push since they were declared last.
Entry == [value : State, declared : State, skipped : SUBSET Vars]

\* A line of an env file.  History: the revision that gave the variable the
\* value which the line had when it last agreed with the cloud, and whether a
\* person has changed the line since.
Line == [value : Values \cup {Absent, Twice}, base : Nat, edited : BOOLEAN]

\* The env files of a clone: those that exist, and the lines.
Disk == [files : SUBSET Files, line : [Vars -> Line]]

\* A command that has read files and propagate.yaml, or only the latter; one
\* that has a push to send, or a propagate.yaml to write; and a pull.
Command ==
    [step : {"diffing"}, clone : Clones, yaml : Nat, local : State]
    \cup [step : {"setting", "writing"}, clone : Clones, yaml : Nat]
    \cup [step : {"pushing"}, clone : Clones, at : Nat, approved : SUBSET Vars,
          payload : UNION {[some -> Values \cup {Absent}] : some \in SUBSET Vars},
          declared : State, skipped : SUBSET Vars, files : BOOLEAN]
    \cup [step : {"planning"}, clone : Clones, at : Nat]
    \cup [step : {"merging"}, clone : Clones, at : Nat,
          todo : SUBSET Files, line : [Vars -> Line]]

ASSUME NoneAssumption == None \notin Command

EnvTypeOK ==
    /\ cloud \in Seq(Entry) \ {<<>>}
    /\ yaml \in [Clones -> Nat]
    /\ disk \in [Clones -> Disk]
    /\ command \in [Commands -> Command \cup {None}]

Revision == Len(cloud)
Current == cloud[Revision].value

\* The value at a revision; before the first there was none.
ValueAt(v, n) == IF n = 0 THEN Absent ELSE cloud[n].value[v]

\* The revision that gave v the value it had at revision n.  It stands for the
\* version id of that value.
ChangedAt(v, n) == Max({0} \cup {m \in 1 .. n : ValueAt(v, m) # ValueAt(v, m - 1)})

\* Mutant: a push stores what it sends and nothing else.
MutOverlay(state, some) == some

Overlay(state, some) == [v \in Vars |-> IF v \in DOMAIN some THEN some[v] ELSE state[v]]

\* A line with the value that revision n has.
LineAt(v, n) == [value |-> ValueAt(v, n), base |-> ChangedAt(v, n), edited |-> FALSE]

\* The files of a clone that has just pulled revision n.
Pulled(n) ==
    [files |-> {f \in Files : \E v \in Vars : File(v) = f /\ ValueAt(v, n) # Absent},
     line |-> [v \in Vars |-> LineAt(v, n)]]

\* The files of a clone that never has: there are some, with no variable yet.
Fresh(some) ==
    [files |-> some, line |-> [v \in Vars |-> [value |-> Absent, base |-> 0, edited |-> FALSE]]]

\* `init' imported the values of one clone; env files are not in git.
Init ==
    /\ \E value \in Imported : cloud = <<[value |-> value, declared |-> value, skipped |-> {}]>>
    /\ yaml = [w \in Clones |-> 1]
    /\ disk \in [Clones -> {Pulled(1)} \cup {Fresh(some) : some \in SUBSET Files}]
    /\ command = [p \in Commands |-> None]

-----------------------------------------------------------------------------
At(p, step) == command[p] # None /\ command[p].step = step
End(p) == command' = [command EXCEPT ![p] = None]
Begin(p, c) == command[p] = None /\ command' = [command EXCEPT ![p] = c]
Become(p, c) == command' = [command EXCEPT ![p] = c]

Edited == {e \in Clones \X Vars : disk[e[1]].line[e[2]].edited}

\* An editor: a line is changed, added, removed or assigned once more.
Edit(w, v) ==
    /\ disk[w].line[v].edited \/ Cardinality(Edited) < MaxEdited
    /\ LET d == disk[w]
       IN  \E x \in (Values \cup {Absent, Twice}) \ {d.line[v].value} :
            disk' = [disk EXCEPT ![w] =
                [files |-> d.files \cup {File(v)},
                 line |-> [d.line EXCEPT ![v] =
                    [value |-> x, base |-> d.line[v].base, edited |-> TRUE]]]]
    /\ UNCHANGED <<cloud, yaml, command>>

\* `config pull', or git and the commit of somebody who has pushed.
ConfigPull(w) ==
    /\ yaml' = [yaml EXCEPT ![w] = Revision]
    /\ UNCHANGED <<cloud, disk, command>>

\* A config push, an approval or a redemption: the next revision, with the
\* declarations as they are.
ConfigMoves ==
    /\ Revision < MaxRevision
    /\ cloud' = Append(cloud, cloud[Revision])
    /\ UNCHANGED <<yaml, disk, command>>

-----------------------------------------------------------------------------
\* envfile.ParseAssignments
Assignments(line) == [v \in Vars |-> line[v].value]

\* config.ReadProject and readLocalEnvPushFiles: every file has to be there,
\* and no variable assigned twice.
ReadFiles(p, w) ==
    /\ disk[w].files = Files
    /\ \A v \in Vars : disk[w].line[v].value # Twice
    /\ Begin(p, [step |-> "diffing", clone |-> w, yaml |-> yaml[w],
                 local |-> Assignments(disk[w].line)])
    /\ UNCHANGED <<cloud, yaml, disk>>

\* diffEnvValues: variables to add, to change and to remove.
Changes(local) == {v \in Vars : local[v] # Current[v]}

\* Mutant: what is declared already is left as it is.
MutRedeclared(declared, local, some) ==
    [v \in Vars |-> IF declared[v] = Absent THEN local[v] ELSE declared[v]]

\* The `Unchanged' of a diff: a variable that neither the files nor the cloud
\* have is in none of its lists.
Unchanged(local) == {v \in Vars \ Changes(local) : local[v] # Absent}

\* updateScopeDeclarationsFromEnvPushDiff: declarations are made anew for the
\* changes that are given, and for what agrees with the cloud.  All others stay.
Redeclared(declared, local, some) ==
    [v \in Vars |-> IF v \in some \cup Unchanged(local) THEN local[v] ELSE declared[v]]

\* They are made for all changes, to see whether there is anything to push; and
\* if some were left out, for the others.  The first time writes to the scopes
\* of the project that was read, and the second starts from those.
Declarations(n, local, approved) ==
    LET all == Redeclared(cloud[n].declared, local, Changes(local))
    IN  IF approved = Changes(local) THEN all ELSE Redeclared(all, local, approved)

\* Mutant: what was not approved is sent as well.
MutPayload(local, approved) == [v \in Changes(local) |-> local[v]]

\* buildEnvPushPayload: upserts and removals.
Payload(local, approved) == [v \in approved |-> local[v]]

\* confirmEnvPush: all changes are approved, or those that a person selects; at
\* a terminal that is at least one.
Selections(changes) == IF changes = {} THEN {{}} ELSE SUBSET changes \ {{}}

\* skippedEnvPushDiff; and what was skipped before and is in no list now, which
\* keeps the declaration it has.
Skipped(skipped, local, approved) ==
    (Changes(local) \ approved) \cup (skipped \ (Changes(local) \cup Unchanged(local)))

\* The bundle is fetched and compared with the files, and changes are approved.
\* With no change to push the command ends, unless propagate.yaml is not written
\* the way RenderParsed does, which this module does not see: then it is pushed.
Diff(p) ==
    /\ At(p, "diffing")
    /\ LET c == command[p]
       IN  \/ c.yaml # Revision /\ End(p)
           \/ /\ c.yaml = Revision
              /\ \E approved \in Selections(Changes(c.local)) :
                  LET declared == Declarations(c.yaml, c.local, approved)
                  IN  \/ approved = {} /\ declared = cloud[c.yaml].declared /\ End(p)
                      \/ Become(p, [step |-> "pushing", clone |-> c.clone,
                                at |-> Revision, approved |-> approved,
                                payload |-> Payload(c.local, approved),
                                declared |-> declared,
                                skipped |-> Skipped(cloud[c.yaml].skipped, c.local, approved),
                                files |-> TRUE])
    /\ UNCHANGED <<cloud, yaml, disk>>

-----------------------------------------------------------------------------
\* `env set' reads propagate.yaml and asks for a value.
ReadProject(p, w) ==
    /\ Begin(p, [step |-> "setting", clone |-> w, yaml |-> yaml[w]])
    /\ UNCHANGED <<cloud, yaml, disk>>

\* findCloudVariable and chooseEnvSetPath: the variable of that name that the
\* cloud has, or else one in the first file.
Found(name) == {v \in Vars : Name(v) = name /\ Current[v] # Absent}
Target(name) == IF Found(name) = {} THEN <<First, name>> ELSE CHOOSE v \in Found(name) : TRUE

\* The bundle is fetched, and one upsert is about to be sent.
Set(p) ==
    /\ At(p, "setting")
    /\ \E name \in Names, x \in Values :
        LET c == command[p]
            v == Target(name)
            one == [u \in {v} |-> x]
        IN  \/ /\ \/ c.yaml # Revision
                  \/ Cardinality(Found(name)) > 1
                  \/ Current[v] = x
               /\ End(p)
            \/ /\ c.yaml = Revision
               /\ Cardinality(Found(name)) <= 1
               /\ Current[v] # x
               /\ Become(p, [step |-> "pushing", clone |-> c.clone, at |-> Revision,
                             approved |-> {v}, payload |-> one, files |-> FALSE,
                             declared |-> Overlay(cloud[c.yaml].declared, one),
                             skipped |-> cloud[c.yaml].skipped \ {v}])
    /\ UNCHANGED <<cloud, yaml, disk>>

-----------------------------------------------------------------------------
\* The version an upsert or removal expects, 0 where the sender found none:
\* then it is not compared.
Version(v, n) == IF ValueAt(v, n) = Absent THEN 0 ELSE ChangedAt(v, n)

Conflicts(c) ==
    {v \in DOMAIN c.payload : Version(v, c.at) \notin {0, Version(v, Revision)}}

\* Mutant: a push is compared with nothing.
MutAccepts(c) == c.at <= Revision

\* EnvPush at the store.
Accepts(c) == c.at = Revision /\ Conflicts(c) = {}

\* What was pushed from the files is of the new revision, unless a person or a
\* pull has changed the line in the meantime.
Pushed(line, x) ==
    IF line.value = x \/ line.edited
    THEN [value |-> line.value, base |-> Revision + 1, edited |-> line.value # x]
    ELSE line

ServePush(p) ==
    /\ At(p, "pushing")
    /\ LET c == command[p]
       IN  \/ ~Accepts(c) /\ End(p) /\ UNCHANGED <<cloud, disk>>
           \/ /\ Accepts(c)
              /\ Revision < MaxRevision
              /\ cloud' = Append(cloud, [value |-> Overlay(Current, c.payload),
                                         declared |-> c.declared,
                                         skipped |-> c.skipped])
              /\ disk' = IF c.files
                         THEN [disk EXCEPT ![c.clone].line =
                                [v \in Vars |-> IF v \in DOMAIN c.payload
                                                THEN Pushed(@[v], c.payload[v])
                                                ELSE @[v]]]
                         ELSE disk
              /\ Become(p, [step |-> "writing", clone |-> c.clone, yaml |-> Revision + 1])
    /\ UNCHANGED yaml

\* config.WriteRaw with the revision that was made.
WriteYaml(p) ==
    /\ At(p, "writing")
    /\ yaml' = [yaml EXCEPT ![command[p].clone] = command[p].yaml]
    /\ End(p)
    /\ UNCHANGED <<cloud, disk>>

-----------------------------------------------------------------------------
\* `env pull' fetches the bundle; its propagate.yaml may be of any revision.
Fetch(p, w) ==
    /\ Begin(p, [step |-> "planning", clone |-> w, at |-> Revision])
    /\ UNCHANGED <<cloud, yaml, disk>>

\* History: the lines that are found to agree with revision n.
Agreeing(d, n) ==
    [files |-> d.files,
     line |-> [v \in Vars |->
        IF d.line[v].value = ValueAt(v, n) /\ d.line[v].base <= ChangedAt(v, n)
        THEN LineAt(v, n) ELSE d.line[v]]]

Managed(n) == {v \in Vars : ValueAt(v, n) # Absent}

\* Mutant: a value that the file has already is kept.
MutPlanMergeKeeps(line, n) ==
    [v \in Vars |-> IF v \in Managed(n)
                    THEN [value |-> IF line[v].value = Absent
                                    THEN ValueAt(v, n) ELSE line[v].value,
                          base |-> ChangedAt(v, n), edited |-> FALSE]
                    ELSE line[v]]

\* envfile.PlanMerge: lines of variables the cloud has get its values, where
\* they are or at the end, and all other lines stay.
PlanMerge(line, n) ==
    [v \in Vars |-> IF v \in Managed(n) THEN LineAt(v, n) ELSE line[v]]

\* The files a merge changes: only they are written.
Changed(line, n) ==
    {f \in Files : \E v \in Managed(n) :
        File(v) = f /\ line[v].value # ValueAt(v, n)}

\* buildEnvPullPlans: all files are read and merged before one is written.
Plan(p) ==
    /\ At(p, "planning")
    /\ LET c == command[p]
           line == disk[c.clone].line
       IN  IF (\E v \in Managed(c.at) : line[v].value = Twice) \/ Changed(line, c.at) = {}
           THEN End(p)
           ELSE Become(p, [step |-> "merging", clone |-> c.clone, at |-> c.at,
                           todo |-> Changed(line, c.at), line |-> PlanMerge(line, c.at)])
    /\ disk' = [disk EXCEPT ![command[p].clone] = Agreeing(@, command[p].at)]
    /\ UNCHANGED <<cloud, yaml>>

\* envfile.WriteMerged: a file is replaced by its plan in one step.  (The code
\* takes them in the order of their paths.)
WriteEnvFile(p, f) ==
    /\ At(p, "merging")
    /\ f \in command[p].todo
    /\ LET c == command[p]
           d == disk[c.clone]
       IN  /\ disk' = [disk EXCEPT ![c.clone] =
                [files |-> d.files \cup {f},
                 line |-> [v \in Vars |-> IF File(v) = f THEN c.line[v] ELSE d.line[v]]]]
           /\ IF c.todo = {f} THEN End(p)
              ELSE command' = [command EXCEPT ![p].todo = @ \ {f}]
    /\ UNCHANGED <<cloud, yaml>>

\* A command ends between two steps: no at a prompt, no connection, a lost
\* answer, an interrupt, a write that fails.
Fail(p) ==
    /\ command[p] # None
    /\ End(p)
    /\ UNCHANGED <<cloud, yaml, disk>>

Run(p) ==
    \/ \E w \in Clones : ReadFiles(p, w) \/ ReadProject(p, w) \/ Fetch(p, w)
    \/ Diff(p)
    \/ Set(p)
    \/ ServePush(p)
    \/ WriteYaml(p)
    \/ Plan(p)
    \/ \E f \in Files : WriteEnvFile(p, f)
    \/ Fail(p)

Next ==
    \/ \E p \in Commands : Run(p)
    \/ \E w \in Clones : ConfigPull(w) \/ \E v \in Own[w] : Edit(w, v)
    \/ ConfigMoves

Spec == Init /\ [][Next]_vars

-----------------------------------------------------------------------------
\* An env file of a clone is what the cloud had, at some revision, but for the
\* lines people changed since: pulls that overlap, or end between two files,
\* and pushes of some of the changes leave no line with a value from nowhere.
LinesComeFromTheirRevision ==
    \A w \in Clones, v \in Vars :
        LET line == disk[w].line[v]
        IN  line.base <= Revision /\ (~line.edited => line.value = ValueAt(v, line.base))

\* The config of a revision declares the values that are stored with it, but of
\* variables that were left out of a push: `env set' and config pushes, the
\* overlapping and the late ones too, keep declarations and values together.
DeclaredUnlessSkipped ==
    \A n \in 1 .. Revision, v \in Vars :
        v \notin cloud[n].skipped => cloud[n].declared[v] = cloud[n].value[v]

\* The config of a revision declares the values that are stored with it, also
\* of variables that were left out of a push: they keep their declarations.
DeclaredAsStored == \A n \in 1 .. Revision : cloud[n].declared = cloud[n].value

\* A push changes what its sender approved and nothing else, and each of
\* those from the value it was compared with.
PushesAsApproved ==
    [][\A p \in Commands :
        At(p, "pushing") /\ At(p, "writing")'
        => \A v \in Vars : Current'[v] # Current[v] =>
            /\ v \in command[p].approved
            /\ Current[v] = ValueAt(v, command[p].at)]_vars
=============================================================================
