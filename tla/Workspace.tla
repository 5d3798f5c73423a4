----------------------------- MODULE Workspace -----------------------------
(***************************************************************************)
(* The propagate.yaml files of a team: one per clone of the repository,    *)
(* each with the cloud revision it was taken from, and the CLI commands    *)
(* that move configs between them and the cloud.  A command reads the file *)
(* when it starts and writes it when it ends; in between it waits for the  *)
(* server and for a person at a prompt, and other commands run, also in    *)
(* the same clone.  A command can fail at any point, after the server      *)
(* accepted its push included.  The cloud is the log of revisions          *)
(* (ConfigRevisions) that TeamApi implements.                              *)
(***************************************************************************)
EXTENDS Naturals, Sequences, FiniteSets

CONSTANTS
    Clones,        \* clones of the repository
    Settings,      \* what a propagate.yaml may say differently from the first
    Own,           \* Own[w]: the settings people change in clone w
    Commands,      \* commands that run at the same time
    None,          \* no command
    MaxRevision,   \* bound on the revisions pushed
    MaxLate        \* bound on the pushes on their way

ASSUME OwnAssumption == Own \in [Clones -> SUBSET Settings]

\* A propagate.yaml: its content, which the config hash stands for, and
\* cloud_revision.  (sync_status is "synced" in every file of a team that is
\* in the cloud: all its writers write that.)
File == [config : SUBSET Settings, revision : Nat \ {0}]

VARIABLES
    cloud,      \* the config of each revision of the cloud
    author,     \* history: the clones revisions 2, 3, ... were pushed from
    file,       \* per clone, its propagate.yaml
    command,    \* per command, how far it is
    late        \* pushes on their way whose command has given up

vars == <<cloud, author, file, command, late>>

\* A command that has read its clone's file, is pushing one, or is about to
\* write one.
Kinds == {"edit", "pull", "push"}
Command == [step : Kinds \cup {"pushing", "writing"}, clone : Clones, file : File]

\* A file that is pushed: its config, and the revision that is expected.
Push == [clone : Clones, file : File]

ASSUME NoneAssumption == None \notin Command

TypeOK ==
    /\ cloud \in Seq(SUBSET Settings)
    /\ author \in Seq(Clones)
    /\ file \in [Clones -> File]
    /\ command \in [Commands -> Command \cup {None}]
    /\ late \in SUBSET Push

Diff(a, b) == (a \ b) \cup (b \ a)

Revision == Len(cloud)
InCloud(n) == [config |-> cloud[n], revision |-> n]

\* `init' made revision 1 and its propagate.yaml, which everybody cloned.
Init ==
    /\ cloud = <<{}>>
    /\ author = <<>>
    /\ file = [w \in Clones |-> InCloud(1)]
    /\ command = [p \in Commands |-> None]
    /\ late = {}

-----------------------------------------------------------------------------
At(p, step) == command[p] # None /\ command[p].step = step

End(p) == command' = [command EXCEPT ![p] = None]
Advance(p, step, f) == command' = [command EXCEPT ![p].step = step, ![p].file = f]

\* config.ReadProject.
Start(p, w, kind) ==
    /\ command[p] = None
    /\ command' = [command EXCEPT ![p] = [step |-> kind, clone |-> w, file |-> file[w]]]
    /\ UNCHANGED <<cloud, author, file, late>>

\* `config edit', `scope create' or an editor: what was read is written back
\* with changes, and with the revision it had.
SaveEdit(p) ==
    /\ At(p, "edit")
    /\ LET w == command[p].clone
           read == command[p].file
       IN  \E change \in SUBSET Own[w] :
            /\ change # {}
            /\ file' = [file EXCEPT ![w] =
                          [read EXCEPT !.config = Diff(read.config, change)]]
    /\ End(p)
    /\ UNCHANGED <<cloud, author, late>>

-----------------------------------------------------------------------------
\* hasLocalUnpushedConfig: whether a pull asks before it overwrites.
HasLocalUnpushedConfig(local, fetched) ==
    /\ local.config # fetched.config
    /\ local.revision = fetched.revision

\* `config pull', and the pull `run' does first: the latest cloud config will
\* be written, if the answer is yes where there is a question.
Fetch(p) ==
    /\ At(p, "pull")
    /\ \/ command[p].file = InCloud(Revision) /\ End(p)
       \/ command[p].file # InCloud(Revision) /\ Advance(p, "writing", InCloud(Revision))
    /\ UNCHANGED <<cloud, author, file, late>>

\* Mutant: the push expects the revision the server reported.
MutAskToPush(p, config) ==
    Advance(p, "pushing", [config |-> config, revision |-> Revision])

\* A push is made from a file that has the cloud's revision, and expects it.
AskToPush(p, config) ==
    /\ command[p].file.revision = Revision
    /\ Advance(p, "pushing", [command[p].file EXCEPT !.config = config])

\* `config push' pushes the file, with the joiners it approves; `env push' and
\* `env set' push it with their declarations of variables.  Either may push
\* the cloud's config again: to decline a joiner, or to change values.
CheckPush(p) ==
    /\ At(p, "push")
    /\ Revision < MaxRevision
    /\ \E change \in SUBSET Own[command[p].clone] :
        AskToPush(p, Diff(command[p].file.config, change))
    /\ UNCHANGED <<cloud, author, file, late>>

-----------------------------------------------------------------------------
\* PushConfig or EnvPush at the store, as far as the files see it.
Accepts(push) ==
    /\ push.file.revision = Revision
    /\ Revision < MaxRevision
    /\ cloud' = Append(cloud, push.file.config)
    /\ author' = Append(author, push.clone)

Refuses(push) ==
    /\ push.file.revision # Revision
    /\ UNCHANGED <<cloud, author>>

ServePush(p) ==
    /\ At(p, "pushing")
    /\ LET push == [clone |-> command[p].clone, file |-> command[p].file]
       IN  \/ /\ Accepts(push)
              /\ Advance(p, "writing", [push.file EXCEPT !.revision = Revision + 1])
           \/ Refuses(push) /\ End(p)
    /\ UNCHANGED <<file, late>>

\* A push that its command no longer waits for.
ServeLatePush(push) ==
    /\ push \in late
    /\ late' = late \ {push}
    /\ Accepts(push) \/ Refuses(push)
    /\ UNCHANGED <<file, command>>

\* An approval, or a redemption, made from clone w: the server itself adds to
\* the config it has.
Admit(w) ==
    /\ \E joined \in SUBSET Own[w] :
        /\ joined # {}
        /\ Accepts([clone |-> w,
                    file |-> [InCloud(Revision) EXCEPT !.config = Diff(@, joined)]])
    /\ UNCHANGED <<file, command, late>>

\* Mutant: the content of the file is left as it is.
MutWritten(p) ==
    [file[command[p].clone] EXCEPT !.revision = command[p].file.revision]

\* The file is replaced as a whole, whatever it is by now.
Written(p) == command[p].file

WriteFile(p) ==
    /\ At(p, "writing")
    /\ file' = [file EXCEPT ![command[p].clone] = Written(p)]
    /\ End(p)
    /\ UNCHANGED <<cloud, author, late>>

\* A command ends without a write: no at a prompt, a refusal, no connection,
\* an answer that is lost, an interrupt, a write that fails.  A push may be on
\* its way by then.
Fail(p) ==
    /\ command[p] # None
    /\ End(p)
    /\ \/ UNCHANGED late
       \/ /\ At(p, "pushing")
          /\ Cardinality(late) < MaxLate
          /\ late' = late \cup {[clone |-> command[p].clone, file |-> command[p].file]}
    /\ UNCHANGED <<cloud, author, file>>

\* git brings a file that was committed as it was pulled or pushed, of any
\* revision, where there is nothing to lose.
Checkout(w) ==
    /\ file[w] = InCloud(file[w].revision)
    /\ \E n \in 1 .. Revision : file' = [file EXCEPT ![w] = InCloud(n)]
    /\ UNCHANGED <<cloud, author, command, late>>

Run(p) ==
    \/ \E w \in Clones, kind \in Kinds : Start(p, w, kind)
    \/ SaveEdit(p)
    \/ Fetch(p)
    \/ CheckPush(p)
    \/ ServePush(p)
    \/ WriteFile(p)
    \/ Fail(p)

Next ==
    \/ \E p \in Commands : Run(p)
    \/ \E push \in late : ServeLatePush(push)
    \/ \E w \in Clones : Admit(w) \/ Checkout(w)

Spec == Init /\ [][Next]_vars

-----------------------------------------------------------------------------
\* Only clone w's changes separate f from the revision it names.
EditsItsRevision(f, w) ==
    /\ f.revision \in 1 .. Revision
    /\ Diff(f.config, cloud[f.revision]) \subseteq Own[w]

\* Whatever commands overlap in a clone and wherever they fail, the file has
\* the revision its content was made from: the two differ by the clone's own
\* changes only.  (Each command writes both, or neither, from what it read.)
FilesEditTheirRevision == \A w \in Clones : EditsItsRevision(file[w], w)

\* No push undoes somebody else's change: a revision differs from the one
\* before it only in what the people of the clone it came from changed.
PushesChangeOnlyOwn ==
    /\ Revision = Len(author) + 1
    /\ \A n \in DOMAIN author : Diff(cloud[n], cloud[n + 1]) \subseteq Own[author[n]]

\* A pull that does not ask has nothing to lose: the config it read, and will
\* overwrite, is one the cloud has had.
PullsKeepChanges ==
    [][\A p \in Commands :
        /\ At(p, "pull")
        /\ At(p, "writing")'
        /\ ~HasLocalUnpushedConfig(command[p].file, InCloud(Revision))
        => \E n \in 1 .. Revision : command[p].file.config = cloud[n]]_vars
=============================================================================
