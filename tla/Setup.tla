------------------------------- MODULE Setup -------------------------------
(***************************************************************************)
(* propagate init, and what quickstart and team join --init do of it: one  *)
(* home with an identity, clones of a repository that may have a           *)
(* propagate.yaml or not, and commands that overlap and may be given up    *)
(* between any two steps.  An identity is the number of its key pair, a    *)
(* team that of its id; both are drawn at random, so that each is new.     *)
(* What a scope key seals is ScopeKeys', what happens to a file that names *)
(* a team is Workspace's, invites and join requests are TeamInvites' and   *)
(* TeamApi's.                                                              *)
(***************************************************************************)
EXTENDS Naturals

CONSTANTS
    Clones,        \* worktrees of one person
    Files,         \* candidate env files
    Contents,      \* what an env file may say
    NoFile,        \* an env file that is not there
    Commands,      \* commands under way at the same time
    None,          \* no file, no command
    MaxKeys,       \* bound: identities made
    MaxTeams       \* bound: team ids drawn

Values == [Files -> Contents \cup {NoFile}]

\* Nobody's key, no team.
Nobody == 0

\* A team as the cloud has it at revision 1: whose it is, the env files mapped,
\* the values and the team id they are sealed for.
Team == [id : Nat, admin : Nat, files : SUBSET Files, values : Values, sealedFor : Nat]

\* propagate.yaml as init writes it; without a cloud its revision is local.
Yaml == [team : Nat, cloud : BOOLEAN, admin : Nat, files : SUBSET Files, declared : Values]

Steps == {"ensure", "create", "profile", "write profile", "look", "scan", "compose",
          "send", "write"}

\* A command: "join" needs a file that is there.  The key it works with, the
\* files it has found and the team it sets up come to it step by step.
Command == [kind : {"init", "join"}, clone : Clones, step : Steps, cloud : BOOLEAN,
            key : Nat, files : SUBSET Files, request : Team]

ASSUME NoneAssumption == None \notin Command \cup Yaml
ASSUME NoFileAssumption == NoFile \notin Contents

VARIABLES
    identity,    \* ~/.propagate/identity
    profile,     \* whose handle ~/.propagate/profile has
    yaml,        \* propagate.yaml of each clone
    env,         \* env files of each clone
    teams,       \* teams in the cloud
    command,     \* commands under way
    keys,        \* number of the last key pair made
    ids,         \* number of the last team id drawn
    overlapped,  \* history: two commands created an identity at the same time
    blind        \* history: commands that did not see a file that is there now

home == <<identity, profile, keys, overlapped>>
vars == <<home, yaml, env, teams, command, ids, blind>>

NoTeam == [id |-> Nobody, admin |-> Nobody, files |-> {},
           values |-> [f \in Files |-> NoFile], sealedFor |-> Nobody]

SetupTypeOK ==
    /\ identity \in Nat /\ profile \in Nat /\ keys \in Nat /\ ids \in Nat
    /\ yaml \in [Clones -> Yaml \cup {None}]
    /\ env \in [Clones -> Values]
    /\ teams \in SUBSET Team
    /\ command \in [Commands -> Command \cup {None}]
    /\ overlapped \in BOOLEAN
    /\ blind \in SUBSET Commands

-----------------------------------------------------------------------------
\* A machine on which propagate was never run, and a repository without a file.
Init ==
    /\ identity = Nobody /\ profile = Nobody /\ keys = Nobody /\ ids = Nobody
    /\ yaml = [w \in Clones |-> None]
    /\ env \in [Clones -> Values]
    /\ teams = {}
    /\ command = [c \in Commands |-> None]
    /\ overlapped = FALSE
    /\ blind = {}

At(c, step) == command[c] # None /\ command[c].step = step
Becomes(c, x) == command' = [command EXCEPT ![c] = x]
Goes(c, step) == Becomes(c, [command[c] EXCEPT !.step = step])
Ends(c) == Becomes(c, None) /\ blind' = blind \ {c}

\* Commands that have found no file in clone w and go on to write one.
Unaware(w) == {c \in Commands : /\ command[c] # None /\ command[c].clone = w
                                /\ command[c].step \in {"scan", "compose", "send", "write"}}

\* init, quickstart or team join --init begins.  quickstart looks for a file
\* first and joins if there is one; it does nothing without a cloud.
Start(c) ==
    /\ command[c] = None
    /\ \E w \in Clones, kind \in {"init", "join"}, cloud \in BOOLEAN :
          Becomes(c, [kind |-> kind, clone |-> w, step |-> "ensure", cloud |-> cloud,
                      key |-> Nobody, files |-> {}, request |-> NoTeam])
    /\ UNCHANGED <<home, yaml, env, teams, ids, blind>>

\* Mutant: an identity is created whether there is one or not.
MutLookForIdentity(c) ==
    /\ At(c, "ensure")
    /\ Goes(c, "create")
    /\ overlapped' = (overlapped \/ \E d \in Commands : At(d, "create"))
    /\ UNCHANGED <<identity, profile, keys, yaml, env, teams, ids, blind>>

\* Ensure: the identity that is there, or else a new one.
LookForIdentity(c) ==
    /\ At(c, "ensure")
    /\ IF identity # Nobody
       THEN /\ Becomes(c, [command[c] EXCEPT !.key = identity, !.step = "profile"])
            /\ UNCHANGED overlapped
       ELSE /\ Goes(c, "create")
            /\ overlapped' = (overlapped \/ \E d \in Commands : At(d, "create"))
    /\ UNCHANGED <<identity, profile, keys, yaml, env, teams, ids, blind>>

\* The rename replaces whatever is there by then.
CreateIdentity(c) ==
    /\ At(c, "create")
    /\ keys < MaxKeys
    /\ keys' = keys + 1
    /\ identity' = keys + 1
    /\ Becomes(c, [command[c] EXCEPT !.key = keys + 1, !.step = "profile"])
    /\ UNCHANGED <<profile, overlapped, yaml, env, teams, ids, blind>>

\* ensureProfile: also where an earlier command stopped before its profile.
LookForProfile(c) ==
    /\ At(c, "profile")
    /\ Goes(c, IF profile = Nobody THEN "write profile" ELSE "look")
    /\ UNCHANGED <<home, yaml, env, teams, ids, blind>>

WriteProfile(c) ==
    /\ At(c, "write profile")
    /\ profile' = command[c].key
    /\ Goes(c, "look")
    /\ UNCHANGED <<identity, keys, overlapped, yaml, env, teams, ids, blind>>

\* Mutant: the file is not looked for.
MutLookForConfig(c) ==
    /\ At(c, "look")
    /\ Goes(c, "scan") /\ UNCHANGED blind
    /\ UNCHANGED <<home, yaml, env, teams, ids>>

\* ExistingPath: where there is a file init has done, and join goes on to ask
\* for access.  Where there is none, join fails.
LookForConfig(c) ==
    /\ At(c, "look")
    /\ IF yaml[command[c].clone] # None \/ command[c].kind = "join"
       THEN Ends(c)
       ELSE Goes(c, "scan") /\ UNCHANGED blind
    /\ UNCHANGED <<home, yaml, env, teams, ids>>

\* Scan, after a prompt for the team's name and before one to confirm.
Scan(c) ==
    /\ At(c, "scan")
    /\ Becomes(c, [command[c] EXCEPT
                     !.step = "compose",
                     !.files = {f \in Files : env[command[c].clone][f] # NoFile}])
    /\ UNCHANGED <<home, yaml, env, teams, ids, blind>>

\* NewProject, with a new team id, and buildTeamSetupRequest, which reads the
\* files again: one that has gone ends the command.  The values are sealed for
\* the id and for the admin of the project.
Compose(c) ==
    /\ At(c, "compose")
    /\ ids < MaxTeams
    /\ ids' = ids + 1
    /\ LET r == command[c]
           now == env[r.clone]
           read == IF r.cloud THEN r.files ELSE {}
       IN  /\ \A f \in read : now[f] # NoFile
           /\ Becomes(c, [r EXCEPT
                !.step = IF r.cloud THEN "send" ELSE "write",
                !.request = [id |-> ids + 1, admin |-> r.key, files |-> r.files,
                             values |-> [f \in Files |-> IF f \in read THEN now[f] ELSE NoFile],
                             sealedFor |-> ids + 1]])
    /\ UNCHANGED <<home, yaml, env, teams, blind>>

\* Mutant: the store draws an id of its own.
MutSetupTeamID(request) == request.id + MaxTeams

\* setupTeamID: the store takes the id from the snapshot.
SetupTeamID(request) == request.id

\* handleTeamSetup and CreateTeamSetup; the answer has the team's id.
Serve(c) ==
    /\ At(c, "send")
    /\ LET id == SetupTeamID(command[c].request)
       IN  /\ teams' = teams \cup {[command[c].request EXCEPT !.id = id]}
           /\ Becomes(c, [command[c] EXCEPT !.step = "write", !.request.id = id])
    /\ UNCHANGED <<home, yaml, env, ids, blind>>

\* config.Write replaces the file as a whole.
WriteConfig(c) ==
    /\ At(c, "write")
    /\ LET r == command[c]
       IN  /\ yaml' = [yaml EXCEPT ![r.clone] =
                [team |-> r.request.id, cloud |-> r.cloud, admin |-> r.request.admin,
                 files |-> r.request.files, declared |-> r.request.values]]
           /\ blind' = (blind \cup Unaware(r.clone)) \ {c}
    /\ Becomes(c, None)
    /\ UNCHANGED <<home, env, teams, ids>>

\* A command is canceled, interrupted or fails, or its answer is lost.
Fail(c) ==
    /\ command[c] # None
    /\ Ends(c)
    /\ UNCHANGED <<home, yaml, env, teams, ids>>

\* A person edits, makes or deletes an env file.
Edit(w, f) ==
    /\ \E content \in (Contents \cup {NoFile}) \ {env[w][f]} :
          env' = [env EXCEPT ![w][f] = content]
    /\ UNCHANGED <<home, yaml, teams, command, ids, blind>>

\* git brings another clone's file to a clone that has none.
GitPull(w, x) ==
    /\ yaml[w] = None /\ yaml[x] # None
    /\ yaml' = [yaml EXCEPT ![w] = yaml[x]]
    /\ blind' = blind \cup Unaware(w)
    /\ UNCHANGED <<home, env, teams, command, ids>>

Next ==
    \/ \E c \in Commands :
          \/ Start(c) \/ LookForIdentity(c) \/ CreateIdentity(c)
          \/ LookForProfile(c) \/ WriteProfile(c)
          \/ LookForConfig(c) \/ Scan(c) \/ Compose(c) \/ Serve(c) \/ WriteConfig(c)
          \/ Fail(c)
    \/ \E w \in Clones : \/ \E f \in Files : Edit(w, f)
                         \/ \E x \in Clones : GitPull(w, x)

Spec == Init /\ [][Next]_vars

-----------------------------------------------------------------------------
\* The private keys of what was set up from this home are in this home: the
\* identity is replaced by no command, and the profile is the identity's, but
\* where two commands created an identity at the same time.  Commands that stop
\* between the two files do no harm.
HomeKeepsItsKeys ==
    ~overlapped =>
        /\ \A t \in teams : t.admin = identity
        /\ \A w \in Clones : yaml[w] # None => yaml[w].admin = identity
        /\ profile \in {Nobody, identity}

\* A file at a cloud revision names a team that is there, with the admin, the
\* env files and the values that the file declares, and its values are sealed
\* for the team id that the file will open them with.
Describes(y, t) ==
    /\ t.id = y.team /\ t.sealedFor = y.team
    /\ t.admin = y.admin /\ t.files = y.files /\ t.values = y.declared

FileDescribesItsTeam ==
    \A w \in Clones : yaml[w] # None /\ yaml[w].cloud => \E t \in teams : Describes(yaml[w], t)

\* A file is never replaced, but by a command that had looked for it before it
\* was there.
ReplacedUnseenOnly ==
    [][\A w \in Clones :
          yaml[w] # None /\ yaml'[w] # yaml[w] =>
             \E c \in blind : command[c].clone = w /\ command'[c] = None]_vars
=============================================================================
