---------------------------- MODULE SetupProofs ----------------------------
(***************************************************************************)
(* Proofs about Setup, for any clones, env files and overlapping commands: *)
(* the identity that teams were set up with stays in its home unless two   *)
(* commands created one at the same time, a file describes its team, and   *)
(* only a command that could not have seen a file replaces it.             *)
(***************************************************************************)
EXTENDS Setup, TLAPS

\* Key k is the home's.
Ours(k) == k = identity /\ k # Nobody

\* While no two commands created an identity at the same time: one command at
\* most is about to create the first, and all else has the home's key.
CommandOurs(x) ==
    x # None =>
        /\ x.step = "create" => identity = Nobody
        /\ x.step \notin {"ensure", "create"} => Ours(x.key)
        /\ x.step \in {"send", "write"} => Ours(x.request.admin)

HomeOurs ==
    ~overlapped =>
        /\ \A c, d \in Commands : At(c, "create") /\ At(d, "create") => c = d
        /\ \A c \in Commands : CommandOurs(command[c])
        /\ \A t \in teams : Ours(t.admin)
        /\ \A w \in Clones : yaml[w] # None => Ours(yaml[w].admin)
        /\ profile # Nobody => Ours(profile)

\* A request is sealed for its team, and what is written for a cloud is there.
RequestsServed ==
    \A c \in Commands :
        /\ At(c, "send") => command[c].request.sealedFor = command[c].request.id
        /\ At(c, "write") /\ command[c].cloud =>
              /\ command[c].request.sealedFor = command[c].request.id
              /\ command[c].request \in teams

\* A command that goes on to write where there is a file has not seen it.
BlindKnown ==
    \A w \in Clones : yaml[w] # None => Unaware(w) \subseteq blind

SInv == /\ SetupTypeOK
        /\ HomeOurs
        /\ RequestsServed
        /\ FileDescribesItsTeam
        /\ BlindKnown

-----------------------------------------------------------------------------
\* A command as it is after a step that changes one.
LEMMA OneChanges ==
    ASSUME SetupTypeOK, NEW c \in Commands, NEW x, Becomes(c, x)
    PROVE  \A d \in Commands : command'[d] = IF d = c THEN x ELSE command[d]
BY DEF SetupTypeOK, Becomes

LEMMA BecomesTypes ==
    ASSUME SetupTypeOK, NEW c \in Commands, NEW x \in Command \cup {None}, Becomes(c, x)
    PROVE  command' \in [Commands -> Command \cup {None}]
BY DEF SetupTypeOK, Becomes

LEMMA NoTeamIsTeam == NoTeam \in Team
BY DEF NoTeam, Team, Values, Nobody

\* What the files of the clones say is a value of Values.
LEMMA ComposedTypes ==
    ASSUME NEW now \in Values, NEW read \in SUBSET Files
    PROVE  [f \in Files |-> IF f \in read THEN now[f] ELSE NoFile] \in Values
BY DEF Values

LEMMA TypesKept ==
    ASSUME SetupTypeOK, [Next]_vars
    PROVE  SetupTypeOK'
<1> USE DEF SetupTypeOK
<1>1. CASE UNCHANGED vars
  BY <1>1 DEF vars, home
<1>2. ASSUME NEW c \in Commands, Start(c) PROVE SetupTypeOK'
  <2> PICK w \in Clones, kind \in {"init", "join"}, cloud \in BOOLEAN :
        Becomes(c, [kind |-> kind, clone |-> w, step |-> "ensure", cloud |-> cloud,
                    key |-> Nobody, files |-> {}, request |-> NoTeam])
    BY <1>2 DEF Start
  <2>1. [kind |-> kind, clone |-> w, step |-> "ensure", cloud |-> cloud,
         key |-> Nobody, files |-> {}, request |-> NoTeam] \in Command
    BY NoTeamIsTeam DEF Command, Steps, Nobody
  <2> QED
    BY <1>2, <2>1, BecomesTypes DEF Start, home
<1>3. ASSUME NEW c \in Commands, LookForIdentity(c) PROVE SetupTypeOK'
  <2>1. command[c] \in Command
    BY <1>3 DEF LookForIdentity, At
  <2>2. /\ [command[c] EXCEPT !.key = identity, !.step = "profile"] \in Command
        /\ [command[c] EXCEPT !.step = "create"] \in Command
    BY <2>1 DEF Command, Steps
  <2>3. overlapped' \in BOOLEAN
    BY <1>3 DEF LookForIdentity
  <2>4. \/ Becomes(c, [command[c] EXCEPT !.key = identity, !.step = "profile"])
        \/ Becomes(c, [command[c] EXCEPT !.step = "create"])
    BY <1>3 DEF LookForIdentity, Goes
  <2>5. command' \in [Commands -> Command \cup {None}]
    BY <2>2, <2>4, BecomesTypes
  <2> QED
    BY <1>3, <2>3, <2>5 DEF LookForIdentity
<1>4. ASSUME NEW c \in Commands, CreateIdentity(c) PROVE SetupTypeOK'
  <2>1. command[c] \in Command
    BY <1>4 DEF CreateIdentity, At
  <2>2. PICK k \in Nat : k = keys + 1
    OBVIOUS
  <2>3. [command[c] EXCEPT !.key = k, !.step = "profile"] \in Command
    BY <2>1 DEF Command, Steps
  <2> QED
    BY <1>4, <2>2, <2>3, BecomesTypes DEF CreateIdentity
<1>5. ASSUME NEW c \in Commands, LookForProfile(c) PROVE SetupTypeOK'
  <2>1. command[c] \in Command
    BY <1>5 DEF LookForProfile, At
  <2>2. [command[c] EXCEPT !.step = IF profile = Nobody THEN "write profile" ELSE "look"]
            \in Command
    BY <2>1 DEF Command, Steps
  <2> QED
    BY <1>5, <2>2, BecomesTypes DEF LookForProfile, Goes, home
<1>6. ASSUME NEW c \in Commands, WriteProfile(c) PROVE SetupTypeOK'
  <2>1. command[c] \in Command
    BY <1>6 DEF WriteProfile, At
  <2>2. [command[c] EXCEPT !.step = "look"] \in Command /\ command[c].key \in Nat
    BY <2>1 DEF Command, Steps
  <2> QED
    BY <1>6, <2>2, BecomesTypes DEF WriteProfile, Goes
<1>7. ASSUME NEW c \in Commands, LookForConfig(c) \/ Fail(c) PROVE SetupTypeOK'
  <2>1. command[c] \in Command
    BY <1>7 DEF LookForConfig, Fail, At
  <2>2. [command[c] EXCEPT !.step = "scan"] \in Command
    BY <2>1 DEF Command, Steps
  <2> QED
    BY <1>7, <2>2, BecomesTypes DEF LookForConfig, Fail, Goes, Ends, home
<1>8. ASSUME NEW c \in Commands, Scan(c) PROVE SetupTypeOK'
  <2>1. command[c] \in Command
    BY <1>8 DEF Scan, At
  <2>2. [command[c] EXCEPT !.step = "compose",
                           !.files = {f \in Files : env[command[c].clone][f] # NoFile}]
            \in Command
    BY <2>1 DEF Command, Steps
  <2> QED
    BY <1>8, <2>2, BecomesTypes DEF Scan, home
<1>9. ASSUME NEW c \in Commands, Compose(c) PROVE SetupTypeOK'
  <2> DEFINE r == command[c]
             now == env[r.clone]
             read == IF r.cloud THEN r.files ELSE {}
             request == [id |-> ids + 1, admin |-> r.key, files |-> r.files,
                         values |-> [f \in Files |-> IF f \in read THEN now[f] ELSE NoFile],
                         sealedFor |-> ids + 1]
             x == [r EXCEPT !.step = IF r.cloud THEN "send" ELSE "write",
                            !.request = request]
  <2>1. r \in Command
    BY <1>9 DEF Compose, At
  <2>2. request \in Team
    <3>1. now \in Values /\ read \in SUBSET Files
      BY <2>1 DEF Command
    <3>2. [f \in Files |-> IF f \in read THEN now[f] ELSE NoFile] \in Values
      BY <3>1, ComposedTypes
    <3> HIDE DEF read, now
    <3> QED
      BY <2>1, <3>2 DEF Team, Command
  <2>3. Becomes(c, x) /\ ids' = ids + 1 /\ UNCHANGED <<home, yaml, env, teams, blind>>
    BY <1>9 DEF Compose
  <2> HIDE DEF request
  <2>4. x \in Command
    BY <2>1, <2>2 DEF Command, Steps
  <2> HIDE DEF x
  <2> QED
    BY <2>3, <2>4, BecomesTypes DEF home
<1>10. ASSUME NEW c \in Commands, Serve(c) PROVE SetupTypeOK'
  <2>1. command[c] \in Command
    BY <1>10 DEF Serve, At
  <2>2. [command[c].request EXCEPT !.id = command[c].request.id] \in Team
    BY <2>1 DEF Command, Team
  <2>3. [command[c] EXCEPT !.step = "write", !.request.id = command[c].request.id] \in Command
    BY <2>1 DEF Command, Team, Steps
  <2> QED
    BY <1>10, <2>2, <2>3, BecomesTypes DEF Serve, SetupTeamID, home
<1>11. ASSUME NEW c \in Commands, WriteConfig(c) PROVE SetupTypeOK'
  <2>1. command[c] \in Command
    BY <1>11 DEF WriteConfig, At
  <2>2. [team |-> command[c].request.id, cloud |-> command[c].cloud,
         admin |-> command[c].request.admin, files |-> command[c].request.files,
         declared |-> command[c].request.values] \in Yaml
    BY <2>1 DEF Command, Team, Yaml
  <2>3. Unaware(command[c].clone) \subseteq Commands
    BY DEF Unaware
  <2> QED
    BY <1>11, <2>2, <2>3, BecomesTypes DEF WriteConfig, home
<1>12. ASSUME NEW w \in Clones, NEW f \in Files, Edit(w, f) PROVE SetupTypeOK'
  <2> PICK content \in (Contents \cup {NoFile}) : env' = [env EXCEPT ![w][f] = content]
    BY <1>12 DEF Edit
  <2>1. env' \in [Clones -> Values]
    BY DEF Values
  <2> QED
    BY <1>12, <2>1 DEF Edit, home
<1>13. ASSUME NEW w \in Clones, NEW x \in Clones, GitPull(w, x) PROVE SetupTypeOK'
  <2>1. Unaware(w) \subseteq Commands
    BY DEF Unaware
  <2> QED
    BY <1>13, <2>1 DEF GitPull, home
<1> QED
  BY <1>1, <1>2, <1>3, <1>4, <1>5, <1>6, <1>7, <1>8, <1>9, <1>10, <1>11, <1>12, <1>13
  DEF Next

-----------------------------------------------------------------------------
(* The home.                                                               *)

\* A step that changes a command only, and creates nothing.
LEMMA OneCommandOurs ==
    ASSUME SetupTypeOK, HomeOurs, NEW c \in Commands, NEW x, Becomes(c, x),
           UNCHANGED <<identity, profile, overlapped, teams, yaml>>,
           x # None => x.step # "create",
           ~overlapped => CommandOurs(x)
    PROVE  HomeOurs'
<1> SUFFICES ASSUME ~overlapped
             PROVE  /\ \A d, e \in Commands : At(d, "create")' /\ At(e, "create")' => d = e
                    /\ \A d \in Commands : CommandOurs(command[d])'
                    /\ \A t \in teams : Ours(t.admin)'
                    /\ \A w \in Clones : yaml[w] # None => Ours(yaml[w].admin)'
                    /\ profile # Nobody => Ours(profile)'
  BY DEF HomeOurs, At, CommandOurs, Ours, Nobody
<1>1. \A d \in Commands : command'[d] = IF d = c THEN x ELSE command[d]
  BY OneChanges
<1>2. \A d \in Commands : CommandOurs(command'[d])
  BY <1>1 DEF HomeOurs
<1>3. \A d \in Commands : At(d, "create")' => At(d, "create")
  BY <1>1 DEF At
<1> QED
  BY <1>2, <1>3 DEF HomeOurs, CommandOurs, Ours, Nobody

LEMMA HomeKept ==
    ASSUME SetupTypeOK, HomeOurs, [Next]_vars
    PROVE  HomeOurs'
<1>1. CASE UNCHANGED vars
  BY <1>1 DEF vars, home, HomeOurs, At, CommandOurs, Ours, Nobody
<1>2. ASSUME NEW c \in Commands, Start(c) PROVE HomeOurs'
  <2> PICK w \in Clones, kind \in {"init", "join"}, cloud \in BOOLEAN :
        Becomes(c, [kind |-> kind, clone |-> w, step |-> "ensure", cloud |-> cloud,
                    key |-> Nobody, files |-> {}, request |-> NoTeam])
    BY <1>2 DEF Start
  <2> DEFINE x == [kind |-> kind, clone |-> w, step |-> "ensure", cloud |-> cloud,
                   key |-> Nobody, files |-> {}, request |-> NoTeam]
  <2>1. x.step = "ensure"
    OBVIOUS
  <2> HIDE DEF x
  <2>2. CommandOurs(x)
    BY <2>1 DEF CommandOurs
  <2> QED
    BY <1>2, <2>1, <2>2, OneCommandOurs DEF Start, home, x
<1>3. ASSUME NEW c \in Commands, LookForIdentity(c) PROVE HomeOurs'
  <2>1. command[c] \in Command /\ command[c] # None
    BY <1>3 DEF LookForIdentity, At, SetupTypeOK
  <2>2. CASE identity # Nobody
    <3> DEFINE x == [command[c] EXCEPT !.key = identity, !.step = "profile"]
    <3>1. x.step = "profile" /\ x.key = identity
      BY <2>1 DEF Command
    <3>2. Becomes(c, x)
      BY <1>3, <2>2 DEF LookForIdentity
    <3> HIDE DEF x
    <3>3. CommandOurs(x)
      BY <2>2, <3>1 DEF CommandOurs, Ours
    <3> QED
      BY <1>3, <2>2, <3>1, <3>2, <3>3, OneCommandOurs DEF LookForIdentity
  <2>3. CASE identity = Nobody
    <3> DEFINE x == [command[c] EXCEPT !.step = "create"]
    <3>1. x.step = "create"
      BY <2>1 DEF Command
    <3>2. Becomes(c, x) /\ overlapped' = (overlapped \/ \E d \in Commands : At(d, "create"))
      BY <1>3, <2>3 DEF LookForIdentity, Goes
    <3>3. UNCHANGED <<identity, profile, yaml, teams>>
      BY <1>3 DEF LookForIdentity
    <3> HIDE DEF x
    <3>4. \A d \in Commands : command'[d] = IF d = c THEN x ELSE command[d]
      BY <3>2, OneChanges
    <3>5. CommandOurs(x)
      BY <2>3, <3>1 DEF CommandOurs
    <3> SUFFICES ASSUME ~overlapped, \A d \in Commands : ~At(d, "create")
                 PROVE  /\ \A d, e \in Commands : At(d, "create")' /\ At(e, "create")' => d = e
                        /\ \A d \in Commands : CommandOurs(command[d])'
                        /\ \A t \in teams : Ours(t.admin)'
                        /\ \A w \in Clones : yaml[w] # None => Ours(yaml[w].admin)'
                        /\ profile # Nobody => Ours(profile)'
      BY <3>2, <3>3 DEF HomeOurs, At, CommandOurs, Ours, Nobody
    <3>6. \A d \in Commands : At(d, "create")' => d = c
      BY <3>4 DEF At
    <3>7. \A d \in Commands : CommandOurs(command'[d])
      BY <3>4, <3>5 DEF HomeOurs
    <3> QED
      BY <3>3, <3>6, <3>7 DEF HomeOurs, CommandOurs, Ours, Nobody
  <2> QED
    BY <2>2, <2>3
<1>4. ASSUME NEW c \in Commands, CreateIdentity(c) PROVE HomeOurs'
  <2> DEFINE x == [command[c] EXCEPT !.key = keys + 1, !.step = "profile"]
  <2>1. command[c] \in Command /\ command[c] # None /\ command[c].step = "create"
    BY <1>4 DEF CreateIdentity, At, SetupTypeOK
  <2>2. x.step = "profile" /\ x.key = keys + 1 /\ keys + 1 # Nobody
    BY <2>1 DEF Command, SetupTypeOK, Nobody
  <2>3. Becomes(c, x) /\ identity' = keys + 1 /\ UNCHANGED <<profile, overlapped, yaml, teams>>
    BY <1>4 DEF CreateIdentity
  <2> HIDE DEF x
  <2>4. \A d \in Commands : command'[d] = IF d = c THEN x ELSE command[d]
    BY <2>3, OneChanges
  <2> SUFFICES ASSUME ~overlapped
               PROVE  /\ \A d, e \in Commands : At(d, "create")' /\ At(e, "create")' => d = e
                      /\ \A d \in Commands : CommandOurs(command[d])'
                      /\ \A t \in teams : Ours(t.admin)'
                      /\ \A w \in Clones : yaml[w] # None => Ours(yaml[w].admin)'
                      /\ profile # Nobody => Ours(profile)'
    BY <2>3 DEF HomeOurs, At, CommandOurs, Ours, Nobody
  <2>5. identity = Nobody
    BY <2>1 DEF HomeOurs, CommandOurs
  <2>6. teams = {} /\ (\A w \in Clones : yaml[w] = None) /\ profile = Nobody
    BY <2>5 DEF HomeOurs, Ours
  <2>7. \A d \in Commands : command'[d] # None /\ d # c => command'[d].step = "ensure"
    <3> SUFFICES ASSUME NEW d \in Commands, command[d] # None, d # c
                 PROVE  command[d].step = "ensure"
      BY <2>4
    <3>1. command[d].step # "create"
      BY <2>1 DEF HomeOurs, At
    <3> QED
      BY <2>5, <3>1 DEF HomeOurs, CommandOurs, Ours
  <2>8. \A d \in Commands : command'[d] # None =>
            /\ command'[d].step # "create"
            /\ command'[d].step \in {"ensure", "profile"}
            /\ command'[d].step # "ensure" => command'[d].key = keys + 1
    BY <2>2, <2>4, <2>7
  <2> QED
    BY <2>2, <2>3, <2>6, <2>8 DEF At, CommandOurs, Ours, Nobody
<1>5. ASSUME NEW c \in Commands, LookForProfile(c) PROVE HomeOurs'
  <2> DEFINE x == [command[c] EXCEPT
                     !.step = IF profile = Nobody THEN "write profile" ELSE "look"]
  <2>1. command[c] \in Command /\ command[c] # None /\ command[c].step = "profile"
    BY <1>5 DEF LookForProfile, At, SetupTypeOK
  <2>2. x.step \in {"write profile", "look"} /\ x.key = command[c].key
    BY <2>1 DEF Command
  <2>3. Becomes(c, x)
    BY <1>5 DEF LookForProfile, Goes
  <2> HIDE DEF x
  <2>4. ~overlapped => CommandOurs(x)
    BY <2>1, <2>2 DEF CommandOurs, HomeOurs
  <2> QED
    BY <1>5, <2>2, <2>3, <2>4, OneCommandOurs DEF LookForProfile, home
<1>6. ASSUME NEW c \in Commands, WriteProfile(c) PROVE HomeOurs'
  <2> DEFINE x == [command[c] EXCEPT !.step = "look"]
  <2>1. command[c] \in Command /\ command[c] # None /\ command[c].step = "write profile"
    BY <1>6 DEF WriteProfile, At, SetupTypeOK
  <2>2. x.step = "look" /\ x.key = command[c].key
    BY <2>1 DEF Command
  <2>3. Becomes(c, x) /\ profile' = command[c].key
        /\ UNCHANGED <<identity, overlapped, yaml, teams>>
    BY <1>6 DEF WriteProfile, Goes
  <2> HIDE DEF x
  <2>4. \A d \in Commands : command'[d] = IF d = c THEN x ELSE command[d]
    BY <2>3, OneChanges
  <2> SUFFICES ASSUME ~overlapped
               PROVE  /\ \A d, e \in Commands : At(d, "create")' /\ At(e, "create")' => d = e
                      /\ \A d \in Commands : CommandOurs(command[d])'
                      /\ \A t \in teams : Ours(t.admin)'
                      /\ \A w \in Clones : yaml[w] # None => Ours(yaml[w].admin)'
                      /\ profile' # Nobody => Ours(profile)'
    BY <2>3 DEF HomeOurs, At, CommandOurs, Ours, Nobody
  <2>5. Ours(command[c].key)
    BY <2>1 DEF HomeOurs, CommandOurs
  <2>6. \A d \in Commands : CommandOurs(command'[d])
    BY <2>2, <2>4, <2>5 DEF HomeOurs, CommandOurs
  <2>7. \A d \in Commands : At(d, "create")' => At(d, "create")
    BY <2>2, <2>4 DEF At
  <2> QED
    BY <2>3, <2>5, <2>6, <2>7 DEF HomeOurs, CommandOurs, Ours, Nobody
<1>7. ASSUME NEW c \in Commands, LookForConfig(c) \/ Scan(c) \/ Fail(c) PROVE HomeOurs'
  <2> DEFINE Next2(x) ==
        \/ x = None
        \/ /\ x # None /\ x.key = command[c].key
           /\ command[c].step \in {"look", "scan"} /\ x.step \in {"scan", "compose"}
  <2>1. command[c] # None /\ command[c] \in Command
    BY <1>7 DEF LookForConfig, Scan, Fail, At, SetupTypeOK
  <2>2. PICK x : Becomes(c, x) /\ Next2(x)
    <3>1. CASE Becomes(c, None)
      BY <3>1
    <3>2. CASE /\ command[c].step = "look"
               /\ Becomes(c, [command[c] EXCEPT !.step = "scan"])
      <4>1. /\ [command[c] EXCEPT !.step = "scan"] # None
            /\ [command[c] EXCEPT !.step = "scan"].key = command[c].key
            /\ [command[c] EXCEPT !.step = "scan"].step = "scan"
        BY <2>1, NoneAssumption DEF Command, Steps
      <4> QED
        BY <3>2, <4>1
    <3>3. CASE Scan(c)
      <4> DEFINE y == [command[c] EXCEPT
                         !.step = "compose",
                         !.files = {f \in Files : env[command[c].clone][f] # NoFile}]
      <4>1. y \in Command /\ y.key = command[c].key /\ y.step = "compose"
        BY <2>1 DEF Command, Steps
      <4>2. Becomes(c, y) /\ command[c].step = "scan"
        BY <3>3 DEF Scan, At
      <4> HIDE DEF y
      <4> QED
        BY <4>1, <4>2, NoneAssumption
    <3> QED
      BY <1>7, <3>1, <3>2, <3>3 DEF LookForConfig, Fail, Ends, Goes, At
  <2>3. ~overlapped => CommandOurs(x)
    BY <2>1, <2>2 DEF CommandOurs, HomeOurs
  <2>4. UNCHANGED <<identity, profile, overlapped, teams, yaml>>
    BY <1>7 DEF LookForConfig, Scan, Fail, home
  <2> QED
    BY <2>2, <2>3, <2>4, OneCommandOurs
<1>8. ASSUME NEW c \in Commands, Compose(c) PROVE HomeOurs'
  <2> DEFINE r == command[c]
             now == env[r.clone]
             read == IF r.cloud THEN r.files ELSE {}
             request == [id |-> ids + 1, admin |-> r.key, files |-> r.files,
                         values |-> [f \in Files |-> IF f \in read THEN now[f] ELSE NoFile],
                         sealedFor |-> ids + 1]
             x == [r EXCEPT !.step = IF r.cloud THEN "send" ELSE "write",
                            !.request = request]
  <2>1. r \in Command /\ r # None /\ r.step = "compose"
    BY <1>8 DEF Compose, At, SetupTypeOK
  <2>2. Becomes(c, x) /\ UNCHANGED <<identity, profile, overlapped, teams, yaml>>
    BY <1>8 DEF Compose, home
  <2>3. request.admin = r.key
    OBVIOUS
  <2> HIDE DEF request
  <2>4. x.key = r.key /\ x.step \in {"send", "write"} /\ x.request = request
    BY <2>1 DEF Command
  <2> HIDE DEF x
  <2>5. ~overlapped => CommandOurs(x)
    BY <2>1, <2>3, <2>4 DEF CommandOurs, HomeOurs
  <2> QED
    BY <2>2, <2>4, <2>5, OneCommandOurs
<1>9. ASSUME NEW c \in Commands, Serve(c) PROVE HomeOurs'
  <2> DEFINE r == command[c]
             x == [r EXCEPT !.step = "write", !.request.id = r.request.id]
             t == [r.request EXCEPT !.id = r.request.id]
  <2>1. r \in Command /\ r # None /\ r.step = "send"
    BY <1>9 DEF Serve, At, SetupTypeOK
  <2>2. /\ Becomes(c, x) /\ teams' = teams \cup {t}
        /\ UNCHANGED <<identity, profile, overlapped, yaml>>
    BY <1>9 DEF Serve, SetupTeamID, home
  <2>3. x.key = r.key /\ x.step = "write" /\ x.request.admin = r.request.admin
        /\ t.admin = r.request.admin
    BY <2>1 DEF Command, Team
  <2> HIDE DEF x, t
  <2>4. \A d \in Commands : command'[d] = IF d = c THEN x ELSE command[d]
    BY <2>2, OneChanges
  <2> SUFFICES ASSUME ~overlapped
               PROVE  /\ \A d, e \in Commands : At(d, "create")' /\ At(e, "create")' => d = e
                      /\ \A d \in Commands : CommandOurs(command[d])'
                      /\ \A u \in teams' : Ours(u.admin)'
                      /\ \A w \in Clones : yaml[w] # None => Ours(yaml[w].admin)'
                      /\ profile' # Nobody => Ours(profile)'
    BY <2>2 DEF HomeOurs, At, CommandOurs, Ours, Nobody
  <2>5. Ours(r.key) /\ Ours(r.request.admin)
    BY <2>1 DEF HomeOurs, CommandOurs
  <2>6. \A d \in Commands : CommandOurs(command'[d])
    BY <2>3, <2>4, <2>5 DEF HomeOurs, CommandOurs
  <2>7. \A d \in Commands : At(d, "create")' => At(d, "create")
    BY <2>3, <2>4 DEF At
  <2>8. \A u \in teams' : Ours(u.admin)
    BY <2>2, <2>3, <2>5 DEF HomeOurs
  <2> QED
    BY <2>2, <2>6, <2>7, <2>8 DEF HomeOurs, CommandOurs, Ours, Nobody
<1>10. ASSUME NEW c \in Commands, WriteConfig(c) PROVE HomeOurs'
  <2> DEFINE r == command[c]
             y == [team |-> r.request.id, cloud |-> r.cloud, admin |-> r.request.admin,
                   files |-> r.request.files, declared |-> r.request.values]
  <2>1. r \in Command /\ r # None /\ r.step = "write"
    BY <1>10 DEF WriteConfig, At, SetupTypeOK
  <2>2. /\ Becomes(c, None) /\ yaml' = [yaml EXCEPT ![r.clone] = y]
        /\ UNCHANGED <<identity, profile, overlapped, teams>>
    BY <1>10 DEF WriteConfig, home
  <2>3. y.admin = r.request.admin
    OBVIOUS
  <2> HIDE DEF y
  <2>4. \A d \in Commands : command'[d] = IF d = c THEN None ELSE command[d]
    BY <2>2, OneChanges
  <2>5. \A w \in Clones : yaml'[w] \in {y, yaml[w]}
    BY <2>2 DEF SetupTypeOK
  <2> SUFFICES ASSUME ~overlapped
               PROVE  /\ \A d, e \in Commands : At(d, "create")' /\ At(e, "create")' => d = e
                      /\ \A d \in Commands : CommandOurs(command[d])'
                      /\ \A u \in teams : Ours(u.admin)'
                      /\ \A w \in Clones : yaml'[w] # None => Ours(yaml[w].admin)'
                      /\ profile # Nobody => Ours(profile)'
    BY <2>2 DEF HomeOurs, At, CommandOurs, Ours, Nobody
  <2>6. Ours(r.request.admin)
    BY <2>1 DEF HomeOurs, CommandOurs
  <2>7. \A d \in Commands : CommandOurs(command'[d])
    BY <2>4 DEF HomeOurs, CommandOurs
  <2>8. \A w \in Clones : yaml'[w] # None => Ours(yaml'[w].admin)
    BY <2>3, <2>5, <2>6 DEF HomeOurs
  <2>9. \A d \in Commands : At(d, "create")' => At(d, "create")
    BY <2>4 DEF At
  <2> HIDE DEF r
  <2> QED
    BY <2>2, <2>7, <2>8, <2>9 DEF HomeOurs, CommandOurs, Ours, Nobody
<1>11. ASSUME NEW w \in Clones, NEW f \in Files, Edit(w, f) PROVE HomeOurs'
  BY <1>11 DEF Edit, home, HomeOurs, At, CommandOurs, Ours, Nobody
<1>12. ASSUME NEW w \in Clones, NEW v \in Clones, GitPull(w, v) PROVE HomeOurs'
  <2>1. \A u \in Clones : yaml'[u] \in {yaml[u], yaml[v]} /\ yaml[v] # None
    BY <1>12 DEF GitPull, SetupTypeOK
  <2>2. UNCHANGED <<identity, profile, overlapped, teams, command>>
    BY <1>12 DEF GitPull, home
  <2>3. ~overlapped => \A u \in Clones : yaml'[u] # None => Ours(yaml'[u].admin)
    BY <2>1 DEF HomeOurs
  <2> QED
    BY <2>2, <2>3 DEF HomeOurs, At, CommandOurs, Ours, Nobody
<1> QED
  BY <1>1, <1>2, <1>3, <1>4, <1>5, <1>6, <1>7, <1>8, <1>9, <1>10, <1>11, <1>12 DEF Next

-----------------------------------------------------------------------------
(* Requests, teams and files.                                              *)

\* The steps that have to do with the home leave files and teams alone.
LEMMA HomeSteps ==
    ASSUME SetupTypeOK, NEW c \in Commands,
           \/ Start(c) \/ LookForIdentity(c) \/ CreateIdentity(c)
           \/ LookForProfile(c) \/ WriteProfile(c)
    PROVE  /\ UNCHANGED <<yaml, teams, blind>>
           /\ \E x : /\ Becomes(c, x)
                     /\ x.step \in {"ensure", "create", "profile", "write profile", "look"}
<1>1. UNCHANGED <<yaml, teams, blind>>
  BY DEF Start, LookForIdentity, CreateIdentity, LookForProfile, WriteProfile
<1>2. CASE Start(c)
  <2> PICK w \in Clones, kind \in {"init", "join"}, cloud \in BOOLEAN :
        Becomes(c, [kind |-> kind, clone |-> w, step |-> "ensure", cloud |-> cloud,
                    key |-> Nobody, files |-> {}, request |-> NoTeam])
    BY <1>2 DEF Start
  <2> DEFINE x == [kind |-> kind, clone |-> w, step |-> "ensure", cloud |-> cloud,
                   key |-> Nobody, files |-> {}, request |-> NoTeam]
  <2>1. x.step = "ensure" /\ Becomes(c, x)
    OBVIOUS
  <2> HIDE DEF x
  <2> QED
    BY <1>1, <2>1
<1>3. CASE LookForIdentity(c) \/ CreateIdentity(c) \/ LookForProfile(c) \/ WriteProfile(c)
  <2>1. command[c] \in Command
    BY <1>3 DEF LookForIdentity, CreateIdentity, LookForProfile, WriteProfile, At, SetupTypeOK
  <2>2. ASSUME NEW step \in {"create", "write profile", "look"},
               Becomes(c, [command[c] EXCEPT !.step = step])
        PROVE  \E x : /\ Becomes(c, x)
                      /\ x.step \in {"ensure", "create", "profile", "write profile", "look"}
    <3>1. [command[c] EXCEPT !.step = step].step = step
      BY <2>1 DEF Command
    <3> QED
      BY <2>2, <3>1
  <2>3. ASSUME NEW key, Becomes(c, [command[c] EXCEPT !.key = key, !.step = "profile"])
        PROVE  \E x : /\ Becomes(c, x)
                      /\ x.step \in {"ensure", "create", "profile", "write profile", "look"}
    <3>1. [command[c] EXCEPT !.key = key, !.step = "profile"].step = "profile"
      BY <2>1 DEF Command
    <3> QED
      BY <2>3, <3>1
  <2>4. CASE LookForIdentity(c)
    BY <1>1, <2>2, <2>3, <2>4 DEF LookForIdentity, Goes
  <2>5. CASE CreateIdentity(c)
    BY <1>1, <2>3, <2>5 DEF CreateIdentity
  <2>6. CASE LookForProfile(c)
    BY <1>1, <2>2, <2>6 DEF LookForProfile, Goes
  <2>7. CASE WriteProfile(c)
    BY <1>1, <2>2, <2>7 DEF WriteProfile, Goes
  <2> QED
    BY <1>3, <2>4, <2>5, <2>6, <2>7
<1> QED
  BY <1>2, <1>3

LEMMA RequestsKept ==
    ASSUME SetupTypeOK, RequestsServed, FileDescribesItsTeam, [Next]_vars
    PROVE  RequestsServed' /\ FileDescribesItsTeam'
<1>1. CASE UNCHANGED vars
  BY <1>1 DEF vars, home, RequestsServed, FileDescribesItsTeam, Describes, At
<1>2. ASSUME NEW c \in Commands, NEW x, Becomes(c, x), UNCHANGED <<yaml, teams>>,
             x = None \/ x.step \notin {"send", "write"}
      PROVE  RequestsServed' /\ FileDescribesItsTeam'
  <2>1. \A d \in Commands : command'[d] = IF d = c THEN x ELSE command[d]
    BY <1>2, OneChanges
  <2>2. RequestsServed'
    BY <1>2, <2>1 DEF RequestsServed, At
  <2>3. FileDescribesItsTeam'
    BY <1>2 DEF FileDescribesItsTeam, Describes
  <2> QED
    BY <2>2, <2>3
<1>3. ASSUME NEW c \in Commands,
             \/ Start(c) \/ LookForIdentity(c) \/ CreateIdentity(c)
             \/ LookForProfile(c) \/ WriteProfile(c)
      PROVE  RequestsServed' /\ FileDescribesItsTeam'
  BY <1>2, <1>3, HomeSteps
<1>4. ASSUME NEW c \in Commands, LookForConfig(c) \/ Scan(c) \/ Fail(c)
      PROVE  RequestsServed' /\ FileDescribesItsTeam'
  <2>1. command[c] \in Command /\ UNCHANGED <<yaml, teams>>
    BY <1>4 DEF LookForConfig, Scan, Fail, At, SetupTypeOK
  <2>2. [command[c] EXCEPT !.step = "scan"].step = "scan"
    BY <2>1 DEF Command
  <2>3. \A files : [command[c] EXCEPT !.step = "compose", !.files = files].step = "compose"
    BY <2>1 DEF Command
  <2>4. \/ Becomes(c, None)
        \/ Becomes(c, [command[c] EXCEPT !.step = "scan"])
        \/ \E files : Becomes(c, [command[c] EXCEPT !.step = "compose", !.files = files])
    BY <1>4 DEF LookForConfig, Scan, Fail, Ends, Goes
  <2> QED
    BY <1>2, <2>1, <2>2, <2>3, <2>4
<1>5. ASSUME NEW c \in Commands, Compose(c)
      PROVE  RequestsServed' /\ FileDescribesItsTeam'
  <2> DEFINE r == command[c]
             now == env[r.clone]
             read == IF r.cloud THEN r.files ELSE {}
             request == [id |-> ids + 1, admin |-> r.key, files |-> r.files,
                         values |-> [f \in Files |-> IF f \in read THEN now[f] ELSE NoFile],
                         sealedFor |-> ids + 1]
             x == [r EXCEPT !.step = IF r.cloud THEN "send" ELSE "write",
                            !.request = request]
  <2>1. r \in Command
    BY <1>5 DEF Compose, At, SetupTypeOK
  <2>2. Becomes(c, x) /\ UNCHANGED <<yaml, teams>>
    BY <1>5 DEF Compose
  <2>3. request.sealedFor = request.id
    OBVIOUS
  <2> HIDE DEF request
  <2>4. x.request = request /\ (x.step = "write" => ~x.cloud)
    BY <2>1 DEF Command
  <2> HIDE DEF x
  <2>5. \A d \in Commands : command'[d] = IF d = c THEN x ELSE command[d]
    BY <2>2, OneChanges
  <2>6. RequestsServed'
    BY <2>2, <2>3, <2>4, <2>5 DEF RequestsServed, At
  <2> QED
    BY <2>2, <2>6 DEF FileDescribesItsTeam, Describes
<1>6. ASSUME NEW c \in Commands, Serve(c)
      PROVE  RequestsServed' /\ FileDescribesItsTeam'
  <2> DEFINE r == command[c]
             x == [r EXCEPT !.step = "write", !.request.id = r.request.id]
             t == [r.request EXCEPT !.id = r.request.id]
  <2>1. r \in Command /\ At(c, "send")
    BY <1>6 DEF Serve, At, SetupTypeOK
  <2>2. Becomes(c, x) /\ teams' = teams \cup {t} /\ UNCHANGED yaml
    BY <1>6 DEF Serve, SetupTeamID
  <2>3. x.request = t /\ t.id = r.request.id /\ t.sealedFor = r.request.sealedFor
    BY <2>1 DEF Command, Team
  <2> HIDE DEF x, t
  <2>4. \A d \in Commands : command'[d] = IF d = c THEN x ELSE command[d]
    BY <2>2, OneChanges
  <2>5. t.sealedFor = t.id
    BY <2>1, <2>3 DEF RequestsServed
  <2> HIDE DEF r
  <2>6. x.request.sealedFor = x.request.id /\ x.request \in teams'
    BY <2>2, <2>3, <2>5
  <2>7. RequestsServed'
    BY <2>2, <2>4, <2>6 DEF RequestsServed, At
  <2> QED
    BY <2>2, <2>7 DEF FileDescribesItsTeam, Describes
<1>7. ASSUME NEW c \in Commands, WriteConfig(c)
      PROVE  RequestsServed' /\ FileDescribesItsTeam'
  <2> DEFINE r == command[c]
             y == [team |-> r.request.id, cloud |-> r.cloud, admin |-> r.request.admin,
                   files |-> r.request.files, declared |-> r.request.values]
  <2>1. At(c, "write")
    BY <1>7 DEF WriteConfig
  <2>2. Becomes(c, None) /\ yaml' = [yaml EXCEPT ![r.clone] = y] /\ UNCHANGED teams
    BY <1>7 DEF WriteConfig
  <2>3. y.cloud => r.request \in teams /\ Describes(y, r.request)
    BY <2>1 DEF RequestsServed, Describes
  <2> HIDE DEF y
  <2>4. \A w \in Clones : yaml'[w] \in {y, yaml[w]}
    BY <2>2 DEF SetupTypeOK
  <2>5. \A w \in Clones : yaml'[w] # None /\ yaml'[w].cloud =>
            \E t \in teams : Describes(yaml'[w], t)
    BY <2>3, <2>4 DEF FileDescribesItsTeam
  <2>6. FileDescribesItsTeam'
    BY <2>2, <2>5 DEF FileDescribesItsTeam, Describes
  <2>7. \A d \in Commands : command'[d] = IF d = c THEN None ELSE command[d]
    BY <2>2, OneChanges
  <2>8. RequestsServed'
    BY <2>2, <2>7 DEF RequestsServed, At
  <2> QED
    BY <2>6, <2>8
<1>8. ASSUME NEW w \in Clones, NEW f \in Files, Edit(w, f)
      PROVE  RequestsServed' /\ FileDescribesItsTeam'
  BY <1>8 DEF Edit, RequestsServed, FileDescribesItsTeam, Describes, At
<1>9. ASSUME NEW w \in Clones, NEW v \in Clones, GitPull(w, v)
      PROVE  RequestsServed' /\ FileDescribesItsTeam'
  <2>1. \A u \in Clones : yaml'[u] \in {yaml[u], yaml[v]} /\ yaml[v] # None
    BY <1>9 DEF GitPull, SetupTypeOK
  <2>2. UNCHANGED <<teams, command>>
    BY <1>9 DEF GitPull
  <2>3. \A u \in Clones : yaml'[u] # None /\ yaml'[u].cloud =>
            \E t \in teams : Describes(yaml'[u], t)
    BY <2>1 DEF FileDescribesItsTeam
  <2> QED
    BY <2>2, <2>3 DEF RequestsServed, FileDescribesItsTeam, Describes, At
<1> QED
  BY <1>1, <1>3, <1>4, <1>5, <1>6, <1>7, <1>8, <1>9 DEF Next

-----------------------------------------------------------------------------
(* Files that a command has not seen.                                      *)

\* Past the look for a file, the clone of a command stays what it is.
LEMMA BlindKept ==
    ASSUME SetupTypeOK, BlindKnown, [Next]_vars
    PROVE  BlindKnown'
<1>1. CASE UNCHANGED vars
  BY <1>1 DEF vars, home, BlindKnown, Unaware
<1>2. ASSUME NEW c \in Commands, NEW x, Becomes(c, x), UNCHANGED <<yaml>>,
             blind \ {c} \subseteq blind',
             x = None \/ x.step \in {"ensure", "create", "profile", "write profile", "look"}
      PROVE  BlindKnown'
  <2>1. \A d \in Commands : command'[d] = IF d = c THEN x ELSE command[d]
    BY <1>2, OneChanges
  <2>2. \A w \in Clones : Unaware(w)' \subseteq Unaware(w) \ {c}
    BY <1>2, <2>1 DEF Unaware
  <2> QED
    BY <1>2, <2>2 DEF BlindKnown
<1>3. ASSUME NEW c \in Commands, NEW x, Becomes(c, x), UNCHANGED <<yaml, blind>>,
             x.clone = command[c].clone, command[c] # None,
             \/ command[c].step \in {"scan", "compose", "send", "write"}
             \/ yaml[x.clone] = None
      PROVE  BlindKnown'
  <2>1. \A d \in Commands : command'[d] = IF d = c THEN x ELSE command[d]
    BY <1>3, OneChanges
  <2>2. \A w \in Clones : yaml[w] # None => Unaware(w)' \subseteq Unaware(w)
    BY <1>3, <2>1 DEF Unaware
  <2> QED
    BY <1>3, <2>2 DEF BlindKnown
<1>4. ASSUME NEW c \in Commands,
             \/ Start(c) \/ LookForIdentity(c) \/ CreateIdentity(c)
             \/ LookForProfile(c) \/ WriteProfile(c)
      PROVE  BlindKnown'
  BY <1>2, <1>4, HomeSteps
<1>5. ASSUME NEW c \in Commands, Fail(c)
      PROVE  BlindKnown'
  BY <1>2, <1>5 DEF Fail, Ends
<1>6. ASSUME NEW c \in Commands, LookForConfig(c)
      PROVE  BlindKnown'
  <2>1. command[c] \in Command /\ command[c] # None
    BY <1>6 DEF LookForConfig, At, SetupTypeOK
  <2>2. CASE Ends(c)
    BY <1>2, <1>6, <2>2 DEF LookForConfig, Ends
  <2>3. CASE ~Ends(c)
    <3> DEFINE x == [command[c] EXCEPT !.step = "scan"]
    <3>1. x.clone = command[c].clone
      BY <2>1 DEF Command
    <3>2. Becomes(c, x) /\ UNCHANGED <<yaml, blind>> /\ yaml[command[c].clone] = None
      BY <1>6, <2>3 DEF LookForConfig, Goes
    <3> HIDE DEF x
    <3> QED
      BY <1>3, <2>1, <3>1, <3>2
  <2> QED
    BY <2>2, <2>3
<1>7. ASSUME NEW c \in Commands, Scan(c)
      PROVE  BlindKnown'
  <2> DEFINE x == [command[c] EXCEPT
                     !.step = "compose",
                     !.files = {f \in Files : env[command[c].clone][f] # NoFile}]
  <2>1. command[c] \in Command /\ command[c] # None /\ command[c].step = "scan"
    BY <1>7 DEF Scan, At, SetupTypeOK
  <2>2. x.clone = command[c].clone
    BY <2>1 DEF Command
  <2>3. Becomes(c, x) /\ UNCHANGED <<yaml, blind>>
    BY <1>7 DEF Scan
  <2> HIDE DEF x
  <2> QED
    BY <1>3, <2>1, <2>2, <2>3
<1>8. ASSUME NEW c \in Commands, Compose(c)
      PROVE  BlindKnown'
  <2> DEFINE r == command[c]
             now == env[r.clone]
             read == IF r.cloud THEN r.files ELSE {}
             request == [id |-> ids + 1, admin |-> r.key, files |-> r.files,
                         values |-> [f \in Files |-> IF f \in read THEN now[f] ELSE NoFile],
                         sealedFor |-> ids + 1]
             x == [r EXCEPT !.step = IF r.cloud THEN "send" ELSE "write",
                            !.request = request]
  <2>1. r \in Command /\ r # None /\ r.step = "compose"
    BY <1>8 DEF Compose, At, SetupTypeOK
  <2>2. Becomes(c, x) /\ UNCHANGED <<yaml, blind>>
    BY <1>8 DEF Compose
  <2> HIDE DEF request
  <2>3. x.clone = r.clone
    BY <2>1 DEF Command
  <2> HIDE DEF x
  <2> QED
    BY <1>3, <2>1, <2>2, <2>3
<1>9. ASSUME NEW c \in Commands, Serve(c)
      PROVE  BlindKnown'
  <2> DEFINE r == command[c]
             x == [r EXCEPT !.step = "write", !.request.id = r.request.id]
  <2>1. r \in Command /\ r # None /\ r.step = "send"
    BY <1>9 DEF Serve, At, SetupTypeOK
  <2>2. Becomes(c, x) /\ UNCHANGED <<yaml, blind>>
    BY <1>9 DEF Serve, SetupTeamID
  <2>3. x.clone = r.clone
    BY <2>1 DEF Command
  <2> HIDE DEF x
  <2> QED
    BY <1>3, <2>1, <2>2, <2>3
<1>10. ASSUME NEW c \in Commands, WriteConfig(c)
       PROVE  BlindKnown'
  <2>1. Becomes(c, None) /\ blind' = (blind \cup Unaware(command[c].clone)) \ {c}
    BY <1>10 DEF WriteConfig
  <2>2. \A d \in Commands : command'[d] = IF d = c THEN None ELSE command[d]
    BY <2>1, OneChanges
  <2>3. \A w \in Clones : Unaware(w)' \subseteq Unaware(w) \ {c}
    BY <2>2 DEF Unaware
  <2>4. \A w \in Clones : w # command[c].clone => yaml'[w] = yaml[w]
    BY <1>10 DEF WriteConfig, SetupTypeOK
  <2>5. ASSUME NEW w \in Clones, yaml'[w] # None
        PROVE  Unaware(w)' \subseteq blind'
    <3>1. CASE w = command[c].clone
      BY <2>1, <2>3, <3>1
    <3>2. CASE w # command[c].clone
      BY <2>1, <2>3, <2>4, <2>5, <3>2 DEF BlindKnown
    <3> QED
      BY <3>1, <3>2
  <2> QED
    BY <2>5 DEF BlindKnown
<1>11. ASSUME NEW w \in Clones, NEW f \in Files, Edit(w, f)
       PROVE  BlindKnown'
  BY <1>11 DEF Edit, BlindKnown, Unaware
<1>12. ASSUME NEW w \in Clones, NEW v \in Clones, GitPull(w, v)
       PROVE  BlindKnown'
  <2>1. /\ blind' = blind \cup Unaware(w) /\ command' = command
        /\ \A u \in Clones : u # w => yaml'[u] = yaml[u]
    BY <1>12 DEF GitPull, SetupTypeOK
  <2>2. \A u \in Clones : Unaware(u)' = Unaware(u)
    BY <2>1 DEF Unaware
  <2> QED
    BY <2>1, <2>2 DEF BlindKnown
<1> QED
  BY <1>1, <1>4, <1>5, <1>6, <1>7, <1>8, <1>9, <1>10, <1>11, <1>12 DEF Next

\* Only the write of a command puts another file in the place of one.
LEMMA ReplacedByBlind ==
    ASSUME SetupTypeOK, BlindKnown, [Next]_vars,
           NEW w \in Clones, yaml[w] # None, yaml'[w] # yaml[w]
    PROVE  \E c \in blind : command[c].clone = w /\ command'[c] = None
<1>1. \/ \E c \in Commands : WriteConfig(c)
      \/ \E u, v \in Clones : GitPull(u, v)
  <2>1. yaml' # yaml
    OBVIOUS
  <2>2. ASSUME NEW c \in Commands,
               \/ Start(c) \/ LookForIdentity(c) \/ CreateIdentity(c)
               \/ LookForProfile(c) \/ WriteProfile(c)
               \/ LookForConfig(c) \/ Scan(c) \/ Compose(c) \/ Serve(c) \/ Fail(c)
        PROVE  FALSE
    BY <2>1, <2>2 DEF Start, LookForIdentity, CreateIdentity, LookForProfile, WriteProfile,
                      LookForConfig, Scan, Compose, Serve, Fail
  <2>3. ASSUME NEW u \in Clones, NEW f \in Files, Edit(u, f) PROVE FALSE
    BY <2>1, <2>3 DEF Edit
  <2> QED
    BY <2>1, <2>2, <2>3 DEF Next, vars
<1>2. ASSUME NEW c \in Commands, WriteConfig(c)
      PROVE  \E d \in blind : command[d].clone = w /\ command'[d] = None
  <2>1. command[c].clone = w
    BY <1>2 DEF WriteConfig, SetupTypeOK
  <2>2. command'[c] = None
    BY <1>2, OneChanges DEF WriteConfig
  <2>3. c \in Unaware(w)
    BY <1>2, <2>1 DEF WriteConfig, At, Unaware
  <2> QED
    BY <2>1, <2>2, <2>3 DEF BlindKnown
<1>3. ASSUME NEW u \in Clones, NEW v \in Clones, GitPull(u, v) PROVE FALSE
  BY <1>3 DEF GitPull, SetupTypeOK
<1> QED
  BY <1>1, <1>2, <1>3

-----------------------------------------------------------------------------
LEMMA SInvStarts == Init => SInv
<1> SUFFICES ASSUME Init PROVE SInv
  OBVIOUS
<1>1. SetupTypeOK
  BY DEF Init, SetupTypeOK, Nobody
<1>2. HomeOurs /\ RequestsServed /\ FileDescribesItsTeam /\ BlindKnown
  BY DEF Init, HomeOurs, RequestsServed, FileDescribesItsTeam, BlindKnown, At, CommandOurs,
         Nobody
<1> QED
  BY <1>1, <1>2 DEF SInv

LEMMA SInvKept == SInv /\ [Next]_vars => SInv'
BY TypesKept, HomeKept, RequestsKept, BlindKept DEF SInv

LEMMA SetupInvariant == Spec => []SInv
BY SInvStarts, SInvKept, PTL DEF Spec

\* Identity, profile, files, teams and commands have the values that the code
\* gives them, however commands overlap.
THEOREM SetupTypeCorrect == Spec => []SetupTypeOK
BY SetupInvariant, PTL DEF SInv

\* The identity that a team or a file was set up with is the identity of the
\* home it was set up from, and so is the profile, if no two commands created
\* an identity at the same time.
THEOREM HomeKeepsItsIdentity == Spec => []HomeKeepsItsKeys
<1>1. HomeOurs => HomeKeepsItsKeys
  BY DEF HomeOurs, HomeKeepsItsKeys, Ours
<1> QED
  BY <1>1, SetupInvariant, PTL DEF SInv

\* A file at a cloud revision describes a team that the store has, whatever
\* commands and edits came between the request and the file.
THEOREM FilesDescribeTeams == Spec => []FileDescribesItsTeam
BY SetupInvariant, PTL DEF SInv

\* A file that is there is replaced by nobody but a command that looked before
\* it was there.
THEOREM FilesReplacedUnseenOnly == Spec => ReplacedUnseenOnly
<1>1. SInv /\ [Next]_vars =>
        [\A w \in Clones :
            yaml[w] # None /\ yaml'[w] # yaml[w] =>
               \E c \in blind : command[c].clone = w /\ command'[c] = None]_vars
  BY ReplacedByBlind DEF SInv
<1> QED
  BY <1>1, SetupInvariant, PTL DEF Spec, ReplacedUnseenOnly
=============================================================================
