----------------------------- MODULE ScopeKeys -----------------------------
(***************************************************************************)
(* Which key a scope's values are sealed with, and who holds which.  Every *)
(* scope key is 32 random bytes that some client made; the version that    *)
(* goes with it is 1 always, so nothing but the bytes tells two keys of a  *)
(* scope apart.  Here a key is the number of the command that made it.     *)
(* An envelope is a key wrapped for a member, and a value opens with the   *)
(* key it was sealed with and with no other.  Permissions are TeamApi's:   *)
(* whoever is active and holds a key may use it, which allows more than    *)
(* the store does.  A join request names no scope once the store has it    *)
(* (TeamStore), so an approval wraps no key and only moves the revision.   *)
(***************************************************************************)
EXTENDS Naturals, FiniteSets

CONSTANTS
    Members,       \* people who are members or may become it
    Admin,         \* who set the team up
    Scopes,        \* scope names
    Initial,       \* scopes the team was set up with
    Vars,          \* variables of a scope
    Configs,       \* what people make of propagate.yaml
    Offers,        \* sets of scopes that invites name
    Commands,      \* CLI commands under way at the same time
    Invites,       \* invite ids
    None,          \* no command, no invite
    MaxRevision,   \* bound: revisions of the team
    MaxKeys        \* bound: keys made

Config == [scopes : SUBSET Scopes, readers : [Scopes -> SUBSET Members]]

\* What a config push has read, the push it sends, an env push, an invite
\* that is being made, and an invite.
Counted  == [kind : {"counted"}, by : Members, base : Nat, target : Config, more : BOOLEAN]
Push     == [kind : {"push"}, by : Members, base : Nat, target : Config,
             fresh : SUBSET Scopes, key : Nat]
EnvPush  == [kind : {"env"}, by : Members, base : Nat, target : Config,
             scope : Scopes, key : Nat, upserts : SUBSET Vars, removals : SUBSET Vars]
Inviting == [kind : {"invite"}, by : Members, want : SUBSET Scopes,
             left : SUBSET Scopes, keys : [Scopes -> Nat]]
Invite   == [want : SUBSET Scopes, keys : [Scopes -> Nat], redeemed : BOOLEAN]
Command  == Counted \cup Push \cup EnvPush \cup Inviting

\* Key 0 is the one nobody made: no envelope, no value.
NoKey == 0
Value == [key : Nat, by : Members]

ASSUME AdminAssumption == Admin \in Members
ASSUME InitialAssumption == Initial \subseteq Scopes
ASSUME ConfigsAssumption == Configs \subseteq Config
ASSUME OffersAssumption == Offers \subseteq SUBSET Scopes
ASSUME NoneAssumption == None \notin Command \cup Invite

VARIABLES
    revision,    \* team.revision
    config,      \* the published snapshot: scopes and who may read each
    known,       \* team.scopes: scopes the store has ever applied
    active,      \* members with an active record
    envelopes,   \* scope.envelopes: the key wrapped for each member
    values,      \* the current version of each variable
    invites,     \* invites and their relay bundles
    commands,    \* CLI commands under way
    made,        \* number of the last key that was made
    dropped      \* history: scopes a revision left out after one had them

team == <<revision, config, known, active, envelopes, values, dropped>>
vars == <<team, invites, commands, made>>

KeysTypeOK ==
    /\ revision \in Nat \ {0}
    /\ config \in Config
    /\ known \in SUBSET Scopes
    /\ active \in SUBSET Members
    /\ envelopes \in [Scopes -> [Members -> Nat]]
    /\ values \in [Scopes -> [Vars -> Value]]
    /\ invites \in [Invites -> Invite \cup {None}]
    /\ commands \in [Commands -> Command \cup {None}]
    /\ made \in Nat
    /\ dropped \in SUBSET Scopes

-----------------------------------------------------------------------------
\* buildTeamSetupRequest and CreateTeamSetup: one key for each first scope,
\* wrapped for the admin.  Values the setup uploads are sealed with it.
Init ==
    /\ revision = 1
    /\ config = [scopes |-> Initial,
                 readers |-> [s \in Scopes |-> IF s \in Initial THEN {Admin} ELSE {}]]
    /\ known = Initial
    /\ active = {Admin}
    /\ envelopes = [s \in Scopes |-> [k \in Members |->
                        IF s \in Initial /\ k = Admin THEN 1 ELSE NoKey]]
    /\ \E imported \in SUBSET (Initial \X Vars) :
          values = [s \in Scopes |-> [v \in Vars |->
                     [key |-> IF <<s, v>> \in imported THEN 1 ELSE NoKey, by |-> Admin]]]
    /\ invites = [i \in Invites |-> None]
    /\ commands = [c \in Commands |-> None]
    /\ made = 1
    /\ dropped = {}

\* A new revision.  The store forgets no scope; only the snapshot does.
Publish(target) ==
    /\ revision' = revision + 1
    /\ config' = target
    /\ dropped' = dropped \cup (config.scopes \ target.scopes)

Is(c, kind) == commands[c] # None /\ commands[c].kind = kind
Becomes(c, command) == commands' = [commands EXCEPT ![c] = command]

\* DecryptValue: only the key that sealed a value opens it.
Opens(key, value) == value.key \in {NoKey, key}

-----------------------------------------------------------------------------
\* config push.  runConfigPush reads the status, which counts the scopes the
\* store knows, and goes on if the file is of the cloud's revision.
CountScopes(c) ==
    /\ commands[c] = None
    /\ \E k \in active, target \in Configs :
          Becomes(c, [kind |-> "counted", by |-> k, base |-> revision, target |-> target,
                      more |-> Cardinality(target.scopes) > Cardinality(known)])
    /\ UNCHANGED <<team, invites, made>>

Keyed(c, fresh, key) ==
    Becomes(c, [kind |-> "push", by |-> commands[c].by, base |-> commands[c].base,
                target |-> commands[c].target, fresh |-> fresh, key |-> key])

\* buildNewScopeEnvelopesIfNeeded.  Not more scopes than the store knows: no
\* keys, whatever the scopes are.
NoNewKeys(c) ==
    /\ Is(c, "counted") /\ ~commands[c].more
    /\ Keyed(c, {}, NoKey)
    /\ UNCHANGED <<team, invites, made>>

\* Mutant: a key is made for each scope of the file.
MutMakeKeys(c) ==
    /\ Is(c, "counted") /\ commands[c].more
    /\ commands[c].base = revision
    /\ made < MaxKeys
    /\ made' = made + 1
    /\ Keyed(c, commands[c].target.scopes, made + 1)
    /\ UNCHANGED <<team, invites>>

\* More scopes: the published config is fetched, and each scope that is not in
\* it is given a key.  Another revision than the file's ends the command.
MakeKeys(c) ==
    /\ Is(c, "counted") /\ commands[c].more
    /\ commands[c].base = revision
    /\ made < MaxKeys
    /\ made' = made + 1
    /\ Keyed(c, commands[c].target.scopes \ config.scopes, made + 1)
    /\ UNCHANGED <<team, invites>>

Listed(target) == UNION {target.readers[s] : s \in Scopes}

\* Mutant: the expected revision is not compared.
MutAccepts(c) == commands[c].by \in active /\ revision < MaxRevision

\* PushConfig and EnvPush: an active sender, and nothing newer than what the
\* sender has read.
Accepts(c) ==
    /\ commands[c].by \in active
    /\ commands[c].base = revision
    /\ revision < MaxRevision

\* applySnapshot and the envelopes of a push: one for each reader of a scope
\* that got a key, on top of the envelopes there are.
ServePush(c) ==
    /\ Is(c, "push") /\ Accepts(c)
    /\ LET r == commands[c]
       IN  /\ Publish(r.target)
           /\ known' = known \cup r.target.scopes
           /\ active' = active \cup Listed(r.target)
           /\ envelopes' = [s \in Scopes |-> [k \in Members |->
                               IF s \in r.fresh /\ k \in r.target.readers[s]
                               THEN r.key ELSE envelopes[s][k]]]
    /\ Becomes(c, None)
    /\ UNCHANGED <<values, invites, made>>

-----------------------------------------------------------------------------
\* env push and env set: the bundle has the sender's envelope and the scope's
\* values, and is of the file's revision.  env push opens all the values, env set
\* the one it looks for.
FetchBundle(c) ==
    /\ commands[c] = None
    /\ \E k \in active, s \in known, target \in Configs,
          upserts \in SUBSET Vars, removals \in SUBSET Vars :
          /\ s \in target.scopes
          /\ envelopes[s][k] # NoKey
          /\ \/ \A v \in Vars : Opens(envelopes[s][k], values[s][v])
             \/ /\ Cardinality(upserts) = 1 /\ removals = {}
                /\ \A v \in upserts : Opens(envelopes[s][k], values[s][v])
          /\ upserts \cap removals = {}
          /\ upserts \cup removals # {}
          /\ Becomes(c, [kind |-> "env", by |-> k, base |-> revision, target |-> target,
                         scope |-> s, key |-> envelopes[s][k],
                         upserts |-> upserts, removals |-> removals])
    /\ UNCHANGED <<team, invites, made>>

\* The file goes with the values as the new snapshot; nothing of it is applied.
ServeEnvPush(c) ==
    /\ Is(c, "env") /\ Accepts(c)
    /\ LET r == commands[c]
           Stored(v) == CASE v \in r.upserts  -> [key |-> r.key, by |-> r.by]
                          [] v \in r.removals -> [key |-> NoKey, by |-> r.by]
                          [] OTHER            -> values[r.scope][v]
       IN  /\ Publish(r.target)
           /\ values' = [values EXCEPT ![r.scope] = [v \in Vars |-> Stored(v)]]
    /\ Becomes(c, None)
    /\ UNCHANGED <<known, active, envelopes, invites, made>>

-----------------------------------------------------------------------------
\* team invite: a key for each scope the invite names, for each of the file's
\* if it names none.
StartInvite(c) ==
    /\ commands[c] = None
    /\ \E k \in active, want \in Offers, yaml \in Configs :
          Becomes(c, [kind |-> "invite", by |-> k, want |-> want,
                      left |-> IF want = {} THEN yaml.scopes ELSE want,
                      keys |-> [s \in Scopes |-> NoKey]])
    /\ UNCHANGED <<team, invites, made>>

\* One call for each; a scope whose key cannot be had is left out.
FetchKey(c) ==
    /\ Is(c, "invite")
    /\ \E s \in commands[c].left, got \in BOOLEAN :
          LET key == IF got /\ s \in known THEN envelopes[s][commands[c].by] ELSE NoKey
          IN  Becomes(c, [commands[c] EXCEPT !.left = @ \ {s}, !.keys[s] = key])
    /\ UNCHANGED <<team, invites, made>>

CreateInvite(c) ==
    /\ Is(c, "invite") /\ commands[c].left = {}
    /\ commands[c].by \in active
    /\ \E i \in Invites :
          /\ invites[i] = None
          /\ invites' = [invites EXCEPT ![i] = [want |-> commands[c].want,
                                                keys |-> commands[c].keys,
                                                redeemed |-> FALSE]]
    /\ Becomes(c, None)
    /\ UNCHANGED <<team, made>>

\* SubmitInvitePIN with the right PIN: the relay wraps the keys of the bundle
\* for the joiner, who is a member at once.  Without keys the invite only ends.
Redeem(i, j) ==
    /\ invites[i] # None /\ ~invites[i].redeemed
    /\ invites' = [invites EXCEPT ![i].redeemed = TRUE]
    /\ LET bundle == {s \in Scopes : invites[i].keys[s] # NoKey}
           Readers(s) == IF s \in invites[i].want THEN config.readers[s] \cup {j}
                                                  ELSE config.readers[s]
       IN  \/ /\ bundle # {}
              /\ revision < MaxRevision
              /\ Publish([config EXCEPT !.readers = [s \in Scopes |-> Readers(s)]])
              /\ active' = active \cup {j}
              /\ envelopes' = [s \in Scopes |-> [k \in Members |->
                                  IF k = j /\ s \in bundle \cap known
                                  THEN invites[i].keys[s] ELSE envelopes[s][k]]]
              /\ UNCHANGED <<known, values>>
           \/ bundle = {} /\ UNCHANGED team
    /\ UNCHANGED <<commands, made>>

\* ApproveJoinRequest of a request that is pending.
ApproveJoin(j) ==
    /\ j \notin active
    /\ revision < MaxRevision
    /\ Publish(config)
    /\ active' = active \cup {j}
    /\ UNCHANGED <<known, envelopes, values, invites, commands, made>>

\* A command ends without a request, or its request is refused or lost.
Fail(c) ==
    /\ commands[c] # None
    /\ Becomes(c, None)
    /\ UNCHANGED <<team, invites, made>>

-----------------------------------------------------------------------------
Next ==
    \/ \E c \in Commands :
          \/ CountScopes(c) \/ NoNewKeys(c) \/ MakeKeys(c) \/ ServePush(c)
          \/ FetchBundle(c) \/ ServeEnvPush(c)
          \/ StartInvite(c) \/ FetchKey(c) \/ CreateInvite(c)
          \/ Fail(c)
    \/ \E j \in Members : ApproveJoin(j) \/ \E i \in Invites : Redeem(i, j)

Spec == Init /\ [][Next]_vars

-----------------------------------------------------------------------------
\* Keys of scope s that somebody holds, that a value is sealed with or that an
\* invite hands out.
KeysInUse(s) ==
    ({envelopes[s][k] : k \in Members} \cup {values[s][v].key : v \in Vars}
       \cup {invites[i].keys[s] : i \in {i \in Invites : invites[i] # None}}) \ {NoKey}

OneKey(s) == \A g, h \in KeysInUse(s) : g = h

\* As long as a scope stays in the config it has one key: whoever holds an
\* envelope opens every value, whoever wrote it, and an invite hands out the
\* key its joiner will need, although keys are made by clients that read the
\* store in several steps and invites keep what was fetched long ago.
OneKeyUnlessDropped == \A s \in Scopes \ dropped : OneKey(s)

\* Also where keys are replaced, a value that is stored is sealed with the key
\* its writer still holds, and not with one that went out of use between the
\* writer's read and the store's answer.
WrittenUnderHeldKey ==
    [][\A s \in Scopes, v \in Vars :
          values'[s][v] # values[s][v] =>
             values'[s][v].key \in {NoKey, envelopes[s][values'[s][v].by]}]_vars
=============================================================================
