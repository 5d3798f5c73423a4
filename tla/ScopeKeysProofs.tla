-------------------------- MODULE ScopeKeysProofs --------------------------
(***************************************************************************)
(* Proofs about ScopeKeys, for any members, scopes, variables, configs,    *)
(* commands, invites and bounds: a scope that was never dropped has one    *)
(* key at most, and a value is stored under the key its writer holds.      *)
(***************************************************************************)
EXTENDS ScopeKeys, TLAPS

\* What command x would have the store use for scope s is key n, if anything.
CommandUses(x, s, n) ==
    x # None =>
        /\ x.kind = "invite" => x.keys[s] \in {NoKey, n}
        /\ x.kind = "env" /\ x.scope = s => x.key \in {NoKey, n}

\* Scope s has key n or none, wherever a key is kept or on its way.
Uses(s, n) ==
    /\ \A k \in Members : envelopes[s][k] \in {NoKey, n}
    /\ \A v \in Vars : values[s][v].key \in {NoKey, n}
    /\ \A i \in Invites : invites[i] # None => invites[i].keys[s] \in {NoKey, n}
    /\ \A c \in Commands : CommandUses(commands[c], s, n)

\* What command x has read still holds while its revision is the team's.
StillHolds(x) ==
    x # None =>
        /\ x.kind \in {"counted", "push", "env"} => x.base <= revision
        /\ x.kind = "push" =>
              /\ x.fresh \subseteq x.target.scopes
              /\ x.base = revision => x.fresh \cap config.scopes = {}
        /\ x.kind = "env" /\ x.base = revision => x.key = envelopes[x.scope][x.by]

\* Three parts: the store knows no scope that no config has or had; a scope it
\* does not know has no key; a scope that was not dropped has one at most.
KnownWasPublished == known \subseteq config.scopes \cup dropped
UnknownHasNoKey   == \A s \in Scopes \ known : Uses(s, NoKey)
KeptHasOneKey     == \A s \in Scopes \ dropped : \E n \in Nat : Uses(s, n)
CommandsHold      == \A c \in Commands : StillHolds(commands[c])

KInv == /\ KeysTypeOK
        /\ KnownWasPublished
        /\ UnknownHasNoKey
        /\ KeptHasOneKey
        /\ CommandsHold

-----------------------------------------------------------------------------
(* Facts about commands.                                                   *)

\* The kind of a command tells its fields.
LEMMA Kinds ==
    ASSUME NEW c \in Commands, KeysTypeOK
    PROVE  /\ Is(c, "counted") => commands[c] \in Counted
           /\ Is(c, "push") => commands[c] \in Push
           /\ Is(c, "env") => commands[c] \in EnvPush
           /\ Is(c, "invite") => commands[c] \in Inviting
<1>1. commands[c] \in Command \cup {None}
  BY DEF KeysTypeOK
<1>2. /\ \A x \in Counted : x.kind = "counted"
      /\ \A x \in Push : x.kind = "push"
      /\ \A x \in EnvPush : x.kind = "env"
      /\ \A x \in Inviting : x.kind = "invite"
  BY DEF Counted, Push, EnvPush, Inviting
<1> QED
  BY <1>1, <1>2 DEF Is, Command

\* A step that changes one command and nothing of the team keeps what the
\* other commands have read.
LEMMA OneCommandHolds ==
    ASSUME KeysTypeOK, CommandsHold, NEW c \in Commands, NEW x, Becomes(c, x),
           UNCHANGED <<revision, config, envelopes>>, StillHolds(x)
    PROVE  CommandsHold'
<1>1. \A d \in Commands : commands'[d] = IF d = c THEN x ELSE commands[d]
  BY DEF Becomes, KeysTypeOK
<1>2. ASSUME NEW d \in Commands PROVE StillHolds(commands'[d])
  BY <1>1 DEF CommandsHold
<1> QED
  BY <1>2 DEF CommandsHold, StillHolds

\* After a new revision no command is at the team's revision any more.
LEMMA NextRevisionHolds ==
    ASSUME KeysTypeOK, KeysTypeOK', CommandsHold, revision' = revision + 1,
           \A c \in Commands : commands'[c] \in {None, commands[c]}
    PROVE  CommandsHold'
<1> SUFFICES ASSUME NEW c \in Commands PROVE StillHolds(commands[c])'
  BY DEF CommandsHold
<1>1. CASE commands'[c] = None
  BY <1>1 DEF StillHolds
<1>2. CASE commands'[c] = commands[c] /\ commands[c] # None
  <2>1. commands[c].kind \in {"counted", "push", "env"} =>
            commands[c].base \in Nat /\ commands[c].base <= revision
    BY <1>2, Kinds DEF CommandsHold, StillHolds, Is, Counted, Push, EnvPush
  <2>2. commands[c].kind \in {"counted", "push", "env"} =>
            commands[c].base <= revision + 1 /\ commands[c].base # revision + 1
    BY <2>1 DEF KeysTypeOK
  <2>3. commands[c].kind = "push" => commands[c].fresh \subseteq commands[c].target.scopes
    BY <1>2 DEF CommandsHold, StillHolds
  <2> QED
    BY <1>2, <2>2, <2>3 DEF StillHolds
<1> QED
  BY <1>1, <1>2

\* A step that takes no scope from the store, brings no dropped one back and
\* gives no scope another key keeps the parts of the invariant about keys.
LEMMA KeysKept ==
    ASSUME UnknownHasNoKey, KeptHasOneKey,
           known \subseteq known', dropped \subseteq dropped',
           \A s \in Scopes, n \in Nat : Uses(s, n) => Uses(s, n)'
    PROVE  UnknownHasNoKey' /\ KeptHasOneKey'
<1>1. NoKey \in Nat /\ NoKey' = NoKey
  BY DEF NoKey
<1>2. UnknownHasNoKey'
  BY <1>1 DEF UnknownHasNoKey
<1>3. KeptHasOneKey'
  BY DEF KeptHasOneKey
<1> QED
  BY <1>2, <1>3

\* So does a step that changes a command only, if what the command uses is what
\* the scopes use.
LEMMA OneCommandUses ==
    ASSUME KeysTypeOK, NEW c \in Commands, NEW x, Becomes(c, x),
           UNCHANGED <<envelopes, values, invites>>,
           NEW s, NEW n, Uses(s, n), CommandUses(x, s, n)
    PROVE  Uses(s, n)'
<1>1. \A d \in Commands : commands'[d] = IF d = c THEN x ELSE commands[d]
  BY DEF Becomes, KeysTypeOK
<1>2. \A d \in Commands : CommandUses(commands'[d], s, n)
  BY <1>1 DEF Uses
<1> QED
  BY <1>2 DEF Uses, CommandUses

LEMMA OneCommand ==
    ASSUME KInv, NEW c \in Commands, NEW x, Becomes(c, x),
           UNCHANGED <<team, invites>>, StillHolds(x),
           \A s \in Scopes, n \in Nat : Uses(s, n) => CommandUses(x, s, n)
    PROVE  KnownWasPublished' /\ UnknownHasNoKey' /\ KeptHasOneKey' /\ CommandsHold'
<1>1. KnownWasPublished'
  BY DEF KInv, KnownWasPublished, team
<1>2. \A s \in Scopes, n \in Nat : Uses(s, n) => Uses(s, n)'
  BY OneCommandUses DEF KInv, team
<1>3. UnknownHasNoKey' /\ KeptHasOneKey'
  BY <1>2, KeysKept DEF KInv, team
<1>4. CommandsHold'
  BY OneCommandHolds DEF KInv, team
<1> QED
  BY <1>1, <1>3, <1>4

\* A revision that drops scopes drops them from the config alone.
LEMMA PublishedKnown ==
    ASSUME KnownWasPublished, NEW target, Publish(target),
           known' \subseteq known \cup target.scopes
    PROVE  KnownWasPublished' /\ dropped \subseteq dropped'
BY DEF KnownWasPublished, Publish

-----------------------------------------------------------------------------
(* Types.                                                                  *)

LEMMA InitTypes == Init => KeysTypeOK
<1> SUFFICES ASSUME Init PROVE KeysTypeOK
  OBVIOUS
<1>1. config \in Config
  BY InitialAssumption, AdminAssumption DEF Init, Config
<1>2. values \in [Scopes -> [Vars -> Value]]
  BY AdminAssumption DEF Init, Value, NoKey
<1>3. envelopes \in [Scopes -> [Members -> Nat]]
  BY DEF Init, NoKey
<1> QED
  BY <1>1, <1>2, <1>3, InitialAssumption, AdminAssumption DEF Init, KeysTypeOK

\* A command becomes a command.
LEMMA BecomesTypes ==
    ASSUME KeysTypeOK, NEW c \in Commands, NEW x \in Command \cup {None}, Becomes(c, x)
    PROVE  commands' \in [Commands -> Command \cup {None}]
BY DEF KeysTypeOK, Becomes

\* A step that changes one command, and keys made.
LEMMA CommandTypes ==
    ASSUME KeysTypeOK, NEW c \in Commands, NEW x \in Command \cup {None}, Becomes(c, x),
           UNCHANGED <<team, invites>>, made' \in Nat
    PROVE  KeysTypeOK'
BY BecomesTypes DEF KeysTypeOK, team

LEMMA PublishTypes ==
    ASSUME KeysTypeOK, NEW target \in Config, Publish(target)
    PROVE  /\ revision' \in Nat \ {0}
           /\ config' \in Config
           /\ dropped' \in SUBSET Scopes
BY DEF KeysTypeOK, Publish, Config

\* What CountScopes, MakeKeys, FetchBundle, StartInvite and FetchKey make of a
\* command: a command, whose reads hold and whose keys are those in use.
LEMMA CountScopesStep ==
    ASSUME KInv, NEW c \in Commands, CountScopes(c)
    PROVE  KInv'
<1>1. PICK k \in active, target \in Configs :
          Becomes(c, [kind |-> "counted", by |-> k, base |-> revision, target |-> target,
                      more |-> Cardinality(target.scopes) > Cardinality(known)])
  BY DEF CountScopes
<1> DEFINE more == Cardinality(target.scopes) > Cardinality(known)
           x == [kind |-> "counted", by |-> k, base |-> revision, target |-> target,
                 more |-> more]
<1>2. x \in Counted
  <2>1. more \in BOOLEAN
    OBVIOUS
  <2>2. k \in Members /\ revision \in Nat /\ target \in Config
    BY ConfigsAssumption DEF KInv, KeysTypeOK
  <2> HIDE DEF more
  <2> QED
    BY <2>1, <2>2 DEF Counted
<1>3. StillHolds(x)
  BY DEF StillHolds, KInv, KeysTypeOK
<1>4. \A s \in Scopes, n \in Nat : CommandUses(x, s, n)
  BY DEF CommandUses
<1>5. Becomes(c, x) /\ UNCHANGED <<team, invites>> /\ made' \in Nat
  BY <1>1 DEF CountScopes, KInv, KeysTypeOK
<1>6. x \in Command \cup {None}
  BY <1>2 DEF Command
<1> HIDE DEF x
<1>7. KeysTypeOK'
  BY <1>5, <1>6, CommandTypes DEF KInv
<1> QED
  BY <1>3, <1>4, <1>5, <1>7, OneCommand DEF KInv

LEMMA KeyedStep ==
    ASSUME KInv, NEW c \in Commands, NEW fresh, NEW key \in Nat, Keyed(c, fresh, key),
           Is(c, "counted"), fresh \subseteq commands[c].target.scopes,
           commands[c].base = revision => fresh \cap config.scopes = {},
           UNCHANGED <<team, invites>>, made' \in Nat
    PROVE  KInv'
<1> DEFINE x == [kind |-> "push", by |-> commands[c].by, base |-> commands[c].base,
                 target |-> commands[c].target, fresh |-> fresh, key |-> key]
<1>1. commands[c] \in Counted /\ commands[c].base <= revision
  BY Kinds DEF KInv, CommandsHold, StillHolds, Is
<1>2. x \in Push
  <2>1. commands[c].target \in Config
    BY <1>1 DEF Counted
  <2>2. fresh \in SUBSET Scopes
    BY <2>1 DEF Config
  <2> QED
    BY <1>1, <2>1, <2>2 DEF Push, Counted
<1>3. StillHolds(x)
  BY <1>1 DEF StillHolds
<1>4. \A s \in Scopes, n \in Nat : CommandUses(x, s, n)
  BY DEF CommandUses
<1>5. Becomes(c, x)
  BY DEF Keyed
<1>6. x \in Command \cup {None}
  BY <1>2 DEF Command
<1> HIDE DEF x
<1>7. KeysTypeOK'
  BY <1>5, <1>6, CommandTypes DEF KInv
<1> QED
  BY <1>3, <1>4, <1>5, <1>7, OneCommand DEF KInv

LEMMA NoNewKeysStep ==
    ASSUME KInv, NEW c \in Commands, NoNewKeys(c)
    PROVE  KInv'
BY KeyedStep DEF NoNewKeys, NoKey, KInv, KeysTypeOK

LEMMA MakeKeysStep ==
    ASSUME KInv, NEW c \in Commands, MakeKeys(c)
    PROVE  KInv'
<1>1. made + 1 \in Nat
  BY DEF KInv, KeysTypeOK
<1>2. (commands[c].target.scopes \ config.scopes) \cap config.scopes = {}
  OBVIOUS
<1> QED
  BY <1>1, <1>2, KeyedStep DEF MakeKeys

\* The lemma for the others: the new command has the types and the keys.
LEMMA CommandStep ==
    ASSUME KInv, NEW c \in Commands, NEW x \in Command \cup {None}, Becomes(c, x),
           UNCHANGED <<team, invites, made>>, StillHolds(x),
           \A s \in Scopes, n \in Nat : Uses(s, n) => CommandUses(x, s, n)
    PROVE  KInv'
<1>1. made' \in Nat
  BY DEF KInv, KeysTypeOK
<1>2. KeysTypeOK'
  BY <1>1, CommandTypes DEF KInv
<1> QED
  BY <1>2, OneCommand DEF KInv

LEMMA FailStep ==
    ASSUME KInv, NEW c \in Commands, Fail(c)
    PROVE  KInv'
BY CommandStep DEF Fail, StillHolds, CommandUses

LEMMA FetchBundleStep ==
    ASSUME KInv, NEW c \in Commands, FetchBundle(c)
    PROVE  KInv'
<1>1. PICK k \in active, z \in known, target \in Configs,
           upserts \in SUBSET Vars, removals \in SUBSET Vars :
        Becomes(c, [kind |-> "env", by |-> k, base |-> revision, target |-> target,
                    scope |-> z, key |-> envelopes[z][k],
                    upserts |-> upserts, removals |-> removals])
  BY DEF FetchBundle
<1> DEFINE x == [kind |-> "env", by |-> k, base |-> revision, target |-> target,
                 scope |-> z, key |-> envelopes[z][k],
                 upserts |-> upserts, removals |-> removals]
<1>2. k \in Members /\ z \in Scopes /\ revision \in Nat /\ target \in Config
  BY ConfigsAssumption DEF KInv, KeysTypeOK
<1>3. envelopes[z][k] \in Nat
  BY <1>2 DEF KInv, KeysTypeOK
<1>4. x \in EnvPush
  BY <1>2, <1>3 DEF EnvPush
<1>5. StillHolds(x)
  BY <1>2 DEF StillHolds
<1>6. \A s \in Scopes, n \in Nat : Uses(s, n) => CommandUses(x, s, n)
  BY <1>2 DEF CommandUses, Uses
<1>7. Becomes(c, x) /\ UNCHANGED <<team, invites, made>>
  BY <1>1 DEF FetchBundle
<1>8. x \in Command \cup {None}
  BY <1>4 DEF Command
<1> HIDE DEF x
<1> QED
  BY <1>5, <1>6, <1>7, <1>8, CommandStep

LEMMA StartInviteStep ==
    ASSUME KInv, NEW c \in Commands, StartInvite(c)
    PROVE  KInv'
<1>1. PICK k \in active, want \in Offers, yaml \in Configs :
        Becomes(c, [kind |-> "invite", by |-> k, want |-> want,
                    left |-> IF want = {} THEN yaml.scopes ELSE want,
                    keys |-> [s \in Scopes |-> NoKey]])
  BY DEF StartInvite
<1> DEFINE x == [kind |-> "invite", by |-> k, want |-> want,
                 left |-> IF want = {} THEN yaml.scopes ELSE want,
                 keys |-> [s \in Scopes |-> NoKey]]
<1>2. k \in Members /\ want \in SUBSET Scopes /\ yaml.scopes \in SUBSET Scopes
  BY ConfigsAssumption, OffersAssumption DEF KInv, KeysTypeOK, Config
<1>3. [s \in Scopes |-> NoKey] \in [Scopes -> Nat]
  BY DEF NoKey
<1>4. x \in Inviting
  BY <1>2, <1>3 DEF Inviting
<1>5. StillHolds(x)
  BY DEF StillHolds
<1>6. \A s \in Scopes, n \in Nat : CommandUses(x, s, n)
  BY DEF CommandUses
<1>7. Becomes(c, x) /\ UNCHANGED <<team, invites, made>>
  BY <1>1 DEF StartInvite
<1>8. x \in Command \cup {None}
  BY <1>4 DEF Command
<1> HIDE DEF x
<1> QED
  BY <1>5, <1>6, <1>7, <1>8, CommandStep

LEMMA FetchKeyStep ==
    ASSUME KInv, NEW c \in Commands, FetchKey(c)
    PROVE  KInv'
<1>1. Is(c, "invite") /\ commands[c] \in Inviting
  BY Kinds DEF FetchKey, KInv
<1>2. PICK z \in commands[c].left : \E key \in {NoKey, envelopes[z][commands[c].by]} :
        Becomes(c, [commands[c] EXCEPT !.left = @ \ {z}, !.keys[z] = key])
  BY DEF FetchKey
<1> PICK key \in {NoKey, envelopes[z][commands[c].by]} :
        Becomes(c, [commands[c] EXCEPT !.left = @ \ {z}, !.keys[z] = key])
  BY <1>2
<1> DEFINE x == [commands[c] EXCEPT !.left = @ \ {z}, !.keys[z] = key]
<1>3. z \in Scopes /\ commands[c].by \in Members
  BY <1>1 DEF Inviting
<1>4. key \in Nat
  BY <1>3 DEF KInv, KeysTypeOK, NoKey
<1>5. x \in Inviting
  BY <1>1, <1>3, <1>4 DEF Inviting
<1>6. x.kind = "invite"
  BY <1>5 DEF Inviting
<1>7. \A s \in Scopes, n \in Nat : Uses(s, n) => CommandUses(x, s, n)
  <2> SUFFICES ASSUME NEW s \in Scopes, NEW n \in Nat, Uses(s, n)
               PROVE  x.keys[s] \in {NoKey, n}
    BY <1>6 DEF CommandUses
  <2>1. x.keys[s] = IF s = z THEN key ELSE commands[c].keys[s]
    BY <1>1, <1>3 DEF Inviting
  <2>2. commands[c].keys[s] \in {NoKey, n}
    BY <1>1 DEF Uses, CommandUses, Is
  <2>3. s = z => key \in {NoKey, n}
    BY <1>3 DEF Uses
  <2> QED
    BY <2>1, <2>2, <2>3
<1>8. StillHolds(x)
  BY <1>6 DEF StillHolds
<1>9. Becomes(c, x) /\ UNCHANGED <<team, invites, made>>
  BY DEF FetchKey
<1>10. x \in Command \cup {None}
  BY <1>5 DEF Command
<1> HIDE DEF x
<1> QED
  BY <1>7, <1>8, <1>9, <1>10, CommandStep

\* A command that ends takes nothing with it that the scopes do not use.
LEMMA EndedCommand ==
    ASSUME KeysTypeOK, NEW c \in Commands, Becomes(c, None)
    PROVE  /\ commands' \in [Commands -> Command \cup {None}]
           /\ \A d \in Commands : commands'[d] = IF d = c THEN None ELSE commands[d]
           /\ \A s \in Scopes, n \in Nat :
                 Uses(s, n) => \A d \in Commands : CommandUses(commands'[d], s, n)
<1>1. commands' \in [Commands -> Command \cup {None}]
  BY BecomesTypes
<1>2. \A d \in Commands : commands'[d] = IF d = c THEN None ELSE commands[d]
  BY DEF Becomes, KeysTypeOK
<1>3. ASSUME NEW s \in Scopes, NEW n \in Nat, Uses(s, n), NEW d \in Commands
      PROVE  CommandUses(commands'[d], s, n)
  BY <1>2, <1>3 DEF Uses, CommandUses
<1> QED
  BY <1>1, <1>2, <1>3

LEMMA CreateInviteStep ==
    ASSUME KInv, NEW c \in Commands, CreateInvite(c)
    PROVE  KInv'
<1>1. Is(c, "invite") /\ commands[c] \in Inviting
  BY Kinds DEF CreateInvite, KInv
<1> DEFINE invite == [want |-> commands[c].want, keys |-> commands[c].keys,
                      redeemed |-> FALSE]
<1>2. PICK i \in Invites : invites' = [invites EXCEPT ![i] = invite]
  BY DEF CreateInvite
<1>3. invite \in Invite
  BY <1>1 DEF Inviting, Invite
<1>4. /\ Becomes(c, None)
      /\ UNCHANGED <<revision, config, known, active, envelopes, values, dropped, made>>
  BY DEF CreateInvite, team
<1>5. \A s \in Scopes, n \in Nat : Uses(s, n) => Uses(s, n)'
  <2> SUFFICES ASSUME NEW s \in Scopes, NEW n \in Nat, Uses(s, n) PROVE Uses(s, n)'
    OBVIOUS
  <2>1. \A d \in Commands : CommandUses(commands'[d], s, n)
    BY <1>4, EndedCommand DEF KInv
  <2>2. commands[c].keys[s] \in {NoKey, n}
    BY <1>1 DEF Uses, CommandUses, Is
  <2>3. \A j \in Invites : invites'[j] = IF j = i THEN invite ELSE invites[j]
    BY <1>2 DEF KInv, KeysTypeOK
  <2>4. \A j \in Invites : invites'[j] # None => invites'[j].keys[s] \in {NoKey, n}
    BY <2>2, <2>3 DEF Uses
  <2> QED
    BY <1>4, <2>1, <2>4 DEF Uses, CommandUses
<1>6. KeysTypeOK'
  <2>1. invites' \in [Invites -> Invite \cup {None}]
    BY <1>2, <1>3 DEF KInv, KeysTypeOK
  <2> QED
    BY <1>4, <2>1, EndedCommand DEF KInv, KeysTypeOK
<1>7. UnknownHasNoKey' /\ KeptHasOneKey'
  BY <1>4, <1>5, KeysKept DEF KInv
<1>8. StillHolds(None)
  BY DEF StillHolds
<1>9. CommandsHold'
  BY <1>4, <1>8, OneCommandHolds DEF KInv
<1> QED
  BY <1>4, <1>6, <1>7, <1>9 DEF KInv, KnownWasPublished

\* Of two config pushes that make keys of a scope one at most is accepted: the
\* scope is in the config after the first, and has no key before.
LEMMA ServePushStep ==
    ASSUME KInv, NEW c \in Commands, ServePush(c)
    PROVE  KInv'
<1> DEFINE r == commands[c]
<1>1. r \in Push /\ r # None /\ Publish(r.target) /\ r.target \in Config /\ r.key \in Nat
  BY Kinds DEF ServePush, KInv, Push, Is
<1>2. /\ known' = known \cup r.target.scopes
      /\ active' = active \cup Listed(r.target)
      /\ envelopes' = [s \in Scopes |-> [k \in Members |->
                          IF s \in r.fresh /\ k \in r.target.readers[s]
                          THEN r.key ELSE envelopes[s][k]]]
      /\ Becomes(c, None)
      /\ UNCHANGED <<values, invites, made>>
  BY DEF ServePush
<1>3. r.fresh \subseteq r.target.scopes /\ r.fresh \cap config.scopes = {}
  <2>1. r.base = revision /\ r.kind = "push"
    BY DEF ServePush, Accepts, Is
  <2> QED
    BY <1>1, <2>1 DEF KInv, CommandsHold, StillHolds
<1>4. KeysTypeOK'
  <2>1. Listed(r.target) \subseteq Members
    BY <1>1 DEF Listed, Config
  <2>2. envelopes' \in [Scopes -> [Members -> Nat]]
    BY <1>1, <1>2 DEF KInv, KeysTypeOK
  <2>3. r.target.scopes \subseteq Scopes
    BY <1>1 DEF Config
  <2> HIDE DEF r
  <2>4. /\ revision' \in Nat \ {0} /\ config' \in Config /\ dropped' \in SUBSET Scopes
    BY <1>1, PublishTypes DEF KInv
  <2>5. commands' \in [Commands -> Command \cup {None}]
    BY <1>2, EndedCommand DEF KInv
  <2> QED
    BY <1>2, <2>1, <2>2, <2>3, <2>4, <2>5 DEF KInv, KeysTypeOK
<1>5. KnownWasPublished' /\ dropped \subseteq dropped'
  BY <1>1, <1>2, PublishedKnown DEF KInv
<1>6. \A s \in Scopes \ r.fresh, n \in Nat : Uses(s, n) => Uses(s, n)'
  <2> SUFFICES ASSUME NEW s \in Scopes \ r.fresh, NEW n \in Nat, Uses(s, n)
               PROVE  Uses(s, n)'
    OBVIOUS
  <2>1. \A d \in Commands : CommandUses(commands'[d], s, n)
    BY <1>2, EndedCommand DEF KInv
  <2>2. \A k \in Members : envelopes'[s][k] = envelopes[s][k]
    BY <1>2
  <2> HIDE DEF r
  <2> QED
    BY <1>2, <2>1, <2>2 DEF Uses, CommandUses
<1>7. PICK key \in Nat : key = r.key
  BY <1>1
<1>8. \A s \in r.fresh : s \notin dropped => Uses(s, key)'
  <2> SUFFICES ASSUME NEW s \in r.fresh, s \notin dropped PROVE Uses(s, key)'
    OBVIOUS
  <2>1. s \in Scopes \ known
    BY <1>1, <1>3 DEF KInv, KnownWasPublished, Config
  <2>2. Uses(s, NoKey) /\ NoKey \in Nat
    BY <2>1 DEF KInv, UnknownHasNoKey, NoKey
  <2>3. \A d \in Commands : CommandUses(commands'[d], s, key)
    BY <1>2, <2>1, <2>2, EndedCommand DEF KInv, CommandUses
  <2>4. \A k \in Members : envelopes'[s][k] \in {NoKey, key}
    BY <1>2, <1>7, <2>1, <2>2 DEF Uses
  <2> HIDE DEF r
  <2> QED
    BY <1>2, <2>2, <2>3, <2>4 DEF Uses, CommandUses
<1>9. UnknownHasNoKey'
  <2> SUFFICES ASSUME NEW s \in Scopes \ known' PROVE Uses(s, NoKey)'
    BY DEF UnknownHasNoKey, NoKey
  <2>1. s \notin known /\ s \notin r.fresh
    BY <1>2, <1>3
  <2>2. Uses(s, NoKey) /\ NoKey \in Nat
    BY <2>1 DEF KInv, UnknownHasNoKey, NoKey
  <2> QED
    BY <1>6, <2>1, <2>2 DEF NoKey
<1>10. KeptHasOneKey'
  <2> SUFFICES ASSUME NEW s \in Scopes \ dropped' PROVE \E n \in Nat : Uses(s, n)'
    BY DEF KeptHasOneKey
  <2>1. s \notin dropped
    BY <1>5
  <2>2. CASE s \in r.fresh
    BY <1>8, <2>1, <2>2
  <2>3. CASE s \notin r.fresh
    BY <1>6, <2>1, <2>3 DEF KInv, KeptHasOneKey
  <2> QED
    BY <2>2, <2>3
<1>11. CommandsHold'
  <2>1. \A d \in Commands : commands'[d] \in {None, commands[d]}
    BY <1>2, EndedCommand DEF KInv
  <2> QED
    BY <1>1, <1>4, <2>1, NextRevisionHolds DEF KInv, Publish
<1> QED
  BY <1>4, <1>5, <1>9, <1>10, <1>11 DEF KInv

\* The value that an env push stores was sealed with a key of its scope.
LEMMA ServeEnvPushStep ==
    ASSUME KInv, NEW c \in Commands, ServeEnvPush(c)
    PROVE  /\ KInv'
           /\ \A s \in Scopes, v \in Vars :
                 values'[s][v] # values[s][v] =>
                    values'[s][v].key \in {NoKey, envelopes[s][values'[s][v].by]}
<1> DEFINE r == commands[c]
           Stored(v) == CASE v \in r.upserts  -> [key |-> r.key, by |-> r.by]
                          [] v \in r.removals -> [key |-> NoKey, by |-> r.by]
                          [] OTHER            -> values[r.scope][v]
<1>1. r \in EnvPush /\ r # None /\ r.base = revision /\ r.kind = "env"
  BY Kinds DEF ServeEnvPush, KInv, Accepts, Is
<1>2. /\ Publish(r.target)
      /\ values' = [values EXCEPT ![r.scope] = [v \in Vars |-> Stored(v)]]
      /\ Becomes(c, None)
      /\ UNCHANGED <<known, active, envelopes, invites, made>>
  BY DEF ServeEnvPush
<1>3. /\ r.scope \in Scopes /\ r.by \in Members /\ r.key \in Nat /\ r.target \in Config
      /\ r.key = envelopes[r.scope][r.by]
  BY <1>1 DEF EnvPush, KInv, CommandsHold, StillHolds
<1>4. \A v \in Vars : Stored(v) \in Value
  <2>1. \A v \in Vars : values[r.scope][v] \in Value
    BY <1>3 DEF KInv, KeysTypeOK
  <2> QED
    BY <1>3, <2>1 DEF Value, NoKey
<1>5. \A s \in Scopes, v \in Vars :
          values'[s][v] = IF s = r.scope THEN Stored(v) ELSE values[s][v]
  <2> HIDE DEF Stored, r
  <2> QED
    BY <1>2 DEF KInv, KeysTypeOK
<1>6. \A v \in Vars :
          \/ Stored(v) = values[r.scope][v]
          \/ Stored(v).by = r.by /\ Stored(v).key \in {NoKey, r.key}
  OBVIOUS
<1>7. \A s \in Scopes, v \in Vars :
          values'[s][v] # values[s][v] =>
             values'[s][v].key \in {NoKey, envelopes[s][values'[s][v].by]}
  <2> HIDE DEF Stored
  <2> QED
    BY <1>3, <1>5, <1>6
<1>8. \A s \in Scopes, n \in Nat : Uses(s, n) => Uses(s, n)'
  <2> SUFFICES ASSUME NEW s \in Scopes, NEW n \in Nat, Uses(s, n) PROVE Uses(s, n)'
    OBVIOUS
  <2>1. \A d \in Commands : CommandUses(commands'[d], s, n)
    BY <1>2, EndedCommand DEF KInv
  <2>2. s = r.scope => r.key \in {NoKey, n}
    BY <1>1 DEF Uses, CommandUses
  <2> HIDE DEF Stored
  <2>3. \A v \in Vars : values'[s][v].key \in {NoKey, n}
    BY <1>5, <1>6, <2>2 DEF Uses
  <2> HIDE DEF r
  <2> QED
    BY <1>2, <2>1, <2>3 DEF Uses, CommandUses
<1>9. KeysTypeOK'
  <2> HIDE DEF Stored, r
  <2>1. /\ revision' \in Nat \ {0} /\ config' \in Config /\ dropped' \in SUBSET Scopes
    BY <1>2, <1>3, PublishTypes DEF KInv
  <2>2. commands' \in [Commands -> Command \cup {None}]
    BY <1>2, EndedCommand DEF KInv
  <2>3. values' \in [Scopes -> [Vars -> Value]]
    BY <1>2, <1>4 DEF KInv, KeysTypeOK
  <2> QED
    BY <1>2, <2>1, <2>2, <2>3 DEF KInv, KeysTypeOK
<1>10. KnownWasPublished' /\ dropped \subseteq dropped'
  BY <1>2, PublishedKnown DEF KInv
<1>11. UnknownHasNoKey' /\ KeptHasOneKey'
  BY <1>2, <1>8, <1>10, KeysKept DEF KInv
<1>12. CommandsHold'
  <2>1. \A d \in Commands : commands'[d] \in {None, commands[d]}
    BY <1>2, EndedCommand DEF KInv
  <2> QED
    BY <1>2, <1>9, <2>1, NextRevisionHolds DEF KInv, Publish
<1> QED
  BY <1>7, <1>9, <1>10, <1>11, <1>12 DEF KInv

\* A step of the store that changes no command and publishes another config of
\* scopes with the same keys.
LEMMA StoreStep ==
    ASSUME KInv, KeysTypeOK', NEW target, Publish(target), known' = known,
           UNCHANGED commands, \A s \in Scopes, n \in Nat : Uses(s, n) => Uses(s, n)'
    PROVE  KInv'
<1>1. KnownWasPublished' /\ dropped \subseteq dropped'
  BY PublishedKnown DEF KInv
<1>2. UnknownHasNoKey' /\ KeptHasOneKey'
  BY <1>1, KeysKept DEF KInv
<1>3. CommandsHold'
  BY NextRevisionHolds DEF KInv, Publish
<1> QED
  BY <1>1, <1>2, <1>3 DEF KInv

\* The joiner is given keys that were in use when the invite was made.
LEMMA RedeemStep ==
    ASSUME KInv, NEW i \in Invites, NEW j \in Members, Redeem(i, j)
    PROVE  KInv'
<1> DEFINE bundle == {s \in Scopes : invites[i].keys[s] # NoKey}
           target == [config EXCEPT !.readers =
                         [s \in Scopes |-> IF s \in invites[i].want
                                           THEN config.readers[s] \cup {j}
                                           ELSE config.readers[s]]]
<1>1. /\ invites[i] # None /\ invites[i] \in Invite
      /\ invites' = [invites EXCEPT ![i].redeemed = TRUE]
      /\ UNCHANGED <<commands, made>>
  BY DEF Redeem, KInv, KeysTypeOK
<1>2. /\ invites' \in [Invites -> Invite \cup {None}]
      /\ \A h \in Invites : invites'[h] # None =>
            invites[h] # None /\ invites'[h].keys = invites[h].keys
  <2>1. [invites[i] EXCEPT !.redeemed = TRUE] \in Invite
    BY <1>1 DEF Invite
  <2>2. invites' = [invites EXCEPT ![i] = [invites[i] EXCEPT !.redeemed = TRUE]]
    BY <1>1
  <2>3. [invites[i] EXCEPT !.redeemed = TRUE].keys = invites[i].keys
    BY <1>1 DEF Invite
  <2> QED
    BY <1>1, <2>1, <2>2, <2>3 DEF KInv, KeysTypeOK
<1>3. CASE UNCHANGED team
  <2>1. KeysTypeOK'
    BY <1>1, <1>2, <1>3 DEF KInv, KeysTypeOK, team
  <2>2. \A s \in Scopes, n \in Nat : Uses(s, n) => Uses(s, n)'
    BY <1>1, <1>2, <1>3 DEF Uses, CommandUses, team
  <2>3. UnknownHasNoKey' /\ KeptHasOneKey'
    BY <1>3, <2>2, KeysKept DEF KInv, team
  <2> QED
    BY <1>1, <1>3, <2>1, <2>3 DEF KInv, KnownWasPublished, CommandsHold, StillHolds, team
<1>4. CASE /\ Publish(target)
           /\ active' = active \cup {j}
           /\ envelopes' = [s \in Scopes |-> [k \in Members |->
                               IF k = j /\ s \in bundle \cap known
                               THEN invites[i].keys[s] ELSE envelopes[s][k]]]
           /\ UNCHANGED <<known, values>>
  <2>1. target \in Config
    BY DEF KInv, KeysTypeOK, Config
  <2>2. envelopes' \in [Scopes -> [Members -> Nat]]
    <3>1. \A s \in Scopes : invites[i].keys[s] \in Nat
      BY <1>1 DEF Invite
    <3> QED
      BY <1>4, <3>1 DEF KInv, KeysTypeOK
  <2>3. \A s \in Scopes, k \in Members :
            \/ envelopes'[s][k] = envelopes[s][k]
            \/ envelopes'[s][k] = invites[i].keys[s]
    BY <1>4
  <2> HIDE DEF target, bundle
  <2>4. /\ revision' \in Nat \ {0} /\ config' \in Config /\ dropped' \in SUBSET Scopes
    BY <1>4, <2>1, PublishTypes DEF KInv
  <2>5. KeysTypeOK'
    BY <1>1, <1>2, <1>4, <2>2, <2>4 DEF KInv, KeysTypeOK
  <2>6. \A s \in Scopes, n \in Nat : Uses(s, n) => Uses(s, n)'
    <3> SUFFICES ASSUME NEW s \in Scopes, NEW n \in Nat, Uses(s, n) PROVE Uses(s, n)'
      OBVIOUS
    <3>1. \A k \in Members : envelopes'[s][k] \in {NoKey, n}
      BY <1>1, <2>3 DEF Uses
    <3> QED
      BY <1>1, <1>2, <1>4, <3>1 DEF Uses, CommandUses
  <2> QED
    BY <1>1, <1>4, <2>5, <2>6, StoreStep
<1> QED
  BY <1>3, <1>4 DEF Redeem

LEMMA ApproveJoinStep ==
    ASSUME KInv, NEW j \in Members, ApproveJoin(j)
    PROVE  KInv'
<1>1. /\ Publish(config) /\ active' = active \cup {j}
      /\ UNCHANGED <<known, envelopes, values, invites, commands, made>>
  BY DEF ApproveJoin
<1>2. /\ revision' \in Nat \ {0} /\ config' \in Config /\ dropped' \in SUBSET Scopes
  BY <1>1, PublishTypes DEF KInv, KeysTypeOK
<1>3. KeysTypeOK'
  BY <1>1, <1>2 DEF KInv, KeysTypeOK
<1>4. \A s \in Scopes, n \in Nat : Uses(s, n) => Uses(s, n)'
  BY <1>1 DEF Uses, CommandUses
<1> QED
  BY <1>1, <1>3, <1>4, StoreStep

-----------------------------------------------------------------------------
(* The invariant and what follows from it.                                 *)

LEMMA InitInv == Init => KInv
<1> SUFFICES ASSUME Init PROVE KInv
  OBVIOUS
<1>1. KeysTypeOK
  BY InitTypes
<1>2. ASSUME NEW s \in Scopes, NEW n,
             \A k \in Members : envelopes[s][k] \in {NoKey, n},
             \A v \in Vars : values[s][v].key \in {NoKey, n}
      PROVE  Uses(s, n)
  BY <1>2 DEF Init, Uses, CommandUses
<1>3. UnknownHasNoKey /\ KeptHasOneKey
  <2>1. \A s \in Scopes : Uses(s, 1)
    <3> SUFFICES ASSUME NEW s \in Scopes PROVE Uses(s, 1)
      OBVIOUS
    <3>1. /\ \A k \in Members : envelopes[s][k] \in {NoKey, 1}
          /\ \A v \in Vars : values[s][v].key \in {NoKey, 1}
      BY DEF Init
    <3> QED
      BY <1>2, <3>1
  <2>2. \A s \in Scopes \ known : Uses(s, NoKey)
    <3> SUFFICES ASSUME NEW s \in Scopes \ known PROVE Uses(s, NoKey)
      OBVIOUS
    <3>1. /\ \A k \in Members : envelopes[s][k] \in {NoKey, NoKey}
          /\ \A v \in Vars : values[s][v].key \in {NoKey, NoKey}
      BY DEF Init
    <3> QED
      BY <1>2, <3>1
  <2> QED
    BY <2>1, <2>2 DEF UnknownHasNoKey, KeptHasOneKey
<1>4. CommandsHold /\ KnownWasPublished
  BY DEF Init, CommandsHold, StillHolds, KnownWasPublished
<1> QED
  BY <1>1, <1>3, <1>4 DEF KInv

\* A step keeps the invariant, and stores values under the writer's key.
LEMMA StepInv ==
    ASSUME KInv, [Next]_vars
    PROVE  /\ KInv'
           /\ \A s \in Scopes, v \in Vars :
                 values'[s][v] # values[s][v] =>
                    values'[s][v].key \in {NoKey, envelopes[s][values'[s][v].by]}
<1> USE DEF NoKey
<1>1. ASSUME UNCHANGED values
      PROVE  \A s \in Scopes, v \in Vars : values'[s][v] = values[s][v]
  BY <1>1
<1>2. CASE UNCHANGED vars
  <2>1. UNCHANGED <<revision, config, known, active, envelopes, values, dropped,
                    invites, commands, made>>
    BY <1>2 DEF vars, team
  <2>2. KeysTypeOK' /\ KnownWasPublished' /\ CommandsHold'
    BY <2>1 DEF KInv, KeysTypeOK, KnownWasPublished, CommandsHold, StillHolds
  <2>3. UnknownHasNoKey' /\ KeptHasOneKey'
    BY <2>1, KeysKept DEF KInv, Uses, CommandUses
  <2> QED
    BY <1>1, <2>1, <2>2, <2>3 DEF KInv
<1>3. CASE \E c \in Commands : ServeEnvPush(c)
  BY <1>3, ServeEnvPushStep
<1>4. CASE \E c \in Commands :
              \/ CountScopes(c) \/ NoNewKeys(c) \/ MakeKeys(c) \/ FetchBundle(c)
              \/ StartInvite(c) \/ FetchKey(c) \/ Fail(c)
  <2> PICK c \in Commands :
              \/ CountScopes(c) \/ NoNewKeys(c) \/ MakeKeys(c) \/ FetchBundle(c)
              \/ StartInvite(c) \/ FetchKey(c) \/ Fail(c)
    BY <1>4
  <2>1. UNCHANGED values
    BY DEF CountScopes, NoNewKeys, MakeKeys, FetchBundle, StartInvite, FetchKey, Fail, team
  <2>2. KInv'
    BY CountScopesStep, NoNewKeysStep, MakeKeysStep, FetchBundleStep, StartInviteStep,
       FetchKeyStep, FailStep
  <2> QED
    BY <1>1, <2>1, <2>2
<1>5. CASE \E c \in Commands : ServePush(c) \/ CreateInvite(c)
  <2> PICK c \in Commands : ServePush(c) \/ CreateInvite(c)
    BY <1>5
  <2>1. UNCHANGED values
    BY DEF ServePush, CreateInvite, team
  <2> QED
    BY <1>1, <2>1, ServePushStep, CreateInviteStep
<1>6. CASE \E j \in Members : ApproveJoin(j) \/ \E i \in Invites : Redeem(i, j)
  <2> PICK j \in Members : ApproveJoin(j) \/ \E i \in Invites : Redeem(i, j)
    BY <1>6
  <2>1. UNCHANGED values
    BY DEF ApproveJoin, Redeem, team
  <2> QED
    BY <1>1, <2>1, ApproveJoinStep, RedeemStep
<1> QED
  BY <1>2, <1>3, <1>4, <1>5, <1>6 DEF Next

LEMMA Invariant == Spec => []KInv
<1>1. Init => KInv
  BY InitInv
<1>2. KInv /\ [Next]_vars => KInv'
  BY StepInv
<1> QED
  BY <1>1, <1>2, PTL DEF Spec

\* Types of the team's record, its invites and the commands under way.
THEOREM KeysTypeCorrect == Spec => []KeysTypeOK
<1>1. KInv => KeysTypeOK
  BY DEF KInv
<1> QED
  BY <1>1, Invariant, PTL

\* A scope that no revision left out has one key, for however many members,
\* config pushes, env pushes and invites at the same time: two pushes that make
\* a key for it cannot both be accepted, and no envelope, value or bundle has
\* another.
THEOREM OneKeyOfKeptScopes == Spec => []OneKeyUnlessDropped
<1>1. KInv => OneKeyUnlessDropped
  <2> SUFFICES ASSUME KInv, NEW s \in Scopes \ dropped,
                      NEW g \in KeysInUse(s), NEW h \in KeysInUse(s)
               PROVE  g = h
    BY DEF OneKeyUnlessDropped, OneKey
  <2>1. PICK n \in Nat : Uses(s, n)
    BY DEF KInv, KeptHasOneKey
  <2>2. \A f \in KeysInUse(s) : f = n
    BY <2>1 DEF KeysInUse, Uses
  <2> QED
    BY <2>2
<1> QED
  BY <1>1, Invariant, PTL

\* A value is stored under the key that its writer holds at that moment.
THEOREM StoredUnderHeldKey == Spec => WrittenUnderHeldKey
<1> DEFINE Held == \A s \in Scopes, v \in Vars :
                     values'[s][v] # values[s][v] =>
                        values'[s][v].key \in {NoKey, envelopes[s][values'[s][v].by]}
<1>1. KInv /\ [Next]_vars => [Held]_vars
  BY StepInv
<1> QED
  BY <1>1, Invariant, PTL DEF Spec, WrittenUnderHeldKey
=============================================================================
