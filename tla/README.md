# Propagate, modelled in TLA+

Propagate keeps a team's environment variables in the cloud, end-to-end
encrypted. A repository carries `propagate.yaml` (team, scopes, members with
their public keys and permissions); a small Go API stores the published version
of that file, wrapped scope keys and encrypted values; a Go CLI edits, pushes and
pulls. This directory is the verification project of that code: what the parts
promise each other, checked on small instances by TLC and, where said so, proved
for all instances with TLAPS. Paths below are relative to `src/packages/`.

## 1. The system

| component | state it keeps | operations | behaviours that are hard |
| --- | --- | --- | --- |
| team store, `backend/internal/storage/memory.go` (`MemoryStore`; `SQLStore` in `sql*.go` for Postgres) | per team: revision, config snapshot and hash, members, scopes with `memberAccess`, envelopes and variable versions, tables of applied operations, invites; nonces | `CreateTeamSetup`, `PushConfig`, `EnvPush`, `CreateJoinRequest`, `ApproveJoinRequest`, `DeclineJoinRequest`, `CreateTeamInvite`, `SubmitInvitePIN`, `RevokeTeamInvite`, reads (`GetConfig`, `PullBundle`, `GetKeyEnvelope`, ...) | several writers on one revision, retries, access derived from snapshot, records and decisions together |
| HTTP API, `backend/internal/api/` | none of its own; the nonces and members are the store's | verification of signed requests, one handler per endpoint, the relay that re-encrypts invite bundles | a handler reads the member record, and the invite's bundle, before it calls the store |
| CLI commands, `cli/internal/cli/` | `propagate.yaml`, env files, the identity | `config push/pull/status`, `env push/set/pull/run`, `scope create`, `team join/approve/decline/invite`, `init` | requests built from what was read earlier; answers lost; local writes that fail after the cloud accepted |
| config file, `cli/internal/config/` | - | parse and render `propagate.yaml`, snapshot and hash | the same file must give the same snapshot and hash on both sides |
| env files, `cli/internal/envfile/`, `cli/internal/atomicfile/` | files of a scope, in no version control | diff and selection for a push, merge of pulled values, replacement file by file | a pull that ends between two files; files older than what a push is compared with; declarations and values that must agree |
| setup and identity, `cli/internal/cli/init.go`, `quickstart.go`, `cli/internal/identity/` | `~/.propagate` key pair and profile, the first `propagate.yaml` | `Ensure`, `Load`, `runInit`, `runQuickstart` | looked for first and written later, by commands that overlap or stop between the identity, the profile, the cloud and the file |
| config editor, `cli/internal/cli/config_edit.go`, `tui_prompt.go`, `scope.go`, `env_declarations.go` | a copy of `propagate.yaml` while a person goes through the screens | choose, toggle, move, remove, save, cancel; `scope create`; the declarations of `env push` | places in lists that change, a copy that grows old, values that must not be in clear |
| keys, `shared/secretcrypto`, `cli/internal/secretcrypto` | a 32-byte key per scope, wrapped for each reader | make, wrap, unwrap, seal, open | keys are made by clients, and nothing but the bytes tells two keys of a scope apart |
| signatures and PINs, `backend/internal/signing`, `backend/internal/domain/pin.go` | - | sign, verify, PINs | taken as given |
| status commands (`config status`, `env status`, `team status`, `status`) | none | reports | none: they change nothing and are not modelled |

How they interact: the CLI signs a request with the identity's key, a timestamp
and a nonce. The API checks the timestamp, loads the member, verifies the
signature, reserves the nonce and then calls one method of the store. Each method
of the `MemoryStore` holds its mutex throughout, so it is one atomic step; two
handlers interleave between the verification and the method, and that is the
grain of the models of it. With a database configured the `SQLStore` stands in its
place: the same methods as transactions, which interleave statement by statement. The
CLI bases a push on what it read: the revision it
expects, the versions of the values it replaces. The store compares these with
what is current and refuses a push made against something older.

What makes each component correct:

- store and API: nobody's config revision is lost; a retry has the effect and the
  answer of one request; a value is replaced only by who saw it; access enforced
  is access published, and a scope has a key (which env pushes of unpushed
  edits do not always leave so, section 6); a request takes effect under authority that is
  current.
- invites: at most one redemption, three guesses, an ended invite stays ended, who
  is told to be in is in.
- signed requests: each passes once (which the code keeps for clocks that are not
  ahead, section 6).
- CLI workspace: a `propagate.yaml` and the revision it carries belong together, so
  that no push undoes what somebody else published; no unpushed edit is lost without a
  question (which the code does not keep, section 6).
- env files: a line is of a revision or a person's, however pulls overlap and end; a
  push changes what was approved, and the config declares what is stored (which the
  code does not always keep, section 6).
- keys: all who hold a key to a scope hold the one its values are sealed with.
- setup: no private key is lost, a file names a team that is there and can open its
  values, and no `propagate.yaml` is replaced that was looked at.
- config editor: what a person did is what the summary says and what can be saved,
  and a value is in the file in clear only if a person marked it.

`PROJECT.json` lists every component with its status and, under `hazards`, what is
hard to test in this code, at the line where it bites.

## 2. Modules

```
TeamData ── TeamStore ──┬── TeamApi ─────┬── MCTeamApi        ConfigRevisions
                        │                └── TeamApiProofs     (refined by TeamApi
                        └── TeamInvites ─┬── MCTeamInvites      and by SqlStore)
                                         └── TeamInvitesProofs
SqlStore ─────┬── MCSqlStore           ReplayGuard ──── MCReplayGuard
              └────────── SqlStoreProofs ─────┘
Workspace ────┬── MCWorkspace          ScopeKeys ──┬── MCScopeKeys
              └── WorkspaceProofs                  └── ScopeKeysProofs
EnvFiles ─────┬── MCEnvFiles           Setup ──────┬── MCSetup
              └── EnvFilesProofs                   └── SetupProofs
ConfigEdit ───┬── MCConfigEdit
              └── ConfigEditProofs
```

- **TeamData**: permissions, the entries of a snapshot and the member records. A
  snapshot's member list is a function of the key, because `applySnapshot` lets
  the last entry of a key win; names, public keys, env files and declarations of
  variables are left out, as no decision of the server depends on them.
- **TeamStore**: the `MemoryStore` of one team. Each operator is one method: its
  guard is the method's early returns, its effect everything the method writes.
  `Variable.versions` is the sequence of operations that wrote the variable's
  versions, so the length stands for the version id and the ciphertext is never
  needed. `published` is a history variable: the snapshot of each revision. The
  hash of the snapshot is a function of it and is left out.
- **TeamApi**: the store behind handlers. `Compose...` is a CLI command reading the state
  and sending a request, `Verify` is `verifyProtectedRequest`, `Handle...` is the rest of
  a handler. A request stays in `sent` for good: it can be delivered late, or again. An
  env push carries the sender's `propagate.yaml` (`env_push.go:233-296` sends it always),
  and so what is edited in it and not pushed (`EnvTargets` "edited"); the store publishes
  it and derives neither access nor envelopes from it. `handler[h].manages` is the
  management flag of the record that was read at verification and handed to the store, as
  in the code: the store looks up whether the sender is active again (`teamForActor`) but
  not the flag.
- **ConfigRevisions**: what the revision check is for, as a specification: a log in
  which every entry is an edit of the one before it. `TeamApi` implements it with
  `log <- published` and the tables of operations as `done`.
- **TeamInvites**: invites and join requests over the same store. Handlers work in
  two steps again; `BeginPIN` reads the bundle as `GetInviteScopeKeyBundle` does,
  `RedeemInvite`, `RefusePIN` and `RefuseInvite` are the three outcomes of
  `SubmitInvitePIN`. A PIN is right or wrong.
- **ReplayGuard**: nonces and time. Verification looks at the clock and accepts a
  timestamp that is off by `Skew` either way, and a later
  step sweeps expired nonces and reserves the request's, for `Skew + Margin`
  (`server.go:576` and `:598`, five minutes and one). `accepted` is a history variable:
  when each copy that passed was checked. The two statements of the
  SQL store's `ReserveNonce` are separate steps; the memory store does both under
  its lock, which is a special case.
- **SqlStore**: the `SQLStore` of one team. A transaction of a session (`tx[s]`) goes from
  statement to statement (`step`), and a statement waits while another transaction `holds`
  a row or a key it `Wants`: rows that were updated or selected `for update`, keys of
  unique indexes that were inserted (the tables and indexes are those of `migrations/`),
  and the share of the team's row that a foreign key takes. A plain `select` waits for
  nothing and sees what is committed (READ COMMITTED, the default that `BeginTx(ctx, nil)`
  leaves). What a transaction writes shows at its commit; `Cancel` is the request's
  context, `BreakDeadlock` Postgres. The statement that updates
  `teams.current_config_revision` goes with the commit, as nobody is waited for after it.
  A config is the set of people with authority in it, a coarser grain than `TeamStore`'s:
  here the question is which reads are still true at the commit. `Deliver` is a verified
  request (`GetMember`). A push of values publishes the config it is sent, edited or not,
  and writes none of the rules it lists (`sql.go:650-672`). The model implements
  `ConfigRevisions` as `TeamApi` does.
- **Workspace**: the `propagate.yaml` of several clones. A command reads the file
  when it starts (`Start` is `config.ReadProject`) and replaces it when it ends
  (`WriteFile` is `config.WriteRaw`), and in between other commands run, also in the
  same clone. `SaveEdit` is `config edit`, `scope create` or an editor; `Fetch` is
  `config pull` and the pull that `run` does; `CheckPush` is `config push`, `env push`
  and `env set` up to the request; `ServePush` is the store's answer, `Fail` any end
  without a write, and a push whose command has given up may be served later
  (`ServeLatePush`). A config is the set of settings in which it differs from the
  first one, `Own[w]` those that the people of clone w change, and `author` a history
  variable. The cloud is the log of `ConfigRevisions`, which `TeamApi` implements;
  `Admit` is an approval or a redemption, which adds a revision without a push.

- **EnvFiles**: the env files of one scope in several clones, the values and declarations
  of each revision (`cloud`), and the revision each clone's `propagate.yaml` is of
  (`yaml`; how it gets there is `Workspace`'s). `ReadFiles`, `Diff`, `ServePush` and
  `WriteYaml` are `env push` up to what it read, up to the request, the store's answer and
  the end; `ReadProject` and `Set` are `env set` up to the request; `Fetch`, `Plan` and
  one `WriteEnvFile` for each file are `env pull` (the code takes them in the order of
  their paths, the model in any). A push that arrives late is a command that lingers, and
  `Fail` ends a command between any two steps. `Declarations` does what the code does,
  with the scopes that its first pass leaves changed for the second. `Redeclared` is
  `updateScopeDeclarationsFromEnvPushDiff`: it makes declarations anew for what is in the
  diff, what is `Unchanged` included, and leaves those of a variable that neither the
  files nor the cloud have. A push with nothing to change goes through all the same if
  `propagate.yaml` is not in the form `RenderParsed` gives it (`configMetadataChanged`),
  which this module leaves open. Values are compared and never looked into; `Twice` is an
  assignment that occurs twice in a file. `base` and `edited` of a line are history, and
  so is `skipped` of a revision: the variables that a push left out, and keeps for as long
  as no later push takes them up. The version id of a value is the revision that gave it
  (`ChangedAt`). A digest, a literal or a preview in a declaration stands for the value it
  was made of. Who may read or write, and the signature, are `TeamApi`'s.

- **ScopeKeys**: which key a scope's values are sealed with and who holds which. A key is
  the number of the command that made it. `CountScopes`, `NoNewKeys` and `MakeKeys` are
  `config push` up to its request, with the count of scopes that decides whether it makes
  keys at all (`buildNewScopeEnvelopesIfNeeded`) and the second read that decides for
  which; `FetchBundle` is `env push`, which must open every value it fetches, and `env
  set`, which opens only the variable it is to set and writes that one; `StartInvite`, one
  `FetchKey` per scope and `CreateInvite` are `team invite`. The store's side is that of
  `TeamStore` seen from the keys: a push of config applies its snapshot and adds
  envelopes, a push of values publishes the sender's file and applies nothing of it, a
  redemption hands out what was fetched when the invite was made. Who may do what is
  coarser than in `TeamApi`: whoever is active and holds a key may use it. `dropped` is
  history.
- **Setup**: `init`, and what `quickstart` and `team join --init` do of it, in clones
  that share a home. Every step at which a command looks or writes is an action:
  `LookForIdentity` and `CreateIdentity` (`identity.Ensure`), `LookForProfile` and
  `WriteProfile` (`ensureProfile`), `LookForConfig` (`ExistingPath`), `Scan`, `Compose`
  (`NewProject` and `buildTeamSetupRequest`, which reads the env files once more),
  `Serve` (`CreateTeamSetup`) and `WriteConfig`; `Fail` ends a command between any two.
  A key pair and a team id are numbers that were not used before, as both are drawn at
  random. A team is what the cloud has of it at its first revision, with the id its
  values are sealed for. `overlapped` and `blind` are history.
- **ConfigEdit**: scopes and declarations of one `propagate.yaml`. Of its text there is
  `asRendered`: whether it is what `RenderParsed` makes of what it says. It need not be:
  `init` writes staging before prod (`config.go:239-242`, `:953-974`)
  and `RenderParsed` sorts by name (`:649`), and people lay files out and comment them
  (`LayOut`). `ConfigModified` compares texts (`config_edit.go:161`), so a file that is not
  as rendered is taken for changed (`Modified`). The editor is a
  record of what it read, what it holds, the screen and the place the person is at, and
  the changes made; a prompt is the set of its choices, and a cancel is possible on
  every screen. A declaration has the scope whose key its digest was made with, and the
  literal or preview that is in clear. Variables have a `Place`, which is the order of
  paths and names that `RenderParsed` and `sortEnvKeys` sort by; `Ordered` is that sort,
  as the one sequence in which each element has as many before it as its index says.
  `PushScope` is `env push` as far as declarations
  go: made when it starts (`Redeclared`), written when the store has answered.

`Mut...` operators are plausible bugs; nothing uses them. `PROJECT.json` says which
one breaks which property, to show that no property is idle.

## 3. Runs

| run | bounds | what it shows |
| --- | --- | --- |
| `config_push` | 3 people, 2 scopes (one to be created), 2 operation ids, 2 requests delivered any number of times, 2 handlers, 1 edit before a push (a permission, a member left out, a scope added or dropped), invites up to revision 2 | The interleavings of two managers' config pushes, approvals and declines, and of env pushes that publish unpushed edits. Three people are needed so that one manager can edit out another while a third joins; with two requests and two handlers every pair of requests is verified and applied in every order, which is what a lost update or stale authority takes, and a scope that is published before its key is made, or added after another one was dropped. |
| `env_push` | 2 people, 1 scope, 1 variable, 2 operation ids, 3 requests, 2 handlers | Three requests under two ids: a write, a change of the other's permission and a reuse of an id, the shortest history in which a blind overwrite or a double write shows. A push publishes nothing, the file it read or an edited one. The second person is given the management flag and no permission of their own, which is where the flag read at verification decides (`effectivePermission`), and can be demoted while a push of theirs is on its way. |
| `invites` | 2 people, 1 scope, 2 invites, 2 handlers | Two submissions (or a submission and a revocation, an approval, a decline) in every overlap. Four guesses are reachable, one more than the limit. |
| `replay` | 2 requests, 2 handlers, window 3 either way, margin 2, patience 1, time to 8 | Each request's window opens and closes, its nonce expires, and copies overlap. The window is wider than the margin, as in the code, so that a timestamp can be further ahead of the server's clock than the margin and a nonce be gone before the window closes. |
| `sql_store` | 1 manager and a joiner, 2 operation ids, 2 requests, 2 sessions, revisions expected below 3 | Every overlap of two transactions of each kind, a copy with its original among them, with cancellations, deadlocks, joins, declines and revocations in between. The joiner becomes a second manager; two sessions are what a race between two statements takes, and what the unique indexes and locks have to decide. |
| `workspace` | 2 clones, one own setting each, 2 overlapping commands, 3 revisions, 1 late push | Two commands overlap in one clone or in two; after two pushes a file can be two revisions behind with an edit, and a late push can meet a cloud that has moved on or not. |
| `pull_overwrites` | same | see section 6 |
| `env_files` | 1 clone, 2 env files, 1 name, 2 values, 2 overlapping commands, 3 revisions, 1 edited line at a time | Two commands in one clone are every overlap of a pull, a push and a set; commands of other clones are in it as a set or a push that lingers. People edit the second file only, and a clone may start with env files in which nothing is assigned, so that the first one differs by what the cloud does: a selection of one of two differences, a removal, a file pulled before and pushed after. Three revisions take a push made from the revision before, and the push after one that left an addition out whose line was then deleted. |
| `env_declarations` | 1 command, 2 edited lines | see section 6 |
| `scope_keys` | 2 members, 3 scopes of which 2 exist, 1 variable, 2 overlapping commands, 1 invite, 2 configs, 4 revisions, 3 keys | One config drops a scope, the other brings it back together with a new one: that is the least that makes a second key of a scope, and takes a push that drops, one that leaves the server's count of scopes below the file's, and one that brings back. The invite is fetched in one config and redeemed in another. |
| `setup` | 2 clones, 1 env file with one possible content, 2 overlapping commands, 2 key pairs, 2 teams | Two first commands in one clone or in two, each stopping anywhere; a second team is set up by a repeated `init`, a file comes by git while a command waits for its prompt or the cloud. |
| `config_edit` | six files of up to 2 scopes and 2 variables, one of them with declarations out of order, as rendered or laid out by a person at any time; 2 commands, 2 changes in a session | Two changes are a move and a toggle, a move and a move back, or a removal and a move into the place that is free; two commands are an editor with another one inside its session, or an editor after a push. |

`MaxRequests`, `MaxRevision`, `MaxLate`, `MaxEdited`, `MaxKeys`, `MaxTeams`, `MaxChanges`,
`MaxCommands` and `Horizon` are the only bounds; they are guards of the actions that would
count without end (`MaxEdited`: of edits while that many lines are edited already), and
`Imported` and `Own` limit what `init` imported and who edits what. Symmetry exchanges
handlers, operation ids, invites, commands, values, clones together with their own
settings, and people other than the one who set the team up; `sql_store`, which has a
liveness property, uses none. Deadlock is checked in `config_push`, `env_push`, `invites`,
`workspace`, `env_files`, `scope_keys`, `setup` and `config_edit`. `replay`
stops when time is up, `sql_store` when nobody who made a request has authority any more
(`HandlersEnd` says that nothing else stops), and of the runs that end in a violation none
is about it.

Fairness is assumed in `SqlStore` only, for `HandlersEnd`: a session whose next
statement is not blocked for good executes it or is ended by Postgres. It is strong,
since the row a statement waits for is free from time to time and Postgres queues
those who wait for it; that a row is given up at all is not assumed, it is what the
property shows. Nothing is assumed of clients, and `Cancel` need never happen. All
other properties are safety properties.

What the SQL store keeps it owes to its unique indexes: with `MutViolates`, which drops
the one on revisions, four of its properties fail, because `EnvPush` and
`appendMemberToConfigSnapshot` lock nothing that they read. `PublishersSeeEachOther`
is all that is left of the expected versions there (section 6, "A lost update").

Some properties deserve a word.

`NoBlindOverwrite` has an exception, and it is the code's: an upsert without
`expected_version_id` is not compared with anything (`memory.go:465`), so a variable a
sender takes for new is protected by the config revision alone. That is enough as
long as pushes that create variables publish a snapshot, which the CLI always does;
a push without one, which the API accepts, leaves the revision where it was.

`DeclaredUnlessSkipped` is what is left of `DeclaredAsStored` with a terminal that lets a
person select changes. With `--yes`, or where no change is left out, `skipped` stays
empty and the two are the same.

`EnforcedUnlessEdited` speaks of the permissions an entry states. A permission that is
not stated falls back to what the store has (`effectivePermission`): a manager is an
admin there.

`ScopeKeys` tells `env push` from `env set`; with the one variable of its run the two
open the same values.

Some properties leave out, by a condition in the property itself, a case in which the code
does not keep what they say. The case is in their runs, and TLC finds it there when the
condition is taken away; each of them says what is left:

- `EnforcedUnlessEdited`, and `PublishedUnlessEdited` of the SQL store: an entry that an env
  push edited, until the next config push applies it. Everybody else's access, and that
  person's afterwards, is what is published.
- `KeysUnlessMissed`: a scope that an env push published first, or that was added when a
  scope had been dropped before (section 6).
- `OnceUnlessAhead`: a request whose timestamp was ahead of the server's clock by the
  margin, less the time a handler takes (section 6). `KeptApart` holds of all requests: a
  copy never passes earlier than the nonce's full life after the one before.
- `DeclaredUnlessSkipped`: above.
- `UntouchedUnlessLaidOut`: a session that read a file that was not as rendered puts back
  what it read, and undoes what another command wrote meanwhile (section 6).
- `OneKeyUnlessDropped`: scopes that a config dropped after they had a key (`dropped`;
  section 6).
- `HomeKeepsItsKeys`: a home in which two commands have created an identity at the same
  time (`overlapped`; section 6).
- `EditsCanBeSaved`: files with a declaration whose env file its scope does not list
  (`AllMapped`; a scope that lists none takes declarations of any). A move may then end in
  a session that cannot be saved.

`InClearAsMarked` asks that a person marked the value once: a push that read the file before
the mark was taken away may bring it back in clear.

## 4. Proofs

`TeamApiProofs` (for any people, scopes, variables, operation ids, handlers, entries):

1. `TypeCorrect`: `Spec => []TypeOK`.
2. `Invariance`: the inductive invariant `IInv == TypeOK /\ RevisionNamesSnapshot /\
   VerifiedIsCurrent`. Neither of the last two conjuncts is about the step it is used
   for. That a push is accepted under current authority follows from
   `VerifiedIsCurrent`: a record read at verification can only be out of date if
   the revision has moved, because everything that changes an active member's
   record (a config push, an approval, a redemption) adds one to the revision; a
   join request touches keys that have no record and a decline keys that are
   pending. And the push names the revision it expects.
   `RevisionNamesSnapshot` gives that the expected revision existed when the request
   was made, so that it cannot come true again later.
3. `Authority`: `Spec => AcceptedByCurrentAuthority`, by `AuthorityStep`.
4. `RefinesRevisionLog`: `Spec => ImplementsRevisionLog`. Initial states map to
   initial states, a push to `Push` or `Commit`, an approval or a redemption to
   `Admit`, everything else to a stutter (`LogStep`).

5. `AnswersAgree`: `Spec => []OneAnswerPerOperation`, since every answer to a push is the
   record of its operation (`AnswersRecorded`) and a record stays what it was.
6. `ValuesStoredOnce`: `Spec => []EnvPushStoredOnce`. The invariant is `WrittenOnce`, which
   says of each variable at which places an operation is: at one if it is recorded as
   one that writes it, at none otherwise. A push takes effect only under an operation id
   that is not recorded, which is then at no place yet.
7. `NothingUnseenReplaced`: `Spec => NoBlindOverwrite`, from `IInv`, `WrittenOnce` and
   `NewIsNew`: what a push that can still be accepted took for new is not there, or was
   last written by a push that published nothing, because any other moves the revision.
8. `EnforcedAsPublished`: `Spec => []EnforcedUnlessEdited`, with no hypothesis about what
   clients publish. A config push applies what it publishes entry by entry, and its
   approvals are those its snapshot lists (`SentAsListed`); an admission writes the same
   grants to the snapshot and to the store; an env push that is accepted names the last
   revision, so that an entry it does not edit is published as before, and one it does is
   `Excused` until a config push comes after it (`RecordedPast` orders the two).
9. `ScopesHaveKeys`: `Spec => []KeysUnlessMissed`, without one either. A push that adds a
   scope is sent with its creator's key while the scope is in no revision and none was
   dropped (`NewScopesComeWithKeys`); as long as nothing is dropped the server's scopes are
   among the published ones (`ScopesKept`), so that the count of scopes shows each new
   one; nothing takes an envelope away, and the reasons by which a scope is left out last
   (`ReasonsStay`).

`AdminAssumption`, `GrantsAssumption`, `InitialScopesAssumption` (a team is set up with
finitely many of the scopes) and `NoneAssumption` only type the constants.

`TeamInvitesProofs` (for any people, scopes, invites, handlers and entries):
`InvitesTypeCorrect`, `RedeemedOnce`, `ThirdGuessLocks`, `EndedForGood` and `LetInAsTold`,
that is all that the run `invites` checks. Each property is inductive next to the types;
`InviteStep` reduces every step to what it does to one invite (made, revoked, guessed at,
redeemed) and `MembersStay` says that nothing here takes anything from a member.
`InviteGrantsAssumption`, `InviteScopesAssumption`, `NoGrantAssumption` and
`NoInviteAssumption` only type the constants and keep `None` apart from what is there.

`SqlStoreProofs` (for any people, operations and sessions): `SqlTypeCorrect`,
`AccessIsPublished`, `PublishersHaveSeen`, `PublishersHaveAuthority`,
`AdmissionsArePending` and `SqlImplementsLog`, that is every safety property of the run
`sql_store`. The inductive invariant `SqlInv` has three parts besides the types and
`PublishedUnlessEdited`. Revisions are numbered 1 to the current one (`RevisionsNumbered`), and
a push that was sent is an edit of the revision it names by somebody with authority in
it, who, while that is still the last one, has seen every published value
(`SentAgainstRevision`, `SentHavingSeen`). Two transactions hold nothing that excludes
each other (`LocksExclude`). And each transaction is in order for the statement it is at
(`TransactionsInOrder`): what it read under no lock may be out of date, but a row it has
inserted for revision n holds n's key in the unique index, and was inserted while n had no
row, so n is the next one (`HasNext`); nobody else can be at the commit of one
(`NobodyElse`), and the config it commits was made from the last (`MadeFromCurrent`). That is
why a `select` under no lock is enough for a push that publishes, and why it is not
for one that does not (section 6, "A lost update"). A commit maps to `Push`, `Commit` or
`Admit` of the log, every other statement to a stutter (`StepInLog`).
`NoneAssumption`, `NoValueAssumption` and `PeopleAssumption` keep `None` apart from what is
there and the joiner apart from the managers.

Its last section has `ReplayGuard`, which is about the nonces in the same database:
`NoncesKeptApart` and `AcceptedOnceUnlessAhead`, for any window, margin and patience
(`TimesAssumption` types the times and relates none of them). The invariant says that a
handler at work on a request checked it in the window (`CheckedInWindow`), and that an
accepted request is remembered for its full life or that this life is over
(`RememberedUntilOver`; `ReservedAnew` is the step where it matters). So a second copy
passes only `Skew + Margin` after the first, less a handler's patience (`OverByThen`), and
as it is then still in its window, its timestamp was ahead by that much less `Skew`
(`AheadByMargin`). The margin is the one minute the API adds to a nonce's life
(`server.go:598`); what happens beyond it is in section 6.

`WorkspaceProofs` (for any clones, settings and commands): `FilesAreEdits` and
`NoLostChange`. The inductive invariant is `TypeOK /\ BuildsOnRevision /\
PushesChangeOnlyOwn`; `BuildsOnRevision` says of the files, of the commands that have
read or fetched one and of the pushes on their way that each is an edit, by its own
clone, of the revision it names. A revision that was published stays what it was, so
an edit of it stays one when the log grows (`EditsLast`), and a push that is accepted
names the last revision, so the new one differs from it by the clone's own changes.
Its assumptions, `OwnAssumption` and `NoneAssumption`, type the constants.

`EnvFilesProofs` (for any clones, files, names, values and commands): `EnvTypeCorrect`,
`DeclarationsMatch`, `LinesFromRevisions` and `ApprovedOnly`. The inductive invariant is
`EnvTypeOK /\ DeclaredUnlessSkipped /\ LinesComeFromTheirRevision /\ CommandsCome`, and
`CommandsCome` is the part that is not checked as a property of its own: a push on its way
declares what the values of the revision it was compared with will be with its payload,
but of what was skipped (`PushDeclares`, from `DiffKeeps`), and each line of a merge that
is planned is of a revision. Both stay true when the log grows (`CommandInLongerLog`), and
a push is accepted only while that revision is the last. `ChangedGives` has the one
argument about numbers: after the last change up to n the value is the one at n, by the
least counterexample. `DeclaresLocal` is the fact behind section 6, item 2: whatever is
approved, the declarations are made of all local values. `ApprovedOnly` is an action
property and follows from `CommandsCome`. The assumptions type the constants and have
`Absent`, `Twice` and the values differ.

`ScopeKeysProofs` (for any members, scopes, variables, commands, invites and configs):
`KeysTypeCorrect`, `OneKeyOfKeptScopes` and `StoredUnderHeldKey`. The inductive invariant
is `KInv == KeysTypeOK /\ KnownWasPublished /\ UnknownHasNoKey /\ KeptHasOneKey /\
CommandsHold`. That a scope has one key is about everything that holds one at once: the
envelopes, the values, the invites and what commands carry. It is kept because a scope
gets a fresh key only where the server's count of scopes or the cloud's snapshot does not
have it, and `CommandsHold` says of a command on its way that what it makes a
key for is not in the config of the revision it names, so that with the revision unmoved
nobody has given the scope another key meanwhile (`NextRevisionHolds`).

`SetupProofs` (for any clones, env files, contents and commands): `SetupTypeCorrect`,
`HomeKeepsItsIdentity`, `FilesDescribeTeams` and `FilesReplacedUnseenOnly`. The inductive
invariant is `SInv == SetupTypeOK /\ HomeOurs /\ RequestsServed /\
FileDescribesItsTeam /\ BlindKnown`; `RequestsServed` says of a command that waits for
the cloud, or has its answer, which team that answer is about, and `HomeOurs` that the
home has the private key of every public key that commands, teams, files and the profile
name, unless two commands have created an identity at once.

`NoneAssumption`, `NoFileAssumption`, `AdminAssumption`, `InitialAssumption`,
`ConfigsAssumption` and `OffersAssumption` only type the constants of these two.

`ConfigEditProofs` (for any scopes, env files, variables and values): `EditTypeCorrect`,
`EditsStaySavable`, `DeclarationsAreSingle`, `SummaryIsTrue`, `ClearIsMarked` and
`UntouchedStays`, that is all that the run `config_edit` checks and the types. The
inductive invariant `EditInv` says of what is stored, in the file or about to be written
by a push, that scopes have different names, each variable is declared once, what is
sensitive is hidden and what is not is marked, and, where the text is as rendered or a
push is about to write it, that declarations are in order (`FilesStored`); and of what the
editor holds the same without the order, where `Noted` adds to the marked what `Save`
would mark (`EditorHolds`). The argument has two lemmas at its core. An operation of the
editor takes one declaration of one scope away and gives one or none (`ReplacedInPlace`,
`ReplacedElsewhere`, `ReplacedByNone`), and a change whose line describes it (`Describes`)
then extends the replayed summary by exactly that (`ReplacedIsDescribed`, `OneMore`). And
`Ordered` orders (`OrderedOrders`): the elements of a finite strict total order have the
ranks 0 to n - 1, each once, by counting and without an induction, so that a sort gives
back a sequence that was in order (`SortedKeepsOrder`), which is what `ConfigModified`
relies on for a session without a change. That a file which is as rendered has its
declarations in order is proved; that others do is not assumed. `VariablesAssumption` has
finitely many variables, each with a place and a file; `ImportedAssumption` says of the
files there are to begin with what the commands that wrote them leave, that is each
variable once and what is sensitive hidden, as `Init` takes them from `Imported`;
`BoundAssumption`, `ValueAssumption` and `NoneAssumption` only type the constants.

Every safety property of a passing run has a theorem that states it, with no hypothesis
but the assumptions named here. Only model-checked is `HandlersEnd`: liveness under
fairness is out of the prover's reach. Nothing here is proved by induction over data;
where an argument is about numbers or places it goes by a least counterexample or by
counting.

## 5. What is left out

- Of env files: the syntax of a line, values with line breaks, which a pull refuses, and
  the permissions of files. `EnvFiles` takes the files a scope has for given; `Setup` has
  the scan that finds them.
- Of the config editor: literals are shown or not, and what the preview of a long value
  keeps of it is left out (`cli/config_edit.go`'s truncation); the screens, their keys and
  the wording of a summary.
- An edit of a file between a pull's plan and its write is lost, in the code and in
  `EnvFiles`, and no property says otherwise: no document speaks of it.
- In the SQL store: setup, removals of variables, wrong PINs (`TeamInvites` has them),
  reads, the pool of connections, and which scope a permission or an envelope is for.
  An approval that grants scopes or carries envelopes always fails there
  (`sql_join_requests.go:86` and `:102` name a column and conflict targets that no
  migration defines); `LockPending` refuses it.
- A `propagate.yaml` of a team that is not in the cloud (`sync_status` "local"), and a
  merge of a `propagate.yaml` by git that mixes two revisions. A person who edits
  `cloud_revision` by hand is outside the model.
- Edits that two commands save in one clone at the same time: the later write wins in
  the code, in `Workspace` and in `ConfigEdit`, and no property says otherwise
  (`UntouchedUnlessLaidOut` only has a session write nothing it did not change).
- Audit rows, pull events, listings and the status commands (`team status`, `sync
  status`, `config status`): they change nothing, and nothing that decides reads them.
- The terminal: line and key handling of prompts, multiple choice and editors, styles and
  tables. A prompt is a choice, and its end without an answer is a command that stops.
- Dry runs, which stop before the first write, and the agent guidance `init` may add to
  other files.
- Encryption is which key a ciphertext or an envelope was made with; the algorithms, and
  what a relay or a member does with a key it once had, are outside.
- One team: operations name the team and teams share nothing but the nonces.
- Two entries of one key in a snapshot's member list.
- A restart: the memory store keeps nothing, so there is nothing to recover.

## 6. Where code and documents disagree

Two have a run whose counterexample is short.

1. *A pull that overwrites edits without asking* (`pull_overwrites`).
   `hasLocalUnpushedConfig` (`config_pull.go:202-213`) recognises edits while the cloud
   is at the revision of the file. Once it has moved on it goes by `sync_status`, and
   every command that saves an edit leaves that at "synced".
   `internal-docs/propagate-cli-implementation-guide.md:541` has a pull refuse to
   overwrite local unpushed changes without confirmation.
2. *Declarations of what was not pushed* (`env_declarations`), a bug.
   `updateScopeDeclarationsFromEnvPushDiff` writes to `project.Scopes[scopeIdx]`, and a
   `ParsedProject` that is passed by value shares its `Scopes` with the caller's
   (`env_declarations.go:95`). `runEnvPush` calls it for all changes (`env_push.go:233`)
   and, if a person left some out, for the others (`:266`), which starts from the
   declarations the first call left. So a change that was left out is declared with its
   local value, an addition is declared and not stored, and a removal that was left out
   has its declaration removed. `env_declarations_test.go:113` and `:117` ("skipped
   changed variable was modified") say what is meant; they call the function once.

The others were met while modelling; the models have them (a guard, a nondeterministic
choice or the exception of a property stands for them), and no run is spent on them.

Of several actors:

- *A lost update on Postgres.* `envPushConflictsSQL` (`sql.go:1084`) compares the
  expected versions under no lock; `upsertSQL` locks the variable later and does not
  compare again. Two pushes without a snapshot that replace the same version can both
  succeed, and the later one overwrites a value nobody has seen. The API guide has
  a snapshot only "when variable declarations changed" (`:551`); this CLI sends one
  always, so it takes another client of the API, or a later CLI, to get there.
  `internal-docs/propagate-api-implementation-guide.md:582` has the second refused with
  `secret_version_conflict`, as the memory store does. A push with a snapshot is safe:
  the revision's unique key stops one of the two (`PublishersSeeEachOther`).
- *A request that passes twice.* A timestamp may be five minutes ahead of the server's
  clock (`server.go:576`), while the nonce is kept for five minutes and one from the moment
  it is seen (`:598`; `server_invites.go:131` and `:144`). A client whose clock is more than
  a minute ahead has its request's nonce dropped before the request's window closes.
  `internal-docs/propagate-technical-design.md:582` has a nonce accepted once, and `:698`
  has it kept until a copy is no longer useful. `OnceUnlessAhead` says that no other request
  passes twice, and the store's own checks (revisions, operation ids) are not touched by this.
- *A scope without a key, by an env push.* `env push` publishes the local yaml with a scope
  that was only created locally, and applies nothing of it (`memory.go:534`). The next
  `config push` finds the scope in the cloud's snapshot (`cli/config.go:358`) and makes no
  key for it; `internal-docs/propagate-prd.md:512-514` has that push create one. An edited
  permission is published and not enforced in the same way, until a config push applies it;
  no document speaks of that.
- *A scope without a key, after a drop.* The CLI makes keys only if the file has more scopes
  than the server knows (`cli/config.go:331`), and the server forgets none. With one scope
  dropped, the next new one gets no key; `internal-docs/propagate-technical-design.md:864`
  has a key made for each new scope.
- *A second key.* A scope that a config dropped and another brings back together with a
  new one gets a fresh key (`cli/config.go:358` makes one for every scope that is not in
  the cloud's snapshot when the server counts fewer scopes than the file), while the
  values stored before stay under the first. A pull, and an env push, which compares with
  what is stored, then fail for that scope. `internal-docs/propagate-technical-design.md:170`
  gives each scope one key, and `internal-docs/propagate-prd.md:414` has new scopes get one.
- *Old values pushed over new ones.* The version an upsert expects is that of the bundle
  `env push` has just fetched (`env_push.go:556`), so it guards the time between diff and
  answer only. Env files know nothing of versions, and once `propagate.yaml` has been
  brought up to date, an `env push` from env files that were not pulled since undoes what
  others have stored. A person sees it as a change among the others in the diff; with
  `--yes` nobody does. `docs/whitepaper.mdx:243` has the server reject stale writes when
  another user changed the secret first.
- *A lost private key.* Two first commands in one home both generate an identity
  (`identity.go:72-109`); the one that writes last replaces the private key of the other,
  which may have set a team up with it.
- *An edit undone by a session that changed nothing.* `config edit` compares the text it would
  render with the text it read (`config_edit.go:161`), and the two differ for a file that is
  not as rendered, `init`'s own with the scopes staging and prod among them. Such a session,
  ended with a save, writes back what it read, and another command's write in between is
  gone. No document speaks of a session without a change.
- *A file from git written over.* `init` looks for `propagate.yaml` when it starts
  (`init.go:178`) and writes it at the end (`:280`), without another look; the prompts and
  the request lie between. `internal-docs/propagate-prd.md:217` does not have it
  overwrite an existing config.

Of one actor and a retry:

- *A second team.* An `init` that is repeated after its answer was lost draws new
  operation and team ids (`init.go:309`), and the first team stays with nobody using it.
  `internal-docs/propagate-technical-design.md:1390` has a retry use the same operation id.
- *No way to the cloud.* A project that was set up locally (`init.go:299`) is taken by the
  next `init` for a configured one (`:178-195`), and no other command registers a team.
- *An invite for all scopes.* A bundle that names no scope carries the keys of all
  (`team_invite.go:179`); `internal-docs/propagate-technical-design.md:526` has one entry
  per granted scope.

Of the config editor:

- The toggle of sensitivity reads env files (`config_edit.go:313-343`), and the literal it
  writes is the value of the local file, which need not be the one declared; toggling
  twice loses the digest. `internal-docs/propagate-technical-design.md:746` and
  `propagate-prd.md:551` have it read none.
- A moved declaration keeps a digest made with the key of the scope it left
  (`:190` of the technical design has the containing scope's key).
- A scope that lists no env files accepts declarations of any (`config.go:741-771`;
  compare `:768` of the technical design).
- An answer that is not understood at the closing question ends the session and all of
  its changes.

Each plain from one call: a member whom a config push
leaves out of the snapshot keeps the record and the envelopes they have, as
`applySnapshot` adds and updates only (`memory.go:749`; compare
`internal-docs/propagate-technical-design.md:203-205`); a config push that gives somebody
read access to an existing scope needs no envelope for them (`memory.go:346`; compare
`internal-docs/propagate-api-implementation-guide.md:466`); `CreateTeamInvite` does not
look at the operation id (`memory.go:885`; compare `:1021` of the same guide); an
approval that grants scopes fails on Postgres (section 5).

## 7. Plan

In order of what matters most; each item is a module with its MC module and runs.

1. Done: `TeamStore`, `TeamApi`, `TeamInvites`, `ReplayGuard`, the abstract log, the
   proofs above.
2. Done: `Workspace` and its proofs, `ScopeKeys` (generations of scope keys) and its
   proofs. Left: under fairness of a clone's retries, that an edit is pushed eventually
   or refused; `ScopeKeys` as a refinement of the envelopes of `TeamStore`.
3. Done: `SqlStore` and its proofs. Left: setup and wrong PINs in it, and a proof that its
   transactions, taken one commit at a time, are the methods of `TeamStore`.
4. Done: `EnvFiles` and its proofs. Left: `PlanMerge` on the lines of one file (endings,
   preserved lines, repeated assignments) against a reference definition, and `run`,
   which pulls before it starts a process.
5. Done: `Setup` (an `init` with a lost answer and interrupted writes, the two-file
   identity) and its proofs. Left: `init`'s invites and its agent files.
6. Done: `ConfigEdit` and its proofs. Left: its composition with `EnvFiles`, whose
   declarations carry no scope.
7. Done: the proofs of `TeamInvites` and of all properties of `TeamApi`. Left: the cloud of
   `Workspace` as a refinement of `ConfigRevisions`.
