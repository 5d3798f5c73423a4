-------------------------- MODULE WorkspaceProofs --------------------------
(***************************************************************************)
(* Proofs about Workspace, for any clones, settings and commands: files,   *)
(* commands and pushes on their way never lose sight of the revision they  *)
(* were made from, and so no push undoes another clone's change.           *)
(***************************************************************************)
EXTENDS Workspace, TLAPS

USE DEF Kinds

\* EditsItsRevision against any log of revisions.
EditsRevisionOf(log, f, w) ==
    /\ f.revision \in 1 .. Len(log)
    /\ Diff(f.config, log[f.revision]) \subseteq Own[w]

\* What is read, pushed and about to be written is an edit of the revision it
\* names, like the files themselves.
BuildsOnRevision ==
    /\ FilesEditTheirRevision
    /\ \A p \in Commands :
        command[p] # None => EditsItsRevision(command[p].file, command[p].clone)
    /\ \A push \in late : EditsItsRevision(push.file, push.clone)

IInv == TypeOK /\ BuildsOnRevision /\ PushesChangeOnlyOwn

-----------------------------------------------------------------------------
(* Facts about edits.                                                      *)

LEMMA EditOfLog ==
    ASSUME NEW f, NEW w
    PROVE  EditsItsRevision(f, w) <=> EditsRevisionOf(cloud, f, w)
BY DEF EditsItsRevision, EditsRevisionOf, Revision

LEMMA EditOfNextLog ==
    ASSUME NEW f, NEW w
    PROVE  EditsItsRevision(f, w)' <=> EditsRevisionOf(cloud', f, w)
BY DEF EditsItsRevision, EditsRevisionOf, Revision

\* A revision that was published stays what it was.
LEMMA EditOfLongerLog ==
    ASSUME NEW log \in Seq(SUBSET Settings), NEW config \in SUBSET Settings,
           NEW f \in File, NEW w \in Clones, EditsRevisionOf(log, f, w)
    PROVE  EditsRevisionOf(Append(log, config), f, w)
BY DEF EditsRevisionOf, File

\* Another change of the clone's own makes another edit.
LEMMA EditedAgain ==
    ASSUME NEW log, NEW f \in File, NEW w \in Clones, EditsRevisionOf(log, f, w),
           NEW change \in SUBSET Own[w]
    PROVE  EditsRevisionOf(log, [f EXCEPT !.config = Diff(f.config, change)], w)
BY DEF EditsRevisionOf, File, Diff

LEMMA PublishedIsEdit ==
    ASSUME NEW log \in Seq(SUBSET Settings), NEW n \in 1 .. Len(log), NEW w \in Clones
    PROVE  EditsRevisionOf(log, [config |-> log[n], revision |-> n], w)
BY DEF EditsRevisionOf, Diff

LEMMA DiffType ==
    ASSUME NEW config \in SUBSET Settings, NEW w \in Clones, NEW change \in SUBSET Own[w]
    PROVE  Diff(config, change) \in SUBSET Settings
BY OwnAssumption DEF Diff

\* The config and the revision of a file are what its record says.
LEMMA PublishedIsFile ==
    ASSUME TypeOK, NEW n \in 1 .. Revision
    PROVE  InCloud(n) \in File
BY DEF TypeOK, InCloud, File, Revision

LEMMA CommandFields ==
    ASSUME TypeOK, NEW p \in Commands, command[p] # None
    PROVE  /\ command[p] \in Command
           /\ command[p].clone \in Clones
           /\ command[p].file \in File
BY DEF TypeOK, Command

-----------------------------------------------------------------------------
(* Type correctness.                                                       *)

LEMMA InitType == Init => TypeOK
<1> SUFFICES ASSUME Init PROVE TypeOK
  OBVIOUS
<1>1. cloud \in Seq(SUBSET Settings) /\ author \in Seq(Clones)
  BY DEF Init
<1>2. file \in [Clones -> File]
  BY DEF Init, InCloud, File
<1> QED
  BY <1>1, <1>2 DEF Init, TypeOK

LEMMA AdvanceType ==
    ASSUME TypeOK, NEW p \in Commands, command[p] # None,
           NEW step \in Kinds \cup {"pushing", "writing"}, NEW f \in File,
           Advance(p, step, f)
    PROVE  command' \in [Commands -> Command \cup {None}]
<1> DEFINE next == [command[p] EXCEPT !.step = step, !.file = f]
<1>1. command' = [command EXCEPT ![p] = next]
  BY DEF Advance, TypeOK
<1>2. next \in Command
  BY CommandFields DEF Command
<1> QED
  BY <1>1, <1>2 DEF TypeOK

LEMMA EndType ==
    ASSUME TypeOK, NEW p \in Commands, End(p)
    PROVE  command' \in [Commands -> Command \cup {None}]
BY DEF TypeOK, End

LEMMA StartType ==
    ASSUME TypeOK, NEW p \in Commands, NEW w \in Clones, NEW kind \in Kinds,
           Start(p, w, kind)
    PROVE  TypeOK'
<1> DEFINE started == [step |-> kind, clone |-> w, file |-> file[w]]
<1>1. started \in Command
  BY DEF TypeOK, Command
<1>2. command' = [command EXCEPT ![p] = started]
  BY DEF Start
<1>3. command' \in [Commands -> Command \cup {None}]
  BY <1>1, <1>2 DEF TypeOK
<1> QED
  BY <1>3 DEF Start, TypeOK

LEMMA SaveEditType ==
    ASSUME TypeOK, NEW p \in Commands, SaveEdit(p)
    PROVE  TypeOK'
<1> DEFINE w == command[p].clone
           read == command[p].file
<1>1. w \in Clones /\ read \in File
  BY CommandFields DEF SaveEdit, At
<1>2. PICK change \in SUBSET Own[w] :
        file' = [file EXCEPT ![w] = [read EXCEPT !.config = Diff(read.config, change)]]
  BY DEF SaveEdit
<1>3. [read EXCEPT !.config = Diff(read.config, change)] \in File
  <2>1. Diff(read.config, change) \in SUBSET Settings
    BY <1>1, DiffType DEF File
  <2> QED
    BY <1>1, <2>1 DEF File
<1>4. file' \in [Clones -> File]
  BY <1>2, <1>3 DEF TypeOK
<1> QED
  BY <1>4, EndType DEF SaveEdit, TypeOK

LEMMA RevisionType ==
    ASSUME TypeOK, BuildsOnRevision, NEW p \in Commands, command[p] # None
    PROVE  Revision \in Nat \ {0}
BY CommandFields DEF BuildsOnRevision, EditsItsRevision, Revision, File, TypeOK

LEMMA FetchType ==
    ASSUME TypeOK, BuildsOnRevision, NEW p \in Commands, Fetch(p)
    PROVE  TypeOK'
<1>1. command[p] # None
  BY DEF Fetch, At
<1>2. InCloud(Revision) \in File
  BY <1>1, RevisionType, PublishedIsFile
<1>3. command' \in [Commands -> Command \cup {None}]
  BY <1>1, <1>2, AdvanceType, EndType DEF Fetch
<1> QED
  BY <1>3 DEF Fetch, TypeOK

LEMMA AskToPushType ==
    ASSUME TypeOK, NEW p \in Commands, command[p] # None,
           NEW config \in SUBSET Settings, AskToPush(p, config)
    PROVE  command' \in [Commands -> Command \cup {None}]
<1>1. [command[p].file EXCEPT !.config = config] \in File
  BY CommandFields DEF File
<1> QED
  BY <1>1, AdvanceType DEF AskToPush

LEMMA CheckPushType ==
    ASSUME TypeOK, NEW p \in Commands, CheckPush(p)
    PROVE  TypeOK'
<1>1. /\ command[p] # None /\ command[p].clone \in Clones
      /\ command[p].file.config \in SUBSET Settings
  BY CommandFields DEF CheckPush, At, File
<1>2. PICK change \in SUBSET Own[command[p].clone] :
        AskToPush(p, Diff(command[p].file.config, change))
  BY DEF CheckPush
<1>3. Diff(command[p].file.config, change) \in SUBSET Settings
  BY <1>1, DiffType
<1>4. command' \in [Commands -> Command \cup {None}]
  BY <1>1, <1>2, <1>3, AskToPushType
<1> QED
  BY <1>4 DEF CheckPush, TypeOK

LEMMA AcceptsType ==
    ASSUME TypeOK, NEW push \in Push, Accepts(push) \/ Refuses(push)
    PROVE  cloud' \in Seq(SUBSET Settings) /\ author' \in Seq(Clones)
<1>1. push.clone \in Clones /\ push.file.config \in SUBSET Settings
  BY DEF Push, File
<1>2. CASE Accepts(push)
  BY <1>1, <1>2 DEF Accepts, TypeOK
<1>3. CASE Refuses(push)
  BY <1>3 DEF Refuses, TypeOK
<1> QED
  BY <1>2, <1>3

LEMMA ServePushType ==
    ASSUME TypeOK, BuildsOnRevision, NEW p \in Commands, ServePush(p)
    PROVE  TypeOK'
<1> DEFINE push == [clone |-> command[p].clone, file |-> command[p].file]
<1>1. command[p] # None /\ push \in Push
  BY CommandFields DEF ServePush, At, Push
<1>2. [push.file EXCEPT !.revision = Revision + 1] \in File
  BY <1>1, RevisionType DEF Push, File
<1>3. command' \in [Commands -> Command \cup {None}]
  BY <1>1, <1>2, AdvanceType, EndType DEF ServePush
<1>4. Accepts(push) \/ Refuses(push)
  BY DEF ServePush
<1> QED
  BY <1>1, <1>3, <1>4, AcceptsType DEF ServePush, TypeOK

\* What the server makes of the last revision, as if it had been pushed.
LEMMA AdmitIsPush ==
    ASSUME TypeOK, NEW w \in Clones, Admit(w), cloud # <<>>
    PROVE  \E push \in Push :
                Accepts(push) /\ EditsRevisionOf(cloud, push.file, push.clone)
<1>1. Revision \in 1 .. Revision /\ InCloud(Revision) \in File
  BY PublishedIsFile DEF Revision, TypeOK
<1>2. PICK joined \in SUBSET Own[w] :
        Accepts([clone |-> w,
                 file |-> [InCloud(Revision) EXCEPT !.config = Diff(@, joined)]])
  BY DEF Admit
<1> DEFINE next == [InCloud(Revision) EXCEPT !.config = Diff(InCloud(Revision).config, joined)]
<1>3. EditsRevisionOf(cloud, InCloud(Revision), w)
  BY <1>1, PublishedIsEdit DEF InCloud, Revision, TypeOK
<1>4. next \in File /\ EditsRevisionOf(cloud, next, w)
  BY <1>1, <1>3, EditedAgain, DiffType DEF File
<1>5. [clone |-> w, file |-> next] \in Push
  BY <1>4 DEF Push
<1> QED
  BY <1>2, <1>4, <1>5

LEMMA CheckoutType ==
    ASSUME TypeOK, NEW w \in Clones, Checkout(w)
    PROVE  TypeOK'
<1>1. PICK n \in 1 .. Revision : file' = [file EXCEPT ![w] = InCloud(n)]
  BY DEF Checkout
<1>2. file' \in [Clones -> File]
  BY <1>1, PublishedIsFile DEF TypeOK
<1> QED
  BY <1>2 DEF Checkout, TypeOK

LEMMA TypeStep ==
    ASSUME TypeOK, BuildsOnRevision, [Next]_vars
    PROVE  TypeOK'
<1>1. ASSUME NEW p \in Commands, WriteFile(p)
      PROVE  TypeOK'
  <2>1. command[p].clone \in Clones /\ Written(p) \in File
    BY <1>1, CommandFields DEF WriteFile, At, Written
  <2>2. file' \in [Clones -> File]
    BY <1>1, <2>1 DEF WriteFile, TypeOK
  <2> QED
    BY <1>1, <2>2, EndType DEF WriteFile, TypeOK
<1>2. ASSUME NEW p \in Commands, Fail(p)
      PROVE  TypeOK'
  <2>1. [clone |-> command[p].clone, file |-> command[p].file] \in Push
    BY <1>2, CommandFields DEF Fail, Push
  <2>2. late' \in SUBSET Push
    BY <1>2, <2>1 DEF Fail, TypeOK
  <2> QED
    BY <1>2, <2>2, EndType DEF Fail, TypeOK
<1>3. ASSUME NEW push \in late, ServeLatePush(push)
      PROVE  TypeOK'
  <2>1. push \in Push
    BY DEF TypeOK
  <2> QED
    BY <1>3, <2>1, AcceptsType DEF ServeLatePush, TypeOK
<1>4. ASSUME NEW w \in Clones, Admit(w)
      PROVE  TypeOK'
  <2>1. cloud # <<>>
    BY DEF BuildsOnRevision, FilesEditTheirRevision, EditsItsRevision, Revision
  <2>2. PICK push \in Push : Accepts(push)
    BY <1>4, <2>1, AdmitIsPush
  <2> QED
    BY <1>4, <2>2, AcceptsType DEF Admit, TypeOK
<1>5. ASSUME UNCHANGED vars
      PROVE  TypeOK'
  BY <1>5 DEF vars, TypeOK
<1> QED
  BY <1>1, <1>2, <1>3, <1>4, <1>5, StartType, SaveEditType, FetchType, CheckPushType, ServePushType, CheckoutType
  DEF Next, Run

-----------------------------------------------------------------------------
(* Files, commands and pushes edit the revision they name.                 *)

\* The revisions there are stay; one may be added, which an edit of the last
\* one makes.
LEMMA CloudStep ==
    ASSUME IInv, [Next]_vars
    PROVE  \/ UNCHANGED <<cloud, author>>
           \/ \E push \in Push :
                Accepts(push) /\ EditsRevisionOf(cloud, push.file, push.clone)
<1>1. ASSUME NEW p \in Commands, ServePush(p)
      PROVE  \/ UNCHANGED <<cloud, author>>
             \/ \E push \in Push :
                  Accepts(push) /\ EditsRevisionOf(cloud, push.file, push.clone)
  <2> DEFINE push == [clone |-> command[p].clone, file |-> command[p].file]
  <2>1. command[p] # None
    BY <1>1 DEF ServePush, At
  <2>2. push \in Push
    BY <2>1, CommandFields DEF IInv, Push
  <2>3. EditsRevisionOf(cloud, push.file, push.clone)
    BY <2>1, EditOfLog DEF IInv, BuildsOnRevision
  <2>4. Accepts(push) \/ Refuses(push)
    BY <1>1 DEF ServePush
  <2> QED
    BY <2>2, <2>3, <2>4 DEF Refuses
<1>2. ASSUME NEW push \in late, ServeLatePush(push)
      PROVE  \/ UNCHANGED <<cloud, author>>
             \/ Accepts(push) /\ EditsRevisionOf(cloud, push.file, push.clone)
  BY <1>2, EditOfLog DEF ServeLatePush, Refuses, IInv, BuildsOnRevision
<1>3. late \subseteq Push
  BY DEF IInv, TypeOK
<1>4. ASSUME NEW w \in Clones, Admit(w)
      PROVE  \E push \in Push :
                Accepts(push) /\ EditsRevisionOf(cloud, push.file, push.clone)
  <2>1. cloud # <<>>
    BY DEF IInv, BuildsOnRevision, FilesEditTheirRevision, EditsItsRevision, Revision
  <2> QED
    BY <1>4, <2>1, AdmitIsPush DEF IInv
<1> QED
  BY <1>1, <1>2, <1>3, <1>4
  DEF Next, Run, vars, Start, SaveEdit, Fetch, CheckPush,
      WriteFile, Fail, Checkout

LEMMA EditsLast ==
    ASSUME IInv, [Next]_vars, NEW f \in File, NEW w \in Clones,
           EditsRevisionOf(cloud, f, w)
    PROVE  EditsRevisionOf(cloud', f, w)
<1>1. CASE UNCHANGED <<cloud, author>>
  BY <1>1
<1>2. ASSUME NEW push \in Push, Accepts(push)
      PROVE  EditsRevisionOf(cloud', f, w)
  <2>1. push.file.config \in SUBSET Settings /\ cloud' = Append(cloud, push.file.config)
    BY <1>2 DEF Push, File, Accepts
  <2> QED
    BY <2>1, EditOfLongerLog DEF IInv, TypeOK
<1> QED
  BY <1>1, <1>2, CloudStep

\* Every write of a file is of an edit of its revision.
LEMMA FileStep ==
    ASSUME IInv, [Next]_vars, NEW w \in Clones
    PROVE  EditsRevisionOf(cloud, file'[w], w)
<1>1. EditsRevisionOf(cloud, file[w], w)
  BY EditOfLog DEF IInv, BuildsOnRevision, FilesEditTheirRevision
<1>2. ASSUME NEW p \in Commands, command[p] # None
      PROVE  /\ command[p].clone \in Clones /\ command[p].file \in File
             /\ EditsRevisionOf(cloud, command[p].file, command[p].clone)
  BY <1>2, CommandFields, EditOfLog DEF IInv, BuildsOnRevision
<1>3. ASSUME NEW p \in Commands, SaveEdit(p)
      PROVE  EditsRevisionOf(cloud, file'[w], w)
  <2> DEFINE v == command[p].clone
             read == command[p].file
  <2>1. PICK change \in SUBSET Own[v] :
          file' = [file EXCEPT ![v] = [read EXCEPT !.config = Diff(read.config, change)]]
    BY <1>3 DEF SaveEdit
  <2>2. EditsRevisionOf(cloud, [read EXCEPT !.config = Diff(read.config, change)], v)
    BY <1>2, <1>3, EditedAgain DEF SaveEdit, At
  <2> QED
    BY <1>1, <2>1, <2>2 DEF IInv, TypeOK
<1>4. ASSUME NEW p \in Commands, WriteFile(p)
      PROVE  EditsRevisionOf(cloud, file'[w], w)
  BY <1>1, <1>2, <1>4 DEF WriteFile, At, Written, IInv, TypeOK
<1>5. ASSUME NEW v \in Clones, Checkout(v)
      PROVE  EditsRevisionOf(cloud, file'[w], w)
  <2>1. PICK n \in 1 .. Len(cloud) : file' = [file EXCEPT ![v] = InCloud(n)]
    BY <1>5 DEF Checkout, Revision
  <2>2. EditsRevisionOf(cloud, InCloud(n), v)
    BY <2>1, PublishedIsEdit DEF InCloud, IInv, TypeOK
  <2> QED
    BY <1>1, <2>1, <2>2 DEF IInv, TypeOK
<1>6. CASE UNCHANGED file
  BY <1>1, <1>6
<1> QED
  BY <1>3, <1>4, <1>5, <1>6
  DEF Next, Run, vars, Start, Fetch, CheckPush, ServePush,
      ServeLatePush, Fail, Admit

\* A command that moves on has, or asks for, an edit of the revision it names.
LEMMA AdvanceStep ==
    ASSUME IInv, [Next]_vars, NEW p \in Commands, command[p] # None,
           NEW q \in Commands, command'[q] # None,
           NEW step, NEW f \in File, Advance(p, step, f),
           EditsRevisionOf(cloud', f, command[p].clone)
    PROVE  EditsRevisionOf(cloud', command'[q].file, command'[q].clone)
<1>1. CASE q = p
  BY <1>1, CommandFields DEF Advance, IInv, TypeOK, Command
<1>2. CASE q # p
  <2>1. command'[q] = command[q]
    BY <1>2 DEF Advance, IInv, TypeOK
  <2>2. EditsRevisionOf(cloud, command[q].file, command[q].clone)
    BY <2>1, EditOfLog DEF IInv, BuildsOnRevision
  <2> QED
    BY <2>1, <2>2, CommandFields, EditsLast DEF IInv
<1> QED
  BY <1>1, <1>2

LEMMA ServedIsEdit ==
    ASSUME IInv, [Next]_vars, NEW p \in Commands, command[p] # None,
           Accepts([clone |-> command[p].clone, file |-> command[p].file])
    PROVE  LET f == [command[p].file EXCEPT !.revision = Revision + 1]
           IN  f \in File /\ EditsRevisionOf(cloud', f, command[p].clone)
<1> DEFINE f == [command[p].file EXCEPT !.revision = Revision + 1]
<1>1. command[p].clone \in Clones /\ command[p].file \in File
  BY CommandFields DEF IInv
<1>2. Revision \in Nat \ {0} /\ cloud' = Append(cloud, command[p].file.config)
  BY RevisionType DEF IInv, Accepts
<1>3. f \in File /\ f.config = command[p].file.config /\ f.revision = Revision + 1
  BY <1>1, <1>2 DEF File
<1>4. cloud' \in Seq(SUBSET Settings) /\ Len(cloud') = Revision + 1
      /\ cloud'[Revision + 1] = f.config
  BY <1>1, <1>2, <1>3 DEF IInv, TypeOK, File, Revision
<1>5. EditsRevisionOf(cloud', f, command[p].clone)
  BY <1>1, <1>2, <1>3, <1>4 DEF EditsRevisionOf, Diff
<1> QED
  BY <1>3, <1>5

LEMMA CommandStep ==
    ASSUME IInv, [Next]_vars, NEW q \in Commands, command'[q] # None
    PROVE  EditsRevisionOf(cloud', command'[q].file, command'[q].clone)
<1>1. ASSUME NEW r \in Commands, command[r] # None
      PROVE  /\ command[r].clone \in Clones /\ command[r].file \in File
             /\ EditsRevisionOf(cloud', command[r].file, command[r].clone)
  BY <1>1, CommandFields, EditOfLog, EditsLast DEF IInv, BuildsOnRevision
<1>2. CASE command'[q] = command[q]
  BY <1>1, <1>2
<1>3. ASSUME NEW p \in Commands, End(p)
      PROVE  command'[q] = command[q]
  BY <1>3 DEF End, IInv, TypeOK
<1>4. ASSUME NEW p \in Commands, NEW w \in Clones, NEW kind \in Kinds, Start(p, w, kind)
      PROVE  EditsRevisionOf(cloud', command'[q].file, command'[q].clone)
  <2>1. CASE q = p
    <3>1. command'[q].file = file[w] /\ command'[q].clone = w
      BY <1>4, <2>1 DEF Start, IInv, TypeOK
    <3>2. file[w] \in File /\ EditsRevisionOf(cloud, file[w], w)
      BY EditOfLog DEF IInv, TypeOK, BuildsOnRevision, FilesEditTheirRevision
    <3> QED
      BY <3>1, <3>2, EditsLast
  <2>2. CASE q # p
    BY <1>2, <1>4, <2>2 DEF Start, IInv, TypeOK
  <2> QED
    BY <2>1, <2>2
<1>5. ASSUME NEW p \in Commands, Fetch(p)
      PROVE  EditsRevisionOf(cloud', command'[q].file, command'[q].clone)
  <2>1. command[p] # None
    BY <1>5 DEF Fetch, At
  <2>2. Revision \in 1 .. Revision /\ InCloud(Revision) \in File
    BY <2>1, RevisionType, PublishedIsFile DEF IInv
  <2>3. EditsRevisionOf(cloud, InCloud(Revision), command[p].clone)
    BY <1>1, <2>1, <2>2, PublishedIsEdit DEF InCloud, Revision, IInv, TypeOK
  <2>4. EditsRevisionOf(cloud', InCloud(Revision), command[p].clone)
    BY <1>1, <2>1, <2>2, <2>3, EditsLast
  <2> QED
    BY <1>2, <1>3, <1>5, <2>1, <2>2, <2>4, AdvanceStep DEF Fetch
<1>6. ASSUME NEW p \in Commands, command[p] # None, NEW change \in SUBSET Own[command[p].clone],
             AskToPush(p, Diff(command[p].file.config, change))
      PROVE  EditsRevisionOf(cloud', command'[q].file, command'[q].clone)
  <2> DEFINE f == [command[p].file EXCEPT !.config = Diff(command[p].file.config, change)]
  <2>1. f \in File
    BY <1>1, <1>6, DiffType DEF File
  <2>2. EditsRevisionOf(cloud', f, command[p].clone)
    BY <1>1, <1>6, EditedAgain
  <2> QED
    BY <1>6, <2>1, <2>2, AdvanceStep DEF AskToPush
<1>7. ASSUME NEW p \in Commands, CheckPush(p)
      PROVE  EditsRevisionOf(cloud', command'[q].file, command'[q].clone)
  BY <1>6, <1>7 DEF CheckPush, At
<1>8. ASSUME NEW p \in Commands, ServePush(p)
      PROVE  EditsRevisionOf(cloud', command'[q].file, command'[q].clone)
  <2> DEFINE push == [clone |-> command[p].clone, file |-> command[p].file]
  <2>1. command[p] # None
    BY <1>8 DEF ServePush, At
  <2>2. CASE Accepts(push) /\ Advance(p, "writing", [push.file EXCEPT !.revision = Revision + 1])
    BY <2>1, <2>2, ServedIsEdit, AdvanceStep
  <2> QED
    BY <1>2, <1>3, <1>8, <2>2 DEF ServePush
<1> QED
  BY <1>2, <1>3, <1>4, <1>5, <1>7, <1>8
  DEF Next, Run, vars, SaveEdit, WriteFile, Fail, ServeLatePush, Admit, Checkout

LEMMA LateStep ==
    ASSUME IInv, [Next]_vars, NEW push \in late'
    PROVE  EditsRevisionOf(cloud', push.file, push.clone)
<1>1. CASE push \in late
  <2>1. push \in Push /\ EditsRevisionOf(cloud, push.file, push.clone)
    BY <1>1, EditOfLog DEF IInv, TypeOK, BuildsOnRevision
  <2> QED
    BY <2>1, EditsLast DEF Push
<1>2. ASSUME NEW p \in Commands, Fail(p), push \notin late
      PROVE  EditsRevisionOf(cloud', push.file, push.clone)
  <2>1. command[p] # None /\ push = [clone |-> command[p].clone, file |-> command[p].file]
    BY <1>2 DEF Fail
  <2> QED
    BY <2>1, CommandFields, EditOfLog, EditsLast DEF IInv, BuildsOnRevision
<1> QED
  BY <1>1, <1>2
  DEF Next, Run, vars, Start, SaveEdit, Fetch, CheckPush, ServePush,
      ServeLatePush, WriteFile, Admit, Checkout

LEMMA BuildsOnRevisionStep ==
    ASSUME IInv, [Next]_vars
    PROVE  BuildsOnRevision'
<1>1. \A w \in Clones : EditsRevisionOf(cloud', file'[w], w)
  BY FileStep, EditsLast, TypeStep DEF IInv, TypeOK
<1>2. \A p \in Commands :
        command'[p] # None => EditsRevisionOf(cloud', command'[p].file, command'[p].clone)
  BY CommandStep
<1>3. \A push \in late' : EditsRevisionOf(cloud', push.file, push.clone)
  BY LateStep
<1> QED
  BY <1>1, <1>2, <1>3
  DEF BuildsOnRevision, FilesEditTheirRevision, EditsItsRevision, EditsRevisionOf, Revision

-----------------------------------------------------------------------------
(* No push undoes another clone's change.                                  *)

LEMMA PushesChangeOnlyOwnStep ==
    ASSUME IInv, [Next]_vars
    PROVE  PushesChangeOnlyOwn'
<1>1. CASE UNCHANGED <<cloud, author>>
  BY <1>1 DEF IInv, PushesChangeOnlyOwn, Revision
<1>2. ASSUME NEW push \in Push, Accepts(push), EditsRevisionOf(cloud, push.file, push.clone)
      PROVE  PushesChangeOnlyOwn'
  <2>1. /\ push.clone \in Clones /\ push.file.config \in SUBSET Settings
        /\ cloud \in Seq(SUBSET Settings) /\ author \in Seq(Clones)
        /\ Len(cloud) = Len(author) + 1
    BY DEF Push, File, IInv, TypeOK, PushesChangeOnlyOwn, Revision
  <2>2. /\ cloud' = Append(cloud, push.file.config)
        /\ author' = Append(author, push.clone)
        /\ Diff(push.file.config, cloud[Len(cloud)]) \subseteq Own[push.clone]
    BY <1>2 DEF Accepts, EditsRevisionOf, Revision
  <2>3. ASSUME NEW n \in DOMAIN author'
        PROVE  Diff(cloud'[n], cloud'[n + 1]) \subseteq Own[author'[n]]
    <3>1. CASE n = Len(author')
      <4>1. /\ cloud'[n] = cloud[Len(cloud)] /\ cloud'[n + 1] = push.file.config
            /\ author'[n] = push.clone
        BY <2>1, <2>2, <3>1
      <4> QED
        BY <2>2, <4>1 DEF Diff
    <3>2. CASE n # Len(author')
      <4>1. /\ n \in DOMAIN author
            /\ cloud'[n] = cloud[n] /\ cloud'[n + 1] = cloud[n + 1]
            /\ author'[n] = author[n]
        BY <2>1, <2>2, <3>2
      <4> QED
        BY <4>1 DEF IInv, PushesChangeOnlyOwn
    <3> QED
      BY <3>1, <3>2
  <2>4. Len(cloud') = Len(author') + 1
    BY <2>1, <2>2
  <2> QED
    BY <2>3, <2>4 DEF PushesChangeOnlyOwn, Revision
<1> QED
  BY <1>1, <1>2, CloudStep

-----------------------------------------------------------------------------
\* The invariant is inductive.
THEOREM Inductive == Spec => []IInv
<1>1. Init => IInv
  <2> SUFFICES ASSUME Init PROVE IInv
    OBVIOUS
  <2>1. BuildsOnRevision
    BY DEF Init, BuildsOnRevision, FilesEditTheirRevision, EditsItsRevision, InCloud,
           Revision, Diff
  <2>2. PushesChangeOnlyOwn
    BY DEF Init, PushesChangeOnlyOwn, Revision
  <2> QED
    BY <2>1, <2>2, InitType DEF IInv
<1>2. IInv /\ [Next]_vars => IInv'
  BY TypeStep, BuildsOnRevisionStep, PushesChangeOnlyOwnStep DEF IInv
<1> QED
  BY <1>1, <1>2, PTL DEF Spec

\* Every propagate.yaml is its own people's edit of the revision it carries,
\* however commands overlap and fail (config.WriteRaw after ReadProject).
THEOREM FilesAreEdits == Spec => []FilesEditTheirRevision
<1>1. IInv => FilesEditTheirRevision
  BY DEF IInv, BuildsOnRevision
<1> QED
  BY <1>1, Inductive, PTL

\* No push undoes what was changed in another clone (the comparison of
\* revisions in runConfigPush, runEnvPush and the store).
THEOREM NoLostChange == Spec => []PushesChangeOnlyOwn
<1>1. IInv => PushesChangeOnlyOwn
  BY DEF IInv
<1> QED
  BY <1>1, Inductive, PTL
=============================================================================
