------------------------- MODULE TeamInvitesProofs -------------------------
(***************************************************************************)
(* Theorems about TeamInvites for any people, scopes, invites, handlers    *)
(* and entries: type correctness, that an invite is redeemed once at most, *)
(* that it is locked by its third wrong guess and by nothing else, that    *)
(* nothing brings an ended invite back, and that those who were told they  *)
(* are in are members with the keys they were given.                       *)
(***************************************************************************)
EXTENDS TeamInvites, TLAPS

-----------------------------------------------------------------------------
(* The types of the store hold under the operations that invites and join  *)
(* requests use (TeamApiProofs has them all).                              *)

\* Editing a snapshot gives a snapshot.
LEMMA WithMemberType ==
    ASSUME NEW snap \in Snapshot, NEW k \in Keys, NEW g \in Grant \cup {None}
    PROVE  WithMember(snap, k, g) \in Snapshot
BY DEF WithMember, Snapshot

\* A step that leaves the store alone.
LEMMA StoreUnchanged ==
    ASSUME StoreTypeOK, UNCHANGED store
    PROVE  StoreTypeOK'
BY DEF StoreTypeOK, store

\* The envelopes an approval carries go to the joiner.
LEMMA JoinRecipientsType ==
    ASSUME NEW g, NEW k \in Keys
    PROVE  JoinRecipients(g, k) \in Recipients
BY DEF JoinRecipients, Granted, Recipients

\* A team as it is set up.
LEMMA SetupType ==
    ASSUME NEW initial \in SUBSET Scopes, CreateTeamSetup(initial)
    PROVE  StoreTypeOK
<1> DEFINE writes == [s \in Scopes |-> IF s \in initial THEN "write" ELSE Unset]
           admin  == [management |-> TRUE, scopes |-> writes]
<1>1. writes \in [Scopes -> Permission \cup {Unset}]
  BY DEF Permission
<1>2. admin \in Grant
  BY <1>1 DEF Grant
<1>3. snapshot = [members |-> [k \in Keys |-> IF k = Admin THEN admin ELSE None],
                  scopes |-> initial]
  BY DEF CreateTeamSetup
<1>4. snapshot \in Snapshot
  <2>1. [k \in Keys |-> IF k = Admin THEN admin ELSE None] \in [Keys -> Grant \cup {None}]
    BY <1>2
  <2> QED
    BY <1>3, <2>1 DEF Snapshot
<1>5. members \in [Keys -> Member]
  <2>1. ActiveAs(admin) \in Member
    BY <1>1 DEF ActiveAs, Member, Status
  <2>2. Absent \in Member
    BY DEF Absent, Member, Status, NoAccess
  <2>3. members = [k \in Keys |-> IF k = Admin THEN ActiveAs(admin) ELSE Absent]
    BY DEF CreateTeamSetup
  <2> QED
    BY <2>1, <2>2, <2>3
<1>6. access \in [Scopes -> [Keys -> Permission \cup {Unset}]]
  <2>1. access = [s \in Scopes |-> [k \in Keys |-> IF k = Admin THEN writes[s] ELSE Unset]]
    BY DEF CreateTeamSetup
  <2> QED
    BY <1>1, <2>1
<1>7. secrets \in [Scopes -> [Vars -> Variable]]
  BY DEF CreateTeamSetup, Variable
<1>8. published \in Seq(Snapshot)
  BY <1>4 DEF CreateTeamSetup
<1>9. /\ revision \in Nat \ {0}
      /\ scopes \in SUBSET Scopes
      /\ envelopes \in [Scopes -> SUBSET Keys]
      /\ configOps = [op \in OpIds |-> None]
      /\ envOps = [op \in OpIds |-> None]
  BY AdminAssumption DEF CreateTeamSetup
<1> QED
  BY <1>4, <1>5, <1>6, <1>7, <1>8, <1>9 DEF StoreTypeOK

\* The next revision.
LEMMA PublishType ==
    ASSUME revision \in Nat \ {0}, published \in Seq(Snapshot),
           NEW snap \in Snapshot, Publish(snap)
    PROVE  /\ revision' \in Nat \ {0}
           /\ snapshot' \in Snapshot
           /\ published' \in Seq(Snapshot)
BY DEF Publish

\* Envelopes are added for keys of people.
LEMMA AddEnvelopesType ==
    ASSUME envelopes \in [Scopes -> SUBSET Keys],
           NEW recipients, NEW known, AddEnvelopes(recipients, known)
    PROVE  envelopes' \in [Scopes -> SUBSET Keys]
BY DEF AddEnvelopes

\* The ways in, and a request that is declined.
LEMMA CreateJoinRequestType ==
    ASSUME StoreTypeOK, NEW k \in Keys, NEW management \in BOOLEAN,
           CreateJoinRequest(k, management)
    PROVE  StoreTypeOK'
<1>1. [status |-> "pending", management |-> management, scopes |-> NoAccess] \in Member
  BY DEF Member, Status, NoAccess
<1>2. members' \in [Keys -> Member]
  BY <1>1 DEF CreateJoinRequest, StoreTypeOK
<1> QED
  BY <1>2 DEF CreateJoinRequest, StoreTypeOK

LEMMA AdmitType ==
    ASSUME StoreTypeOK, NEW k \in Keys, NEW g \in Grant, NEW recipients,
           Admit(k, g, recipients)
    PROVE  StoreTypeOK'
<1>1. members' \in [Keys -> Member]
  <2>1. ActiveAs(g) \in Member
    BY DEF ActiveAs, Grant, Member, Status
  <2> QED
    BY <2>1 DEF Admit, StoreTypeOK
<1>2. access' \in [Scopes -> [Keys -> Permission \cup {Unset}]]
  <2>1. ASSUME NEW s \in Scopes
        PROVE  [access[s] EXCEPT ![k] = g.scopes[s]] \in [Keys -> Permission \cup {Unset}]
    BY <2>1 DEF Grant, StoreTypeOK
  <2> QED
    BY <2>1 DEF Admit, StoreTypeOK
<1>3. envelopes' \in [Scopes -> SUBSET Keys]
  BY AddEnvelopesType DEF Admit, StoreTypeOK
<1>4. revision' \in Nat \ {0} /\ snapshot' \in Snapshot /\ published' \in Seq(Snapshot)
  BY WithMemberType, PublishType DEF Admit, StoreTypeOK
<1> QED
  BY <1>1, <1>2, <1>3, <1>4 DEF Admit, StoreTypeOK

LEMMA DeclineType ==
    ASSUME StoreTypeOK, NEW r, r.joiner \in Keys, NEW manages,
           DeclineJoinRequest(r, manages)
    PROVE  StoreTypeOK'
<1>1. members' \in [Keys -> Member]
  <2>1. members \in [Keys -> Member]
    BY DEF StoreTypeOK
  <2>2. [members[r.joiner] EXCEPT !.status = "declined"] \in Member
    <3>1. members[r.joiner] \in Member
      BY <2>1
    <3> QED
      BY <3>1 DEF Member, Status
  <2>3. members' = [members EXCEPT ![r.joiner] =
                      [members[r.joiner] EXCEPT !.status = "declined"]]
    BY DEF DeclineJoinRequest
  <2> QED
    BY <2>1, <2>2, <2>3
<1> QED
  BY <1>1 DEF DeclineJoinRequest, StoreTypeOK

-----------------------------------------------------------------------------
(* Invites.                                                                *)

\* The kind of work tells its fields.
LEMMA WorkFields ==
    ASSUME InvitesTypeOK, NEW h \in Handlers, NEW kind, Doing(h, kind)
    PROVE  /\ handler[h] \in Work /\ handler[h].kind = kind
           /\ kind = "create" => handler[h].request \in InviteRequest
           /\ kind = "revoke" => handler[h].invite \in InviteIds
           /\ kind \in {"approve", "decline"} => handler[h].joiner \in Keys
           /\ kind = "approve" => handler[h].grant \in JoinGrants
           /\ kind = "pin" => /\ handler[h].invite \in InviteIds
                              /\ handler[h].joiner \in Keys
                              /\ handler[h].bundle \in SUBSET Scopes
<1>1. handler[h] \in Work /\ handler[h].kind = kind
  BY DEF InvitesTypeOK, Doing, Idle
<1> QED
  BY <1>1 DEF Work

-----------------------------------------------------------------------------
(* What a step does to the invites and to the history of redemptions.      *)

\* Invite i becomes x: it is made, revoked, guessed at, or redeemed for a.
Made(i, x)    == invites[i] = None /\ x.status = "active" /\ x.failedAttempts = 0
Revoked(i, x) == /\ Open(i) /\ x.status = "revoked"
                 /\ x.failedAttempts = invites[i].failedAttempts
Guessed(i, x) == /\ Open(i) /\ x.failedAttempts = invites[i].failedAttempts + 1
                 /\ x.status = IF OutOfAttempts(x.failedAttempts)
                               THEN "invalidated_pin" ELSE "active"
Redeemed(i, x, a) == /\ Open(i) /\ x.status = "redeemed" /\ a.invite = i
                     /\ x.failedAttempts = invites[i].failedAttempts

InviteChanges ==
    \E i \in InviteIds, x \in Invite :
        /\ invites' = [invites EXCEPT ![i] = x]
        /\ \/ Made(i, x) /\ redeemed' = redeemed
           \/ Revoked(i, x) /\ redeemed' = redeemed
           \/ Guessed(i, x) /\ redeemed' = redeemed
           \/ \E a \in Redemption : Redeemed(i, x, a) /\ redeemed' = redeemed \cup {a}

\* An open invite is one, and so is what becomes of it.
LEMMA OpenInvite ==
    ASSUME InvitesTypeOK, NEW i \in InviteIds, Open(i)
    PROVE  /\ invites[i] \in Invite /\ invites[i].status = "active"
           /\ \A status \in InviteStatus, failed \in Nat :
                /\ [invites[i] EXCEPT !.status = status] \in Invite
                /\ [invites[i] EXCEPT !.failedAttempts = failed, !.status = status] \in Invite
<1>1. invites[i] \in Invite /\ invites[i].status = "active"
  BY DEF InvitesTypeOK, Open
<1> QED
  BY <1>1 DEF Invite

LEMMA CreateChanges ==
    ASSUME InvitesTypeOK, NEW h \in Handlers, CreateTeamInvite(h)
    PROVE  InviteChanges \/ UNCHANGED <<invites, redeemed>>
<1>1. handler[h].request \in InviteRequest
  BY WorkFields DEF CreateTeamInvite
<1>2. [request |-> handler[h].request, status |-> "active", failedAttempts |-> 0] \in Invite
  BY <1>1 DEF Invite, InviteStatus
<1> QED
  BY <1>2 DEF CreateTeamInvite, InviteChanges, Made

LEMMA RevokeChanges ==
    ASSUME InvitesTypeOK, NEW h \in Handlers, RevokeTeamInvite(h)
    PROVE  InviteChanges \/ UNCHANGED <<invites, redeemed>>
<1> DEFINE i == handler[h].invite
           x == [invites[i] EXCEPT !.status = "revoked"]
<1>1. i \in InviteIds
  BY WorkFields DEF RevokeTeamInvite
<1>2. CASE Open(i) /\ invites' = [invites EXCEPT ![i].status = "revoked"]
  <2>1. x \in Invite /\ x.status = "revoked" /\ x.failedAttempts = invites[i].failedAttempts
    BY <1>1, <1>2, OpenInvite DEF InviteStatus, Invite
  <2>2. invites' = [invites EXCEPT ![i] = x]
    BY <1>2
  <2>3. Revoked(i, x) /\ redeemed' = redeemed
    BY <1>2, <2>1 DEF Revoked, RevokeTeamInvite
  <2> HIDE DEF x
  <2> QED
    BY <1>1, <2>1, <2>2, <2>3 DEF InviteChanges
<1> QED
  BY <1>2 DEF RevokeTeamInvite

LEMMA RedeemChanges ==
    ASSUME InvitesTypeOK, NEW h \in Handlers, RedeemInvite(h)
    PROVE  InviteChanges
<1> DEFINE i == handler[h].invite
           x == [invites[i] EXCEPT !.status = "redeemed"]
           a == [invite |-> i, joiner |-> handler[h].joiner, bundle |-> handler[h].bundle]
<1>1. i \in InviteIds /\ a \in Redemption
  BY WorkFields DEF RedeemInvite, Redemption
<1>2. Open(i)
  BY DEF RedeemInvite, MayRedeem
<1>3. x \in Invite /\ x.status = "redeemed" /\ x.failedAttempts = invites[i].failedAttempts
  BY <1>1, <1>2, OpenInvite DEF InviteStatus, Invite
<1>4. invites' = [invites EXCEPT ![i] = x] /\ redeemed' = redeemed \cup {a}
  BY DEF RedeemInvite
<1>5. Redeemed(i, x, a)
  BY <1>2, <1>3 DEF Redeemed
<1> HIDE DEF x, a
<1> QED
  BY <1>1, <1>3, <1>4, <1>5 DEF InviteChanges

LEMMA GuessChanges ==
    ASSUME InvitesTypeOK, NEW h \in Handlers, RefusePIN(h)
    PROVE  InviteChanges
<1> DEFINE i == handler[h].invite
           failed == invites[i].failedAttempts + 1
           status == IF OutOfAttempts(failed) THEN "invalidated_pin" ELSE invites[i].status
           x == [invites[i] EXCEPT !.failedAttempts = failed, !.status = status]
<1>1. i \in InviteIds /\ Open(i)
  BY WorkFields DEF RefusePIN
<1>2. invites[i] \in Invite /\ invites[i].status = "active" /\ failed \in Nat
  <2>1. invites[i] \in Invite /\ invites[i].status = "active"
    BY <1>1, OpenInvite
  <2>2. invites[i].failedAttempts \in Nat
    BY <2>1 DEF Invite
  <2> QED
    BY <2>1, <2>2
<1>3. status \in InviteStatus
  BY <1>2 DEF InviteStatus
<1>4. x \in Invite /\ x.failedAttempts = failed /\ x.status = status
  <2> HIDE DEF failed, status
  <2> QED
    BY <1>2, <1>3 DEF Invite
<1>5. invites' = [invites EXCEPT ![i] = x]
  BY DEF RefusePIN
<1>6. Guessed(i, x)
  BY <1>1, <1>2, <1>4 DEF Guessed
<1> HIDE DEF x
<1> QED
  BY <1>1, <1>4, <1>5, <1>6 DEF InviteChanges, RefusePIN

LEMMA InviteStep ==
    ASSUME InvitesTypeOK, [Next]_vars
    PROVE  InviteChanges \/ UNCHANGED <<invites, redeemed>>
<1>1. ASSUME NEW k \in Keys, RequestToJoin(k)
      PROVE  UNCHANGED <<invites, redeemed>>
  BY <1>1 DEF RequestToJoin
<1>2. ASSUME NEW h \in Handlers, Manage(h)
      PROVE  UNCHANGED <<invites, redeemed>>
  BY <1>2 DEF Manage, BeginCreate, BeginRevoke, BeginApprove, BeginDecline, Begin
<1>3. ASSUME NEW h \in Handlers, NEW k \in Keys, NEW i \in InviteIds, BeginPIN(h, k, i)
      PROVE  UNCHANGED <<invites, redeemed>>
  BY <1>3 DEF BeginPIN, Begin
<1>4. ASSUME NEW h \in Handlers, Decide(h) \/ RefuseInvite(h)
      PROVE  UNCHANGED <<invites, redeemed>>
  BY <1>4 DEF Decide, RefuseInvite
<1>5. CASE UNCHANGED vars
  BY <1>5 DEF vars
<1> QED
  BY <1>1, <1>2, <1>3, <1>4, <1>5, CreateChanges, RevokeChanges, RedeemChanges,
     GuessChanges DEF Next

-----------------------------------------------------------------------------
(* Types.                                                                  *)

\* Work that begins is work.
LEMMA BeginType ==
    ASSUME InvitesTypeOK, NEW h \in Handlers,
           \/ Manage(h)
           \/ \E k \in Keys, i \in InviteIds : BeginPIN(h, k, i)
    PROVE  \E work \in Work : Begin(h, work)
<1>1. ASSUME NEW k \in Keys, BeginCreate(h, k)
      PROVE  \E work \in Work : Begin(h, work)
  <2>1. PICK op \in OpIds, grant \in InviteGrants :
          LET granted == {s \in Scopes : grant.scopes[s] # Unset}
              wanted  == IF granted = {} THEN snapshot.scopes ELSE granted
          IN  \E bundle \in SUBSET {s \in wanted : HoldsKey(k, s)} :
                  Begin(h, [kind |-> "create",
                            request |-> [op |-> op, key |-> k, grant |-> grant,
                                         bundle |-> bundle]])
    BY <1>1 DEF BeginCreate
  <2>2. snapshot.scopes \subseteq Scopes
    BY DEF InvitesTypeOK, StoreTypeOK, Snapshot
  <2>3. PICK bundle \in SUBSET Scopes :
          Begin(h, [kind |-> "create",
                    request |-> [op |-> op, key |-> k, grant |-> grant,
                                 bundle |-> bundle]])
    BY <2>1, <2>2
  <2> QED
    BY <2>3 DEF Work, InviteRequest
<1>2. ASSUME NEW k \in Keys, BeginRevoke(h, k)
      PROVE  \E work \in Work : Begin(h, work)
  BY <1>2 DEF BeginRevoke, Work
<1>3. ASSUME NEW k \in Keys, BeginApprove(h, k)
      PROVE  \E work \in Work : Begin(h, work)
  BY <1>3, JoinRecipientsType DEF BeginApprove, Work
<1>4. ASSUME NEW k \in Keys, BeginDecline(h, k)
      PROVE  \E work \in Work : Begin(h, work)
  BY <1>4 DEF BeginDecline, Work
<1>5. ASSUME NEW k \in Keys, NEW i \in InviteIds, BeginPIN(h, k, i)
      PROVE  \E work \in Work : Begin(h, work)
  <2>1. (IF Open(i) THEN invites[i].request.bundle ELSE {}) \in SUBSET Scopes
    BY OpenInvite DEF Invite, InviteRequest
  <2> QED
    BY <1>5, <2>1 DEF BeginPIN, Work
<1> QED
  BY <1>1, <1>2, <1>3, <1>4, <1>5 DEF Manage

\* A step on the store is one of its operations.
LEMMA StoreStep ==
    ASSUME InvitesTypeOK, [Next]_vars
    PROVE  \/ UNCHANGED store
           \/ \E k \in Keys, management \in BOOLEAN : CreateJoinRequest(k, management)
           \/ \E h \in Handlers :
                 /\ handler[h].joiner \in Keys
                 /\ \/ /\ handler[h].grant \in Grant
                       /\ ApproveJoinRequest(handler[h], TRUE)
                    \/ DeclineJoinRequest(handler[h], TRUE)
           \/ \E h \in Handlers :
                 /\ RedeemInvite(h)
                 /\ invites[handler[h].invite].request.grant \in Grant
                 /\ AdmitByInvite(handler[h].joiner,
                                  invites[handler[h].invite].request.grant,
                                  handler[h].bundle \X {handler[h].joiner})
<1>1. ASSUME NEW k \in Keys, RequestToJoin(k)
      PROVE  \E management \in BOOLEAN : CreateJoinRequest(k, management)
  BY <1>1 DEF RequestToJoin
<1>2. ASSUME NEW h \in Handlers, \/ Manage(h)
                                 \/ \E k \in Keys, i \in InviteIds : BeginPIN(h, k, i)
      PROVE  UNCHANGED store
  BY <1>2, BeginType DEF Begin
<1>3. ASSUME NEW h \in Handlers, \/ CreateTeamInvite(h) \/ RevokeTeamInvite(h)
                                 \/ RefusePIN(h) \/ RefuseInvite(h)
      PROVE  UNCHANGED store
  BY <1>3 DEF CreateTeamInvite, RevokeTeamInvite, RefusePIN, RefuseInvite
<1>4. ASSUME NEW h \in Handlers, Decide(h)
      PROVE  \/ UNCHANGED store
             \/ /\ handler[h].joiner \in Keys
                /\ \/ handler[h].grant \in Grant /\ ApproveJoinRequest(handler[h], TRUE)
                   \/ DeclineJoinRequest(handler[h], TRUE)
  <2>1. handler[h].joiner \in Keys
    BY <1>4, WorkFields DEF Decide
  <2>2. handler[h].kind = "approve" => handler[h].grant \in Grant
    BY <1>4, WorkFields, InviteGrantsAssumption DEF Decide, Doing
  <2> QED
    BY <1>4, <2>1, <2>2 DEF Decide
<1>5. ASSUME NEW h \in Handlers, RedeemInvite(h)
      PROVE  \/ UNCHANGED store
             \/ /\ invites[handler[h].invite].request.grant \in Grant
                /\ AdmitByInvite(handler[h].joiner,
                                 invites[handler[h].invite].request.grant,
                                 handler[h].bundle \X {handler[h].joiner})
  <2>1. handler[h].invite \in InviteIds /\ Open(handler[h].invite)
    BY <1>5, WorkFields DEF RedeemInvite, MayRedeem
  <2>2. invites[handler[h].invite].request.grant \in Grant
    BY <2>1, OpenInvite, InviteGrantsAssumption DEF Invite, InviteRequest
  <2> QED
    BY <1>5, <2>2 DEF RedeemInvite
<1>6. CASE UNCHANGED vars
  BY <1>6 DEF vars, store
<1> QED
  BY <1>1, <1>2, <1>3, <1>4, <1>5, <1>6 DEF Next

LEMMA StoreTypeStep ==
    ASSUME InvitesTypeOK, [Next]_vars
    PROVE  StoreTypeOK'
<1>1. StoreTypeOK
  BY DEF InvitesTypeOK
<1>2. ASSUME NEW h \in Handlers, handler[h].joiner \in Keys, handler[h].grant \in Grant,
             ApproveJoinRequest(handler[h], TRUE)
      PROVE  StoreTypeOK'
  BY <1>1, <1>2, AdmitType DEF ApproveJoinRequest
<1>3. ASSUME NEW h \in Handlers, handler[h].joiner \in Keys,
             DeclineJoinRequest(handler[h], TRUE)
      PROVE  StoreTypeOK'
  BY <1>1, <1>3, DeclineType
<1>4. ASSUME NEW h \in Handlers, RedeemInvite(h),
             invites[handler[h].invite].request.grant \in Grant,
             AdmitByInvite(handler[h].joiner, invites[handler[h].invite].request.grant,
                           handler[h].bundle \X {handler[h].joiner})
      PROVE  StoreTypeOK'
  <2>1. handler[h].joiner \in Keys
    BY <1>4, WorkFields DEF RedeemInvite
  <2> QED
    BY <1>1, <1>4, <2>1, AdmitType DEF AdmitByInvite
<1> QED
  BY <1>1, <1>2, <1>3, <1>4, StoreStep, StoreUnchanged, CreateJoinRequestType

LEMMA HandlerTypeStep ==
    ASSUME InvitesTypeOK, [Next]_vars
    PROVE  handler' \in [Handlers -> Work \cup {Idle}]
<1>0. handler \in [Handlers -> Work \cup {Idle}]
  BY DEF InvitesTypeOK
<1>1. ASSUME NEW k \in Keys, RequestToJoin(k)
      PROVE  UNCHANGED handler
  BY <1>1 DEF RequestToJoin
<1>2. ASSUME NEW h \in Handlers, \/ Manage(h)
                                 \/ \E k \in Keys, i \in InviteIds : BeginPIN(h, k, i)
      PROVE  \E work \in Work : handler' = [handler EXCEPT ![h] = work]
  BY <1>2, BeginType DEF Begin
<1>3. ASSUME NEW h \in Handlers, \/ CreateTeamInvite(h) \/ RevokeTeamInvite(h) \/ Decide(h)
                                 \/ RedeemInvite(h) \/ RefusePIN(h) \/ RefuseInvite(h)
      PROVE  handler' = [handler EXCEPT ![h] = Idle]
  BY <1>3 DEF CreateTeamInvite, RevokeTeamInvite, Decide, RedeemInvite, RefusePIN,
              RefuseInvite, Done
<1>4. CASE UNCHANGED vars
  BY <1>0, <1>4 DEF vars
<1> QED
  BY <1>0, <1>1, <1>2, <1>3, <1>4 DEF Next

\* Every variable keeps its type.
THEOREM InvitesTypeCorrect == Spec => []InvitesTypeOK
<1>1. Init => InvitesTypeOK
  BY SetupType, InviteScopesAssumption DEF Init, InvitesTypeOK
<1>2. InvitesTypeOK /\ [Next]_vars => InvitesTypeOK'
  <2> SUFFICES ASSUME InvitesTypeOK, [Next]_vars PROVE InvitesTypeOK'
    OBVIOUS
  <2>1. invites' \in [InviteIds -> Invite \cup {None}] /\ redeemed' \in SUBSET Redemption
    BY InviteStep DEF InviteChanges, InvitesTypeOK
  <2> QED
    BY <2>1, StoreTypeStep, HandlerTypeStep DEF InvitesTypeOK
<1> QED
  BY <1>1, <1>2, PTL DEF Spec

-----------------------------------------------------------------------------
(* What an invite can become.                                              *)

LEMMA RedeemedAtMostOnceStep ==
    ASSUME InvitesTypeOK, RedeemedAtMostOnce, [Next]_vars
    PROVE  RedeemedAtMostOnce'
<1>1. CASE UNCHANGED <<invites, redeemed>>
  BY <1>1 DEF RedeemedAtMostOnce
<1>2. ASSUME NEW i \in InviteIds, NEW x \in Invite, invites' = [invites EXCEPT ![i] = x],
             \/ (Made(i, x) \/ Revoked(i, x) \/ Guessed(i, x)) /\ redeemed' = redeemed
             \/ \E a \in Redemption : Redeemed(i, x, a) /\ redeemed' = redeemed \cup {a}
      PROVE  RedeemedAtMostOnce'
  <2>1. invites \in [InviteIds -> Invite \cup {None}] /\ x # None
    BY NoInviteAssumption DEF InvitesTypeOK
  <2>2. \A j \in InviteIds : invites'[j] = IF j = i THEN x ELSE invites[j]
    BY <1>2, <2>1
  <2>3. \A a \in redeemed : a.invite # i
    BY <1>2 DEF RedeemedAtMostOnce, Made, Revoked, Guessed, Redeemed, Open
  <2>4. CASE (Made(i, x) \/ Revoked(i, x) \/ Guessed(i, x)) /\ redeemed' = redeemed
    <3>1. x.status # "redeemed"
      BY <2>4 DEF Made, Revoked, Guessed
    <3> QED
      BY <2>2, <2>3, <2>4, <3>1 DEF RedeemedAtMostOnce
  <2>5. ASSUME NEW a \in Redemption, Redeemed(i, x, a), redeemed' = redeemed \cup {a}
        PROVE  RedeemedAtMostOnce'
    <3>1. x.status = "redeemed" /\ a.invite = i
      BY <2>5 DEF Redeemed
    <3>2. \A b, c \in redeemed' : b.invite = c.invite => b = c
      BY <2>3, <2>5, <3>1 DEF RedeemedAtMostOnce
    <3>3. {b.invite : b \in redeemed'} = {b.invite : b \in redeemed} \cup {i}
      BY <2>5, <3>1
    <3>4. {j \in InviteIds : invites'[j] # None /\ invites'[j].status = "redeemed"}
            = {j \in InviteIds : invites[j] # None /\ invites[j].status = "redeemed"} \cup {i}
      BY <2>1, <2>2, <3>1
    <3> QED
      BY <3>2, <3>3, <3>4 DEF RedeemedAtMostOnce
  <2> QED
    BY <1>2, <2>4, <2>5
<1> QED
  BY <1>1, <1>2, InviteStep DEF InviteChanges

\* However submissions of one invite overlap, one key at most redeems it.
THEOREM RedeemedOnce == Spec => []RedeemedAtMostOnce
<1>1. Init => RedeemedAtMostOnce
  BY DEF Init, RedeemedAtMostOnce
<1>2. InvitesTypeOK /\ RedeemedAtMostOnce /\ [Next]_vars => RedeemedAtMostOnce'
  BY RedeemedAtMostOnceStep
<1> QED
  BY <1>1, <1>2, InvitesTypeCorrect, PTL DEF Spec

LEMMA LockedByThirdGuessStep ==
    ASSUME InvitesTypeOK, LockedByThirdGuess, [Next]_vars
    PROVE  LockedByThirdGuess'
<1>1. CASE UNCHANGED <<invites, redeemed>>
  BY <1>1 DEF LockedByThirdGuess
<1>2. ASSUME NEW i \in InviteIds, NEW x \in Invite, invites' = [invites EXCEPT ![i] = x],
             \/ Made(i, x) \/ Revoked(i, x) \/ Guessed(i, x)
             \/ \E a \in Redemption : Redeemed(i, x, a)
      PROVE  LockedByThirdGuess'
  <2>1. \A j \in InviteIds : invites'[j] = IF j = i THEN x ELSE invites[j]
    BY <1>2 DEF InvitesTypeOK
  <2>2. /\ x.failedAttempts <= MaxFailedAttempts
        /\ x.status = "invalidated_pin" <=> x.failedAttempts = MaxFailedAttempts
    <3>1. CASE Made(i, x)
      BY <3>1 DEF Made, MaxFailedAttempts
    <3>2. CASE Open(i)
      <4>1. /\ invites[i].failedAttempts \in Nat
            /\ invites[i].failedAttempts <= MaxFailedAttempts
            /\ invites[i].failedAttempts # MaxFailedAttempts
        BY <3>2, OpenInvite DEF LockedByThirdGuess, Open, Invite
      <4> QED
        BY <1>2, <4>1, NoInviteAssumption
        DEF Made, Revoked, Guessed, Redeemed, OutOfAttempts, MaxFailedAttempts
    <3> QED
      BY <1>2, <3>1, <3>2 DEF Revoked, Guessed, Redeemed
  <2> QED
    BY <2>1, <2>2 DEF LockedByThirdGuess
<1> QED
  BY <1>1, <1>2, InviteStep DEF InviteChanges

\* Three wrong guesses lock an invite, however they overlap, and no fewer.
THEOREM ThirdGuessLocks == Spec => []LockedByThirdGuess
<1>1. Init => LockedByThirdGuess
  BY DEF Init, LockedByThirdGuess
<1>2. InvitesTypeOK /\ LockedByThirdGuess /\ [Next]_vars => LockedByThirdGuess'
  BY LockedByThirdGuessStep
<1> QED
  BY <1>1, <1>2, InvitesTypeCorrect, PTL DEF Spec

\* An invite that was redeemed, revoked or locked lets nobody in any more, also
\* when a submission that overlaps with its end has read its bundle before.
THEOREM EndedForGood == Spec => EndedInvitesStayEnded
<1>1. InvitesTypeOK /\ [Next]_vars =>
        \A i \in InviteIds :
          invites[i] # None /\ ~Open(i) =>
            /\ invites'[i] = invites[i]
            /\ \A a \in redeemed' \ redeemed : a.invite # i
  <2> SUFFICES ASSUME InvitesTypeOK, [Next]_vars, NEW i \in InviteIds,
                      invites[i] # None, ~Open(i)
               PROVE  /\ invites'[i] = invites[i]
                      /\ \A a \in redeemed' \ redeemed : a.invite # i
    OBVIOUS
  <2>1. CASE UNCHANGED <<invites, redeemed>>
    BY <2>1
  <2>2. ASSUME NEW j \in InviteIds, NEW x \in Invite, invites' = [invites EXCEPT ![j] = x],
               \/ (Made(j, x) \/ Revoked(j, x) \/ Guessed(j, x)) /\ redeemed' = redeemed
               \/ \E a \in Redemption : Redeemed(j, x, a) /\ redeemed' = redeemed \cup {a}
        PROVE  /\ invites'[i] = invites[i]
               /\ \A a \in redeemed' \ redeemed : a.invite # i
    <3>1. i # j
      BY <2>2 DEF Made, Revoked, Guessed, Redeemed
    <3>2. invites'[i] = invites[i]
      BY <2>2, <3>1 DEF InvitesTypeOK
    <3>3. \A a \in redeemed' \ redeemed : a.invite = j
      BY <2>2 DEF Redeemed
    <3> QED
      BY <3>1, <3>2, <3>3
  <2> QED
    BY <2>1, <2>2, InviteStep DEF InviteChanges
<1> QED
  BY <1>1, InvitesTypeCorrect, PTL DEF Spec, EndedInvitesStayEnded

-----------------------------------------------------------------------------
(* Those who were let in.                                                  *)

\* Nothing that happens to a team here takes anything from a member.
LEMMA MembersStay ==
    ASSUME InvitesTypeOK, [Next]_vars, NEW k \in Keys, Active(k), k \in Listed(snapshot)
    PROVE  /\ Active(k)' /\ k \in Listed(snapshot')
           /\ scopes' = scopes
           /\ \A s \in Scopes : envelopes[s] \subseteq envelopes'[s]
<1>1. CASE UNCHANGED store
  BY <1>1 DEF store, Active
<1>2. ASSUME NEW j \in Keys, NEW management, CreateJoinRequest(j, management)
      PROVE  /\ Active(k)' /\ UNCHANGED <<snapshot, scopes, envelopes>>
  BY <1>2 DEF CreateJoinRequest, Active, InvitesTypeOK, StoreTypeOK
<1>3. ASSUME NEW r, r.joiner \in Keys, DeclineJoinRequest(r, TRUE)
      PROVE  /\ Active(k)' /\ UNCHANGED <<snapshot, scopes, envelopes>>
  BY <1>3 DEF DeclineJoinRequest, MayDecide, Active, InvitesTypeOK, StoreTypeOK
<1>4. ASSUME NEW j \in Keys, NEW grant \in Grant, NEW recipients, Admit(j, grant, recipients)
      PROVE  /\ Active(k)' /\ k \in Listed(snapshot')
             /\ scopes' = scopes
             /\ \A s \in Scopes : envelopes[s] \subseteq envelopes'[s]
  <2>1. Active(k)'
    BY <1>4 DEF Admit, Active, ActiveAs, InvitesTypeOK, StoreTypeOK
  <2>2. snapshot'.members[k] # None
    BY <1>4, NoGrantAssumption
    DEF Admit, Publish, WithMember, Listed, InvitesTypeOK, StoreTypeOK, Snapshot
  <2>3. \A s \in Scopes : envelopes[s] \subseteq envelopes'[s]
    BY <1>4 DEF Admit, AddEnvelopes
  <2> QED
    BY <1>4, <2>1, <2>2, <2>3 DEF Admit, Listed
<1>5. ASSUME NEW h \in Handlers, RedeemInvite(h) PROVE handler[h].joiner \in Keys
  BY <1>5, WorkFields DEF RedeemInvite
<1> QED
  BY <1>1, <1>2, <1>3, <1>4, <1>5, StoreStep DEF ApproveJoinRequest, AdmitByInvite

\* A new redemption with a bundle makes its joiner a member with the keys.
LEMMA NewRedemption ==
    ASSUME InvitesTypeOK, NEW h \in Handlers, RedeemInvite(h),
           NEW a \in redeemed' \ redeemed, a.bundle # {}
    PROVE  /\ Active(a.joiner)' /\ a.joiner \in Listed(snapshot')
           /\ \A s \in a.bundle \cap scopes' : a.joiner \in envelopes'[s]
<1>1. a.joiner = handler[h].joiner /\ a.bundle = handler[h].bundle
  BY DEF RedeemInvite
<1>2. a.joiner \in Keys /\ a.bundle \in SUBSET Scopes
  BY <1>1, WorkFields DEF RedeemInvite
<1>3. PICK grant \in Grant : Admit(a.joiner, grant, a.bundle \X {a.joiner})
  <2>1. handler[h].invite \in InviteIds /\ Open(handler[h].invite)
    BY WorkFields DEF RedeemInvite, MayRedeem
  <2>2. invites[handler[h].invite].request.grant \in Grant
    BY <2>1, OpenInvite, InviteGrantsAssumption DEF Invite, InviteRequest
  <2> QED
    BY <1>1, <2>2 DEF RedeemInvite, AdmitByInvite
<1>4. Active(a.joiner)'
  BY <1>2, <1>3 DEF Admit, Active, ActiveAs, InvitesTypeOK, StoreTypeOK
<1>5. a.joiner \in Listed(snapshot')
  BY <1>2, <1>3, NoGrantAssumption
  DEF Admit, Publish, WithMember, Listed, InvitesTypeOK, StoreTypeOK, Snapshot
<1>6. \A s \in a.bundle \cap scopes' : a.joiner \in envelopes'[s]
  BY <1>2, <1>3 DEF Admit, AddEnvelopes
<1> QED
  BY <1>4, <1>5, <1>6

LEMMA LetInMeansMemberStep ==
    ASSUME InvitesTypeOK, LetInMeansMember, [Next]_vars
    PROVE  LetInMeansMember'
<1>1. ASSUME NEW a \in redeemed, a.bundle # {}
      PROVE  /\ Active(a.joiner)' /\ a.joiner \in Listed(snapshot')
             /\ \A s \in a.bundle \cap scopes' : a.joiner \in envelopes'[s]
  <2>1. a.joiner \in Keys /\ scopes \subseteq Scopes
    BY DEF InvitesTypeOK, Redemption, StoreTypeOK
  <2>2. /\ Active(a.joiner) /\ a.joiner \in Listed(snapshot)
        /\ \A s \in a.bundle \cap scopes : a.joiner \in envelopes[s]
    BY <1>1 DEF LetInMeansMember
  <2> QED
    BY <2>1, <2>2, MembersStay
<1>2. ASSUME NEW a \in redeemed' \ redeemed
      PROVE  \E h \in Handlers : RedeemInvite(h)
  <2>1. redeemed' # redeemed
    BY <1>2
  <2>2. ~UNCHANGED vars
    BY <2>1 DEF vars
  <2>3. ASSUME NEW k \in Keys, RequestToJoin(k)
        PROVE  UNCHANGED redeemed
    BY <2>3 DEF RequestToJoin
  <2>4. ASSUME NEW h \in Handlers, Manage(h)
        PROVE  UNCHANGED redeemed
    BY <2>4 DEF Manage, BeginCreate, BeginRevoke, BeginApprove, BeginDecline, Begin
  <2>5. ASSUME NEW h \in Handlers, NEW k \in Keys, NEW i \in InviteIds, BeginPIN(h, k, i)
        PROVE  UNCHANGED redeemed
    BY <2>5 DEF BeginPIN, Begin
  <2>6. ASSUME NEW h \in Handlers, CreateTeamInvite(h) \/ RevokeTeamInvite(h) \/ Decide(h)
        PROVE  UNCHANGED redeemed
    BY <2>6 DEF CreateTeamInvite, RevokeTeamInvite, Decide
  <2>7. ASSUME NEW h \in Handlers, RefusePIN(h) \/ RefuseInvite(h)
        PROVE  UNCHANGED redeemed
    BY <2>7 DEF RefusePIN, RefuseInvite
  <2> QED
    BY <2>1, <2>2, <2>3, <2>4, <2>5, <2>6, <2>7 DEF Next
<1> QED
  BY <1>1, <1>2, NewRedemption DEF LetInMeansMember

\* Whoever was told that the invite let them in is a member of the published
\* team and holds the keys it carried, whatever else was decided meanwhile.
THEOREM LetInAsTold == Spec => []LetInMeansMember
<1>1. Init => LetInMeansMember
  BY DEF Init, LetInMeansMember
<1>2. InvitesTypeOK /\ LetInMeansMember /\ [Next]_vars => LetInMeansMember'
  BY LetInMeansMemberStep
<1> QED
  BY <1>1, <1>2, InvitesTypeCorrect, PTL DEF Spec
=============================================================================
