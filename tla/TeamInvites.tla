---------------------------- MODULE TeamInvites ----------------------------
(***************************************************************************)
(* The ways into one team: PIN invites, which a manager creates and may    *)
(* revoke and which let the holder of the PIN in at once, next to join     *)
(* requests, which a manager approves or declines.  Handlers run           *)
(* concurrently: a manager's request is verified in one step and carried   *)
(* out in a later one, and a PIN submission reads the invite's bundle of   *)
(* scope keys and re-encrypts it before the store looks at the PIN.        *)
(***************************************************************************)
EXTENDS TeamStore

CONSTANTS
    InviteIds,       \* ids randomInviteID draws
    Handlers,        \* requests the server works on at the same time
    InviteGrants,    \* entries invites carry
    JoinGrants,      \* entries managers approve
    InitialScopes    \* the scopes the team is set up with

ASSUME InviteGrantsAssumption == InviteGrants \subseteq Grant /\ JoinGrants \subseteq Grant
ASSUME InviteScopesAssumption == InitialScopes \subseteq Scopes
ASSUME NoGrantAssumption == None \notin Grant

VARIABLES
    invites,     \* team.invites
    handler,     \* per handler, the request it is in the middle of
    redeemed     \* history: the successful redemptions, as answered

vars == <<revision, snapshot, members, scopes, access, envelopes, secrets,
          configOps, envOps, published, invites, handler, redeemed>>

Idle == None
MaxFailedAttempts == 3

InviteStatus == {"active", "redeemed", "revoked", "invalidated_pin"}

\* CreateTeamInviteRequest, with the key that signed it.
InviteRequest == [op : OpIds, key : Keys, grant : InviteGrants, bundle : SUBSET Scopes]

Invite == [request : InviteRequest, status : InviteStatus,
           failedAttempts : Nat]

ASSUME NoInviteAssumption == None \notin Invite

\* What a handler is about to ask of the store.
Work ==
    [kind : {"create"}, request : InviteRequest]
    \cup [kind : {"revoke"}, key : Keys, invite : InviteIds]
    \cup [kind : {"approve"}, key : Keys, joiner : Keys, grant : JoinGrants,
          recipients : Recipients]
    \cup [kind : {"decline"}, key : Keys, joiner : Keys]
    \cup [kind : {"pin"}, invite : InviteIds, joiner : Keys, right : BOOLEAN,
          bundle : SUBSET Scopes]

Redemption == [invite : InviteIds, joiner : Keys, bundle : SUBSET Scopes]

InvitesTypeOK ==
    /\ StoreTypeOK
    /\ invites \in [InviteIds -> Invite \cup {None}]
    /\ handler \in [Handlers -> Work \cup {Idle}]
    /\ redeemed \in SUBSET Redemption

Init ==
    /\ CreateTeamSetup(InitialScopes)
    /\ invites = [i \in InviteIds |-> None]
    /\ handler = [h \in Handlers |-> Idle]
    /\ redeemed = {}

-----------------------------------------------------------------------------
Open(i) == invites[i] # None /\ invites[i].status = "active"

Begin(h, work) ==
    /\ handler[h] = Idle
    /\ handler' = [handler EXCEPT ![h] = work]
    /\ UNCHANGED <<store, invites, redeemed>>

\* verifyProtectedRequest and the handlers' own management check.
MayManage(k) == Active(k) /\ members[k].management

\* `team invite': the bundle has the scope keys the manager's CLI could fetch,
\* of the scopes granted or, when there are none, of all; a key it cannot get
\* is left out with a warning.
BeginCreate(h, k) ==
    /\ MayManage(k)
    /\ \E op \in OpIds, grant \in InviteGrants :
        LET granted == {s \in Scopes : grant.scopes[s] # Unset}
            wanted  == IF granted = {} THEN snapshot.scopes ELSE granted
        IN  \E bundle \in SUBSET {s \in wanted : HoldsKey(k, s)} :
                Begin(h, [kind |-> "create",
                          request |-> [op |-> op, key |-> k, grant |-> grant,
                                       bundle |-> bundle]])

BeginRevoke(h, k) ==
    /\ MayManage(k)
    /\ \E i \in InviteIds : Begin(h, [kind |-> "revoke", key |-> k, invite |-> i])

BeginApprove(h, k) ==
    /\ MayManage(k)
    /\ \E j \in Keys, grant \in JoinGrants :
        /\ Requested(j, grant)
        /\ HoldsKeys(k, grant)
        /\ Begin(h, [kind |-> "approve", key |-> k, joiner |-> j, grant |-> grant,
                     recipients |-> JoinRecipients(grant, j)])

BeginDecline(h, k) ==
    /\ MayManage(k)
    /\ \E j \in Keys : Begin(h, [kind |-> "decline", key |-> k, joiner |-> j])

\* GetInviteScopeKeyBundle and reEncryptBundleForJoiner: an invite that is not
\* there or not active gives no bundle, and the submission goes on without.
BeginPIN(h, k, i) ==
    \E right \in BOOLEAN :
        Begin(h, [kind |-> "pin", invite |-> i, joiner |-> k, right |-> right,
                  bundle |-> IF Open(i) THEN invites[i].request.bundle ELSE {}])

-----------------------------------------------------------------------------
Doing(h, kind) == handler[h] # Idle /\ handler[h].kind = kind
Done(h) == handler' = [handler EXCEPT ![h] = Idle]

\* CreateTeamInvite: a fresh id each time; the operation id is not looked up.
CreateTeamInvite(h) ==
    /\ Doing(h, "create")
    /\ Done(h)
    /\ UNCHANGED <<store, redeemed>>
    /\ LET r == handler[h].request
       IN  \/ /\ Active(r.key)
              /\ \E i \in InviteIds :
                    /\ invites[i] = None
                    /\ invites' = [invites EXCEPT ![i] =
                          [request |-> r, status |-> "active", failedAttempts |-> 0]]
           \/ /\ ~Active(r.key) \/ \A i \in InviteIds : invites[i] # None
              /\ UNCHANGED invites

\* RevokeTeamInvite.
RevokeTeamInvite(h) ==
    /\ Doing(h, "revoke")
    /\ Done(h)
    /\ UNCHANGED <<store, redeemed>>
    /\ LET r == handler[h]
           may == Active(r.key) /\ Open(r.invite)
       IN  \/ may /\ invites' = [invites EXCEPT ![r.invite].status = "revoked"]
           \/ ~may /\ UNCHANGED invites

\* ApproveJoinRequest and DeclineJoinRequest, with TeamStore's effect.
Decide(h) ==
    /\ Doing(h, "approve") \/ Doing(h, "decline")
    /\ Done(h)
    /\ UNCHANGED <<invites, redeemed>>
    /\ LET r == handler[h]
       IN  \/ r.kind = "approve" /\ ApproveJoinRequest(r, TRUE)
           \/ r.kind = "decline" /\ DeclineJoinRequest(r, TRUE)
           \/ ~MayDecide(r.key, TRUE, r.joiner) /\ UNCHANGED store

\* CreateJoinRequest, signed with the joiner's own key.
RequestToJoin(k) ==
    /\ \E management \in BOOLEAN : CreateJoinRequest(k, management)
    /\ UNCHANGED <<invites, handler, redeemed>>

\* Mutant: an invite that gave its bundle is taken to be active still.
MutMayRedeem(r) == invites[r.invite] # None /\ (Open(r.invite) \/ r.bundle # {})
MayRedeem(r) == Open(r.invite)

\* SubmitInvitePIN with the PIN of the invite: it is redeemed, and with a
\* bundle its holder becomes a member whatever record there was before.
RedeemInvite(h) ==
    LET r == handler[h]
        grant == invites[r.invite].request.grant
    IN  /\ Doing(h, "pin") /\ r.right /\ MayRedeem(r)
        /\ Done(h)
        /\ invites' = [invites EXCEPT ![r.invite].status = "redeemed"]
        /\ redeemed' = redeemed \cup
             {[invite |-> r.invite, joiner |-> r.joiner, bundle |-> r.bundle]}
        /\ \/ r.bundle # {} /\ AdmitByInvite(r.joiner, grant, r.bundle \X {r.joiner})
           \/ r.bundle = {} /\ UNCHANGED store

\* Mutant: one more attempt is allowed.
MutOutOfAttempts(failed) == failed > MaxFailedAttempts
OutOfAttempts(failed) == failed >= MaxFailedAttempts

\* SubmitInvitePIN with another PIN.
RefusePIN(h) ==
    LET r == handler[h]
        failed == invites[r.invite].failedAttempts + 1
    IN  /\ Doing(h, "pin") /\ ~r.right /\ Open(r.invite)
        /\ Done(h)
        /\ invites' = [invites EXCEPT
             ![r.invite].failedAttempts = failed,
             ![r.invite].status = IF OutOfAttempts(failed) THEN "invalidated_pin" ELSE @]
        /\ UNCHANGED <<store, redeemed>>

\* SubmitInvitePIN for an invite that is gone or not active.
RefuseInvite(h) ==
    /\ Doing(h, "pin")
    /\ ~MayRedeem(handler[h])
    /\ Done(h)
    /\ UNCHANGED <<store, invites, redeemed>>

Manage(h) ==
    \E k \in Keys :
        BeginCreate(h, k) \/ BeginRevoke(h, k) \/ BeginApprove(h, k) \/ BeginDecline(h, k)

Next ==
    \/ \E k \in Keys : RequestToJoin(k)
    \/ \E h \in Handlers :
        \/ Manage(h)
        \/ \E k \in Keys, i \in InviteIds : BeginPIN(h, k, i)
        \/ CreateTeamInvite(h) \/ RevokeTeamInvite(h) \/ Decide(h)
        \/ RedeemInvite(h) \/ RefusePIN(h) \/ RefuseInvite(h)

Spec == Init /\ [][Next]_vars

-----------------------------------------------------------------------------
\* However submissions of one invite overlap, it is redeemed by at most one
\* key, and exactly the redeemed invites have a successful answer.
RedeemedAtMostOnce ==
    /\ \A a, b \in redeemed : a.invite = b.invite => a = b
    /\ {a.invite : a \in redeemed} =
         {i \in InviteIds : invites[i] # None /\ invites[i].status = "redeemed"}

\* The third wrong guess locks an invite and nothing else does, so at most
\* three guesses are ever answered, two of them before a redemption.
LockedByThirdGuess ==
    \A i \in InviteIds :
        invites[i] # None =>
            /\ invites[i].failedAttempts <= MaxFailedAttempts
            /\ invites[i].status = "invalidated_pin"
                  <=> invites[i].failedAttempts = MaxFailedAttempts

\* An invite that is revoked, redeemed or locked stays so and lets nobody in,
\* also if the submission had read its bundle while it was active.
EndedInvitesStayEnded ==
    [][\A i \in InviteIds :
        invites[i] # None /\ ~Open(i) =>
            /\ invites'[i] = invites[i]
            /\ \A a \in redeemed' \ redeemed : a.invite # i]_vars

\* A joiner told to be let in is an active member of the published team and
\* holds the keys the invite carried, whatever else is decided about it.
LetInMeansMember ==
    \A a \in redeemed :
        a.bundle # {} =>
            /\ Active(a.joiner)
            /\ a.joiner \in Listed(snapshot)
            /\ \A s \in a.bundle \cap scopes : a.joiner \in envelopes[s]
=============================================================================
