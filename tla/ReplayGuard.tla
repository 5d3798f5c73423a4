---------------------------- MODULE ReplayGuard ----------------------------
(***************************************************************************)
(* The nonces of signed requests.  One signed request can reach the server *)
(* more than once (a transport that sends it again on a new connection, a  *)
(* copy that was held up).  A handler compares its timestamp with the      *)
(* clock, goes on to load the member and to verify the signature, and then *)
(* has the store drop the nonces that expired and reserve the request's:   *)
(* one locked section of the MemoryStore, two statements of the SQLStore,  *)
(* which are the finer of the two and the ones modelled.                   *)
(***************************************************************************)
EXTENDS Naturals, Sequences

CONSTANTS
    SignedRequests, \* a key, a nonce and a timestamp each
    Handlers,       \* requests the server works on at the same time
    Skew,           \* RequestSkew, 5 minutes unless configured
    Margin,         \* how much longer than Skew a nonce is kept, 1 minute
    Patience,       \* longest time from a handler's look at the clock to its end
    Horizon         \* bound on the time looked at

ASSUME TimesAssumption ==
    /\ {Skew, Margin, Patience, Horizon} \subseteq Nat
    /\ Margin > 0

VARIABLES
    stamp,       \* the timestamps of the requests, fixed when they are signed
    clock,       \* the server's and the store's time
    handler,     \* per handler: its phase, its request, when it was checked
    expiry,      \* per request, when its nonce expires, 0 if not remembered
    accepted     \* history: per request, when the copies that passed were checked

replayVars == <<stamp, clock, handler, expiry, accepted>>

Phase == {"idle", "verified", "swept"}
Verification == [phase : Phase, request : SignedRequests, checked : Nat]

ReplayTypeOK ==
    /\ stamp \in [SignedRequests -> Nat]
    /\ clock \in Nat
    /\ handler \in [Handlers -> Verification]
    /\ expiry \in [SignedRequests -> Nat]
    /\ accepted \in [SignedRequests -> Seq(Nat)]

ReplayInit ==
    /\ stamp \in [SignedRequests -> 0 .. Horizon]
    /\ clock = 0
    /\ handler \in [Handlers -> [phase : {"idle"}, request : SignedRequests, checked : {0}]]
    /\ expiry = [q \in SignedRequests |-> 0]
    /\ accepted = [q \in SignedRequests |-> <<>>]

Busy(h) == handler[h].phase # "idle"

\* Time passes, but not beyond what a busy handler takes.
Tick ==
    /\ clock < Horizon
    /\ \A h \in Handlers : Busy(h) => clock < handler[h].checked + Patience
    /\ clock' = clock + 1
    /\ UNCHANGED <<stamp, handler, expiry, accepted>>

\* verifyProtectedRequest up to the store's ReserveNonce, and likewise
\* verifySetupSignature and verifyInvitePINSignature; other requests end here.
Verify(h, q) ==
    /\ ~Busy(h)
    /\ stamp[q] <= clock + Skew
    /\ clock <= stamp[q] + Skew
    /\ handler' = [handler EXCEPT ![h] =
                    [phase |-> "verified", request |-> q, checked |-> clock]]
    /\ UNCHANGED <<stamp, clock, expiry, accepted>>

\* Mutant: the nonce is kept for the accepted window only.
MutExpiry(checked) == checked + Skew
Expiry(checked) == checked + Skew + Margin

\* ReserveNonce drops every nonce that has expired by now.
Sweep(h) ==
    /\ handler[h].phase = "verified"
    /\ expiry' = [q \in SignedRequests |-> IF expiry[q] <= clock THEN 0 ELSE expiry[q]]
    /\ handler' = [handler EXCEPT ![h].phase = "swept"]
    /\ UNCHANGED <<stamp, clock, accepted>>

\* ReserveNonce inserts the nonce, or finds it there and refuses the request.
Reserve(h) ==
    LET q == handler[h].request
    IN  /\ handler[h].phase = "swept"
        /\ handler' = [handler EXCEPT ![h].phase = "idle"]
        /\ \/ /\ expiry[q] = 0
              /\ expiry' = [expiry EXCEPT ![q] = Expiry(handler[h].checked)]
              /\ accepted' = [accepted EXCEPT ![q] = Append(@, handler[h].checked)]
           \/ /\ expiry[q] # 0
              /\ UNCHANGED <<expiry, accepted>>
        /\ UNCHANGED <<stamp, clock>>

ReplayNext ==
    \/ Tick
    \/ \E h \in Handlers :
        \/ \E q \in SignedRequests : Verify(h, q)
        \/ Sweep(h)
        \/ Reserve(h)

ReplaySpec == ReplayInit /\ [][ReplayNext]_replayVars

-----------------------------------------------------------------------------
\* What the margin buys: a signed request passes verification once, however
\* many copies arrive and however they overlap with each other and with the
\* expiry of the nonce, unless its timestamp was ahead of the server's clock
\* when the first copy was checked, by the margin or more (less the time a
\* handler takes).  The window admits timestamps ahead by all of Skew, so that
\* the technical design's "A nonce can be accepted only once for a given public
\* key SHA" is what the code does for the others.
OnceUnlessAhead ==
    \A q \in SignedRequests :
        Len(accepted[q]) > 1 => stamp[q] + Patience >= accepted[q][1] + Margin

\* A copy that passes after another one does so when the other's nonce has
\* lived its full life, not when a sweep came early or two handlers met.
KeptApart ==
    \A q \in SignedRequests : \A i, j \in 1 .. Len(accepted[q]) :
        i < j => accepted[q][j] + Patience >= accepted[q][i] + Skew + Margin

\* A handler at work on a request checked it in the accepted window, not
\* longer than Patience ago.
CheckedInWindow ==
    \A h \in Handlers :
        Busy(h) =>
            /\ handler[h].checked <= clock
            /\ clock <= handler[h].checked + Patience
            /\ handler[h].checked <= stamp[handler[h].request] + Skew

\* Every copy that passed was checked in the accepted window.
AcceptedInWindow ==
    \A q \in SignedRequests : \A i \in 1 .. Len(accepted[q]) :
        accepted[q][i] <= stamp[q] + Skew

\* The nonce remembered is the last accepted copy's, and the lives of all
\* others are over.
RememberedUntilOver ==
    \A q \in SignedRequests :
        /\ expiry[q] # 0 =>
            /\ accepted[q] # <<>>
            /\ expiry[q] = accepted[q][Len(accepted[q])] + Skew + Margin
        /\ \A i \in 1 .. Len(accepted[q]) :
            expiry[q] = 0 \/ i < Len(accepted[q]) =>
                accepted[q][i] + Skew + Margin <= clock
=============================================================================
