---------------------------- MODULE SharedSession ----------------------------
(***************************************************************************)
(* Who gets the one mediator session of a phone: sign-ins one at a time,   *)
(* holds that keep it for an identity while a step runs, the claim an      *)
(* ordinary sign-in leaves behind, and polls that give way until it is     *)
(* their turn (vtiAgent.ts: signIn, holding, blockerFor, whenFree).        *)
(*                                                                         *)
(* A caller stands at one of its awaits: for the sign-in under way         *)
(* ("trying"), for a hold to move ("waiting"), for its own sign-in         *)
(* ("signingIn"), for the function it holds the session for ("inside"),    *)
(* or, refused, in whenFree ("refused").  Times are in ticks left.         *)
(***************************************************************************)
EXTENDS Naturals, FiniteSets

CONSTANTS
  Callers, NoCaller,
  Dids, NoDid,
  CallerDid,   \* the identity each caller wants the session as
  CallerKind,  \* "step", "listing", "connect", "poll" or "look"
  Endless,     \* the callers that come back again and again; the others come once
  HoldTime,    \* VTI_HOLD_MAX_MS, in ticks
  PollTime,    \* VTI_BACKGROUND_HOLD_MAX_MS
  ClaimTime,   \* VTI_FOREGROUND_CLAIM_MS
  TurnAfter,   \* VTI_TURN_AFTER_REFUSALS
  MaxMishaps   \* bound: sockets dropped and sign-ins failed

Kinds == {"step", "listing", "connect", "poll", "look"}

ASSUME CallersOK ==
  /\ NoCaller \notin Callers /\ NoDid \notin Dids /\ Endless \subseteq Callers
  /\ CallerDid \in [Callers -> Dids] /\ CallerKind \in [Callers -> Kinds]
ASSUME TimesOK == {HoldTime, PollTime, ClaimTime, TurnAfter, MaxMishaps} \subseteq Nat

VARIABLES
  at,          \* where each caller stands
  came,        \* the callers that came already
  left,        \* holds: the time left of each caller's, 0 when it has none
  woken,       \* callers whose holdsMoved() resolved
  alarm,       \* the timer of each caller's holdsMoved(), 0 when it has none
  connecting,  \* the caller whose connectNow runs
  session,     \* the identity of the session there is
  open,        \* its socket is open
  claim,       \* the identity of the claim
  claimLeft,   \* the time left of it
  refusals,    \* refusedByClaim
  mishaps

vars == <<at, came, left, woken, alarm, connecting, session, open, claim, claimLeft, refusals, mishaps>>
claims == <<claim, claimLeft, refusals>>

Background(c) == CallerKind[c] \in {"poll", "look"}
Ordinary(c) == ~Background(c)
Holds(c) == CallerKind[c] \in {"step", "listing", "poll"}
Claims(c) == CallerKind[c] \in {"step", "connect"}

-----------------------------------------------------------------------------
(* blockerFor                                                              *)

Other(c) == {o \in Callers : CallerDid[o] # CallerDid[c]}
OrdinaryHolds(c) == {h \in Other(c) : left[h] > 0 /\ Ordinary(h)}
PollHolds(c) == {h \in Other(c) : left[h] > 0 /\ Background(h)}
ForegroundWaiting(c) == {w \in Other(c) : at[w] = "waiting" /\ Ordinary(w)}

\* Fault: a claim stands however often it refused.
ClaimedForEver(c) == claimLeft > 0 /\ claim # CallerDid[c] /\ claim = session

\* The claim of another identity's ordinary sign-in, until it refused this one TurnAfter times.
Claimed(c) ==
  /\ claimLeft > 0 /\ claim # CallerDid[c] /\ claim = session
  /\ refusals[CallerDid[c]] < TurnAfter

KeptByCallers(c) == OrdinaryHolds(c) # {} \/ ForegroundWaiting(c) # {}
Refused(c) == Background(c) /\ (KeptByCallers(c) \/ Claimed(c))

\* Fault: an ordinary sign-in waits for nobody's hold.
MustWaitForPolls(c) == ~Refused(c) /\ PollHolds(c) # {}

\* An ordinary sign-in waits for the ordinary holds of others, a poll for the polls of others.
MustWait(c) == ~Refused(c) /\ (IF Ordinary(c) THEN OrdinaryHolds(c) ELSE PollHolds(c)) # {}

-----------------------------------------------------------------------------
(* holdsMoved and holdsChanged                                             *)

Watching == {c \in Callers : at[c] \in {"waiting", "refused"}}

\* Every watcher is woken but c, which registers after.
WakeOthers(c) == woken' = woken \cup (Watching \ {c})
WakeAll == WakeOthers(NoCaller)

\* The soonest end of a hold or of the claim; 0 when there is none.
HoldEnds == {left[h] : h \in Callers} \cup {claimLeft}
Soonest(t) == \A u \in HoldEnds : u > 0 => t > 0 /\ t <= u

\* Fault: no timer is set for the end of a hold.
WatchUntimed(c) == UNCHANGED alarm

Watch(c) == \E t \in HoldEnds \cup {0} : Soonest(t) /\ alarm' = [alarm EXCEPT ![c] = t]

-----------------------------------------------------------------------------
(* signIn                                                                  *)

\* connect or holding is called.
Call(c) ==
  /\ at[c] = "idle" /\ (c \in came => c \in Endless)
  /\ at' = [at EXCEPT ![c] = "trying"]
  /\ came' = came \cup {c}
  /\ UNCHANGED <<left, woken, alarm, connecting, session, open, claims, mishaps>>

\* No sign-in is under way: c looks for what blocks it.
Looks(c) ==
  /\ connecting = NoCaller
  /\ at[c] = "trying" \/ (at[c] = "waiting" /\ c \in woken)

Refuse(c) ==
  /\ Looks(c) /\ Refused(c)
  /\ refusals' = IF KeptByCallers(c) \/ refusals[CallerDid[c]] = TurnAfter THEN refusals
                 ELSE [refusals EXCEPT ![CallerDid[c]] = @ + 1]
  /\ at' = [at EXCEPT ![c] = IF Holds(c) THEN "refused" ELSE "idle"]
  /\ woken' = IF Holds(c) THEN woken \cup {c} ELSE woken \ {c}
  /\ alarm' = [alarm EXCEPT ![c] = 0]
  /\ UNCHANGED <<came, left, connecting, session, open, claim, claimLeft, mishaps>>

Wait(c) ==
  /\ Looks(c) /\ MustWait(c)
  /\ at' = [at EXCEPT ![c] = "waiting"]
  /\ woken' = (IF Ordinary(c) /\ at[c] = "trying" THEN woken \cup Watching ELSE woken) \ {c}
  /\ Watch(c)
  /\ UNCHANGED <<came, left, connecting, session, open, claims, mishaps>>

\* connectNow begins: a session of another identity, or a dead one, is let go.
Begin(c) ==
  /\ Looks(c) /\ ~Refused(c) /\ ~MustWait(c)
  /\ at' = [at EXCEPT ![c] = "signingIn"]
  /\ connecting' = c
  /\ woken' = (IF Ordinary(c) /\ at[c] = "waiting" THEN woken \cup Watching ELSE woken) \ {c}
  /\ alarm' = [alarm EXCEPT ![c] = 0]
  /\ IF session = CallerDid[c] /\ open
     THEN UNCHANGED <<session, open>>
     ELSE session' = NoDid /\ open' = FALSE
  /\ UNCHANGED <<came, left, claims, mishaps>>

TakeHold(c) ==
  /\ left' = [left EXCEPT ![c] = IF Background(c) THEN PollTime ELSE HoldTime]
  /\ at' = [at EXCEPT ![c] = "inside"]
  /\ WakeAll

\* It settles: the claim, the turn counted afresh, and the hold in the same step. A hold
\* whose session is gone by then signs in again.
SignedIn(c) ==
  /\ connecting = c
  /\ connecting' = NoCaller
  /\ session' = CallerDid[c] /\ open' = (session = NoDid \/ open)
  /\ IF Claims(c) THEN claim' = CallerDid[c] /\ claimLeft' = ClaimTime
                  ELSE UNCHANGED <<claim, claimLeft>>
  /\ refusals' = [refusals EXCEPT ![CallerDid[c]] = 0]
  /\ IF Holds(c) /\ open' THEN TakeHold(c)
     ELSE /\ at' = [at EXCEPT ![c] = IF Holds(c) THEN "trying" ELSE "idle"]
          /\ UNCHANGED <<left, woken>>
  /\ UNCHANGED <<came, alarm, mishaps>>

SignInFails(c) ==
  /\ connecting = c /\ session = NoDid
  /\ mishaps < MaxMishaps /\ mishaps' = mishaps + 1
  /\ connecting' = NoCaller
  /\ at' = [at EXCEPT ![c] = "idle"]
  /\ UNCHANGED <<came, left, woken, alarm, session, open, claims>>

\* The function a caller holds the session for settles.
Finish(c) ==
  /\ at[c] = "inside"
  /\ at' = [at EXCEPT ![c] = "idle"]
  /\ left' = [left EXCEPT ![c] = 0]
  /\ WakeAll
  /\ UNCHANGED <<came, alarm, connecting, session, open, claims, mishaps>>

\* whenFree looks again; free, the poll is made once more.
WhenFree(c) ==
  /\ at[c] = "refused" /\ c \in woken
  /\ woken' = woken \ {c}
  /\ IF Refused(c) THEN Watch(c) /\ UNCHANGED at
     ELSE at' = [at EXCEPT ![c] = "trying"] /\ alarm' = [alarm EXCEPT ![c] = 0]
  /\ UNCHANGED <<came, left, connecting, session, open, claims, mishaps>>

\* A poll comes back with its screen's timer, too.
PollAgain(c) ==
  /\ at[c] = "refused"
  /\ at' = [at EXCEPT ![c] = "trying"]
  /\ woken' = woken \ {c} /\ alarm' = [alarm EXCEPT ![c] = 0]
  /\ UNCHANGED <<came, left, connecting, session, open, claims, mishaps>>

Drop ==
  /\ open /\ mishaps < MaxMishaps /\ mishaps' = mishaps + 1
  /\ open' = FALSE
  /\ UNCHANGED <<at, came, left, woken, alarm, connecting, session, claims>>

Less(n) == IF n = 0 THEN 0 ELSE n - 1

Tick ==
  /\ claimLeft > 0 \/ \E c \in Callers : left[c] + alarm[c] > 0
  /\ left' = [c \in Callers |-> Less(left[c])]
  /\ alarm' = [c \in Callers |-> Less(alarm[c])]
  /\ claimLeft' = Less(claimLeft)
  /\ woken' = woken \cup {c \in Watching : alarm[c] = 1}
  /\ UNCHANGED <<at, came, connecting, session, open, claim, refusals, mishaps>>

-----------------------------------------------------------------------------
Init ==
  /\ at = [c \in Callers |-> "idle"] /\ came = {}
  /\ left = [c \in Callers |-> 0] /\ alarm = [c \in Callers |-> 0] /\ woken = {}
  /\ connecting = NoCaller /\ session = NoDid /\ open = FALSE
  /\ claim = NoDid /\ claimLeft = 0 /\ refusals = [d \in Dids |-> 0]
  /\ mishaps = 0

Settle(c) == Refuse(c) \/ Wait(c) \/ Begin(c)

Next ==
  \/ Drop \/ Tick
  \/ \E c \in Callers :
       Call(c) \/ Settle(c) \/ SignedIn(c) \/ SignInFails(c) \/ Finish(c) \/ WhenFree(c) \/ PollAgain(c)

Spec == Init /\ [][Next]_vars

\* Time passes; a sign-in settles (its steps have deadlines); whoever waits for it gets to
\* look in the end; a screen's timer looks again.  The function a hold is for may hang.
Fairness ==
  /\ WF_vars(Tick)
  /\ \A c \in Callers :
       /\ SF_vars(Settle(c)) /\ WF_vars(SignedIn(c)) /\ WF_vars(WhenFree(c))
       /\ WF_vars(PollAgain(c))

FairSpec == Spec /\ Fairness

-----------------------------------------------------------------------------
TypeOK ==
  /\ at \in [Callers -> {"idle", "trying", "waiting", "signingIn", "inside", "refused"}]
  /\ came \subseteq Callers /\ woken \subseteq Callers
  /\ left \in [Callers -> Nat] /\ alarm \in [Callers -> Nat] /\ claimLeft \in Nat
  /\ connecting \in Callers \cup {NoCaller}
  /\ session \in Dids \cup {NoDid} /\ claim \in Dids \cup {NoDid} /\ open \in BOOLEAN
  /\ refusals \in [Dids -> 0..TurnAfter] /\ mishaps \in 0..MaxMishaps

(* While an ordinary hold is live the session is not another identity's,    *)
(* and nobody is signing in as another one (holding: "let nothing switch    *)
(* the session to another identity until fn settles or maxMs passes").      *)
HeldForItsIdentity ==
  \A c \in Callers : Ordinary(c) /\ left[c] > 0 =>
    /\ session \in {CallerDid[c], NoDid}
    /\ connecting # NoCaller => CallerDid[connecting] = CallerDid[c]

(* Whoever asks for the session gets it, or is told that it is kept, in the *)
(* end: no sign-in waits for ever, whoever else comes and goes (holdsMoved, *)
(* the times of holds, `while (this.connecting)`).                          *)
CallsSettle == \A c \in Callers : at[c] = "trying" ~> at[c] \in {"idle", "inside", "refused"}

(* A poll refused while ordinary sign-ins keep renewing their claim gets    *)
(* its turn (VTI_TURN_AFTER_REFUSALS, whenFree).                            *)
PollsGetTheirTurn ==
  \A c \in Callers : CallerKind[c] = "poll" /\ at[c] = "refused" ~> at[c] \in {"inside", "idle"}
=============================================================================
