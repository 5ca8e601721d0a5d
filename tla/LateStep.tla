------------------------------- MODULE LateStep -------------------------------
(***************************************************************************)
(* Late-step holds (vrc/lateStep.ts): a step of the exchange found long    *)
(* after it was sent is held on that phone until both people say they are  *)
(* here.  Two phones, one connection.                                      *)
(*                                                                         *)
(* The steps are the three the source defers: sending the relationship DID *)
(* ("announce"), opening the ceremony ("open"), and delivering the card of *)
(* an accepted exchange (an element of Exchange).  The store of holds is   *)
(* memory; the kept hold is one metadata entry of the connection.  What a  *)
(* function does after an await is an action of its own.                   *)
(***************************************************************************)
EXTENDS Naturals, Sequences, FiniteSets

CONSTANTS
    Low, High,      \* the two phones
    Exchange,       \* exchanges whose acceptance may come late
    Window,         \* READY_WINDOW_MS, in ticks
    Askers,         \* bound: the phones whose person asks the other one
    Killed,         \* bound: the phones whose app is killed
    MaxTime,        \* bound: how long we watch
    MaxChecks,      \* bound: how many ready-checks a person sends
    MaxStops,       \* bound: how often a person stops the exchange
    MaxCrashes,     \* bound: how often an app is killed
    MaxDuplicates,  \* bound: how often a message is delivered once more
    MaxFailures,    \* bound: how often a send fails
    MaxMishaps      \* bound: how much of these four happens in all

ASSUME PhonesDiffer == Low # High
ASSUME StepsDiffer == Exchange \cap {"announce", "open"} = {}
ASSUME BoundsAreNat ==
    /\ Window \in Nat /\ MaxTime \in Nat /\ MaxChecks \in Nat /\ MaxStops \in Nat
    /\ MaxCrashes \in Nat /\ MaxDuplicates \in Nat /\ MaxFailures \in Nat /\ MaxMishaps \in Nat

VARIABLES
    kept,       \* the connection's kept hold: its step, and whether it is live (durable)
    up,         \* the app is running
    hold,       \* lateStepStore.holds: phase, and the check that is out        (volatile)
    pending,    \* lateStepStore.pending: the steps kept, in order              (volatile)
    peerCheck,  \* lateStepStore.peerChecks: the question on screen             (volatile)
    keeping,    \* keepHold under way, for these steps                          (volatile)
    checking,   \* askPeerReady before its send                                 (volatile)
    answering,  \* answerPeerCheck under way: check, ready, and whether sent    (volatile)
    releasing,  \* releaseHold under way: steps left, marked or not             (volatile)
    stopping,   \* a stop under way: ours, or the other phone's                 (volatile)
    restoring,  \* restoreLateHolds under way                                   (volatile)
    inbox,      \* each phone's queue at its mediator
    now,        \* the clock
    found,      \* the steps that came up at a phone                            (history)
    ran,        \* how often each step ran                                      (history)
    owed,       \* the steps deferred, and neither run nor stopped              (history)
    askedAt,    \* when each phone's checks were asked, in order                (history)
    saidReady,  \* the checks whose question a person answered "ready"          (history)
    crashes, duplicates, failures, stops

volatile == <<hold, pending, peerCheck, keeping, checking, answering, releasing, stopping, restoring>>
history == <<found, ran, owed, askedAt, saidReady>>
budget == <<crashes, duplicates, failures, stops>>
vars == <<kept, up, volatile, inbox, now, history, budget>>

Phone == {Low, High}
Other(p) == IF p = Low THEN High ELSE Low

Step == {"announce", "open"} \cup Exchange
Check == Phone \X (1..MaxChecks)
NoCheck == <<>>
NoAnswer == <<>>
NotHeld == [phase |-> "none", check |-> NoCheck, sentAt |-> 0]
Held == [phase |-> "held", check |-> NoCheck, sentAt |-> 0]
Asking(c, t) == [phase |-> "asking", check |-> c, sentAt |-> t]
NothingKept == [step |-> "none", live |-> FALSE]

Message == [kind : {"check"}, check : Check]
           \cup [kind : {"answer"}, check : Check, ready : BOOLEAN]
           \cup [kind : {"stop"}]

\* A release under way: what it still has to run.  `by` says whose answer it was: the
\* other person's, or this one's own.
ReleaseRun == [by : {"asker", "answerer"}, marked : BOOLEAN, steps : Seq(Step)]

MayGoWrong == crashes + duplicates + failures + stops < MaxMishaps

IsHeld(p) == hold[p].phase # "none"

-----------------------------------------------------------------------------
Init ==
    /\ kept = [p \in Phone |-> NothingKept]
    /\ up = [p \in Phone |-> TRUE]
    /\ hold = [p \in Phone |-> NotHeld]
    /\ pending = [p \in Phone |-> <<>>]
    /\ peerCheck = [p \in Phone |-> NoCheck]
    /\ keeping = [p \in Phone |-> {}]
    /\ checking = [p \in Phone |-> {}]
    /\ answering = [p \in Phone |-> NoAnswer]
    /\ releasing = [p \in Phone |-> {}]
    /\ stopping = [p \in Phone |-> {}]
    /\ restoring = [p \in Phone |-> FALSE]
    /\ inbox = [p \in Phone |-> <<>>]
    /\ now = 0
    /\ found = [p \in Phone |-> {}]
    /\ ran = [p \in Phone |-> [s \in Step |-> 0]]
    /\ owed = [p \in Phone |-> {}]
    /\ askedAt = [p \in Phone |-> <<>>]
    /\ saidReady = {}
    /\ crashes = 0 /\ duplicates = 0 /\ failures = 0 /\ stops = 0

\* lateStepStore.defer.
Defer(p, s) ==
    /\ pending' = [pending EXCEPT ![p] = Append(@, s)]
    /\ owed' = [owed EXCEPT ![p] = @ \cup {s}]

\* A step of the exchange runs.
Ran(p, s) == ran' = [ran EXCEPT ![p][s] = @ + 1]

\* The step came up in time, and runs at once; or late: hold, defer, and (after an await)
\* keepHold.  A second hold on the connection keeps the first.
InTime(p, s) ==
    /\ Ran(p, s)
    /\ UNCHANGED <<hold, pending, keeping, owed>>
FoundLate(p, s) ==
    /\ hold' = [hold EXCEPT ![p] = IF IsHeld(p) THEN @ ELSE Held]
    /\ Defer(p, s)
    /\ keeping' = [keeping EXCEPT ![p] = @ \cup {s}]
    /\ UNCHANGED ran

\* The connection completed at this phone.
Complete(p) ==
    /\ up[p] /\ "announce" \notin found[p]
    /\ found' = [found EXCEPT ![p] = @ \cup {"announce"}]
    /\ InTime(p, "announce") \/ FoundLate(p, "announce")
    /\ UNCHANGED <<kept, up, peerCheck, checking, answering, releasing, stopping, restoring,
                   inbox, now, askedAt, saidReady, budget>>

\* The other phone's relationship DID arrived: the opening is deferred while this
\* phone holds, and is not kept across a restart.
PeerAnnounced(p) ==
    /\ up[p] /\ "announce" \in found[p] /\ "open" \notin found[p]
    /\ ran[Other(p)]["announce"] > 0
    /\ found' = [found EXCEPT ![p] = @ \cup {"open"}]
    /\ IF IsHeld(p) THEN Defer(p, "open") /\ UNCHANGED ran
                    ELSE Ran(p, "open") /\ UNCHANGED <<pending, owed>>
    /\ UNCHANGED <<kept, up, hold, peerCheck, keeping, checking, answering, releasing, stopping,
                   restoring, inbox, now, askedAt, saidReady, budget>>

\* The acceptance of a propose of this phone's: Low proposes first, upgrades follow.
Accepted(p, e) ==
    /\ up[p] /\ \A q \in Phone : e \notin found[q]
    /\ ran[Low]["open"] > 0
    /\ p = High => found[Low] \cap Exchange # {}
    /\ found' = [found EXCEPT ![p] = @ \cup {e}]
    /\ InTime(p, e) \/ FoundLate(p, e)
    /\ UNCHANGED <<kept, up, peerCheck, checking, answering, releasing, stopping, restoring,
                   inbox, now, askedAt, saidReady, budget>>

\* keepHold: one entry per connection, overwritten.
KeepHold(p, s) ==
    /\ s \in keeping[p]
    /\ keeping' = [keeping EXCEPT ![p] = @ \ {s}]
    /\ kept' = [kept EXCEPT ![p] = [step |-> s, live |-> TRUE]]
    /\ UNCHANGED <<up, hold, pending, peerCheck, checking, answering, releasing, stopping, restoring,
                   inbox, now, history, budget>>

-----------------------------------------------------------------------------
(* Asking the other phone. *)

\* askPeerReady, before its send; the card offers it while nothing is asked.
AskPeer(p) ==
    /\ up[p] /\ p \in Askers /\ hold[p].phase = "held" /\ Len(askedAt[p]) < MaxChecks
    /\ LET c == <<p, Len(askedAt[p]) + 1>> IN
       /\ hold' = [hold EXCEPT ![p] = Asking(c, now)]
       /\ checking' = [checking EXCEPT ![p] = @ \cup {c}]
    /\ askedAt' = [askedAt EXCEPT ![p] = Append(@, now)]
    /\ UNCHANGED <<kept, up, pending, peerCheck, keeping, answering, releasing, stopping, restoring,
                   inbox, now, found, ran, owed, saidReady, budget>>

Deliver(p, m) == inbox' = [inbox EXCEPT ![Other(p)] = Append(@, m)]

CheckSent(p, c) ==
    /\ c \in checking[p]
    /\ checking' = [checking EXCEPT ![p] = @ \ {c}]
    /\ Deliver(p, [kind |-> "check", check |-> c])
    /\ UNCHANGED <<kept, up, hold, pending, peerCheck, keeping, answering, releasing, stopping, restoring,
                   now, history, budget>>

\* notAsked: only the check that was not sent is rolled back.
NotAsked(h, c) == IF h.phase = "asking" /\ h.check = c THEN Held ELSE h

CheckFails(p, c) ==
    /\ c \in checking[p]
    /\ MayGoWrong /\ failures < MaxFailures /\ failures' = failures + 1
    /\ checking' = [checking EXCEPT ![p] = @ \ {c}]
    /\ hold' = [hold EXCEPT ![p] = NotAsked(@, c)]
    /\ UNCHANGED <<kept, up, pending, peerCheck, keeping, answering, releasing, stopping, restoring,
                   inbox, now, history, crashes, duplicates, stops>>

\* "Stop for now": dismiss with stopAsking.
StopAsking(p) ==
    /\ up[p] /\ hold[p].phase = "asking"
    /\ hold' = [hold EXCEPT ![p] = Held]
    /\ UNCHANGED <<kept, up, pending, peerCheck, keeping, checking, answering, releasing, stopping, restoring,
                   inbox, now, history, budget>>

-----------------------------------------------------------------------------
(* Answering, and the release. *)

\* The sheet offers the two answers while no answer is under way.
Answer(p, ready) ==
    /\ up[p] /\ peerCheck[p] # NoCheck /\ answering[p] = NoAnswer
    /\ answering' = [answering EXCEPT ![p] = [check |-> peerCheck[p], ready |-> ready, sent |-> FALSE]]
    /\ saidReady' = IF ready THEN saidReady \cup {peerCheck[p]} ELSE saidReady
    /\ UNCHANGED <<kept, up, hold, pending, peerCheck, keeping, checking, releasing, stopping, restoring,
                   inbox, now, found, ran, owed, askedAt, budget>>

AnswerSent(p) ==
    /\ answering[p] # NoAnswer /\ ~answering[p].sent
    /\ answering' = [answering EXCEPT ![p].sent = TRUE]
    /\ Deliver(p, [kind |-> "answer", check |-> answering[p].check, ready |-> answering[p].ready])
    /\ UNCHANGED <<kept, up, hold, pending, peerCheck, keeping, checking, releasing, stopping, restoring,
                   now, history, budget>>

AnswerFails(p) ==
    /\ answering[p] # NoAnswer /\ ~answering[p].sent
    /\ MayGoWrong /\ failures < MaxFailures /\ failures' = failures + 1
    /\ answering' = [answering EXCEPT ![p] = NoAnswer]
    /\ UNCHANGED <<kept, up, hold, pending, peerCheck, keeping, checking, releasing, stopping, restoring,
                   inbox, now, history, crashes, duplicates, stops>>

\* Fault: the kept steps stay in the store.
ReleaseStepsLeft(p, by) ==
    /\ hold' = [hold EXCEPT ![p] = NotHeld]
    /\ releasing' = [releasing EXCEPT ![p] = @ \cup {[by |-> by, marked |-> FALSE, steps |-> pending[p]]}]
    /\ UNCHANGED pending

\* releaseHold up to its await: lateStepStore.release hands back the steps.
ReleaseSteps(p, by) ==
    /\ hold' = [hold EXCEPT ![p] = NotHeld]
    /\ pending' = [pending EXCEPT ![p] = <<>>]
    /\ releasing' = [releasing EXCEPT ![p] = @ \cup {[by |-> by, marked |-> FALSE, steps |-> pending[p]]}]

\* Fault: the question on screen goes, whichever it is.
AfterClearAny(shown, c) == NoCheck

\* clearPeerCheck(checkId): one that came in since is kept.
AfterClear(shown, c) == IF shown = c THEN NoCheck ELSE shown

\* answerPeerCheck after its send: ready also releases this phone's own hold.
AnswerDone(p) ==
    /\ answering[p] # NoAnswer /\ answering[p].sent
    /\ answering' = [answering EXCEPT ![p] = NoAnswer]
    /\ peerCheck' = [peerCheck EXCEPT ![p] = AfterClear(@, answering[p].check)]
    /\ IF answering[p].ready /\ IsHeld(p)
       THEN ReleaseSteps(p, "answerer")
       ELSE UNCHANGED <<hold, pending, releasing>>
    /\ UNCHANGED <<kept, up, keeping, checking, stopping, restoring, inbox, now, history, budget>>

\* markHoldReleased: a live kept hold is marked.
MarkReleased(p) == kept' = [kept EXCEPT ![p].live = FALSE]

ReleaseMarks(p, r) ==
    /\ r \in releasing[p] /\ ~r.marked
    /\ MarkReleased(p)
    /\ releasing' = [releasing EXCEPT ![p] =
                        (@ \ {r}) \cup IF r.steps = <<>> THEN {} ELSE {[r EXCEPT !.marked = TRUE]}]
    /\ UNCHANGED <<up, hold, pending, peerCheck, keeping, checking, answering, stopping, restoring,
                   inbox, now, history, budget>>

\* releaseHold's loop: the kept steps run in order.
ReleaseRuns(p, r) ==
    /\ r \in releasing[p] /\ r.marked
    /\ Ran(p, Head(r.steps))
    /\ owed' = [owed EXCEPT ![p] = @ \ {Head(r.steps)}]
    /\ releasing' = [releasing EXCEPT ![p] =
                        (@ \ {r}) \cup IF Len(r.steps) = 1 THEN {} ELSE {[r EXCEPT !.steps = Tail(@)]}]
    /\ UNCHANGED <<kept, up, hold, pending, peerCheck, keeping, checking, answering, stopping, restoring,
                   inbox, now, found, askedAt, saidReady, budget>>

-----------------------------------------------------------------------------
(* Stopping, and what arrives. *)

\* Fault: the steps the hold kept stay in the store.
ClearHoldOnly(p) ==
    /\ hold' = [hold EXCEPT ![p] = NotHeld]
    /\ peerCheck' = [peerCheck EXCEPT ![p] = NoCheck]
    /\ owed' = [owed EXCEPT ![p] = @ \ {pending[p][i] : i \in DOMAIN pending[p]}]
    /\ UNCHANGED pending

\* lateStepStore.clear: the hold, its steps and the question go.
Clear(p) ==
    /\ hold' = [hold EXCEPT ![p] = NotHeld]
    /\ pending' = [pending EXCEPT ![p] = <<>>]
    /\ peerCheck' = [peerCheck EXCEPT ![p] = NoCheck]
    /\ owed' = [owed EXCEPT ![p] = @ \ {pending[p][i] : i \in DOMAIN pending[p]}]

\* stopExchange, offered while the flow waits on the other phone.
StopExchange(p) ==
    /\ up[p] /\ found[p] # {} /\ MayGoWrong /\ stops < MaxStops
    /\ stops' = stops + 1
    /\ Clear(p)
    /\ stopping' = [stopping EXCEPT ![p] = @ \cup {"ours"}]
    /\ UNCHANGED <<kept, up, keeping, checking, answering, releasing, restoring,
                   inbox, now, found, ran, askedAt, saidReady, crashes, duplicates, failures>>

\* markHoldReleased, and the message when the stop is ours.
StopMarks(p, whose) ==
    /\ whose \in stopping[p]
    /\ stopping' = [stopping EXCEPT ![p] = @ \ {whose}]
    /\ MarkReleased(p)
    /\ IF whose = "ours" THEN Deliver(p, [kind |-> "stop"]) ELSE UNCHANGED inbox
    /\ UNCHANGED <<up, hold, pending, peerCheck, keeping, checking, answering, releasing, restoring,
                   now, history, budget>>

\* Fault: any answer counts for the check that is out.
OutcomeAnyCheck(h, m) ==
    IF h.phase # "asking" THEN "stale"
    ELSE IF m.ready /\ now - h.sentAt <= Window THEN "release" ELSE "askAgain"

\* Fault: a late "ready" changes nothing, as if it were stale.
OutcomeLateIgnored(h, m) ==
    IF h.phase # "asking" \/ h.check # m.check THEN "stale"
    ELSE IF ~m.ready THEN "askAgain"
    ELSE IF now - h.sentAt <= Window THEN "release" ELSE "stale"

\* lateStepStore.answered.
Outcome(h, m) ==
    IF h.phase # "asking" \/ h.check # m.check THEN "stale"
    ELSE IF m.ready /\ now - h.sentAt <= Window THEN "release" ELSE "askAgain"

\* handleLateStepMessage.
Handle(p, m) ==
    \/ /\ m.kind = "check"
       /\ peerCheck' = [peerCheck EXCEPT ![p] = m.check]
       /\ UNCHANGED <<hold, pending, releasing, stopping, owed>>
    \/ /\ m.kind = "stop"
       /\ Clear(p)
       /\ stopping' = [stopping EXCEPT ![p] = @ \cup {"theirs"}]
       /\ UNCHANGED releasing
    \/ /\ m.kind = "answer"
       /\ LET outcome == Outcome(hold[p], m) IN
          \/ outcome = "stale" /\ UNCHANGED <<hold, pending, releasing>>
          \/ /\ outcome = "askAgain"
             /\ hold' = [hold EXCEPT ![p] = Held]
             /\ UNCHANGED <<pending, releasing>>
          \/ outcome = "release" /\ ReleaseSteps(p, "asker")
       /\ UNCHANGED <<peerCheck, stopping, owed>>

\* A message comes in on a completed connection.
Receive(p) ==
    /\ up[p] /\ "announce" \in found[p] /\ inbox[p] # <<>>
    /\ inbox' = [inbox EXCEPT ![p] = Tail(@)]
    /\ Handle(p, Head(inbox[p]))
    /\ UNCHANGED <<kept, up, keeping, checking, answering, restoring,
                   now, found, ran, askedAt, saidReady, budget>>

\* The mediator delivers it once more, next or behind what is queued.
ReceiveTwice(p) ==
    /\ up[p] /\ "announce" \in found[p] /\ inbox[p] # <<>>
    /\ MayGoWrong /\ duplicates < MaxDuplicates /\ duplicates' = duplicates + 1
    /\ \E q \in {inbox[p], Append(Tail(inbox[p]), Head(inbox[p]))} : inbox' = [inbox EXCEPT ![p] = q]
    /\ Handle(p, Head(inbox[p]))
    /\ UNCHANGED <<kept, up, keeping, checking, answering, restoring,
                   now, found, ran, askedAt, saidReady, crashes, failures, stops>>

-----------------------------------------------------------------------------
(* The app killed and started again; time. *)

Crash(p) ==
    /\ up[p] /\ p \in Killed /\ MayGoWrong /\ crashes < MaxCrashes
    /\ crashes' = crashes + 1
    /\ up' = [up EXCEPT ![p] = FALSE]
    /\ hold' = [hold EXCEPT ![p] = NotHeld]
    /\ pending' = [pending EXCEPT ![p] = <<>>]
    /\ peerCheck' = [peerCheck EXCEPT ![p] = NoCheck]
    /\ keeping' = [keeping EXCEPT ![p] = {}]
    /\ checking' = [checking EXCEPT ![p] = {}]
    /\ answering' = [answering EXCEPT ![p] = NoAnswer]
    /\ releasing' = [releasing EXCEPT ![p] = {}]
    /\ stopping' = [stopping EXCEPT ![p] = {}]
    /\ restoring' = [restoring EXCEPT ![p] = FALSE]
    /\ UNCHANGED <<kept, inbox, now, history, duplicates, failures, stops>>

Restart(p) ==
    /\ ~up[p]
    /\ up' = [up EXCEPT ![p] = TRUE]
    /\ restoring' = [restoring EXCEPT ![p] = TRUE]
    /\ UNCHANGED <<kept, hold, pending, peerCheck, keeping, checking, answering, releasing, stopping,
                   inbox, now, history, budget>>

\* isLiveHold.
Live(k) == k.live

\* restoreLateHolds: held again, with the one step the kept hold names.
Restore(p) ==
    /\ restoring[p]
    /\ restoring' = [restoring EXCEPT ![p] = FALSE]
    /\ IF Live(kept[p])
       THEN /\ hold' = [hold EXCEPT ![p] = IF IsHeld(p) THEN @ ELSE Held]
            /\ pending' = [pending EXCEPT ![p] = Append(@, kept[p].step)]
       ELSE UNCHANGED <<hold, pending>>
    /\ UNCHANGED <<kept, up, peerCheck, keeping, checking, answering, releasing, stopping,
                   inbox, now, history, budget>>

Tick ==
    /\ now < MaxTime
    /\ now' = now + 1
    /\ UNCHANGED <<kept, up, volatile, inbox, history, budget>>

-----------------------------------------------------------------------------
\* What a phone gets on with by itself.
System(p) ==
    \/ \E s \in keeping[p] : KeepHold(p, s)
    \/ \E c \in checking[p] : CheckSent(p, c)
    \/ AnswerSent(p)
    \/ AnswerDone(p)
    \/ \E r \in releasing[p] : ReleaseMarks(p, r) \/ ReleaseRuns(p, r)
    \/ \E w \in stopping[p] : StopMarks(p, w)
    \/ Receive(p)
    \/ Restart(p)
    \/ Restore(p)

\* What its people, the exchange and the network do to it.
Environment(p) ==
    \/ Complete(p)
    \/ PeerAnnounced(p)
    \/ \E e \in Exchange : Accepted(p, e)
    \/ AskPeer(p)
    \/ StopAsking(p)
    \/ \E ready \in BOOLEAN : Answer(p, ready)
    \/ StopExchange(p)
    \/ Crash(p)
    \/ ReceiveTwice(p)
    \/ AnswerFails(p)
    \/ \E c \in checking[p] : CheckFails(p, c)

Next == Tick \/ \E p \in Phone : System(p) \/ Environment(p)

Spec == Init /\ [][Next]_vars

\* An app that runs gets on with what it has begun; nothing is assumed of the people.
FairSpec == Spec /\ \A p \in Phone : WF_vars(System(p))

-----------------------------------------------------------------------------
(* What holding late steps promises. *)

\* Every variable has the shape the source gives it.
TypeOK ==
    /\ kept \in [Phone -> [step : Step \cup {"none"}, live : BOOLEAN]]
    /\ up \in [Phone -> BOOLEAN]
    /\ hold \in [Phone -> [phase : {"none", "held", "asking"}, check : Check \cup {NoCheck}, sentAt : Nat]]
    /\ pending \in [Phone -> Seq(Step)]
    /\ peerCheck \in [Phone -> Check \cup {NoCheck}]
    /\ keeping \in [Phone -> SUBSET Step]
    /\ checking \in [Phone -> SUBSET Check]
    /\ answering \in [Phone -> [check : Check, ready : BOOLEAN, sent : BOOLEAN] \cup {NoAnswer}]
    /\ \A p \in Phone : \A r \in releasing[p] : r \in ReleaseRun
    /\ stopping \in [Phone -> SUBSET {"ours", "theirs"}]
    /\ restoring \in [Phone -> BOOLEAN]
    /\ inbox \in [Phone -> Seq(Message)]
    /\ now \in Nat
    /\ found \in [Phone -> SUBSET Step]
    /\ ran \in [Phone -> [Step -> Nat]]
    /\ owed \in [Phone -> SUBSET Step]
    /\ askedAt \in [Phone -> Seq(Nat)]
    /\ saidReady \subseteq Check
    /\ crashes \in Nat /\ duplicates \in Nat /\ failures \in Nat /\ stops \in Nat

\* The check `c` was asked within the window, and the other person said "ready" to it.
HereFor(c) == c \in saidReady /\ now - askedAt[c[1]][c[2]] <= Window

\* A release that begins in this step.
Begins(p, r) == r \in releasing'[p] \ releasing[p] /\ ~r.marked

\* "Ready within the window releases the hold; an answer to a check that is not the current
\* one changes nothing" (lateStepStore.answered): the phone that asked releases only what
\* the other person said ready to, in time, when last asked - whatever was asked and put
\* aside before, delayed, answered late or delivered twice.
AskerReleasesInTime ==
    [][\A p \in Phone : \A r \in releasing'[p] :
          (Begins(p, r) /\ r.by = "asker") => HereFor(<<p, Len(askedAt[p])>>)]_vars

\* What comes off a hold is owed: a step neither runs again nor after it was stopped, as
\* long as no app is killed (a step found again while the kept hold is being restored is
\* deferred twice).
OnlyOwedRuns ==
    [][\A p \in Phone : \A s \in found[p] :
          (crashes = 0 /\ ran'[p][s] > ran[p][s]) => s \in owed[p]]_vars

\* "One that came in since is kept" (clearPeerCheck): short of a stop, a question leaves the
\* screen when it, and not another, was answered, or for a newer one.
QuestionAnswered ==
    [][\A p \in Phone :
          (/\ peerCheck[p] # NoCheck /\ peerCheck'[p] = NoCheck
           /\ up'[p] /\ stopping'[p] = {})
          => answering[p] # NoAnswer /\ answering[p].check = peerCheck[p] /\ answering[p].sent]_vars

\* A hold keeps what is owed, all of it and nothing else ("so a restart holds it again rather
\* than losing the step", keepHold; "Forget everything about a connection (the exchange was
\* stopped)", lateStepStore.clear).  A restart restores one step of those kept, and may
\* restore a released or stopped one, whose mark is written after an await.
HeldIsOwed ==
    crashes = 0 =>
        \A p \in Phone :
            LET held == {pending[p][i] : i \in DOMAIN pending[p]}
            IN  /\ held \subseteq owed[p]
                /\ IsHeld(p) => owed[p] \subseteq held \cup
                     UNION {{r.steps[i] : i \in DOMAIN r.steps} : r \in releasing[p]}

\* An answer that was sent ends the asking of its check: ready or not, in time or late, the
\* phone that asked is released or asks its person again.
AnswerEndsAsking ==
    \A p \in Phone : \A c \in Check :
        (answering[p] # NoAnswer /\ answering[p].check = c /\ answering[p].sent)
            ~> hold[Other(p)].check # c
=============================================================================
