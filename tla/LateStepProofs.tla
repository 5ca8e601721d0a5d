---------------------------- MODULE LateStepProofs ----------------------------
(***************************************************************************)
(* Proofs about LateStep, for any exchanges and any bounds: the phone that *)
(* asks is released in time only, a question leaves the screen only when   *)
(* it was answered, what a hold keeps is owed, and only what is owed runs. *)
(***************************************************************************)
EXTENDS LateStep, SequenceTheorems, TLAPS

-----------------------------------------------------------------------------
(* Sequences of steps.                                                     *)

Elems(s) == {s[i] : i \in DOMAIN s}
Distinct(s) == \A i, j \in DOMAIN s : s[i] = s[j] => i = j

\* What is appended is added, and a new element leaves a sequence without repetitions.
LEMMA Appended ==
  ASSUME NEW S, NEW s \in Seq(S), NEW e \in S
  PROVE  /\ Append(s, e) \in Seq(S)
         /\ Elems(Append(s, e)) = Elems(s) \cup {e}
         /\ Distinct(s) /\ e \notin Elems(s) => Distinct(Append(s, e))
<1>1. /\ Append(s, e) \in Seq(S) /\ DOMAIN Append(s, e) = 1..Len(s) + 1 /\ DOMAIN s = 1..Len(s) /\ Len(s) \in Nat
      /\ \A i \in 1..Len(s) : Append(s, e)[i] = s[i]
      /\ Append(s, e)[Len(s) + 1] = e
  OBVIOUS
<1>2. Elems(Append(s, e)) \subseteq Elems(s) \cup {e}
  BY <1>1 DEF Elems
<1>3. Elems(s) \cup {e} \subseteq Elems(Append(s, e))
  BY <1>1 DEF Elems
<1>4. Distinct(s) /\ e \notin Elems(s) => Distinct(Append(s, e))
  BY <1>1 DEF Elems, Distinct
<1> QED BY <1>1, <1>2, <1>3, <1>4

\* The head and the rest.
LEMMA HeadAndTail ==
  ASSUME NEW S, NEW s \in Seq(S), s # <<>>
  PROVE  /\ Head(s) \in S /\ Tail(s) \in Seq(S)
         /\ Elems(s) = {Head(s)} \cup Elems(Tail(s))
         /\ Len(s) # 1 => Tail(s) # <<>>
         /\ Len(s) = 1 => Elems(s) = {Head(s)}
         /\ Distinct(s) => Distinct(Tail(s)) /\ Head(s) \notin Elems(Tail(s))
<1>1. /\ Len(s) \in Nat \ {0} /\ DOMAIN s = 1..Len(s) /\ Head(s) = s[1] /\ Head(s) \in S
      /\ Tail(s) \in Seq(S) /\ Len(Tail(s)) = Len(s) - 1 /\ DOMAIN Tail(s) = 1..Len(s) - 1
      /\ \A i \in 1..Len(s) - 1 : Tail(s)[i] = s[i + 1]
  OBVIOUS
<1>2. Elems(s) \subseteq {Head(s)} \cup Elems(Tail(s))
  <2> SUFFICES ASSUME NEW i \in 1..Len(s), i # 1 PROVE s[i] \in Elems(Tail(s))
    BY <1>1 DEF Elems
  <2>1. i - 1 \in 1..Len(s) - 1 /\ Tail(s)[i - 1] = s[i]
    BY <1>1
  <2> QED BY <1>1, <2>1 DEF Elems
<1>3. {Head(s)} \cup Elems(Tail(s)) \subseteq Elems(s)
  BY <1>1 DEF Elems
<1>4. Distinct(s) => Distinct(Tail(s)) /\ Head(s) \notin Elems(Tail(s))
  BY <1>1 DEF Elems, Distinct
<1>5. Len(s) = 1 => Elems(s) = {Head(s)}
  BY <1>1 DEF Elems
<1>6. ASSUME Tail(s) = <<>> PROVE Len(s) = 1
  <2>1. Len(<<>>) = 0
    OBVIOUS
  <2>2. Len(Tail(s)) = 0
    BY <1>6, <2>1, Zenon
  <2>3. Len(s) - 1 = 0 /\ Len(s) \in Nat
    BY <1>1, <2>2
  <2> QED BY <2>3
<1> QED BY <1>1, <1>2, <1>3, <1>4, <1>5, <1>6

\* An empty sequence has no elements.
LEMMA EmptyElems == Elems(<<>>) = {} /\ Distinct(<<>>)
  BY DEF Elems, Distinct

-----------------------------------------------------------------------------
(* Types: those of the steps, and those of the questions.                  *)

StepTypes ==
  /\ kept \in [Phone -> [step : Step \cup {"none"}, live : BOOLEAN]]
  /\ \A p \in Phone : kept[p].live => kept[p].step \in Step
  /\ up \in [Phone -> BOOLEAN] /\ restoring \in [Phone -> BOOLEAN]
  /\ pending \in [Phone -> Seq(Step)]
  /\ keeping \in [Phone -> SUBSET Step] /\ found \in [Phone -> SUBSET Step] /\ owed \in [Phone -> SUBSET Step]
  /\ ran \in [Phone -> [Step -> Nat]]
  /\ stopping \in [Phone -> SUBSET {"ours", "theirs"}]
  /\ releasing \in [Phone -> SUBSET ReleaseRun]
  /\ \A p \in Phone : \A r \in releasing[p] : r.marked => r.steps # <<>>

AnswerRun == [check : Check, ready : BOOLEAN, sent : BOOLEAN]
Hold == [phase : {"none", "held", "asking"}, check : Check \cup {NoCheck}, sentAt : Nat]

CheckTypes ==
  /\ hold \in [Phone -> Hold]
  /\ peerCheck \in [Phone -> Check \cup {NoCheck}]
  /\ checking \in [Phone -> SUBSET Check]
  /\ answering \in [Phone -> AnswerRun \cup {NoAnswer}]
  /\ inbox \in [Phone -> Seq(Message)]
  /\ askedAt \in [Phone -> Seq(Nat)] /\ saidReady \subseteq Check /\ now \in Nat

Counters == crashes \in Nat /\ duplicates \in Nat /\ failures \in Nat /\ stops \in Nat

StepVars == <<kept, up, restoring, pending, keeping, found, owed, ran, stopping, releasing>>
CheckVars == <<hold, peerCheck, checking, answering, inbox, askedAt, saidReady, now>>

\* A release begins with the steps the hold kept.
LEMMA ReleaseTyped ==
  ASSUME StepTypes, NEW p \in Phone, NEW by \in {"asker", "answerer"}, ReleaseSteps(p, by)
  PROVE  /\ pending' \in [Phone -> Seq(Step)] /\ releasing' \in [Phone -> SUBSET ReleaseRun]
         /\ \A q \in Phone : \A r \in releasing'[q] : r.marked => r.steps # <<>>
<1>1. [by |-> by, marked |-> FALSE, steps |-> pending[p]] \in ReleaseRun
  BY DEF StepTypes, ReleaseRun
<1>2. pending' \in [Phone -> Seq(Step)]
  BY DEF StepTypes, ReleaseSteps
<1>3. releasing' \in [Phone -> SUBSET ReleaseRun]
  BY <1>1 DEF StepTypes, ReleaseSteps
<1>4. ASSUME NEW q \in Phone, NEW r \in releasing'[q], r.marked PROVE r.steps # <<>>
  <2>1. CASE r \in releasing[q]
    BY <1>4, <2>1 DEF StepTypes
  <2>2. CASE r \notin releasing[q]
    BY <1>4, <2>2 DEF StepTypes, ReleaseSteps
  <2> QED BY <2>1, <2>2
<1> QED BY <1>2, <1>3, <1>4

\* A release whose hold is marked has the same steps left.
LEMMA MarkedRun ==
  ASSUME NEW r \in ReleaseRun
  PROVE  [r EXCEPT !.marked = TRUE] \in ReleaseRun /\ [r EXCEPT !.marked = TRUE].steps = r.steps
  BY DEF ReleaseRun

\* A kept hold that is marked keeps its step.
LEMMA MarkTyped ==
  ASSUME StepTypes, NEW p \in Phone, MarkReleased(p)
  PROVE  /\ kept' \in [Phone -> [step : Step \cup {"none"}, live : BOOLEAN]]
         /\ \A q \in Phone : kept'[q].live => kept'[q].step \in Step
<1> DEFINE marked == [kept[p] EXCEPT !.live = FALSE]
<1>1. marked \in [step : Step \cup {"none"}, live : BOOLEAN] /\ ~marked.live
  <2>1. kept[p] \in [step : Step \cup {"none"}, live : BOOLEAN]
    BY DEF StepTypes
  <2> QED BY <2>1
<1>2. kept' = [kept EXCEPT ![p] = marked]
  BY DEF MarkReleased
<1> HIDE DEF marked
<1> QED BY <1>1, <1>2 DEF StepTypes

\* Clearing a hold keeps its types.
LEMMA ClearTyped ==
  ASSUME StepTypes, NEW p \in Phone, Clear(p)
  PROVE  pending' \in [Phone -> Seq(Step)] /\ owed' \in [Phone -> SUBSET Step]
  BY DEF StepTypes, Clear

\* Steps run, are deferred, kept, released and cleared; none is made up.
LEMMA StepTypesStep == StepTypes /\ [Next]_vars => StepTypes'
<1> SUFFICES ASSUME StepTypes, [Next]_vars PROVE StepTypes'
  OBVIOUS
<1>1. ASSUME NEW p \in Phone, NEW s \in Step, Ran(p, s) PROVE ran' \in [Phone -> [Step -> Nat]]
  BY <1>1 DEF StepTypes, Ran
<1>2. ASSUME NEW p \in Phone, NEW s \in Step, Defer(p, s)
      PROVE  pending' \in [Phone -> Seq(Step)] /\ owed' \in [Phone -> SUBSET Step]
  <2>1. Append(pending[p], s) \in Seq(Step)
    BY DEF StepTypes
  <2> QED BY <1>2, <2>1 DEF StepTypes, Defer
<1>3. ASSUME NEW p \in Phone, NEW s \in Step, InTime(p, s) \/ FoundLate(p, s),
             found' = [found EXCEPT ![p] = @ \cup {s}],
             UNCHANGED <<kept, up, releasing, stopping, restoring>>
      PROVE  StepTypes'
  <2>1. CASE InTime(p, s)
    BY <1>1, <1>3, <2>1 DEF StepTypes, InTime
  <2>2. CASE FoundLate(p, s)
    BY <1>2, <1>3, <2>2 DEF StepTypes, FoundLate
  <2> QED BY <1>3, <2>1, <2>2
<1>4. ASSUME NEW p \in Phone, Complete(p) PROVE StepTypes'
  BY <1>3, <1>4 DEF Complete, Step
<1>5. ASSUME NEW p \in Phone, PeerAnnounced(p) PROVE StepTypes'
  <2>1. "open" \in Step
    BY DEF Step
  <2>2. CASE Defer(p, "open") /\ UNCHANGED ran
    BY <1>2, <1>5, <2>1, <2>2 DEF StepTypes, PeerAnnounced
  <2>3. CASE Ran(p, "open") /\ UNCHANGED <<pending, owed>>
    BY <1>1, <1>5, <2>1, <2>3 DEF StepTypes, PeerAnnounced
  <2> QED BY <1>5, <2>2, <2>3 DEF PeerAnnounced
<1>6. ASSUME NEW p \in Phone, NEW e \in Exchange, Accepted(p, e) PROVE StepTypes'
  BY <1>3, <1>6 DEF Accepted, Step
<1>7. ASSUME NEW p \in Phone, NEW s \in keeping[p], KeepHold(p, s) PROVE StepTypes'
  <2>1. s \in Step
    BY DEF StepTypes
  <2> QED BY <1>7, <2>1 DEF StepTypes, KeepHold, history
<1>8. ASSUME UNCHANGED StepVars PROVE StepTypes'
  BY <1>8 DEF StepTypes, StepVars
<1>9. ASSUME NEW p \in Phone, AnswerDone(p) PROVE StepTypes'
  <2>1. CASE ReleaseSteps(p, "answerer")
    BY <1>9, <2>1, ReleaseTyped DEF StepTypes, AnswerDone, history
  <2>2. CASE UNCHANGED <<hold, pending, releasing>>
    BY <1>9, <2>2 DEF StepTypes, AnswerDone, history
  <2> QED BY <1>9, <2>1, <2>2 DEF AnswerDone
<1>10. ASSUME NEW p \in Phone, NEW r \in releasing[p], ReleaseMarks(p, r) PROVE StepTypes'
  <2>1. r \in ReleaseRun
    BY DEF StepTypes
  <2>4. [r EXCEPT !.marked = TRUE] \in ReleaseRun /\ [r EXCEPT !.marked = TRUE].steps = r.steps
    BY <2>1, MarkedRun
  <2>5. releasing' \in [Phone -> SUBSET ReleaseRun]
    BY <1>10, <2>4 DEF ReleaseMarks, StepTypes
  <2>6. ASSUME NEW q \in Phone, NEW x \in releasing'[q], x.marked PROVE x.steps # <<>>
    <3>1. CASE x \in releasing[q]
      BY <2>6, <3>1 DEF StepTypes
    <3>2. CASE x \notin releasing[q]
      BY <1>10, <2>4, <2>6, <3>2 DEF StepTypes, ReleaseMarks
    <3> QED BY <3>1, <3>2
  <2> QED BY <1>10, <2>5, <2>6, MarkTyped DEF StepTypes, ReleaseMarks, history
<1>11. ASSUME NEW p \in Phone, NEW r \in releasing[p], ReleaseRuns(p, r) PROVE StepTypes'
  <2>1. r \in ReleaseRun /\ r.steps \in Seq(Step) /\ r.steps # <<>>
    BY <1>11 DEF StepTypes, ReleaseRun, ReleaseRuns
  <2>2. Head(r.steps) \in Step /\ Tail(r.steps) \in Seq(Step) /\ (Len(r.steps) # 1 => Tail(r.steps) # <<>>)
    BY <2>1, HeadAndTail
  <2>3. [r EXCEPT !.steps = Tail(@)] \in ReleaseRun /\ [r EXCEPT !.steps = Tail(@)].steps = Tail(r.steps)
    BY <2>1, <2>2 DEF ReleaseRun
  <2>4. releasing' \in [Phone -> SUBSET ReleaseRun] /\ \A q \in Phone : \A x \in releasing'[q] : x.marked => x.steps # <<>>
    BY <1>11, <2>2, <2>3 DEF ReleaseRuns, StepTypes
  <2>5. ran' \in [Phone -> [Step -> Nat]] /\ owed' \in [Phone -> SUBSET Step]
    BY <1>1, <1>11, <2>2 DEF ReleaseRuns, StepTypes
  <2> QED BY <1>11, <2>4, <2>5 DEF StepTypes, ReleaseRuns
<1>12. ASSUME NEW p \in Phone, StopExchange(p) PROVE StepTypes'
  BY <1>12, ClearTyped DEF StepTypes, StopExchange
<1>13. ASSUME NEW p \in Phone, NEW w \in stopping[p], StopMarks(p, w) PROVE StepTypes'
  <2> QED BY <1>13, MarkTyped DEF StepTypes, StopMarks, history
<1>14. ASSUME NEW p \in Phone, NEW m, Handle(p, m), UNCHANGED <<kept, up, keeping, restoring, found, ran>> PROVE StepTypes'
  <2>1. CASE UNCHANGED <<pending, releasing, stopping, owed>>
    BY <1>14, <2>1 DEF StepTypes
  <2>2. CASE Clear(p) /\ stopping' = [stopping EXCEPT ![p] = @ \cup {"theirs"}] /\ UNCHANGED releasing
    BY <1>14, <2>2, ClearTyped DEF StepTypes
  <2>3. CASE ReleaseSteps(p, "asker") /\ UNCHANGED <<stopping, owed>>
    BY <1>14, <2>3, ReleaseTyped DEF StepTypes
  <2> QED BY <1>14, <2>1, <2>2, <2>3 DEF Handle
<1>15. ASSUME NEW p \in Phone, Receive(p) \/ ReceiveTwice(p) PROVE StepTypes'
  BY <1>14, <1>15 DEF Receive, ReceiveTwice
<1>16. ASSUME NEW p \in Phone, Crash(p) PROVE StepTypes'
  BY <1>16 DEF StepTypes, Crash, history
<1>17. ASSUME NEW p \in Phone, Restart(p) PROVE StepTypes'
  BY <1>17 DEF StepTypes, Restart, history
<1>18. ASSUME NEW p \in Phone, Restore(p) PROVE StepTypes'
  <2>1. kept[p].live => Append(pending[p], kept[p].step) \in Seq(Step)
    BY DEF StepTypes
  <2>2. pending' \in [Phone -> Seq(Step)]
    <3>1. CASE kept[p].live
      BY <1>18, <2>1, <3>1 DEF StepTypes, Restore, Live
    <3>2. CASE ~kept[p].live
      BY <1>18, <3>2 DEF StepTypes, Restore, Live
    <3> QED BY <3>1, <3>2
  <2> QED BY <1>18, <2>2 DEF StepTypes, Restore, history
<1>19. ASSUME NEW p \in Phone, AskPeer(p) \/ StopAsking(p) \/ AnswerSent(p) \/ AnswerFails(p) PROVE UNCHANGED StepVars
  BY <1>19 DEF AskPeer, StopAsking, AnswerSent, AnswerFails, StepVars, history
<1>20. ASSUME NEW p \in Phone, NEW c, CheckSent(p, c) \/ CheckFails(p, c) PROVE UNCHANGED StepVars
  BY <1>20 DEF CheckSent, CheckFails, StepVars, history
<1>21. ASSUME NEW p \in Phone, NEW ready, Answer(p, ready) PROVE UNCHANGED StepVars
  BY <1>21 DEF Answer, StepVars
<1>22. Tick \/ UNCHANGED vars => UNCHANGED StepVars
  BY DEF Tick, vars, volatile, history, StepVars
<1> QED
  BY <1>4, <1>5, <1>6, <1>7, <1>8, <1>9, <1>10, <1>11, <1>12, <1>13, <1>15, <1>16, <1>17, <1>18, <1>19, <1>20, <1>21, <1>22
     DEF Next, System, Environment

\* At first nothing is held.
LEMMA StepTypesInit == Init => StepTypes
  BY DEF Init, StepTypes, NothingKept, Step

-----------------------------------------------------------------------------
(* The questions and their answers.                                        *)

\* No check is "none".
LEMMA CheckIsSome == NoCheck \notin Check
<1> SUFFICES ASSUME NoCheck \in Check PROVE FALSE
  OBVIOUS
<1>1. PICK q \in Phone, n \in 1..MaxChecks : <<>> = <<q, n>>
  BY DEF Check, NoCheck
<1>2. Len(<<>>) = 0 /\ Len(<<q, n>>) = 2
  OBVIOUS
<1>3. Len(<<>>) = 2
  BY <1>1, <1>2, Zenon
<1> QED BY <1>2, <1>3

\* What is sent is a message, and a message carries what its kind says.
LEMMA Messages ==
  /\ \A c \in Check : [kind |-> "check", check |-> c] \in Message
  /\ \A c \in Check, ready \in BOOLEAN : [kind |-> "answer", check |-> c, ready |-> ready] \in Message
  /\ [kind |-> "stop"] \in Message
  /\ \A m \in Message : m.kind = "check" => m.check \in Check
  /\ \A m \in Message : m.kind = "answer" => m.check \in Check /\ m.ready \in BOOLEAN
  BY DEF Message

\* A hold, once asked about, is a hold.
LEMMA Holds ==
  /\ NotHeld \in Hold /\ Held \in Hold
  /\ \A c \in Check, t \in Nat : Asking(c, t) \in Hold
  BY DEF Hold, NotHeld, Held, Asking

\* The other phone is a phone.
LEMMA OtherPhone == ASSUME NEW p \in Phone PROVE Other(p) \in Phone
  BY DEF Phone, Other

\* A message that is sent is queued.
LEMMA DeliverTyped ==
  ASSUME CheckTypes, NEW p \in Phone, NEW m \in Message, Deliver(p, m)
  PROVE  inbox' \in [Phone -> Seq(Message)]
<1>1. Append(inbox[Other(p)], m) \in Seq(Message)
  BY OtherPhone DEF CheckTypes
<1> QED BY <1>1 DEF CheckTypes, Deliver

\* What arrives leaves a hold and a question.
LEMMA HandleTyped ==
  ASSUME CheckTypes, NEW p \in Phone, NEW m \in Message, Handle(p, m)
  PROVE  hold' \in [Phone -> Hold] /\ peerCheck' \in [Phone -> Check \cup {NoCheck}]
<1>1. CASE m.kind = "check" /\ peerCheck' = [peerCheck EXCEPT ![p] = m.check] /\ UNCHANGED hold
  BY <1>1, Messages DEF CheckTypes
<1>2. CASE Clear(p)
  BY <1>2, Holds DEF CheckTypes, Clear
<1>3. CASE UNCHANGED <<hold, peerCheck>>
  BY <1>3 DEF CheckTypes
<1>4. CASE hold' = [hold EXCEPT ![p] = Held] /\ UNCHANGED peerCheck
  BY <1>4, Holds DEF CheckTypes
<1>5. CASE ReleaseSteps(p, "asker") /\ UNCHANGED peerCheck
  BY <1>5, Holds DEF CheckTypes, ReleaseSteps
<1> QED BY <1>1, <1>2, <1>3, <1>4, <1>5 DEF Handle

\* Checks are asked, put on screen and answered; none is made up.
LEMMA CheckTypesStep == CheckTypes /\ [Next]_vars => CheckTypes'
<1> SUFFICES ASSUME CheckTypes, [Next]_vars PROVE CheckTypes'
  OBVIOUS
<1>1. ASSUME UNCHANGED CheckVars PROVE CheckTypes'
  BY <1>1 DEF CheckTypes, CheckVars
<1>2. ASSUME NEW p \in Phone, hold' = [hold EXCEPT ![p] = IF IsHeld(p) THEN @ ELSE Held],
             UNCHANGED <<peerCheck, checking, answering, inbox, askedAt, saidReady, now>>
      PROVE  CheckTypes'
  BY <1>2, Holds DEF CheckTypes
<1>3. ASSUME NEW p \in Phone, NEW s, InTime(p, s) \/ FoundLate(p, s),
             UNCHANGED <<peerCheck, checking, answering, inbox, askedAt, saidReady, now>>
      PROVE  CheckTypes'
  <2>1. CASE UNCHANGED hold
    BY <1>1, <1>3, <2>1 DEF CheckVars
  <2>2. CASE FoundLate(p, s)
    BY <1>2, <1>3, <2>2 DEF FoundLate
  <2> QED BY <1>3, <2>1, <2>2 DEF InTime
<1>4. ASSUME NEW p \in Phone, Complete(p) PROVE CheckTypes'
  BY <1>3, <1>4 DEF Complete
<1>5. ASSUME NEW p \in Phone, NEW e \in Exchange, Accepted(p, e) PROVE CheckTypes'
  BY <1>3, <1>5 DEF Accepted
<1>6. ASSUME NEW p \in Phone, AskPeer(p) PROVE CheckTypes'
  <2> DEFINE c == <<p, Len(askedAt[p]) + 1>>
  <2>1. c \in Check /\ now \in Nat /\ Append(askedAt[p], now) \in Seq(Nat)
    <3>1. Len(askedAt[p]) \in Nat /\ Len(askedAt[p]) < MaxChecks /\ MaxChecks \in Nat
      BY <1>6, BoundsAreNat DEF CheckTypes, AskPeer
    <3>2. Len(askedAt[p]) + 1 \in 1..MaxChecks
      BY <3>1
    <3> QED BY <3>2 DEF CheckTypes, Check
  <2>2. hold' = [hold EXCEPT ![p] = Asking(c, now)] /\ checking' = [checking EXCEPT ![p] = @ \cup {c}]
    BY <1>6 DEF AskPeer
  <2> HIDE DEF c
  <2> QED BY <1>6, <2>1, <2>2, Holds DEF CheckTypes, AskPeer
<1>7. ASSUME NEW p \in Phone, NEW c \in checking[p], CheckSent(p, c) PROVE CheckTypes'
  <2>1. c \in Check /\ inbox' \in [Phone -> Seq(Message)]
    BY <1>7, Messages, DeliverTyped DEF CheckTypes, CheckSent
  <2> QED BY <1>7, <2>1 DEF CheckTypes, CheckSent, history
<1>8. ASSUME NEW p \in Phone, NEW c \in checking[p], CheckFails(p, c) PROVE CheckTypes'
  BY <1>8, Holds DEF CheckTypes, CheckFails, NotAsked, history
<1>9. ASSUME NEW p \in Phone, StopAsking(p) PROVE CheckTypes'
  BY <1>9, Holds DEF CheckTypes, StopAsking, history
<1>10. ASSUME NEW p \in Phone, NEW ready \in BOOLEAN, Answer(p, ready) PROVE CheckTypes'
  <2>1. peerCheck[p] \in Check
    BY <1>10 DEF CheckTypes, Answer
  <2>2. [check |-> peerCheck[p], ready |-> ready, sent |-> FALSE] \in AnswerRun
    BY <2>1 DEF AnswerRun
  <2> QED BY <1>10, <2>1, <2>2 DEF CheckTypes, Answer
<1>11. ASSUME NEW p \in Phone, AnswerSent(p) PROVE CheckTypes'
  <2>1. answering[p] \in AnswerRun
    BY <1>11 DEF CheckTypes, AnswerSent
  <2>2. [answering[p] EXCEPT !.sent = TRUE] \in AnswerRun /\ answering[p].check \in Check /\ answering[p].ready \in BOOLEAN
    BY <2>1 DEF AnswerRun
  <2>3. inbox' \in [Phone -> Seq(Message)]
    BY <1>11, <2>2, Messages, DeliverTyped DEF AnswerSent
  <2> QED BY <1>11, <2>2, <2>3 DEF CheckTypes, AnswerSent, history
<1>12. ASSUME NEW p \in Phone, AnswerFails(p) PROVE CheckTypes'
  BY <1>12 DEF CheckTypes, AnswerFails, history
<1>13. ASSUME NEW p \in Phone, AnswerDone(p) PROVE CheckTypes'
  <2>1. hold' \in [Phone -> Hold]
    BY <1>13, Holds DEF CheckTypes, AnswerDone, ReleaseSteps
  <2> QED BY <1>13, <2>1 DEF CheckTypes, AnswerDone, AfterClear, history
<1>14. ASSUME NEW p \in Phone, StopExchange(p) PROVE CheckTypes'
  BY <1>14, Holds DEF CheckTypes, StopExchange, Clear
<1>15. ASSUME NEW p \in Phone, NEW w \in stopping[p], StopMarks(p, w) PROVE CheckTypes'
  <2>1. inbox' \in [Phone -> Seq(Message)]
    BY <1>15, Messages, DeliverTyped DEF CheckTypes, StopMarks
  <2> QED BY <1>15, <2>1 DEF CheckTypes, StopMarks, history
<1>16. ASSUME NEW p \in Phone, inbox[p] # <<>>
       PROVE  /\ Head(inbox[p]) \in Message /\ Tail(inbox[p]) \in Seq(Message)
              /\ Append(Tail(inbox[p]), Head(inbox[p])) \in Seq(Message)
  BY <1>16 DEF CheckTypes
<1>17. ASSUME NEW p \in Phone, Receive(p) PROVE CheckTypes'
  BY <1>16, <1>17, HandleTyped DEF CheckTypes, Receive
<1>18. ASSUME NEW p \in Phone, ReceiveTwice(p) PROVE CheckTypes'
  <2>1. inbox' \in [Phone -> Seq(Message)]
    <3>1. PICK q \in {inbox[p], Append(Tail(inbox[p]), Head(inbox[p]))} : inbox' = [inbox EXCEPT ![p] = q]
      BY <1>18 DEF ReceiveTwice
    <3>2. inbox[p] # <<>>
      BY <1>18 DEF ReceiveTwice
    <3>3. q \in Seq(Message)
      BY <1>16, <3>2 DEF CheckTypes
    <3> QED BY <3>1, <3>3 DEF CheckTypes
  <2> QED BY <1>16, <1>18, <2>1, HandleTyped DEF CheckTypes, ReceiveTwice
<1>19. ASSUME NEW p \in Phone, Crash(p) PROVE CheckTypes'
  BY <1>19, Holds DEF CheckTypes, Crash, history
<1>20. ASSUME NEW p \in Phone, Restore(p) PROVE CheckTypes'
  <2>1. hold' \in [Phone -> Hold]
    BY <1>20, Holds DEF CheckTypes, Restore
  <2> QED BY <1>20, <2>1 DEF CheckTypes, Restore, history
<1>21. Tick => CheckTypes'
  BY DEF Tick, CheckTypes, volatile, history
<1>22. ASSUME NEW p \in Phone, PeerAnnounced(p) \/ Restart(p) PROVE UNCHANGED CheckVars
  BY <1>22 DEF PeerAnnounced, Restart, CheckVars, history
<1>23. ASSUME NEW p \in Phone, NEW x, KeepHold(p, x) \/ ReleaseMarks(p, x) \/ ReleaseRuns(p, x) PROVE UNCHANGED CheckVars
  BY <1>23 DEF KeepHold, ReleaseMarks, ReleaseRuns, CheckVars, history
<1>24. UNCHANGED vars => UNCHANGED CheckVars
  BY DEF vars, volatile, history, CheckVars
<1> QED
  BY <1>1, <1>4, <1>5, <1>6, <1>7, <1>8, <1>9, <1>10, <1>11, <1>12, <1>13, <1>14, <1>15, <1>17, <1>18, <1>19, <1>20,
     <1>21, <1>22, <1>23, <1>24
     DEF Next, System, Environment

\* At first nothing is asked.
LEMMA CheckTypesInit == Init => CheckTypes
  BY Holds DEF Init, CheckTypes

\* What goes wrong is counted.
LEMMA CountersStep == Counters /\ [Next]_vars => Counters'
<1> SUFFICES ASSUME Counters, [Next]_vars PROVE Counters'
  OBVIOUS
<1>1. ASSUME UNCHANGED budget PROVE Counters'
  BY <1>1 DEF Counters, budget
<1>2. ASSUME NEW p \in Phone, System(p) PROVE UNCHANGED budget
  BY <1>2 DEF System, KeepHold, CheckSent, AnswerSent, AnswerDone, ReleaseMarks, ReleaseRuns, StopMarks, Receive,
              Restart, Restore
<1>3. ASSUME NEW p \in Phone, Environment(p) PROVE Counters'
  <2>1. CASE StopExchange(p)
    BY <2>1 DEF Counters, StopExchange
  <2>2. CASE Crash(p)
    BY <2>2 DEF Counters, Crash
  <2>3. CASE ReceiveTwice(p)
    BY <2>3 DEF Counters, ReceiveTwice
  <2>4. CASE AnswerFails(p) \/ \E c \in checking[p] : CheckFails(p, c)
    BY <2>4 DEF Counters, AnswerFails, CheckFails
  <2>5. CASE \/ Complete(p) \/ PeerAnnounced(p) \/ (\E e \in Exchange : Accepted(p, e))
             \/ AskPeer(p) \/ StopAsking(p) \/ \E ready \in BOOLEAN : Answer(p, ready)
    BY <1>1, <2>5 DEF Complete, PeerAnnounced, Accepted, AskPeer, StopAsking, Answer
  <2> QED BY <1>3, <2>1, <2>2, <2>3, <2>4, <2>5 DEF Environment
<1>4. Tick \/ UNCHANGED vars => UNCHANGED budget
  BY DEF Tick, vars
<1> QED BY <1>1, <1>2, <1>3, <1>4 DEF Next

Types == StepTypes /\ CheckTypes /\ Counters

\* The variables of both phones keep their types.
LEMMA TypesHold == Spec => []Types
<1>1. Init => Types
  BY StepTypesInit, CheckTypesInit DEF Init, Types, Counters
<1>2. Types /\ [Next]_vars => Types'
  BY StepTypesStep, CheckTypesStep, CountersStep DEF Types
<1> QED BY <1>1, <1>2, PTL DEF Spec

\* Type correctness: every variable has the shape the source gives it.
THEOREM TypeCorrect == Spec => []TypeOK
<1>1. Types => TypeOK
  BY DEF Types, StepTypes, CheckTypes, Counters, AnswerRun, Hold, TypeOK
<1> QED BY <1>1, TypesHold, PTL

-----------------------------------------------------------------------------
(* The phone that asked is released in time.                               *)

\* A phone that is asking asks what it asked last; who said "ready" said so to that check;
\* and whoever is answering so has said it.
LastAsked(p) == Len(askedAt[p])
Current == \A p \in Phone : hold[p].phase = "asking" =>
             /\ hold[p].check = <<p, LastAsked(p)>>
             /\ LastAsked(p) # 0 /\ hold[p].sentAt = askedAt[p][LastAsked(p)]
SaidSo == \A p \in Phone : \A m \in Elems(inbox[p]) : m.kind = "answer" /\ m.ready => m.check \in saidReady
WillSaySo == \A p \in Phone : answering[p] # NoAnswer /\ answering[p].ready => answering[p].check \in saidReady
AskedAndSaid == Current /\ SaidSo /\ WillSaySo

\* Asking is about the last check: a hold that is changed otherwise asks nothing.
LEMMA CurrentStep == Types /\ Current /\ [Next]_vars => Current'
<1> SUFFICES ASSUME Types, Current, [Next]_vars PROVE Current'
  OBVIOUS
<1>1. ASSUME UNCHANGED <<hold, askedAt>> PROVE Current'
  BY <1>1 DEF Current, LastAsked
<1>2. ASSUME NEW p \in Phone, UNCHANGED askedAt,
             NEW h, hold' = [hold EXCEPT ![p] = h], h = hold[p] \/ h.phase # "asking"
      PROVE  Current'
  BY <1>2 DEF Current, LastAsked, Types, CheckTypes
<1>3. NotHeld.phase # "asking" /\ Held.phase # "asking"
  BY DEF NotHeld, Held
<1>4. ASSUME NEW p \in Phone, NEW s, FoundLate(p, s), UNCHANGED askedAt PROVE Current'
  BY <1>2, <1>3, <1>4 DEF FoundLate
<1>5. ASSUME NEW p \in Phone, AskPeer(p) PROVE Current'
  <2>1. /\ askedAt[p] \in Seq(Nat) /\ now \in Nat /\ askedAt' = [askedAt EXCEPT ![p] = Append(@, now)]
        /\ hold' = [hold EXCEPT ![p] = Asking(<<p, Len(askedAt[p]) + 1>>, now)]
        /\ hold \in [Phone -> Hold] /\ askedAt \in [Phone -> Seq(Nat)]
    BY <1>5 DEF AskPeer, Types, CheckTypes
  <2>2. /\ Len(Append(askedAt[p], now)) = Len(askedAt[p]) + 1
        /\ Append(askedAt[p], now)[Len(askedAt[p]) + 1] = now
        /\ Len(askedAt[p]) \in Nat
    BY <2>1
  <2>3. SUFFICES ASSUME NEW q \in Phone, hold'[q].phase = "asking"
                 PROVE  /\ hold'[q].check = <<q, LastAsked(q)'>>
                        /\ LastAsked(q)' # 0 /\ hold'[q].sentAt = askedAt'[q][LastAsked(q)']
    BY DEF Current
  <2>4. CASE q = p
    <3>1. hold'[q] = Asking(<<p, Len(askedAt[p]) + 1>>, now) /\ askedAt'[q] = Append(askedAt[p], now)
      BY <2>1, <2>4
    <3>2. LastAsked(q)' = Len(askedAt[p]) + 1
      BY <2>2, <3>1 DEF LastAsked
    <3> QED BY <2>2, <2>4, <3>1, <3>2 DEF Asking
  <2>5. CASE q # p
    BY <2>1, <2>3, <2>5 DEF Current, LastAsked
  <2> QED BY <2>4, <2>5
<1>6. ASSUME NEW p \in Phone, NEW c, CheckFails(p, c) PROVE Current'
  BY <1>2, <1>3, <1>6 DEF CheckFails, NotAsked, history
<1>7. ASSUME NEW p \in Phone, StopAsking(p) PROVE Current'
  BY <1>2, <1>3, <1>7 DEF StopAsking, history
<1>8. ASSUME NEW p \in Phone, NEW by, ReleaseSteps(p, by), UNCHANGED askedAt PROVE Current'
  BY <1>2, <1>3, <1>8 DEF ReleaseSteps
<1>9. ASSUME NEW p \in Phone, AnswerDone(p) PROVE Current'
  BY <1>1, <1>8, <1>9 DEF AnswerDone, history
<1>10. ASSUME NEW p \in Phone, Clear(p), UNCHANGED askedAt PROVE Current'
  BY <1>2, <1>3, <1>10 DEF Clear
<1>11. ASSUME NEW p \in Phone, NEW m, Handle(p, m), UNCHANGED askedAt PROVE Current'
  <2>1. CASE hold' = [hold EXCEPT ![p] = Held]
    BY <1>2, <1>3, <1>11, <2>1
  <2> QED BY <1>1, <1>8, <1>10, <1>11, <2>1 DEF Handle
<1>12. ASSUME NEW p \in Phone, Crash(p) PROVE Current'
  BY <1>2, <1>3, <1>12 DEF Crash, history
<1>13. ASSUME NEW p \in Phone, Restore(p) PROVE Current'
  BY <1>1, <1>2, <1>3, <1>13 DEF Restore, history
<1>14. ASSUME NEW p \in Phone, Complete(p) \/ \E e \in Exchange : Accepted(p, e) PROVE Current'
  BY <1>1, <1>4, <1>14 DEF Complete, Accepted, InTime
<1>15. ASSUME NEW p \in Phone, Receive(p) \/ ReceiveTwice(p) \/ StopExchange(p) PROVE Current'
  BY <1>10, <1>11, <1>15 DEF Receive, ReceiveTwice, StopExchange
<1>16. ASSUME NEW p \in Phone,
              \/ \E x : KeepHold(p, x) \/ CheckSent(p, x) \/ ReleaseMarks(p, x) \/ ReleaseRuns(p, x) \/ StopMarks(p, x)
              \/ AnswerSent(p) \/ AnswerFails(p) \/ Restart(p) \/ PeerAnnounced(p) \/ \E ready : Answer(p, ready)
       PROVE  UNCHANGED <<hold, askedAt>>
  BY <1>16 DEF KeepHold, CheckSent, ReleaseMarks, ReleaseRuns, StopMarks, AnswerSent, AnswerFails, Restart,
               PeerAnnounced, Answer, history
<1>17. Tick \/ UNCHANGED vars => UNCHANGED <<hold, askedAt>>
  BY DEF Tick, vars, volatile, history
<1> QED
  BY <1>1, <1>5, <1>6, <1>7, <1>9, <1>12, <1>13, <1>14, <1>15, <1>16, <1>17
     DEF Next, System, Environment

\* Who said "ready" to a check has said it: the answers queued and under way say no more.
LEMMA SaidStep == Types /\ SaidSo /\ WillSaySo /\ [Next]_vars => SaidSo' /\ WillSaySo'
<1> SUFFICES ASSUME Types, SaidSo, WillSaySo, [Next]_vars PROVE SaidSo' /\ WillSaySo'
  OBVIOUS
<1>1. ASSUME UNCHANGED <<inbox, answering, saidReady>> PROVE SaidSo' /\ WillSaySo'
  BY <1>1 DEF SaidSo, WillSaySo
<1>2. ASSUME NEW p \in Phone, NEW m \in Message, Deliver(p, m), UNCHANGED saidReady,
             m.kind = "answer" /\ m.ready => m.check \in saidReady
      PROVE  SaidSo'
  <2>1. Other(p) \in Phone /\ inbox[Other(p)] \in Seq(Message)
    BY OtherPhone DEF Types, CheckTypes
  <2>2. Elems(Append(inbox[Other(p)], m)) = Elems(inbox[Other(p)]) \cup {m}
    BY <2>1, Appended
  <2>3. inbox' = [inbox EXCEPT ![Other(p)] = Append(inbox[Other(p)], m)] /\ inbox \in [Phone -> Seq(Message)]
    BY <1>2 DEF Deliver, Types, CheckTypes
  <2>4. \A q \in Phone : Elems(inbox'[q]) \subseteq Elems(inbox[q]) \cup {m}
    BY <2>1, <2>2, <2>3
  <2> QED BY <1>2, <2>4 DEF SaidSo
<1>3. ASSUME UNCHANGED <<answering, saidReady>> PROVE WillSaySo'
  BY <1>3 DEF WillSaySo
<1>4. ASSUME NEW p \in Phone, NEW c \in checking[p], CheckSent(p, c) PROVE SaidSo' /\ WillSaySo'
  <2>1. c \in Check /\ [kind |-> "check", check |-> c] \in Message
    BY Messages DEF Types, CheckTypes
  <2> QED BY <1>2, <1>3, <1>4, <2>1 DEF CheckSent, history
<1>5. ASSUME NEW p \in Phone, NEW ready \in BOOLEAN, Answer(p, ready) PROVE SaidSo' /\ WillSaySo'
  <2>1. saidReady \subseteq saidReady' /\ inbox' = inbox /\ answering \in [Phone -> AnswerRun \cup {NoAnswer}]
    BY <1>5 DEF Answer, Types, CheckTypes
  <2>2. answering' = [answering EXCEPT ![p] = [check |-> peerCheck[p], ready |-> ready, sent |-> FALSE]]
    BY <1>5 DEF Answer
  <2>3. ready => peerCheck[p] \in saidReady'
    BY <1>5 DEF Answer
  <2> QED BY <2>1, <2>2, <2>3 DEF SaidSo, WillSaySo
<1>6. ASSUME NEW p \in Phone, AnswerSent(p) PROVE SaidSo' /\ WillSaySo'
  <2>1. answering[p] \in AnswerRun
    BY <1>6 DEF Types, CheckTypes, AnswerSent
  <2> DEFINE m == [kind |-> "answer", check |-> answering[p].check, ready |-> answering[p].ready]
             a == [answering[p] EXCEPT !.sent = TRUE]
  <2>2. /\ m \in Message /\ m.check = answering[p].check /\ m.ready = answering[p].ready
        /\ a.check = answering[p].check /\ a.ready = answering[p].ready
    BY <2>1, Messages DEF AnswerRun
  <2>3. answering[p].ready => answering[p].check \in saidReady
    BY <1>6 DEF WillSaySo, AnswerSent
  <2>4. Deliver(p, m) /\ answering' = [answering EXCEPT ![p] = a] /\ UNCHANGED saidReady
    BY <1>6 DEF AnswerSent, history
  <2>5. answering \in [Phone -> AnswerRun \cup {NoAnswer}]
    BY DEF Types, CheckTypes
  <2> HIDE DEF m, a
  <2>6. SaidSo'
    BY <1>2, <2>2, <2>3, <2>4
  <2>7. WillSaySo'
    BY <2>2, <2>3, <2>4, <2>5 DEF WillSaySo
  <2> QED BY <2>6, <2>7
<1>7. ASSUME NEW p \in Phone, answering' = [answering EXCEPT ![p] = NoAnswer], UNCHANGED saidReady PROVE WillSaySo'
  BY <1>7 DEF WillSaySo, Types, CheckTypes
<1>8. ASSUME UNCHANGED <<inbox, saidReady>> PROVE SaidSo'
  BY <1>8 DEF SaidSo
<1>9. ASSUME NEW p \in Phone, AnswerFails(p) \/ AnswerDone(p) \/ Crash(p) PROVE SaidSo' /\ WillSaySo'
  BY <1>7, <1>8, <1>9 DEF AnswerFails, AnswerDone, Crash, history
<1>10. ASSUME NEW p \in Phone, NEW w, StopMarks(p, w) PROVE SaidSo' /\ WillSaySo'
  <2>1. UNCHANGED <<answering, saidReady>>
    BY <1>10 DEF StopMarks, history
  <2>2. CASE Deliver(p, [kind |-> "stop"])
    <3>1. [kind |-> "stop"] \in Message /\ [kind |-> "stop"].kind # "answer"
      BY Messages
    <3> QED BY <1>2, <1>3, <2>1, <2>2, <3>1
  <2>3. CASE UNCHANGED inbox
    BY <1>1, <2>1, <2>3
  <2> QED BY <1>10, <2>2, <2>3 DEF StopMarks
<1>11. ASSUME NEW p \in Phone, NEW q, inbox' = [inbox EXCEPT ![p] = q], Elems(q) \subseteq Elems(inbox[p]),
              UNCHANGED <<answering, saidReady>>
       PROVE  SaidSo' /\ WillSaySo'
  <2>1. \A x \in Phone : Elems(inbox'[x]) \subseteq Elems(inbox[x])
    BY <1>11 DEF Types, CheckTypes
  <2> QED BY <1>3, <1>11, <2>1 DEF SaidSo
<1>12. ASSUME NEW p \in Phone, inbox[p] # <<>>
       PROVE  /\ Elems(Tail(inbox[p])) \subseteq Elems(inbox[p])
              /\ Elems(Append(Tail(inbox[p]), Head(inbox[p]))) \subseteq Elems(inbox[p])
  <2>1. inbox[p] \in Seq(Message)
    BY DEF Types, CheckTypes
  <2>2. /\ Head(inbox[p]) \in Message /\ Tail(inbox[p]) \in Seq(Message)
        /\ Elems(inbox[p]) = {Head(inbox[p])} \cup Elems(Tail(inbox[p]))
    BY <1>12, <2>1, HeadAndTail
  <2>3. ASSUME NEW h \in Message, NEW t \in Seq(Message) PROVE Elems(Append(t, h)) = Elems(t) \cup {h}
    BY Appended
  <2>4. Elems(Append(Tail(inbox[p]), Head(inbox[p]))) = Elems(Tail(inbox[p])) \cup {Head(inbox[p])}
    BY <2>2, <2>3
  <2> QED BY <2>2, <2>4
<1>13. ASSUME NEW p \in Phone, Receive(p) PROVE SaidSo' /\ WillSaySo'
  BY <1>11, <1>12, <1>13 DEF Receive
<1>14. ASSUME NEW p \in Phone, ReceiveTwice(p) PROVE SaidSo' /\ WillSaySo'
  <2>1. inbox[p] # <<>> /\ UNCHANGED <<answering, saidReady>>
    BY <1>14 DEF ReceiveTwice
  <2>2. PICK q \in {inbox[p], Append(Tail(inbox[p]), Head(inbox[p]))} : inbox' = [inbox EXCEPT ![p] = q]
    BY <1>14 DEF ReceiveTwice
  <2>3. Elems(q) \subseteq Elems(inbox[p])
    BY <1>12, <2>1
  <2> QED BY <1>11, <2>1, <2>2, <2>3
<1>15. ASSUME NEW p \in Phone,
              \/ Complete(p) \/ PeerAnnounced(p) \/ (\E e : Accepted(p, e)) \/ AskPeer(p) \/ StopAsking(p) \/ StopExchange(p)
              \/ Restart(p) \/ Restore(p)
              \/ \E x : KeepHold(p, x) \/ CheckFails(p, x) \/ ReleaseMarks(p, x) \/ ReleaseRuns(p, x)
       PROVE  UNCHANGED <<inbox, answering, saidReady>>
  BY <1>15 DEF Complete, PeerAnnounced, Accepted, AskPeer, StopAsking, StopExchange, Restart, Restore, KeepHold,
               CheckFails, ReleaseMarks, ReleaseRuns, history
<1>16. Tick \/ UNCHANGED vars => UNCHANGED <<inbox, answering, saidReady>>
  BY DEF Tick, vars, volatile, history
<1> QED
  BY <1>1, <1>4, <1>5, <1>6, <1>9, <1>10, <1>13, <1>14, <1>15, <1>16 DEF Next, System, Environment

\* Nothing is asked or said at first.
LEMMA AskedAndSaidHold == Spec => []AskedAndSaid
<1>1. Init => AskedAndSaid
  BY EmptyElems DEF Init, AskedAndSaid, Current, SaidSo, WillSaySo, NotHeld
<1>2. Types /\ AskedAndSaid /\ [Next]_vars => AskedAndSaid'
  BY CurrentStep, SaidStep DEF AskedAndSaid
<1> QED BY <1>1, <1>2, TypesHold, PTL DEF Spec

ReleasedInTime == \A p \in Phone : \A r \in releasing'[p] :
                    (Begins(p, r) /\ r.by = "asker") => HereFor(<<p, Len(askedAt[p])>>)

\* A release that begins is the asker's own only when an answer to the last check is handled.
LEMMA ReleaseStep == Types /\ AskedAndSaid /\ [Next]_vars => ReleasedInTime
<1> SUFFICES ASSUME Types, AskedAndSaid, [Next]_vars PROVE ReleasedInTime
  OBVIOUS
<1>1. ASSUME UNCHANGED releasing PROVE ReleasedInTime
  BY <1>1 DEF ReleasedInTime, Begins
<1>2. ASSUME NEW p \in Phone, NEW S, releasing' = [releasing EXCEPT ![p] = S],
             \A r \in S \ releasing[p] : r.marked \/ r.by = "answerer"
      PROVE  ReleasedInTime
  BY <1>2 DEF ReleasedInTime, Begins, Types, StepTypes
<1>3. ASSUME NEW p \in Phone, NEW r \in releasing[p], ReleaseMarks(p, r) PROVE ReleasedInTime
  <2>1. [r EXCEPT !.marked = TRUE].marked
    BY DEF Types, StepTypes, ReleaseRun
  <2> QED BY <1>2, <1>3, <2>1 DEF ReleaseMarks
<1>4. ASSUME NEW p \in Phone, NEW r \in releasing[p], ReleaseRuns(p, r) PROVE ReleasedInTime
  <2>1. [r EXCEPT !.steps = Tail(@)].marked
    BY <1>4 DEF Types, StepTypes, ReleaseRun, ReleaseRuns
  <2> QED BY <1>2, <1>4, <2>1 DEF ReleaseRuns
<1>5. ASSUME NEW p \in Phone, AnswerDone(p) PROVE ReleasedInTime
  <2> DEFINE r == [by |-> "answerer", marked |-> FALSE, steps |-> pending[p]]
  <2>1. CASE releasing' = [releasing EXCEPT ![p] = releasing[p] \cup {r}]
    <3>1. \A x \in (releasing[p] \cup {r}) \ releasing[p] : x.by = "answerer"
      OBVIOUS
    <3> HIDE DEF r
    <3> QED BY <1>2, <2>1, <3>1
  <2> QED BY <1>1, <1>5, <2>1 DEF AnswerDone, ReleaseSteps
<1>6. ASSUME NEW p \in Phone, Crash(p) PROVE ReleasedInTime
  BY <1>2, <1>6 DEF Crash
<1>7. ASSUME NEW p \in Phone, inbox[p] # <<>>, Handle(p, Head(inbox[p])) PROVE ReleasedInTime
  <2> DEFINE m == Head(inbox[p])
  <2>1. CASE m.kind = "answer" /\ Outcome(hold[p], m) = "release" /\ ReleaseSteps(p, "asker")
    <3>1. m \in Message /\ m \in Elems(inbox[p])
      BY <1>7, HeadAndTail DEF Types, CheckTypes
    <3>2. m.check \in Check /\ m.ready \in BOOLEAN
      BY <2>1, <3>1, Messages
    <3>3. hold[p].phase = "asking" /\ hold[p].check = m.check /\ m.ready /\ now - hold[p].sentAt <= Window
      BY <2>1, <3>2 DEF Outcome
    <3>4. m.check \in saidReady
      BY <2>1, <3>1, <3>3 DEF AskedAndSaid, SaidSo
    <3>5. m.check = <<p, Len(askedAt[p])>> /\ hold[p].sentAt = askedAt[p][Len(askedAt[p])]
      BY <3>3 DEF AskedAndSaid, Current, LastAsked
    <3>6. HereFor(<<p, Len(askedAt[p])>>)
      BY <3>3, <3>4, <3>5 DEF HereFor
    <3>7. \A q \in Phone : q # p => releasing'[q] = releasing[q]
      BY <2>1 DEF ReleaseSteps, Types, StepTypes
    <3> QED BY <3>6, <3>7 DEF ReleasedInTime, Begins
  <2> QED BY <1>1, <1>7, <2>1 DEF Handle
<1>8. ASSUME NEW p \in Phone, Receive(p) \/ ReceiveTwice(p) PROVE ReleasedInTime
  BY <1>7, <1>8 DEF Receive, ReceiveTwice
<1>9. ASSUME NEW p \in Phone,
             \/ Complete(p) \/ PeerAnnounced(p) \/ (\E e : Accepted(p, e)) \/ AskPeer(p) \/ StopAsking(p) \/ StopExchange(p)
             \/ Restart(p) \/ Restore(p) \/ (\E ready : Answer(p, ready)) \/ AnswerSent(p) \/ AnswerFails(p)
             \/ \E x : KeepHold(p, x) \/ CheckSent(p, x) \/ CheckFails(p, x) \/ StopMarks(p, x)
      PROVE  UNCHANGED releasing
  BY <1>9 DEF Complete, PeerAnnounced, Accepted, AskPeer, StopAsking, StopExchange, Restart, Restore, Answer,
              AnswerSent, AnswerFails, KeepHold, CheckSent, CheckFails, StopMarks
<1>10. Tick \/ UNCHANGED vars => UNCHANGED releasing
  BY DEF Tick, vars, volatile
<1> QED
  BY <1>1, <1>3, <1>4, <1>5, <1>6, <1>8, <1>9, <1>10 DEF Next, System, Environment

\* The phone that asked releases only what the other person said ready to, in time, when
\* last asked (lateStepStore.answered).
THEOREM AskerIsReleasedInTime == Spec => AskerReleasesInTime
<1>1. Types /\ AskedAndSaid /\ [Next]_vars
        => [\A p \in Phone : \A r \in releasing'[p] :
               (Begins(p, r) /\ r.by = "asker") => HereFor(<<p, Len(askedAt[p])>>)]_vars
  BY ReleaseStep DEF ReleasedInTime
<1> QED BY <1>1, TypesHold, AskedAndSaidHold, PTL DEF Spec, AskerReleasesInTime

-----------------------------------------------------------------------------
(* A question leaves the screen when it was answered.                      *)

AnsweredOrGone == \A p \in Phone :
  (peerCheck[p] # NoCheck /\ peerCheck'[p] = NoCheck /\ up'[p] /\ stopping'[p] = {})
    => answering[p] # NoAnswer /\ answering[p].check = peerCheck[p] /\ answering[p].sent

\* Only an answer that was sent, a stop or a kill takes a question away.
LEMMA QuestionStep == Types /\ [Next]_vars => AnsweredOrGone
<1> SUFFICES ASSUME Types, [Next]_vars PROVE AnsweredOrGone
  OBVIOUS
<1>1. ASSUME UNCHANGED peerCheck PROVE AnsweredOrGone
  BY <1>1 DEF AnsweredOrGone
<1>2. ASSUME NEW p \in Phone, Clear(p), NEW w, stopping' = [stopping EXCEPT ![p] = @ \cup {w}] PROVE AnsweredOrGone
  BY <1>2 DEF AnsweredOrGone, Clear, Types, StepTypes, CheckTypes
<1>3. ASSUME NEW p \in Phone, StopExchange(p) PROVE AnsweredOrGone
  BY <1>2, <1>3 DEF StopExchange
<1>4. ASSUME NEW p \in Phone, AnswerDone(p) PROVE AnsweredOrGone
  BY <1>4 DEF AnsweredOrGone, AnswerDone, AfterClear, Types, CheckTypes
<1>5. ASSUME NEW p \in Phone, Crash(p) PROVE AnsweredOrGone
  BY <1>5 DEF AnsweredOrGone, Crash, Types, StepTypes, CheckTypes
<1>6. ASSUME NEW p \in Phone, inbox[p] # <<>>, Handle(p, Head(inbox[p])) PROVE AnsweredOrGone
  <2> DEFINE m == Head(inbox[p])
  <2>1. CASE m.kind = "check" /\ peerCheck' = [peerCheck EXCEPT ![p] = m.check]
    <3>1. m.check # NoCheck
      BY <1>6, <2>1, HeadAndTail, Messages, CheckIsSome DEF Types, CheckTypes
    <3> QED BY <2>1, <3>1 DEF AnsweredOrGone, Types, CheckTypes
  <2> QED BY <1>1, <1>2, <1>6, <2>1 DEF Handle
<1>7. ASSUME NEW p \in Phone, Receive(p) \/ ReceiveTwice(p) PROVE AnsweredOrGone
  BY <1>6, <1>7 DEF Receive, ReceiveTwice
<1>8. ASSUME NEW p \in Phone,
             \/ Complete(p) \/ PeerAnnounced(p) \/ (\E e : Accepted(p, e)) \/ AskPeer(p) \/ StopAsking(p)
             \/ Restart(p) \/ Restore(p) \/ (\E ready : Answer(p, ready)) \/ AnswerSent(p) \/ AnswerFails(p)
             \/ \E x : \/ KeepHold(p, x) \/ CheckSent(p, x) \/ CheckFails(p, x) \/ StopMarks(p, x)
                       \/ ReleaseMarks(p, x) \/ ReleaseRuns(p, x)
      PROVE  UNCHANGED peerCheck
  BY <1>8 DEF Complete, PeerAnnounced, Accepted, AskPeer, StopAsking, Restart, Restore, Answer, AnswerSent, AnswerFails,
              KeepHold, CheckSent, CheckFails, StopMarks, ReleaseMarks, ReleaseRuns
<1>9. Tick \/ UNCHANGED vars => UNCHANGED peerCheck
  BY DEF Tick, vars, volatile
<1> QED
  BY <1>1, <1>3, <1>4, <1>5, <1>7, <1>8, <1>9 DEF Next, System, Environment

\* Short of a stop, a question leaves the screen when it, and not another, was answered, or
\* for a newer one (clearPeerCheck).
THEOREM QuestionIsAnswered == Spec => QuestionAnswered
<1>1. Types /\ [Next]_vars
        => [\A p \in Phone :
              (/\ peerCheck[p] # NoCheck /\ peerCheck'[p] = NoCheck
               /\ up'[p] /\ stopping'[p] = {})
              => answering[p] # NoAnswer /\ answering[p].check = peerCheck[p] /\ answering[p].sent]_vars
  BY QuestionStep DEF AnsweredOrGone
<1> QED BY <1>1, TypesHold, PTL DEF Spec, QuestionAnswered

-----------------------------------------------------------------------------
(* What a hold keeps is owed, and only what is owed runs.                  *)

\* The steps kept and those of the releases under way are, each once, what is owed; and
\* what is owed came up.
Ledger(held, runs, due, came) ==
  /\ due \subseteq came
  /\ due = Elems(held) \cup (UNION {Elems(r.steps) : r \in runs})
  /\ Distinct(held)
  /\ \A r \in runs : Distinct(r.steps) /\ Elems(r.steps) \cap Elems(held) = {}
  /\ \A r, t \in runs : r # t => Elems(r.steps) \cap Elems(t.steps) = {}

\* A step that comes up is deferred.
LEMMA LedgerDefer ==
  ASSUME NEW held \in Seq(Step), NEW runs, NEW due, NEW came, Ledger(held, runs, due, came),
         NEW s \in Step, s \notin came
  PROVE  Ledger(Append(held, s), runs, due \cup {s}, came \cup {s})
<1>1. Elems(Append(held, s)) = Elems(held) \cup {s} /\ s \notin due /\ s \notin Elems(held)
  BY Appended DEF Ledger
<1>2. Distinct(Append(held, s))
  BY <1>1, Appended DEF Ledger
<1>3. \A r \in runs : s \notin Elems(r.steps)
  BY <1>1 DEF Ledger
<1> QED BY <1>1, <1>2, <1>3 DEF Ledger

\* A release takes over what was kept.
LEMMA LedgerRelease ==
  ASSUME NEW held, NEW runs, NEW due, NEW came, Ledger(held, runs, due, came),
         NEW x, x.steps = held
  PROVE  Ledger(<<>>, runs \cup {x}, due, came)
<1>1. (UNION {Elems(r.steps) : r \in runs \cup {x}}) = Elems(held) \cup (UNION {Elems(r.steps) : r \in runs})
  OBVIOUS
<1>2. \A r \in runs \cup {x} : Distinct(r.steps)
  BY DEF Ledger
<1>3. \A r, t \in runs \cup {x} : r # t => Elems(r.steps) \cap Elems(t.steps) = {}
  BY DEF Ledger
<1> QED BY <1>1, <1>2, <1>3, EmptyElems DEF Ledger

\* The steps of two sets of releases are those of each.
LEMMA StepsOfBoth ==
  \A A, B : (UNION {Elems(x.steps) : x \in A \cup B})
              = (UNION {Elems(x.steps) : x \in A}) \cup (UNION {Elems(x.steps) : x \in B})
  OBVIOUS

\* A release is replaced by what it leaves.
LEMMA LedgerReplace ==
  ASSUME NEW held, NEW runs, NEW due, NEW came, Ledger(held, runs, due, came),
         NEW r \in runs, NEW rest, NEW gone,
         Elems(r.steps) = gone \cup (UNION {Elems(x.steps) : x \in rest}),
         \A x \in rest : Distinct(x.steps) /\ Elems(x.steps) \cap gone = {},
         \A x, y \in rest : x = y
  PROVE  Ledger(held, (runs \ {r}) \cup rest, due \ gone, came)
<1> DEFINE after == (runs \ {r}) \cup rest
<1>1. \A x \in rest : Elems(x.steps) \subseteq Elems(r.steps)
  OBVIOUS
<1>2. \A x \in after : Distinct(x.steps) /\ Elems(x.steps) \cap Elems(held) = {} /\ Elems(x.steps) \cap gone = {}
  BY <1>1 DEF Ledger
<1>3. \A x, y \in after : x # y => Elems(x.steps) \cap Elems(y.steps) = {}
  BY <1>1 DEF Ledger
<1>4. gone \cap Elems(held) = {}
  BY DEF Ledger
<1>5. (UNION {Elems(x.steps) : x \in runs}) = Elems(r.steps) \cup (UNION {Elems(x.steps) : x \in runs \ {r}})
  <2>1. runs = (runs \ {r}) \cup {r}
    OBVIOUS
  <2>2. (UNION {Elems(x.steps) : x \in {r}}) = Elems(r.steps)
    OBVIOUS
  <2> QED BY <2>1, <2>2, StepsOfBoth
<1>6. (UNION {Elems(x.steps) : x \in after})
        = (UNION {Elems(x.steps) : x \in runs \ {r}}) \cup (UNION {Elems(x.steps) : x \in rest})
  BY StepsOfBoth
<1>7. due \ gone = Elems(held) \cup (UNION {Elems(x.steps) : x \in after})
  BY <1>2, <1>4, <1>5, <1>6 DEF Ledger
<1> QED BY <1>2, <1>3, <1>7 DEF Ledger

\* What was kept is put aside.
LEMMA LedgerClear ==
  ASSUME NEW held, NEW runs, NEW due, NEW came, Ledger(held, runs, due, came)
  PROVE  Ledger(<<>>, runs, due \ Elems(held), came)
  BY EmptyElems DEF Ledger

Kept(p) == Ledger(pending[p], releasing[p], owed[p], found[p])
Owing == crashes = 0 => \A p \in Phone : up[p] /\ ~restoring[p] /\ Kept(p)

\* Every step accounts for what it defers, releases, runs and stops.
LEMMA OwingStep == Types /\ Owing /\ [Next]_vars => Owing'
<1> SUFFICES ASSUME Types, Owing, [Next]_vars, crashes' = 0
             PROVE  \A p \in Phone : up'[p] /\ ~restoring'[p] /\ Kept(p)'
  BY DEF Owing
<1>1. ASSUME UNCHANGED <<up, restoring, pending, releasing, owed, found, crashes>>
      PROVE  \A p \in Phone : up'[p] /\ ~restoring'[p] /\ Kept(p)'
  BY <1>1 DEF Owing, Kept
<1> DEFINE Others(p) == \A q \in Phone \ {p} : /\ pending'[q] = pending[q] /\ releasing'[q] = releasing[q]
                                               /\ owed'[q] = owed[q] /\ found'[q] = found[q]
<1>2. ASSUME NEW p \in Phone, Kept(p)', Others(p), UNCHANGED <<up, restoring, crashes>>
      PROVE  \A q \in Phone : up'[q] /\ ~restoring'[q] /\ Kept(q)'
  BY <1>2 DEF Owing, Kept
<1> HIDE DEF Others
<1>3. ASSUME NEW p \in Phone, crashes = 0 PROVE Kept(p) /\ pending[p] \in Seq(Step) /\ ~restoring[p] /\ up[p]
  BY <1>3 DEF Owing, Types, StepTypes
<1>4. ASSUME NEW p \in Phone, NEW s \in Step, s \notin found[p], Defer(p, s),
             found' = [found EXCEPT ![p] = @ \cup {s}], UNCHANGED <<up, restoring, releasing, crashes>>
      PROVE  \A q \in Phone : up'[q] /\ ~restoring'[q] /\ Kept(q)'
  <2>1. /\ pending'[p] = Append(pending[p], s) /\ releasing'[p] = releasing[p]
        /\ owed'[p] = owed[p] \cup {s} /\ found'[p] = found[p] \cup {s} /\ Others(p)
    BY <1>4 DEF Defer, Types, StepTypes, Others
  <2>2. Kept(p)'
    BY <1>3, <1>4, <2>1, LedgerDefer DEF Kept
  <2> QED BY <1>2, <1>4, <2>1, <2>2
<1>5. ASSUME NEW p \in Phone, NEW s, found' = [found EXCEPT ![p] = @ \cup {s}],
             UNCHANGED <<up, restoring, pending, releasing, owed, crashes>>
      PROVE  \A q \in Phone : up'[q] /\ ~restoring'[q] /\ Kept(q)'
  <2>1. found'[p] = found[p] \cup {s} /\ Others(p)
    BY <1>5 DEF Types, StepTypes, Others
  <2>2. Kept(p)'
    BY <1>3, <1>5, <2>1 DEF Kept, Ledger
  <2> QED BY <1>2, <1>5, <2>1, <2>2
<1>6. ASSUME NEW p \in Phone, NEW s \in Step, s \notin found[p], InTime(p, s) \/ FoundLate(p, s),
             found' = [found EXCEPT ![p] = @ \cup {s}], UNCHANGED <<up, restoring, releasing, crashes>>
      PROVE  \A q \in Phone : up'[q] /\ ~restoring'[q] /\ Kept(q)'
  BY <1>4, <1>5, <1>6 DEF InTime, FoundLate
<1>7. ASSUME NEW p \in Phone, Complete(p) PROVE \A q \in Phone : up'[q] /\ ~restoring'[q] /\ Kept(q)'
  BY <1>6, <1>7 DEF Complete, Step, budget
<1>8. ASSUME NEW p \in Phone, NEW e \in Exchange, Accepted(p, e)
      PROVE  \A q \in Phone : up'[q] /\ ~restoring'[q] /\ Kept(q)'
  BY <1>6, <1>8 DEF Accepted, Step, budget
<1>9. ASSUME NEW p \in Phone, PeerAnnounced(p) PROVE \A q \in Phone : up'[q] /\ ~restoring'[q] /\ Kept(q)'
  BY <1>4, <1>5, <1>9 DEF PeerAnnounced, Step, budget
<1>10. ASSUME NEW p \in Phone, NEW by, ReleaseSteps(p, by), UNCHANGED <<up, restoring, owed, found, crashes>>
       PROVE  \A q \in Phone : up'[q] /\ ~restoring'[q] /\ Kept(q)'
  <2> DEFINE x == [by |-> by, marked |-> FALSE, steps |-> pending[p]]
  <2>1. /\ pending'[p] = <<>> /\ releasing'[p] = releasing[p] \cup {x} /\ Others(p)
        /\ owed'[p] = owed[p] /\ found'[p] = found[p] /\ x.steps = pending[p]
    BY <1>10 DEF ReleaseSteps, Types, StepTypes, Others
  <2> HIDE DEF x
  <2>2. Kept(p)'
    BY <1>3, <1>10, <2>1, LedgerRelease DEF Kept
  <2> QED BY <1>2, <1>10, <2>1, <2>2
<1>11. ASSUME NEW p \in Phone, Clear(p), UNCHANGED <<up, restoring, releasing, found, crashes>>
       PROVE  \A q \in Phone : up'[q] /\ ~restoring'[q] /\ Kept(q)'
  <2>1. /\ pending'[p] = <<>> /\ releasing'[p] = releasing[p] /\ Others(p)
        /\ owed'[p] = owed[p] \ Elems(pending[p]) /\ found'[p] = found[p]
    BY <1>11 DEF Clear, Elems, Types, StepTypes, Others
  <2>2. Kept(p)'
    BY <1>3, <1>11, <2>1, LedgerClear DEF Kept
  <2> QED BY <1>2, <1>11, <2>1, <2>2
<1>12. ASSUME NEW p \in Phone, AnswerDone(p) PROVE \A q \in Phone : up'[q] /\ ~restoring'[q] /\ Kept(q)'
  BY <1>1, <1>10, <1>12 DEF AnswerDone, history, budget
<1>13. ASSUME NEW p \in Phone, NEW r \in releasing[p], NEW rest, NEW gone,
              Elems(r.steps) = gone \cup (UNION {Elems(x.steps) : x \in rest}),
              \A x \in rest : Distinct(x.steps) /\ Elems(x.steps) \cap gone = {}, \A x, y \in rest : x = y,
              releasing' = [releasing EXCEPT ![p] = (@ \ {r}) \cup rest], owed' = [owed EXCEPT ![p] = @ \ gone],
              UNCHANGED <<up, restoring, pending, found, crashes>>
       PROVE  \A q \in Phone : up'[q] /\ ~restoring'[q] /\ Kept(q)'
  <2>1. /\ pending'[p] = pending[p] /\ releasing'[p] = (releasing[p] \ {r}) \cup rest /\ Others(p)
        /\ owed'[p] = owed[p] \ gone /\ found'[p] = found[p]
    BY <1>13 DEF Types, StepTypes, Others
  <2>2. Ledger(pending[p], releasing[p], owed[p], found[p])
    BY <1>3, <1>13 DEF Kept
  <2>3. Ledger(pending[p], (releasing[p] \ {r}) \cup rest, owed[p] \ gone, found[p])
    BY <1>13, <2>2, LedgerReplace
  <2>4. Kept(p)'
    BY <2>1, <2>3 DEF Kept
  <2> QED BY <1>2, <1>13, <2>1, <2>4
<1>14. ASSUME NEW p \in Phone, NEW r \in releasing[p], crashes = 0
       PROVE  r \in ReleaseRun /\ r.steps \in Seq(Step) /\ Distinct(r.steps) /\ (r.marked => r.steps # <<>>)
  BY <1>3, <1>14 DEF Kept, Ledger, Types, StepTypes, ReleaseRun
<1>15. ASSUME NEW p \in Phone, NEW r \in releasing[p], ReleaseMarks(p, r)
       PROVE  \A q \in Phone : up'[q] /\ ~restoring'[q] /\ Kept(q)'
  <2> DEFINE x == [r EXCEPT !.marked = TRUE]
             rest == IF r.steps = <<>> THEN {} ELSE {x}
             none == {}
  <2>1. crashes = 0 /\ UNCHANGED <<up, restoring, pending, found, crashes>> /\ UNCHANGED owed
    BY <1>15 DEF ReleaseMarks, history, budget
  <2>2. x.steps = r.steps /\ Distinct(r.steps)
    BY <1>14, <2>1, MarkedRun
  <2>3. releasing' = [releasing EXCEPT ![p] = (@ \ {r}) \cup rest]
    BY <1>15 DEF ReleaseMarks
  <2>4. owed' = [owed EXCEPT ![p] = @ \ none]
    BY <2>1 DEF Types, StepTypes
  <2> HIDE DEF x
  <2>5. Elems(r.steps) = none \cup (UNION {Elems(y.steps) : y \in rest})
    <3>1. CASE r.steps = <<>>
      BY <3>1, EmptyElems
    <3>2. CASE r.steps # <<>>
      BY <2>2, <3>2
    <3> QED BY <3>1, <3>2
  <2>6. \A y \in rest : Distinct(y.steps) /\ Elems(y.steps) \cap none = {}
    BY <2>2
  <2>7. \A y, z \in rest : y = z
    OBVIOUS
  <2>8. UNCHANGED <<up, restoring, pending, found, crashes>>
    BY <2>1
  <2> HIDE DEF rest, none
  <2> QED BY <1>13, <2>3, <2>4, <2>5, <2>6, <2>7, <2>8
<1>16. ASSUME NEW p \in Phone, NEW r \in releasing[p], ReleaseRuns(p, r)
       PROVE  \A q \in Phone : up'[q] /\ ~restoring'[q] /\ Kept(q)'
  <2> DEFINE x == [r EXCEPT !.steps = Tail(@)]
             rest == IF Len(r.steps) = 1 THEN {} ELSE {x}
             gone == {Head(r.steps)}
  <2>1. crashes = 0 /\ UNCHANGED <<up, restoring, pending, found, crashes>> /\ r.marked
    BY <1>16 DEF ReleaseRuns, budget
  <2>2. r \in ReleaseRun /\ r.steps \in Seq(Step) /\ Distinct(r.steps) /\ r.steps # <<>>
    BY <1>14, <2>1
  <2>3. x.steps = Tail(r.steps)
    BY <2>2 DEF ReleaseRun
  <2>4. /\ Elems(r.steps) = gone \cup Elems(Tail(r.steps)) /\ (Len(r.steps) = 1 => Elems(r.steps) = gone)
        /\ Distinct(Tail(r.steps)) /\ Head(r.steps) \notin Elems(Tail(r.steps))
    BY <2>2, HeadAndTail
  <2>5. releasing' = [releasing EXCEPT ![p] = (@ \ {r}) \cup rest] /\ owed' = [owed EXCEPT ![p] = @ \ gone]
    BY <1>16 DEF ReleaseRuns
  <2> HIDE DEF x
  <2>6. Elems(r.steps) = gone \cup (UNION {Elems(y.steps) : y \in rest})
    BY <2>3, <2>4
  <2>7. \A y \in rest : Distinct(y.steps) /\ Elems(y.steps) \cap gone = {}
    BY <2>3, <2>4
  <2>8. \A y, z \in rest : y = z
    OBVIOUS
  <2> HIDE DEF rest, gone
  <2> QED BY <1>13, <2>1, <2>5, <2>6, <2>7, <2>8
<1>17. ASSUME NEW p \in Phone, NEW m, Handle(p, m), UNCHANGED <<up, restoring, found, crashes>>
       PROVE  \A q \in Phone : up'[q] /\ ~restoring'[q] /\ Kept(q)'
  BY <1>1, <1>10, <1>11, <1>17 DEF Handle
<1>18. ASSUME NEW p \in Phone, Receive(p) \/ ReceiveTwice(p) \/ StopExchange(p)
       PROVE  \A q \in Phone : up'[q] /\ ~restoring'[q] /\ Kept(q)'
  BY <1>11, <1>17, <1>18 DEF Receive, ReceiveTwice, StopExchange, budget
<1>19. ASSUME NEW p \in Phone, Crash(p) PROVE FALSE
  BY <1>19 DEF Crash, Types, Counters
<1>20. ASSUME NEW p \in Phone, Restart(p) \/ Restore(p) PROVE FALSE
  BY <1>3, <1>20 DEF Restart, Restore, budget
<1>21. ASSUME NEW p \in Phone,
              \/ AskPeer(p) \/ StopAsking(p) \/ (\E ready : Answer(p, ready)) \/ AnswerSent(p) \/ AnswerFails(p)
              \/ \E x : KeepHold(p, x) \/ CheckSent(p, x) \/ CheckFails(p, x) \/ StopMarks(p, x)
       PROVE  UNCHANGED <<up, restoring, pending, releasing, owed, found, crashes>>
  BY <1>21 DEF AskPeer, StopAsking, Answer, AnswerSent, AnswerFails, KeepHold, CheckSent, CheckFails, StopMarks,
               history, budget
<1>22. Tick \/ UNCHANGED vars => UNCHANGED <<up, restoring, pending, releasing, owed, found, crashes>>
  BY DEF Tick, vars, volatile, history, budget
<1> QED
  BY <1>1, <1>7, <1>8, <1>9, <1>12, <1>15, <1>16, <1>18, <1>19, <1>20, <1>21, <1>22 DEF Next, System, Environment

\* At first nothing came up, and nothing is owed.
LEMMA OwingHolds == Spec => []Owing
<1>1. Init => Owing
  BY EmptyElems DEF Init, Owing, Kept, Ledger
<1>2. Types /\ Owing /\ [Next]_vars => Owing'
  BY OwingStep
<1> QED BY <1>1, <1>2, TypesHold, PTL DEF Spec

\* A hold keeps what is owed, all of it and nothing else (keepHold, lateStepStore.clear), for
\* as long as no app is killed.
THEOREM HeldStepsAreOwed == Spec => []HeldIsOwed
<1>1. Owing => HeldIsOwed
  <2> SUFFICES ASSUME Owing, crashes = 0, NEW p \in Phone
               PROVE  /\ Elems(pending[p]) \subseteq owed[p]
                      /\ IsHeld(p) => owed[p] \subseteq Elems(pending[p]) \cup
                           UNION {Elems(r.steps) : r \in releasing[p]}
    BY DEF HeldIsOwed, Elems
  <2> QED BY DEF Owing, Kept, Ledger
<1> QED BY <1>1, OwingHolds, PTL

RunsOwed == \A p \in Phone : \A s \in found[p] : (crashes = 0 /\ ran'[p][s] > ran[p][s]) => s \in owed[p]

\* A step runs as it comes up, or comes off a hold that keeps it.
LEMMA RunStep == Types /\ Owing /\ [Next]_vars => RunsOwed
<1> SUFFICES ASSUME Types, Owing, [Next]_vars PROVE RunsOwed
  OBVIOUS
<1>1. ran \in [Phone -> [Step -> Nat]] /\ found \in [Phone -> SUBSET Step]
  BY DEF Types, StepTypes
<1>2. ASSUME UNCHANGED ran PROVE RunsOwed
  <2>1. \A p \in Phone : \A s \in found[p] : ran'[p][s] = ran[p][s] /\ ran[p][s] \in Nat
    BY <1>1, <1>2
  <2> QED BY <2>1 DEF RunsOwed
<1>3. ASSUME NEW p \in Phone, NEW s \in Step, Ran(p, s), crashes = 0 /\ s \in found[p] => s \in owed[p] PROVE RunsOwed
  <2>1. \A q \in Phone : \A t \in Step : (q # p \/ t # s) => ran'[q][t] = ran[q][t] /\ ran[q][t] \in Nat
    BY <1>1, <1>3 DEF Ran
  <2> SUFFICES ASSUME NEW q \in Phone, NEW t \in found[q], crashes = 0, ran'[q][t] > ran[q][t] PROVE t \in owed[q]
    BY DEF RunsOwed
  <2>2. t \in Step
    BY <1>1
  <2>3. CASE q = p /\ t = s
    BY <1>3, <2>3
  <2>4. CASE q # p \/ t # s
    <3>1. ran'[q][t] = ran[q][t] /\ ran[q][t] \in Nat
      BY <2>1, <2>2, <2>4
    <3> QED BY <3>1
  <2> QED BY <2>3, <2>4
<1>4. ASSUME NEW p \in Phone, NEW s \in Step, s \notin found[p], InTime(p, s) \/ FoundLate(p, s) PROVE RunsOwed
  BY <1>2, <1>3, <1>4 DEF InTime, FoundLate
<1>5. ASSUME NEW p \in Phone, Complete(p) PROVE RunsOwed
  BY <1>4, <1>5 DEF Complete, Step
<1>6. ASSUME NEW p \in Phone, NEW e \in Exchange, Accepted(p, e) PROVE RunsOwed
  BY <1>4, <1>6 DEF Accepted, Step
<1>7. ASSUME NEW p \in Phone, PeerAnnounced(p) PROVE RunsOwed
  BY <1>2, <1>3, <1>7 DEF PeerAnnounced, Step
<1>8. ASSUME NEW p \in Phone, NEW r \in releasing[p], ReleaseRuns(p, r) PROVE RunsOwed
  <2>1. r.steps \in Seq(Step) /\ r.steps # <<>>
    BY <1>8 DEF ReleaseRuns, Types, StepTypes, ReleaseRun
  <2>2. Head(r.steps) \in Step /\ Head(r.steps) \in Elems(r.steps)
    BY <2>1, HeadAndTail
  <2>3. crashes = 0 => Head(r.steps) \in owed[p]
    BY <2>2 DEF Owing, Kept, Ledger
  <2> QED BY <1>3, <1>8, <2>2, <2>3 DEF ReleaseRuns
<1>9. ASSUME NEW p \in Phone,
             \/ AskPeer(p) \/ StopAsking(p) \/ StopExchange(p) \/ Crash(p) \/ Restart(p) \/ Restore(p)
             \/ (\E ready : Answer(p, ready)) \/ AnswerSent(p) \/ AnswerFails(p) \/ AnswerDone(p)
             \/ Receive(p) \/ ReceiveTwice(p)
             \/ \E x : KeepHold(p, x) \/ CheckSent(p, x) \/ CheckFails(p, x) \/ StopMarks(p, x) \/ ReleaseMarks(p, x)
      PROVE  UNCHANGED ran
  BY <1>9 DEF AskPeer, StopAsking, StopExchange, Crash, Restart, Restore, Answer, AnswerSent, AnswerFails, AnswerDone,
              Receive, ReceiveTwice, KeepHold, CheckSent, CheckFails, StopMarks, ReleaseMarks, history
<1>10. Tick \/ UNCHANGED vars => UNCHANGED ran
  BY DEF Tick, vars, history
<1> QED
  BY <1>2, <1>5, <1>6, <1>7, <1>8, <1>9, <1>10 DEF Next, System, Environment

\* A step neither runs again nor after it was stopped, as long as no app is killed.
THEOREM OnlyOwedStepsRun == Spec => OnlyOwedRuns
<1>1. Types /\ Owing /\ [Next]_vars
        => [\A p \in Phone : \A s \in found[p] : (crashes = 0 /\ ran'[p][s] > ran[p][s]) => s \in owed[p]]_vars
  BY RunStep DEF RunsOwed
<1> QED BY <1>1, TypesHold, OwingHolds, PTL DEF Spec, OnlyOwedRuns
=============================================================================
