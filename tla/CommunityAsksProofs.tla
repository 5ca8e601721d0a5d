------------------------- MODULE CommunityAsksProofs -------------------------
(***************************************************************************)
(* Proofs about CommunityAsks, for any number of calls, identities and     *)
(* moves of the session: a call is given its own answer, a write is out    *)
(* once, and no answer that leaves the mediator is lost.                   *)
(***************************************************************************)
EXTENDS CommunityAsks, FiniteSetTheorems, TLAPS

-----------------------------------------------------------------------------
(* Types.                                                                  *)

Progress == Sending \cup {"idle", "sent", "resent", "waiting", "astray", "answered", "silent", "failed"}
Answers == Reply \cup {NoReply}

\* The types of a call and of the entries.
CallTypes ==
  /\ call \in [Calls -> Progress] /\ on \in [Calls -> Calls \cup {NoCall}]
  /\ kept \in [Calls -> Answers] /\ got \in [Calls -> Answers]
  /\ asks \subseteq Calls /\ held \subseteq asks /\ replies \subseteq Reply

\* What was sent, and how often the session moved.
Sent == requests \subseteq [entry : Calls, again : BOOLEAN] /\ answered \subseteq requests
Moved ==
  /\ who \in Dids /\ moves \in 0..MaxMoves /\ upsets \in 0..MaxUpsets
  /\ using \in [Calls -> 0..MaxMoves] /\ order \in [Calls -> Nat]

\* Only a call that sends adds a request, its own; only a request that is out is answered.
LEMMA SentStep == Sent /\ [Next]_vars => Sent'
<1> SUFFICES ASSUME Sent, [Next]_vars PROVE Sent'
  OBVIOUS
<1>1. ASSUME NEW c \in Calls, Send(c) PROVE Sent'
  <2>1. (call[c] = "resending") \in BOOLEAN
    OBVIOUS
  <2>2. [entry |-> c, again |-> call[c] = "resending"] \in [entry : Calls, again : BOOLEAN]
    BY <2>1
  <2> QED BY <1>1, <2>2 DEF Send, Sent
<1>2. ASSUME NEW m \in requests, Answer(m) PROVE Sent'
  BY <1>2 DEF Answer, Sent
<1>3. ASSUME NEW c \in Calls, Ask(c) \/ SendFails(c) \/ StartWaiting(c) \/ TimesOut(c) \/ HoldEnds(c) \/ TakeHeld(c)
      PROVE  Sent'
  BY <1>3 DEF Ask, SendFails, StartWaiting, TimesOut, HoldEnds, TakeHeld, wire, Sent
<1>4. ASSUME (\E d \in Dids : Move(d)) \/ (\E r \in replies : Hear(r) \/ HearListener(r)) \/ UNCHANGED vars
      PROVE  Sent'
  BY <1>4 DEF Move, Hear, HearListener, wire, vars, Sent
<1> QED BY <1>1, <1>2, <1>3, <1>4 DEF Next, CallSteps

\* Entries are numbered in the order they were made; what is counted keeps its bounds.
LEMMA MovedStep == Moved /\ [Next]_vars => Moved'
<1> SUFFICES ASSUME Moved, [Next]_vars PROVE Moved'
  OBVIOUS
<1> USE CallsOK
<1>1. UNCHANGED upsets \/ Upset
  BY DEF Next, CallSteps, Ask, Send, SendFails, StartWaiting, TimesOut, HoldEnds, TakeHeld, Move, Answer, Hear,
         HearListener, Acknowledge, vars
<1>2. upsets' \in 0..MaxUpsets
  BY <1>1 DEF Moved, Upset
<1>3. \A es : Forget(es) => order' \in [Calls -> Nat]
  BY DEF Forget, Moved
<1>4. order' \in [Calls -> Nat]
  <2>1. ASSUME NEW c \in Calls, AskNew(c) PROVE order' \in [Calls -> Nat]
    <3>1. Cardinality({d \in Calls : call[d] # "idle"}) \in Nat
      BY FS_Subset, FS_CardinalityType
    <3> QED BY <2>1, <3>1 DEF AskNew, Moved
  <2>2. ASSUME NEW e, NEW r, Settle(e, r) PROVE order' \in [Calls -> Nat]
    BY <1>3, <2>2 DEF Settle, Moved
  <2>3. UNCHANGED order \/ (\E es : Forget(es)) \/ (\E c \in Calls : AskNew(c)) \/ (\E e, r : Settle(e, r))
    BY DEF Next, CallSteps, Ask, AskJoins, AskTakes, Send, SendFails, StartWaiting, TimesOut, HoldEnds, TakeHeld,
           Move, Answer, Hear, HearListener, entries, vars
  <2> QED BY <1>3, <2>1, <2>2, <2>3 DEF Moved
<1>5. using' \in [Calls -> 0..MaxMoves]
  <2>1. UNCHANGED using \/ \E c \in Calls : using' = [using EXCEPT ![c] = moves]
    BY DEF Next, CallSteps, Ask, AskNew, AskJoins, AskTakes, Send, SendFails, StartWaiting, TimesOut, HoldEnds,
           TakeHeld, Move, Answer, Hear, HearListener, vars
  <2> QED BY <2>1 DEF Moved
<1>6. who' \in Dids /\ moves' \in 0..MaxMoves
  <2>1. UNCHANGED <<who, moves>> \/ (moves < MaxMoves /\ who' \in Dids /\ moves' = moves + 1)
    BY DEF Next, CallSteps, Ask, Send, SendFails, StartWaiting, TimesOut, HoldEnds, TakeHeld, Move, Answer, Hear,
           HearListener, session, vars
  <2> QED BY <2>1 DEF Moved
<1> QED BY <1>2, <1>4, <1>5, <1>6 DEF Moved

\* Entries forgotten keep no answer, nor are they held.
LEMMA Forgetting ==
  ASSUME NEW es, Forget(es), kept \in [Calls -> Answers], asks \subseteq Calls, held \subseteq asks
  PROVE  /\ kept' \in [Calls -> Answers] /\ asks' \subseteq asks /\ held' \subseteq asks'
         /\ \A e \in Calls : kept'[e] \in {kept[e], NoReply}
  BY DEF Forget, Answers

-----------------------------------------------------------------------------
(* Answers.  The inductive invariant: a call waits on an entry that is     *)
(* identical to it, and what is kept or given answers that entry.          *)

\* r answers e: it names an identical request, or no thread and e's identity at least.
Good(r, e) == IF r.threaded THEN CallKey[r.entry] = CallKey[e] ELSE r.to = CallDid[e]

AnswerInv ==
  /\ CallTypes
  /\ \A c \in Calls : call[c] \in Sending \cup {"sent", "resent"} => on[c] = c
  /\ \A c \in Calls : call[c] \in {"waiting", "astray", "silent"} => on[c] \in Calls /\ CallKey[on[c]] = CallKey[c]
  /\ \A c \in Calls : kept[c] # NoReply => Good(kept[c], c)
  /\ \A c \in Calls : got[c] # NoReply => Good(got[c], c)

\* What answers a request answers every identical one.
LEMMA GoodForIdentical ==
  ASSUME NEW r, NEW c \in Calls, NEW d \in Calls, CallKey[c] = CallKey[d], Good(r, c)
  PROVE  Good(r, d)
  BY CallsOK DEF Good

\* A fresh phone asked nothing.
LEMMA AnswerInit == Init => AnswerInv
  BY DEF Init, AnswerInv, CallTypes, Progress, Answers, Sending

\* Only how far one call is changes, and entries are at most forgotten.
LEMMA CallMoves ==
  ASSUME AnswerInv, NEW c \in Calls, NEW v \in Progress, call' = [call EXCEPT ![c] = v],
         v \in Sending \cup {"sent", "resent"} => on'[c] = c,
         v \in {"waiting", "astray", "silent"} => on'[c] \in Calls /\ CallKey[on'[c]] = CallKey[c],
         on' \in [Calls -> Calls \cup {NoCall}], \A d \in Calls \ {c} : on'[d] = on[d],
         kept' \in [Calls -> Answers], \A e \in Calls : kept'[e] \in {kept[e], NoReply},
         got' \in [Calls -> Answers], \A d \in Calls \ {c} : got'[d] = got[d],
         got'[c] # NoReply => Good(got'[c], c),
         asks' \subseteq Calls, held' \subseteq asks', replies' \subseteq Reply
  PROVE  AnswerInv'
<1>1. CallTypes'
  BY DEF AnswerInv, CallTypes
<1>2. \A d \in Calls : call'[d] = IF d = c THEN v ELSE call[d]
  BY DEF AnswerInv, CallTypes
<1>3. \A d \in Calls : kept'[d] # NoReply => Good(kept'[d], d)
  BY DEF AnswerInv
<1>4. \A d \in Calls : got'[d] # NoReply => Good(got'[d], d)
  BY DEF AnswerInv
<1>5. ASSUME NEW d \in Calls
      PROVE  /\ call'[d] \in Sending \cup {"sent", "resent"} => on'[d] = d
             /\ call'[d] \in {"waiting", "astray", "silent"} => on'[d] \in Calls /\ CallKey[on'[d]] = CallKey[d]
  BY <1>2 DEF AnswerInv
<1> QED BY <1>1, <1>3, <1>4, <1>5 DEF AnswerInv, Good

\* A call begins: with an entry of its own, with an identical one, or with a late answer.
LEMMA AnswerAsk == ASSUME AnswerInv, NEW c \in Calls, Ask(c) PROVE AnswerInv'
<1>1. UNCHANGED replies /\ CallTypes /\ call[c] = "idle"
  BY DEF Ask, wire, AnswerInv
<1>2. \A e \in Oldest(Identical(c)) : e \in Calls /\ CallKey[e] = CallKey[c]
  BY <1>1 DEF Oldest, Identical, CallTypes
<1>3. CASE AskNew(c)
  <2>1. call' = [call EXCEPT ![c] = "sending"] /\ on' = [on EXCEPT ![c] = c] /\ asks' = asks \cup {c}
        /\ UNCHANGED <<held, kept, got>>
    BY <1>3 DEF AskNew
  <2> QED BY <1>1, <2>1, CallMoves DEF Progress, Sending, CallTypes, AnswerInv
<1>4. CASE AskJoins(c)
  <2>1. PICK e \in Oldest(Identical(c)) : call' = [call EXCEPT ![c] = "waiting"] /\ on' = [on EXCEPT ![c] = e]
                                         /\ held' = held \ {e}
    BY <1>4 DEF AskJoins
  <2>2. UNCHANGED <<asks, kept, got>>
    BY <1>4 DEF AskJoins
  <2> QED BY <1>1, <1>2, <2>1, <2>2, CallMoves DEF Progress, Sending, CallTypes, AnswerInv
<1>5. CASE AskTakes(c)
  <2>1. PICK e \in Oldest(Identical(c)) : kept[e] # NoReply /\ call' = [call EXCEPT ![c] = "answered"]
                                         /\ got' = [got EXCEPT ![c] = kept[e]] /\ Forget({e})
    BY <1>5 DEF AskTakes
  <2>2. UNCHANGED on
    BY <1>5 DEF AskTakes
  <2>3. Good(kept[e], c)
    BY <1>2, <2>1, GoodForIdentical DEF AnswerInv
  <2>4. kept' \in [Calls -> Answers] /\ asks' \subseteq asks /\ held' \subseteq asks'
        /\ \A f \in Calls : kept'[f] \in {kept[f], NoReply}
    BY <1>1, <2>1, Forgetting DEF CallTypes
  <2>5. got' \in [Calls -> Answers] /\ got'[c] = kept[e] /\ \A d \in Calls \ {c} : got'[d] = got[d]
    BY <1>1, <1>2, <2>1 DEF CallTypes
  <2> QED BY <1>1, <2>1, <2>2, <2>3, <2>4, <2>5, CallMoves DEF Progress, Sending, CallTypes, AnswerInv
<1> QED BY <1>3, <1>4, <1>5 DEF Ask

\* A call goes on: it is sent, fails, waits or is given up for now.
LEMMA AnswerCallSteps ==
  ASSUME AnswerInv, NEW c \in Calls, CallSteps(c) \/ TakeHeld(c)
  PROVE  AnswerInv'
<1>1. UNCHANGED <<on, replies>> /\ CallTypes
  BY DEF CallSteps, Send, SendFails, StartWaiting, TimesOut, TakeHeld, wire, AnswerInv
<1>2. CASE Send(c)
  <2>1. \E v \in {"sent", "resent"} : call' = [call EXCEPT ![c] = v]
    BY <1>1, <1>2 DEF Send, CallTypes
  <2>2. UNCHANGED <<asks, held, kept, got>> /\ on[c] = c
    BY <1>2 DEF Send, entries, AnswerInv
  <2> QED BY <1>1, <2>1, <2>2, CallMoves DEF Progress, Sending, CallTypes, AnswerInv
<1>3. CASE SendFails(c)
  <2>1. call' = [call EXCEPT ![c] = "failed"] /\ UNCHANGED got /\ Forget({c})
    BY <1>3 DEF SendFails
  <2>2. kept' \in [Calls -> Answers] /\ asks' \subseteq asks /\ held' \subseteq asks'
        /\ \A f \in Calls : kept'[f] \in {kept[f], NoReply}
    BY <1>1, <2>1, Forgetting DEF CallTypes
  <2> QED BY <1>1, <2>1, <2>2, CallMoves DEF Progress, Sending, CallTypes, AnswerInv
<1>4. CASE StartWaiting(c)
  <2>1. on[c] = c
    BY <1>4 DEF StartWaiting, AnswerInv
  <2>2. CASE kept[c] # NoReply
    <3>1. call' = [call EXCEPT ![c] = "answered"] /\ got' = [got EXCEPT ![c] = kept[c]] /\ Forget({c})
      BY <1>4, <2>2 DEF StartWaiting
    <3>2. kept' \in [Calls -> Answers] /\ asks' \subseteq asks /\ held' \subseteq asks'
          /\ \A f \in Calls : kept'[f] \in {kept[f], NoReply}
      BY <1>1, <3>1, Forgetting DEF CallTypes
    <3>3. got' \in [Calls -> Answers] /\ got'[c] = kept[c] /\ \A d \in Calls \ {c} : got'[d] = got[d]
      BY <1>1, <3>1 DEF CallTypes
    <3> QED BY <1>1, <2>2, <3>1, <3>2, <3>3, CallMoves DEF Progress, Sending, CallTypes, AnswerInv
  <2>3. CASE kept[c] = NoReply
    <3> DEFINE v == IF c \in asks THEN "waiting" ELSE "astray"
    <3>1. call' = [call EXCEPT ![c] = v] /\ held' = held \ {c} /\ UNCHANGED <<asks, kept, got>>
      BY <1>4, <2>3 DEF StartWaiting
    <3>2. v \in {"waiting", "astray"}
      OBVIOUS
    <3> HIDE DEF v
    <3> QED BY <1>1, <2>1, <3>1, <3>2, CallMoves DEF Progress, Sending, CallTypes, AnswerInv
  <2> QED BY <2>2, <2>3
<1>5. CASE TimesOut(c)
  <2> DEFINE v == IF on[c] = c /\ c \in ByTsp /\ [entry |-> c, again |-> TRUE] \notin requests
                  THEN "resending" ELSE "silent"
  <2>1. call' = [call EXCEPT ![c] = v] /\ held' \subseteq asks /\ UNCHANGED <<asks, kept, got>>
    BY <1>1, <1>5 DEF TimesOut, CallTypes
  <2>2. on[c] \in Calls /\ CallKey[on[c]] = CallKey[c]
    BY <1>5 DEF TimesOut, AnswerInv
  <2>3. v \in {"resending", "silent"} /\ (v = "resending" => on[c] = c)
    OBVIOUS
  <2> HIDE DEF v
  <2> QED BY <1>1, <2>1, <2>2, <2>3, CallMoves DEF Progress, Sending, CallTypes, AnswerInv
<1>6. CASE TakeHeld(c)
  <2>1. call' = [call EXCEPT ![c] = "answered"] /\ got' = [got EXCEPT ![c] = kept[on[c]]] /\ Forget({on[c]})
        /\ on[c] \in asks /\ kept[on[c]] # NoReply /\ call[c] = "silent"
    BY <1>6 DEF TakeHeld
  <2>2. Good(kept[on[c]], c)
    BY <2>1, GoodForIdentical DEF AnswerInv
  <2>3. kept' \in [Calls -> Answers] /\ asks' \subseteq asks /\ held' \subseteq asks'
        /\ \A f \in Calls : kept'[f] \in {kept[f], NoReply}
    BY <1>1, <2>1, Forgetting DEF CallTypes
  <2>4. got' \in [Calls -> Answers] /\ got'[c] = kept[on[c]] /\ \A d \in Calls \ {c} : got'[d] = got[d]
    BY <1>1, <2>1 DEF CallTypes
  <2> QED BY <1>1, <2>1, <2>2, <2>3, <2>4, CallMoves DEF Progress, Sending, CallTypes, AnswerInv
<1> QED BY <1>2, <1>3, <1>4, <1>5, <1>6 DEF CallSteps

\* Entries are forgotten: nothing is kept that was not.
LEMMA AnswerForgets ==
  ASSUME AnswerInv, NEW es, Forget(es), UNCHANGED <<call, on, got, replies>>
  PROVE  AnswerInv'
<1>1. kept' \in [Calls -> Answers] /\ asks' \subseteq asks /\ held' \subseteq asks'
      /\ \A f \in Calls : kept'[f] \in {kept[f], NoReply}
  BY Forgetting DEF AnswerInv, CallTypes
<1>2. CallTypes'
  BY <1>1 DEF AnswerInv, CallTypes
<1>3. \A d \in Calls : kept'[d] # NoReply => Good(kept'[d], d)
  BY <1>1 DEF AnswerInv
<1>4. \A d \in Calls : got'[d] # NoReply => Good(got'[d], d)
  BY DEF AnswerInv
<1>5. ASSUME NEW d \in Calls
      PROVE  /\ call'[d] \in Sending \cup {"sent", "resent"} => on'[d] = d
             /\ call'[d] \in {"waiting", "astray", "silent"} => on'[d] \in Calls /\ CallKey[on'[d]] = CallKey[d]
  BY DEF AnswerInv
<1> QED BY <1>2, <1>3, <1>4, <1>5 DEF AnswerInv, Good

\* An answer that is good for an entry is good for everyone who waits on it.
LEMMA AnswerSettles ==
  ASSUME AnswerInv, NEW e \in asks, NEW r \in Reply, Good(r, e), Settle(e, r),
         UNCHANGED on, replies' \subseteq Reply
  PROVE  AnswerInv'
<1>1. CallTypes /\ e \in Calls
  BY DEF AnswerInv, CallTypes
<1>2. \A c \in Waiters(e) : c \in Calls /\ Good(r, c)
  BY <1>1, GoodForIdentical DEF Waiters, AnswerInv
<1>3. CASE Waiters(e) # {}
  <2>1. /\ call' = [c \in Calls |-> IF c \in Waiters(e) THEN "answered" ELSE call[c]]
        /\ got' = [c \in Calls |-> IF c \in Waiters(e) THEN r ELSE got[c]]
        /\ Forget({e})
    BY <1>3 DEF Settle
  <2>2. kept' \in [Calls -> Answers] /\ asks' \subseteq asks /\ held' \subseteq asks'
        /\ \A f \in Calls : kept'[f] \in {kept[f], NoReply}
    BY <1>1, <2>1, Forgetting DEF CallTypes
  <2>3. CallTypes'
    BY <1>1, <2>1, <2>2 DEF CallTypes, Answers, Progress, Waiters
  <2>4. \A d \in Calls : kept'[d] # NoReply => Good(kept'[d], d)
    BY <2>2 DEF AnswerInv
  <2>5. \A d \in Calls : got'[d] # NoReply => Good(got'[d], d)
    BY <1>2, <2>1 DEF AnswerInv
  <2>6. ASSUME NEW d \in Calls
        PROVE  /\ call'[d] \in Sending \cup {"sent", "resent"} => on'[d] = d
               /\ call'[d] \in {"waiting", "astray", "silent"} => on'[d] \in Calls /\ CallKey[on'[d]] = CallKey[d]
    BY <2>1 DEF AnswerInv, Sending
  <2> QED BY <2>3, <2>4, <2>5, <2>6 DEF AnswerInv, Good
<1>4. CASE Waiters(e) = {}
  <2>1. kept' = [kept EXCEPT ![e] = r] /\ UNCHANGED <<call, got, asks, held>>
    BY <1>4 DEF Settle
  <2>2. CallTypes'
    BY <1>1, <2>1 DEF CallTypes, Answers
  <2>3. \A d \in Calls : kept'[d] # NoReply => Good(kept'[d], d)
    BY <1>1, <2>1 DEF AnswerInv, CallTypes
  <2>4. \A d \in Calls : got'[d] # NoReply => Good(got'[d], d)
    BY <2>1 DEF AnswerInv
  <2>5. ASSUME NEW d \in Calls
        PROVE  /\ call'[d] \in Sending \cup {"sent", "resent"} => on'[d] = d
               /\ call'[d] \in {"waiting", "astray", "silent"} => on'[d] \in Calls /\ CallKey[on'[d]] = CallKey[d]
    BY <2>1 DEF AnswerInv
  <2> QED BY <2>2, <2>3, <2>4, <2>5 DEF AnswerInv, Good
<1> QED BY <1>3, <1>4

\* An answer is heard by the session or by a listener.
LEMMA AnswerHeard == ASSUME AnswerInv, NEW r \in replies, Hear(r) \/ HearListener(r) PROVE AnswerInv'
<1>1. r \in Reply /\ UNCHANGED on
  BY DEF AnswerInv, CallTypes, Hear, HearListener
<1>2. replies' \subseteq Reply
  BY DEF AnswerInv, CallTypes, Hear, HearListener, Acknowledge
<1>3. CASE UNCHANGED <<call, got, entries>>
  BY <1>1, <1>2, <1>3 DEF AnswerInv, CallTypes, entries, Good
<1>4. ASSUME NEW e \in Match(r), Settle(e, r), r.threaded \/ who = r.to PROVE AnswerInv'
  <2>1. e \in asks /\ Good(r, e)
    <3>1. CASE r.threaded
      BY <3>1 DEF Match, Good
    <3>2. CASE ~r.threaded
      BY <1>4, <3>2 DEF Match, Good, Oldest, Candidates, Waited
    <3> QED BY <3>1, <3>2
  <2> QED BY <1>1, <1>2, <1>4, <2>1, AnswerSettles
<1> QED BY <1>3, <1>4 DEF Hear, HearListener

\* Every step keeps answers with their requests.
LEMMA AnswerStep == AnswerInv /\ Sent /\ [Next]_vars => AnswerInv'
<1> SUFFICES ASSUME AnswerInv, Sent, [Next]_vars PROVE AnswerInv'
  OBVIOUS
<1>1. ASSUME NEW c \in Calls, HoldEnds(c) PROVE AnswerInv'
  BY <1>1, AnswerForgets DEF HoldEnds, wire
<1>2. ASSUME NEW d \in Dids, Move(d) PROVE AnswerInv'
  BY <1>2, AnswerForgets DEF Move, wire
<1>3. ASSUME NEW m \in requests, Answer(m) PROVE AnswerInv'
  <2>1. UNCHANGED <<call, on, got, entries>> /\ replies' \subseteq Reply
    BY <1>3, CallsOK DEF Answer, AnswerInv, CallTypes, Reply, Sent
  <2> QED BY <2>1 DEF AnswerInv, CallTypes, entries, Good
<1>4. CASE UNCHANGED vars
  BY <1>4 DEF vars, entries, wire, AnswerInv, CallTypes, Good
<1> QED BY <1>1, <1>2, <1>3, <1>4, AnswerAsk, AnswerCallSteps, AnswerHeard DEF Next

\* In every behaviour both hold.
LEMMA AlwaysAnswers == Spec => [](AnswerInv /\ Sent)
<1>1. Init => Sent
  BY DEF Init, Sent
<1> QED BY <1>1, AnswerInit, AnswerStep, SentStep, PTL DEF Spec

\* Every reachable state has the shape of the source's entries, calls and answers.
THEOREM TypeCorrect == Spec => []TypeOK
<1>1. Init => Moved
  BY CallsOK DEF Init, Moved
<1>2. AnswerInv /\ Sent /\ Moved => TypeOK
  BY DEF AnswerInv, CallTypes, Sent, Moved, Progress, Answers, TypeOK
<1> QED BY <1>1, <1>2, AlwaysAnswers, MovedStep, PTL DEF Spec

\* A call is given the answer to its own request, or to the identical one it joined, whoever
\* hears it, however late, and wherever the session moved meanwhile (askAnswered, settle).
THEOREM EachItsOwnAnswer == Spec => []AnswersItsOwn
<1>1. AnswerInv => AnswersItsOwn
  BY DEF AnswerInv, Good, AnswersItsOwn
<1> QED BY <1>1, AlwaysAnswers, PTL

-----------------------------------------------------------------------------
(* Writes.                                                                 *)

\* Identical writes have one entry; a write has no request before it is sent, and is never
\* sent again over the other carriage.
WriteInv ==
  /\ \A e, f \in asks \cap Writes : CallKey[e] = CallKey[f] => e = f
  /\ \A c \in Writes : call[c] # "resending"
  /\ \A c \in Writes : call[c] \in {"idle", "sending"} => \A m \in requests : m.entry # c

\* A write makes an entry only when no identical one is out.
LEMMA WriteStep == CallTypes /\ Sent /\ WriteInv /\ [Next]_vars => WriteInv'
<1> SUFFICES ASSUME CallTypes, Sent, WriteInv, [Next]_vars PROVE WriteInv'
  OBVIOUS
<1> USE CallsOK
<1>1. ASSUME asks' \subseteq asks, UNCHANGED requests,
             \A c \in Writes : call'[c] \notin {"resending", "idle", "sending"} \/ call'[c] = call[c]
      PROVE  WriteInv'
  BY <1>1 DEF WriteInv
<1>2. ASSUME NEW c \in Calls, AskNew(c), UNCHANGED requests, call[c] = "idle" PROVE WriteInv'
  <2>1. asks' = asks \cup {c} /\ call' = [call EXCEPT ![c] = "sending"]
    BY <1>2 DEF AskNew
  <2>2. c \in Writes => \A e \in asks : CallKey[e] # CallKey[c]
    BY <1>2 DEF AskNew, Identical
  <2> QED BY <1>2, <2>1, <2>2 DEF WriteInv, CallTypes
<1>3. ASSUME NEW c \in Calls, Send(c) PROVE WriteInv'
  <2>1. /\ requests' = requests \cup {[entry |-> c, again |-> call[c] = "resending"]}
        /\ \E v \in {"sent", "resent"} : call' = [call EXCEPT ![c] = v]
        /\ UNCHANGED asks
    BY <1>3 DEF Send, CallTypes, entries
  <2> QED BY <2>1 DEF WriteInv, CallTypes
<1>4. \A es : Forget(es) => asks' \subseteq asks
  BY DEF Forget
<1>5. ASSUME NEW c \in Calls, AskJoins(c) \/ AskTakes(c), UNCHANGED requests PROVE WriteInv'
  <2>1. call' = [call EXCEPT ![c] = "waiting"] \/ call' = [call EXCEPT ![c] = "answered"]
    BY <1>5 DEF AskJoins, AskTakes
  <2>2. asks' \subseteq asks
    BY <1>4, <1>5 DEF AskJoins, AskTakes
  <2> QED BY <1>1, <1>5, <2>1, <2>2 DEF CallTypes
<1>6. ASSUME NEW c \in Calls, SendFails(c) \/ StartWaiting(c) \/ TakeHeld(c) PROVE WriteInv'
  <2>1. \E v \in {"failed", "answered", "waiting", "astray"} : call' = [call EXCEPT ![c] = v]
    BY <1>6 DEF SendFails, StartWaiting, TakeHeld
  <2>2. asks' \subseteq asks /\ UNCHANGED requests
    BY <1>4, <1>6 DEF SendFails, StartWaiting, TakeHeld, wire
  <2> QED BY <1>1, <2>1, <2>2 DEF CallTypes
<1>7. ASSUME NEW c \in Calls, TimesOut(c) PROVE WriteInv'
  <2>1. call' = [call EXCEPT ![c] = "silent"] \/ (c \notin Writes /\ call' = [call EXCEPT ![c] = "resending"])
    BY <1>7 DEF TimesOut
  <2>2. UNCHANGED <<asks, requests>>
    BY <1>7 DEF TimesOut, wire
  <2> QED BY <1>1, <2>1, <2>2 DEF CallTypes
<1>8. ASSUME NEW e, NEW r, Settle(e, r), UNCHANGED requests PROVE WriteInv'
  <2>1. asks' \subseteq asks
    BY <1>4, <1>8 DEF Settle
  <2>2. UNCHANGED call \/ call' = [c \in Calls |-> IF c \in Waiters(e) THEN "answered" ELSE call[c]]
    BY <1>8 DEF Settle
  <2> QED BY <1>1, <1>8, <2>1, <2>2
<1>9. ASSUME NEW r \in replies, Hear(r) \/ HearListener(r) PROVE WriteInv'
  <2>1. UNCHANGED requests /\ (UNCHANGED <<call, asks>> \/ \E e : Settle(e, r))
    BY <1>9 DEF Hear, HearListener, entries
  <2> QED BY <1>1, <1>8, <2>1
<1>10. ASSUME (\E c \in Calls : HoldEnds(c)) \/ (\E d \in Dids : Move(d)) \/ (\E m \in requests : Answer(m)) \/ UNCHANGED vars
       PROVE  WriteInv'
  <2>1. UNCHANGED <<call, requests>> /\ asks' \subseteq asks
    BY <1>4, <1>10 DEF HoldEnds, Move, Answer, wire, entries, vars
  <2> QED BY <1>1, <2>1
<1> QED BY <1>2, <1>3, <1>5, <1>6, <1>7, <1>9, <1>10 DEF Next, CallSteps, Ask, wire

\* "Never sent twice": a write goes out while no identical one is out (ask, sendAsk).
THEOREM WritesAreOutOnce == Spec => WriteIsOutOnce
<1>1. Init => WriteInv
  BY CallsOK DEF Init, WriteInv
<1>2. ASSUME CallTypes, Sent, WriteInv, [Next]_vars, NEW c \in Writes \cap asks, NEW n \in requests' \ requests,
             n.entry = c, NEW m \in requests, m.entry \in Identical(c)
      PROVE  FALSE
  <2>1. PICK b \in Calls : Send(b)
    BY <1>2 DEF Next, CallSteps, Ask, SendFails, StartWaiting, TimesOut, HoldEnds, TakeHeld, Move, Answer, Hear,
                HearListener, wire, vars
  <2>2. b = c
    BY <1>2, <2>1 DEF Send
  <2>3. call[c] = "sending"
    BY <1>2, <2>1, <2>2 DEF Send, Sending, WriteInv
  <2>4. m.entry \in asks \cap Writes /\ CallKey[m.entry] = CallKey[c]
    BY <1>2, CallsOK DEF Identical, CallTypes
  <2> QED BY <1>2, <2>3, <2>4 DEF WriteInv
<1>3. AnswerInv /\ Sent /\ WriteInv /\ [Next]_vars =>
        (\A c \in Writes \cap asks : (\E m \in requests' \ requests : m.entry = c) =>
           \A m \in requests : m.entry \in Identical(c) => m.entry = c /\ m \in answered)
  BY <1>2 DEF AnswerInv
<1>4. AnswerInv /\ Sent /\ WriteInv /\ [Next]_vars => WriteInv'
  BY WriteStep DEF AnswerInv
<1> QED BY <1>1, <1>3, <1>4, AlwaysAnswers, PTL DEF Spec, WriteIsOutOnce

-----------------------------------------------------------------------------
(* Answers that leave the mediator.                                        *)

\* A call that waits does so on an ask without an answer that is still there, or that was
\* never sent: identical writes wait on one that failed to go out. Only writes join.
WaitInv ==
  \A c \in Calls : call[c] = "waiting" =>
    /\ kept[on[c]] = NoReply
    /\ on[c] # c => c \in Writes
    /\ on[c] \in asks \/ (call[on[c]] = "failed" /\ \A m \in requests : m.entry # on[c])

\* What the community answers was sent.
Asked == \A r \in replies : \E m \in requests : m.entry = r.entry

\* Requests are never forgotten, and answers answer them.
LEMMA AskedStep == Asked /\ [Next]_vars => Asked'
<1> SUFFICES ASSUME Asked, [Next]_vars PROVE Asked'
  OBVIOUS
<1>1. requests \subseteq requests'
  BY DEF Next, CallSteps, Ask, Send, SendFails, StartWaiting, TimesOut, HoldEnds, TakeHeld, Move, Answer, Hear,
         HearListener, wire, vars
<1>2. ASSUME NEW m \in requests, Answer(m) PROVE Asked'
  <2>1. \A r \in replies' : r \in replies \/ r.entry = m.entry
    BY <1>2 DEF Answer
  <2> QED BY <1>1, <2>1 DEF Asked
<1>3. replies' \subseteq replies \/ \E m \in requests : Answer(m)
  BY DEF Next, CallSteps, Ask, Send, SendFails, StartWaiting, TimesOut, HoldEnds, TakeHeld, Move, Hear,
         HearListener, Acknowledge, wire, vars
<1> QED BY <1>1, <1>2, <1>3 DEF Asked

\* Those that go on waiting are as they were, and so is what they wait on.
LEMMA WaitingGoesOn ==
  ASSUME WaitInv, UNCHANGED requests,
         \A c \in Calls : call'[c] = "waiting" => /\ call[c] = "waiting" /\ on'[c] = on[c] /\ kept'[on[c]] = kept[on[c]]
                                                  /\ on[c] \in asks => on[c] \in asks',
         \A e : call[e] = "failed" => call'[e] = "failed"
  PROVE  WaitInv'
  BY DEF WaitInv

\* An ask that is forgotten once its late answer was taken has nobody waiting on it.
LEMMA TakenWaits ==
  ASSUME WaitInv, CallTypes, UNCHANGED requests, NEW c \in Calls, call[c] # "failed", call' = [call EXCEPT ![c] = "answered"],
         NEW e, kept[e] # NoReply, Forget({e}), UNCHANGED on
  PROVE  WaitInv'
<1>1. \A d \in Calls : call'[d] = "waiting" => call[d] = "waiting" /\ on[d] # e
  BY DEF WaitInv, CallTypes
<1>2. \A d : call[d] = "failed" => call'[d] = "failed"
  BY DEF CallTypes
<1>3. UNCHANGED kept /\ asks' = asks \ {e}
  BY DEF Forget
<1> QED BY <1>1, <1>2, <1>3, WaitingGoesOn

\* A call begins, and may join a write that is out.
LEMMA WaitAsk == ASSUME AnswerInv, WaitInv, NEW c \in Calls, Ask(c) PROVE WaitInv'
<1>1. CallTypes /\ UNCHANGED requests /\ call[c] = "idle"
  BY DEF Ask, wire, AnswerInv
<1>2. CASE AskNew(c)
  <2>1. /\ call' = [call EXCEPT ![c] = "sending"] /\ on' = [on EXCEPT ![c] = c]
        /\ asks \subseteq asks' /\ UNCHANGED kept
    BY <1>2 DEF AskNew
  <2>2. \A d \in Calls : call'[d] = "waiting" => call[d] = "waiting" /\ on'[d] = on[d]
    BY <1>1, <2>1 DEF CallTypes
  <2>3. \A d : call[d] = "failed" => call'[d] = "failed"
    BY <1>1, <2>1 DEF CallTypes
  <2> QED BY <1>1, <2>1, <2>2, <2>3, WaitingGoesOn
<1>3. CASE AskJoins(c)
  <2>1. PICK e \in Oldest(Identical(c)) : kept[e] = NoReply /\ call' = [call EXCEPT ![c] = "waiting"]
                                         /\ on' = [on EXCEPT ![c] = e]
    BY <1>3 DEF AskJoins
  <2>2. c \in Writes /\ UNCHANGED <<asks, kept>>
    BY <1>3 DEF AskJoins
  <2>3. e \in asks
    BY DEF Oldest, Identical
  <2>4. call'[c] = "waiting" /\ on'[c] = e
    BY <1>1, <2>1 DEF CallTypes
  <2>5. \A d \in Calls \ {c} : call'[d] = call[d] /\ on'[d] = on[d]
    BY <1>1, <2>1 DEF CallTypes
  <2>6. \A d : call[d] = "failed" => call'[d] = "failed"
    BY <1>1, <2>1 DEF CallTypes
  <2> QED BY <1>1, <2>1, <2>2, <2>3, <2>4, <2>5, <2>6 DEF WaitInv
<1>4. CASE AskTakes(c)
  <2>1. PICK e \in Oldest(Identical(c)) : kept[e] # NoReply /\ call' = [call EXCEPT ![c] = "answered"] /\ Forget({e})
    BY <1>4 DEF AskTakes
  <2> QED BY <1>1, <1>4, <2>1, TakenWaits DEF AskTakes
<1> QED BY <1>2, <1>3, <1>4 DEF Ask

\* A call goes on. A send that fails leaves those who joined it waiting on what never went out.
LEMMA WaitCallSteps ==
  ASSUME AnswerInv, WriteInv, WaitInv, NEW c \in Calls, CallSteps(c) \/ TakeHeld(c)
  PROVE  WaitInv'
<1>1. CallTypes /\ UNCHANGED on
  BY DEF CallSteps, Send, SendFails, StartWaiting, TimesOut, TakeHeld, AnswerInv
<1>2. CASE Send(c)
  <2>1. /\ requests' = requests \cup {[entry |-> c, again |-> call[c] = "resending"]} /\ UNCHANGED <<asks, kept>>
        /\ \E v \in {"sent", "resent"} : call' = [call EXCEPT ![c] = v]
        /\ call[c] # "failed"
    BY <1>2 DEF Send, entries, Sending
  <2>2. \A d \in Calls : call'[d] = "waiting" => call[d] = "waiting"
    BY <1>1, <2>1 DEF CallTypes
  <2>3. \A d : call[d] = "failed" => call'[d] = "failed" /\ d # c
    BY <1>1, <2>1 DEF CallTypes
  <2>4. \A m \in requests' : m \in requests \/ m.entry = c
    BY <2>1
  <2> QED BY <1>1, <2>1, <2>2, <2>3, <2>4 DEF WaitInv
<1>3. CASE SendFails(c)
  <2>1. /\ call' = [call EXCEPT ![c] = "failed"] /\ call[c] \in Sending
        /\ UNCHANGED <<requests, kept>> /\ asks' = asks \ {c}
    BY <1>3 DEF SendFails, Forget, wire
  <2>2. ASSUME NEW d \in Calls, call'[d] = "waiting"
        PROVE  /\ kept'[on'[d]] = NoReply /\ (on'[d] # d => d \in Writes)
               /\ on'[d] \in asks' \/ (call'[on'[d]] = "failed" /\ \A m \in requests' : m.entry # on'[d])
    <3>1. call[d] = "waiting" /\ d # c
      BY <1>1, <2>1, <2>2 DEF CallTypes
    <3>2. /\ kept[on[d]] = NoReply /\ (on[d] # d => d \in Writes)
          /\ on[d] \in asks \/ (call[on[d]] = "failed" /\ \A m \in requests : m.entry # on[d])
      BY <3>1 DEF WaitInv
    <3>3. CASE on[d] # c
      <4>1. call[on[d]] = "failed" => call'[on[d]] = "failed"
        BY <1>1, <2>1, <3>3 DEF CallTypes
      <4> QED BY <1>1, <2>1, <3>2, <3>3, <4>1
    <3>4. CASE on[d] = c
      <4>1. c \in Writes
        BY <3>1, <3>2, <3>4, CallsOK DEF AnswerInv
      <4>2. \A m \in requests : m.entry # c
        BY <2>1, <4>1 DEF WriteInv, Sending
      <4>3. call'[c] = "failed"
        BY <1>1, <2>1 DEF CallTypes
      <4> QED BY <1>1, <2>1, <3>2, <3>4, <4>2, <4>3
    <3> QED BY <3>3, <3>4
  <2> QED BY <2>2 DEF WaitInv
<1>4. CASE StartWaiting(c)
  <2>1. call[c] \in {"sent", "resent"} /\ UNCHANGED requests /\ on[c] = c
    BY <1>4 DEF StartWaiting, wire, AnswerInv
  <2>2. CASE kept[c] # NoReply
    <3>1. call' = [call EXCEPT ![c] = "answered"] /\ Forget({c})
      BY <1>4, <2>2 DEF StartWaiting
    <3> QED BY <1>1, <2>1, <2>2, <3>1, TakenWaits
  <2>3. CASE kept[c] = NoReply
    <3>1. /\ call' = [call EXCEPT ![c] = IF c \in asks THEN "waiting" ELSE "astray"] /\ UNCHANGED <<asks, kept>>
      BY <1>4, <2>3 DEF StartWaiting
    <3>2. call'[c] = "waiting" => c \in asks
      BY <1>1, <3>1 DEF CallTypes
    <3>3. \A d \in Calls \ {c} : call'[d] = call[d]
      BY <1>1, <3>1 DEF CallTypes
    <3>4. \A d : call[d] = "failed" => call'[d] = "failed"
      BY <1>1, <2>1, <3>1 DEF CallTypes
    <3> QED BY <1>1, <2>1, <2>3, <3>1, <3>2, <3>3, <3>4 DEF WaitInv
  <2> QED BY <2>2, <2>3
<1>5. CASE TimesOut(c)
  <2>1. UNCHANGED <<requests, asks, kept>> /\ call[c] \in {"waiting", "astray"}
        /\ \E v \in {"resending", "silent"} : call' = [call EXCEPT ![c] = v]
    BY <1>5 DEF TimesOut, wire
  <2>2. \A d \in Calls : call'[d] = "waiting" => call[d] = "waiting"
    BY <1>1, <2>1 DEF CallTypes
  <2>3. \A d : call[d] = "failed" => call'[d] = "failed"
    BY <1>1, <2>1 DEF CallTypes
  <2> QED BY <1>1, <2>1, <2>2, <2>3, WaitingGoesOn
<1>6. CASE TakeHeld(c)
  <2>1. /\ call[c] = "silent" /\ call' = [call EXCEPT ![c] = "answered"] /\ kept[on[c]] # NoReply
        /\ Forget({on[c]}) /\ UNCHANGED requests
    BY <1>6 DEF TakeHeld, wire
  <2> QED BY <1>1, <2>1, TakenWaits
<1> QED BY <1>2, <1>3, <1>4, <1>5, <1>6 DEF CallSteps

\* A move and the end of a hold forget only what nobody waits on.
LEMMA WaitForgets ==
  ASSUME WaitInv, NEW es, \A e \in es : Waiters(e) = {}, Forget(es), UNCHANGED <<call, on, requests>>
  PROVE  WaitInv'
<1>1. \A c \in Calls : call[c] = "waiting" => c \in Waiters(on[c])
  BY DEF Waiters
<1>2. UNCHANGED kept /\ asks' = asks \ es
  BY DEF Forget
<1>3. \A c \in Calls : call[c] = "waiting" => on[c] \notin es
  BY <1>1
<1> QED BY <1>2, <1>3, WaitingGoesOn

\* An answer is given to everyone who waits on its ask, or kept where nobody does.
LEMMA WaitSettles ==
  ASSUME AnswerInv, WaitInv, NEW e \in asks, NEW r, Settle(e, r), UNCHANGED <<on, requests>>
  PROVE  WaitInv'
<1>0. CallTypes
  BY DEF AnswerInv
<1>1. CASE Waiters(e) # {}
  <2>1. call' = [c \in Calls |-> IF c \in Waiters(e) THEN "answered" ELSE call[c]] /\ UNCHANGED kept /\ asks' = asks \ {e}
    BY <1>1 DEF Settle, Forget
  <2>2. \A c \in Calls : call'[c] = "waiting" => call[c] = "waiting" /\ on[c] # e
    BY <2>1 DEF Waiters
  <2>3. \A c \in Calls : call[c] = "failed" => call'[c] = "failed"
    BY <2>1 DEF Waiters
  <2>4. ASSUME NEW c \in Calls, call'[c] = "waiting"
        PROVE  /\ kept'[on'[c]] = NoReply /\ (on'[c] # c => c \in Writes)
               /\ on'[c] \in asks' \/ (call'[on'[c]] = "failed" /\ \A m \in requests' : m.entry # on'[c])
    <3>1. call[c] = "waiting" /\ on[c] # e /\ on[c] \in Calls
      BY <2>2, <2>4 DEF AnswerInv
    <3>2. /\ kept[on[c]] = NoReply /\ (on[c] # c => c \in Writes)
          /\ on[c] \in asks \/ (call[on[c]] = "failed" /\ \A m \in requests : m.entry # on[c])
      BY <3>1 DEF WaitInv
    <3>3. CASE on[c] \in asks
      BY <2>1, <3>1, <3>2, <3>3
    <3>4. CASE on[c] \in Calls /\ on[c] \notin asks
      BY <2>1, <2>3, <3>1, <3>2, <3>4
    <3> QED BY <3>1, <3>3, <3>4
  <2> QED BY <2>4 DEF WaitInv
<1>2. CASE Waiters(e) = {}
  <2>1. kept' = [kept EXCEPT ![e] = r] /\ UNCHANGED <<call, asks>>
    BY <1>2 DEF Settle
  <2>2. \A c \in Calls : call[c] = "waiting" => on[c] # e
    BY <1>2 DEF Waiters
  <2>3. \A c \in Calls : call[c] = "waiting" => kept'[on[c]] = kept[on[c]]
    BY <1>0, <2>1, <2>2 DEF CallTypes
  <2> QED BY <2>1, <2>3, WaitingGoesOn
<1> QED BY <1>1, <1>2

\* Every step keeps those who wait on an ask that is there.
LEMMA WaitStep == AnswerInv /\ WriteInv /\ WaitInv /\ [Next]_vars => WaitInv'
<1> SUFFICES ASSUME AnswerInv, WriteInv, WaitInv, [Next]_vars PROVE WaitInv'
  OBVIOUS
<1>1. ASSUME NEW c \in Calls, HoldEnds(c) PROVE WaitInv'
  BY <1>1, WaitForgets DEF HoldEnds, wire
<1>2. ASSUME NEW d \in Dids, Move(d) PROVE WaitInv'
  <2>1. Forget({e \in asks : Waiters(e) = {}}) /\ UNCHANGED <<call, on, requests>>
    BY <1>2 DEF Move, wire
  <2> QED BY <2>1, WaitForgets
<1>3. ASSUME UNCHANGED <<call, on, kept, asks, requests>> PROVE WaitInv'
  BY <1>3 DEF WaitInv
<1>4. ASSUME NEW m \in requests, Answer(m) PROVE WaitInv'
  BY <1>3, <1>4 DEF Answer, entries
<1>5. ASSUME NEW r \in replies, Hear(r) \/ HearListener(r) PROVE WaitInv'
  <2>1. UNCHANGED <<on, requests>> /\ (UNCHANGED <<call, kept, asks>> \/ \E e \in Match(r) : Settle(e, r))
    BY <1>5 DEF Hear, HearListener, entries
  <2>2. Match(r) \subseteq asks
    BY DEF Match, Oldest, Waited, Candidates
  <2> QED BY <1>3, <2>1, <2>2, WaitSettles
<1>6. CASE UNCHANGED vars
  BY <1>3, <1>6 DEF vars, entries, wire
<1> QED BY <1>1, <1>2, <1>4, <1>5, <1>6, WaitAsk, WaitCallSteps DEF Next

\* Everyone who waits is given the answer; with nobody waiting it is kept.
LEMMA SettleGives ==
  ASSUME CallTypes, NEW e \in asks, NEW r, Settle(e, r)
  PROVE  /\ \A c \in Waiters(e) : got'[c] = r
         /\ kept'[e] = r \/ \E c \in Calls : got'[c] = r
  BY DEF Settle, Waiters, CallTypes

\* An answer leaves the mediator only in the step in which it is heard.
LEMMA LeavesHeard ==
  ASSUME CallTypes, Sent, [Next]_vars, NEW r \in replies \ replies'
  PROVE  Hear(r) \/ HearListener(r)
<1>1. \E q \in replies : Hear(q) \/ HearListener(q)
  BY DEF Next, CallSteps, Ask, Send, SendFails, StartWaiting, TimesOut, HoldEnds, TakeHeld, Move, Answer, wire, vars
<1>2. PICK q \in replies : Hear(q) \/ HearListener(q)
  BY <1>1
<1>3. replies' = replies \/ replies' = replies \ {q}
  BY <1>2 DEF Hear, HearListener, Acknowledge
<1>4. q = r
  BY <1>3
<1> QED BY <1>2, <1>4

\* An answer that leaves the mediator is given to everyone who waits for it, however often the
\* session moved since they began to, and one to a write that a listener heard is given or kept
\* (disconnect, settle, answerFromListener).
THEOREM NoneIsLost == Spec => NoAnswerLost
<1>1. ASSUME CallTypes, Sent, WaitInv, Asked, [Next]_vars, NEW r \in replies \ replies'
      PROVE  /\ r.threaded => \A c \in Waiters(r.entry) : got'[c] = r
             /\ who # r.to /\ r.entry \in Writes =>
                  kept'[r.entry] = r \/ \E c \in Calls : got'[c] = r
  <2>1. Hear(r) \/ HearListener(r)
    BY <1>1, LeavesHeard
  <2>2. r.threaded => Match(r) = {r.entry} \cap asks
    BY DEF Match
  <2>3. \A e \in Match(r) : r.threaded => e = r.entry /\ e \in asks
    BY <2>2
  <2>4. CASE Match(r) = {}
    <3>1. r.threaded => r.entry \notin asks
      BY <2>2, <2>4
    <3>2. r.entry \notin asks => Waiters(r.entry) = {}
      BY <1>1 DEF WaitInv, Asked, Waiters
    <3>3. ~(who # r.to /\ r.entry \in Writes)
      BY <2>1, <2>4 DEF Hear, HearListener
    <3> QED BY <3>1, <3>2, <3>3
  <2>5. CASE Match(r) # {}
    <3>1. PICK e \in Match(r) : Settle(e, r)
      BY <2>1, <2>5 DEF Hear, HearListener
    <3>2. CASE r.threaded
      BY <1>1, <2>3, <3>1, <3>2, SettleGives
    <3>3. CASE ~r.threaded
      BY <2>1, <3>3 DEF Hear, HearListener
    <3> QED BY <3>2, <3>3
  <2> QED BY <2>4, <2>5
<1>2. AnswerInv /\ Sent /\ WaitInv /\ Asked /\ [Next]_vars =>
        (\A r \in replies \ replies' :
           /\ r.threaded => \A c \in Waiters(r.entry) : got'[c] = r
           /\ who # r.to /\ r.entry \in Writes =>
                kept'[r.entry] = r \/ \E c \in Calls : got'[c] = r)
  BY <1>1 DEF AnswerInv
<1>3. Init => WriteInv /\ WaitInv /\ Asked
  BY CallsOK DEF Init, WriteInv, WaitInv, Asked
<1>4. AnswerInv /\ Sent /\ WriteInv /\ [Next]_vars => WriteInv'
  BY WriteStep DEF AnswerInv
<1> QED BY <1>2, <1>3, <1>4, AlwaysAnswers, AskedStep, WaitStep, PTL DEF Spec, NoAnswerLost
=============================================================================
