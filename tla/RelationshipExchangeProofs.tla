---------------------- MODULE RelationshipExchangeProofs ----------------------
(* Theorems about RelationshipExchange, for any number of exchanges. *)
EXTENDS RelationshipExchange, SequenceTheorems, WellFoundedInduction, TLAPS

-----------------------------------------------------------------------------
(* Values. *)

\* What doc builds is a document.
LEMMA DocTyped ==
    /\ \A k \in OnExchange, e \in Exchange, w \in Wallet : doc(k, e, w) \in Doc
    /\ \A k \in {"query", "answer"} \cup Basic, w \in Wallet : doc(k, NoExchange, w) \in Doc
BY DEF Doc, doc

\* What task builds is a task.
LEMMA TaskTyped ==
    /\ \A o \in Answering, b \in By, e \in Exchange : task(o, b, e) \in Task
    /\ \A o \in Opening, b \in By : task(o, b, NoExchange) \in Task
BY DEF Task, task

\* Each wallet is the other of its other.
LEMMA OtherTyped == \A w \in Wallet : Other(w) \in Wallet /\ Other(w) # w /\ Other(Other(w)) = w
BY WalletsDiffer DEF Other, Wallet

\* A document on an exchange is of a kind that has one.
LEMMA DocEx ==
    ASSUME NEW d \in Doc
    PROVE  /\ d.from \in Wallet
           /\ d.ex \in Exchange \cup {NoExchange}
           /\ d.kind \in OnExchange => d.ex \in Exchange
           /\ d.kind \notin OnExchange => d.ex = NoExchange
BY DEF Doc, OnExchange, Errors, Basic

\* A task that answers is about an exchange; one that opens is about none yet.
LEMMA TaskEx ==
    ASSUME NEW t \in Task
    PROVE  /\ t.by \in By
           /\ t.op \in Answering => t.ex \in Exchange
           /\ t.op \notin Answering => t.ex = NoExchange
BY DEF Task, Opening, Answering

-----------------------------------------------------------------------------
(* Type correctness. *)

\* A finite, nonempty set of indices has a last one.
LEMMA LastIndex ==
    ASSUME NEW n \in Nat, NEW own, own \subseteq 1..n, own # {}
    PROVE  \E i \in own : \A j \in own : j <= i
<1> DEFINE R == {ss \in Nat \X Nat : ss[1] < ss[2]}
           T == {n - i : i \in own}
<1>1. IsWellFoundedOn(R, Nat)
  BY NatLessThanWellFounded DEF OpToRel
<1>2. T \subseteq Nat
  BY \A i \in own : i \in 1..n
<1>3. T # {}
  <2>1. PICK i \in own : TRUE
    OBVIOUS
  <2>2. n - i \in T
    OBVIOUS
  <2> QED BY <2>2
<1>4. \E x \in T : \A y \in T : ~(<<y, x>> \in R)
  <2> HIDE DEF R, T
  <2> QED BY <1>1, <1>2, <1>3, WFMin
<1>5. PICK x \in T : \A y \in T : ~(<<y, x>> \in R)
  BY <1>4
<1>6. PICK i \in own : x = n - i
  OBVIOUS
<1>7. \A j \in own : j <= i
  <2> SUFFICES ASSUME NEW j \in own, ~(j <= i) PROVE FALSE
    OBVIOUS
  <2>1. n - j \in T /\ n - j \in Nat /\ x \in Nat /\ n - j < x
    BY <1>2, <1>6
  <2>2. <<n - j, x>> \in R
    BY <2>1
  <2> QED BY <2>1, <2>2, <1>5
<1> QED BY <1>7

\* What is left of the announcements marked, after one is taken out, are announcements.
LEMMA MarksTyped ==
    ASSUME NEW m \in Seq(Exchange), NEW e \in Exchange
    PROVE  MarksWithout(m, e) \in Seq(Exchange)
<1> DEFINE own == {i \in 1..Len(m) : m[i] = e}
           last == CHOOSE i \in own : \A j \in own : j <= i
<1>1. CASE own = {}
  BY <1>1 DEF MarksWithout
<1>2. CASE own # {}
  <2>1. last \in own
    <3>1. \E i \in own : \A j \in own : j <= i
      <4> HIDE DEF own
      <4>1. own \subseteq 1..Len(m) /\ Len(m) \in Nat
        BY DEF own
      <4> QED BY <1>2, <4>1, LastIndex
    <3> QED BY <3>1
  <2>2. last \in 1..Len(m) /\ Len(m) \in Nat
    <3> HIDE DEF last
    <3> QED BY <2>1
  <2>3. \A i \in (last + 1)..Len(m) : m[i] \in Exchange
    <3> HIDE DEF last, own
    <3> QED BY <2>2
  <2>4. SubSeq(m, last + 1, Len(m)) \in Seq(Exchange)
    <3> HIDE DEF last
    <3> QED BY <2>2, <2>3, SubSeqProperties
  <2> QED BY <1>2, <2>4 DEF MarksWithout
<1> QED BY <1>1, <1>2

\* The first state has the shape.
LEMMA TypeInit == Init => TypeOK
BY DEF Init, TypeOK

\* A step of a task keeps the shape.
LEMMA TypeRun ==
    ASSUME TypeOK, NEW w \in Wallet, NEW t \in tasks[w], Run(w, t)
    PROVE  TypeOK'
<1>0. t \in Task /\ tasks \in [Wallet -> SUBSET Task] /\ docs \in [Wallet -> SUBSET Doc]
  BY DEF TypeOK
<1>1. CASE Announce(w, t)
  BY <1>1, DocTyped DEF TypeOK, Announce, Runs, SendNext, durable, budget, Create, Basic
<1>2. CASE MaybeOpen(w, t)
  <2> DEFINE ask == IF w = Low /\ ~ProposeRetained(w) /\ ~PeerSupports(w) THEN Query(w) ELSE {}
             new == IF w = Low /\ ~ProposeRetained(w) /\ PeerSupports(w)
                    THEN {task("open", t.by, NoExchange)} ELSE {}
  <2>1. ask \subseteq Doc /\ new \subseteq Task
    BY <1>0, TaskEx, DocTyped, TaskTyped DEF Query, Opening
  <2>2. Runs(w, t, new) /\ Retain(w, ask) /\ SendNext(w, ask)
    BY <1>2 DEF MaybeOpen
  <2> HIDE DEF ask, new
  <2> QED BY <1>2, <2>1, <2>2 DEF MaybeOpen, TypeOK, Runs, SendNext, Retain, budget
<1>3. CASE OpenCheck(w, t)
  BY <1>0, <1>3, TaskTyped, TaskEx DEF TypeOK, OpenCheck, Runs, durable, budget, Opening
<1>4. CASE \E e \in Exchange : Propose(w, t, e)
  BY <1>4, DocTyped DEF TypeOK, Propose, Runs, SendNext, Retain, Create, budget, OnExchange
<1>5. CASE Ask(w, t)
  BY <1>0, <1>5, TaskEx DEF TypeOK, Ask, Runs, budget, Answering
<1>6. CASE Accept(w, t)
  <2>1. t.ex \in Exchange
    BY <1>0, <1>6, TaskEx DEF Accept, Answering
  <2>2. task("forgetAccepted", "user", t.ex) \in Task /\ doc("accept", t.ex, w) \in Doc
    BY <2>1, TaskTyped, DocTyped DEF Answering, By, OnExchange
  <2> QED BY <1>6, <2>2 DEF TypeOK, Accept, Runs, Retain, Create, Learn, budget
<1>7. CASE Decline(w, t)
  <2>1. t.ex \in Exchange
    BY <1>0, <1>7, TaskEx DEF Decline, Answering
  <2>2. task("forgetDeclined", "user", t.ex) \in Task /\ doc("declined", t.ex, w) \in Doc
    BY <2>1, TaskTyped, DocTyped DEF Answering, By, OnExchange, Errors
  <2> QED BY <1>7, <2>2 DEF TypeOK, Decline, Runs, Retain, budget
<1>8. CASE Forget(w, t)
  <2>1. t.ex \in Exchange
    BY <1>0, <1>8, TaskEx DEF Forget, Answering
  <2>2. MarksWithout(marks[w], t.ex) \in Seq(Exchange)
    BY <2>1, MarksTyped DEF TypeOK
  <2>3. \A k \in {"accept", "declined"} : doc(k, t.ex, w) \in Doc
    BY <2>1, DocTyped DEF OnExchange, Errors
  <2> QED BY <1>8, <2>2, <2>3 DEF TypeOK, Forget, Runs, SendNext, budget
<1>9. CASE DeliverCheck(w, t)
  <2>1. task("sign", t.by, t.ex) \in Task
    BY <1>0, <1>9, TaskEx, TaskTyped DEF DeliverCheck, Answering
  <2> QED BY <1>9, <2>1 DEF TypeOK, DeliverCheck, Runs, durable, budget
<1>10. CASE Issue(w, t)
  <2>1. t.ex \in Exchange
    BY <1>0, <1>10, TaskEx DEF Issue, Answering
  <2>2. doc("issue", t.ex, w) \in Doc
    BY <2>1, DocTyped DEF OnExchange
  <2> QED BY <1>10, <2>1, <2>2 DEF TypeOK, Issue, Runs, Retain, SendNext, budget
<1>11. CASE RestoreHold(w, t)
  BY <1>11 DEF TypeOK, RestoreHold, Runs, durable, budget
<1>12. CASE Sweep(w, t)
  BY <1>12, TaskTyped DEF TypeOK, Sweep, Runs, durable, budget, Opening, By
<1>13. CASE RestoreAsk(w, t)
  <2>1. marks[w] # <<>> => NewestMark(w) \in Exchange
    BY DEF TypeOK, NewestMark
  <2>2. \A o \in {"reask", "forgetAnswered"} : marks[w] # <<>> => task(o, "user", NewestMark(w)) \in Task
    BY <2>1, TaskTyped DEF Answering, By
  <2> QED BY <1>13, <2>2 DEF TypeOK, RestoreAsk, Runs, durable, budget
<1>14. CASE Reask(w, t)
  BY <1>0, <1>14, TaskEx DEF TypeOK, Reask, Runs, durable, budget, Answering
<1>15. CASE ForgetAnswered(w, t)
  <2>1. MarksWithout(marks[w], t.ex) \in Seq(Exchange)
    BY <1>0, <1>15, TaskEx, MarksTyped DEF ForgetAnswered, Answering, TypeOK
  <2> QED BY <1>15, <2>1 DEF TypeOK, ForgetAnswered, Runs, budget
<1> QED BY <1>1, <1>2, <1>3, <1>4, <1>5, <1>6, <1>7, <1>8, <1>9, <1>10, <1>11, <1>12, <1>13, <1>14, <1>15 DEF Run

\* Holding a document keeps the holds of the shape.
LEMMA HoldTyped ==
    ASSUME TypeOK, NEW w \in Wallet, NEW new \in SUBSET Task, NEW step \in Task,
           Proceed(w, new) \/ Hold(w, step)
    PROVE  /\ tasks' \in [Wallet -> SUBSET Task]
           /\ deferred' \in [Wallet -> SUBSET Task]
           /\ kept' \in [Wallet -> SUBSET Task]
           /\ holding' \in [Wallet -> BOOLEAN]
<1>1. CASE Proceed(w, new)
  BY <1>1 DEF TypeOK, Proceed
<1>2. CASE Hold(w, step)
  BY <1>2 DEF TypeOK, Hold
<1> QED BY <1>1, <1>2

\* Handling a document keeps the shape.
LEMMA TypeHandle ==
    ASSUME TypeOK, NEW w \in Wallet, NEW d \in Doc, Handle(w, d)
    PROVE  /\ record' \in [Wallet -> {"none", "own", "both"}]
           /\ docs' \in [Wallet -> SUBSET Doc]
           /\ stored' \in [Wallet -> SUBSET Exchange]
           /\ kept' \in [Wallet -> SUBSET Task]
           /\ tasks' \in [Wallet -> SUBSET Task]
           /\ sending' \in [Wallet -> SUBSET Doc]
           /\ holding' \in [Wallet -> BOOLEAN]
           /\ deferred' \in [Wallet -> SUBSET Task]
           /\ UNCHANGED <<connected, cards, marks, withdrawn, prompt>>
<1>0. d.kind \in OnExchange => d.ex \in Exchange
  BY DocEx
<1>1. CASE RecvAnnounce(w)
  <2>1. task("maybeOpen", "inbound", NoExchange) \in Task
    BY TaskTyped DEF Opening, By
  <2>2. record' \in [Wallet -> {"none", "own", "both"}]
    BY <1>1 DEF TypeOK, RecvAnnounce, Learn
  <2>3. tasks' \in [Wallet -> SUBSET Task] /\ deferred' \in [Wallet -> SUBSET Task]
    <3>1. tasks \in [Wallet -> SUBSET Task] /\ deferred \in [Wallet -> SUBSET Task]
      BY DEF TypeOK
    <3>2. CASE holding[w]
      BY <1>1, <2>1, <3>1, <3>2 DEF RecvAnnounce
    <3>3. CASE ~holding[w]
      BY <1>1, <2>1, <3>1, <3>3 DEF RecvAnnounce
    <3> QED BY <3>2, <3>3
  <2> QED BY <1>1, <2>2, <2>3 DEF TypeOK, RecvAnnounce
<1>2. CASE RecvStop(w)
  BY <1>2 DEF TypeOK, RecvStop
<1>3. CASE RecvQuery(w, d)
  BY <1>3, DocTyped DEF TypeOK, RecvQuery, Retain, SendNext
<1>4. CASE RecvAnswer(w, d)
  BY <1>4, TaskTyped DEF TypeOK, RecvAnswer, Retain, Opening, By
<1>5. CASE d.kind = "propose" /\ RecvPropose(w, d)
  <2>1. d.ex \in Exchange
    BY <1>0, <1>5 DEF OnExchange
  <2>2. doc("mismatch", d.ex, w) \in Doc /\ task("ask", "inbound", d.ex) \in Task
    BY <2>1, DocTyped, TaskTyped DEF OnExchange, Errors, Answering, By
  <2> QED BY <1>5, <2>2 DEF TypeOK, RecvPropose, Retain, SendNext
<1>6. CASE d.kind = "accept" /\ RecvAccept(w, d)
  <2>1. d.ex \in Exchange
    BY <1>0, <1>6 DEF OnExchange
  <2>2. \A b \in By : task("deliver", b, d.ex) \in Task
    BY <2>1, TaskTyped DEF Answering
  <2>3. StartDelivery(w, d.ex, "inbound") \subseteq Task
    BY <2>2 DEF StartDelivery, By
  <2>4. task("deliver", "release", d.ex) \in Task
    BY <2>2 DEF By
  <2>5. record' \in [Wallet -> {"none", "own", "both"}]
    BY <1>6 DEF TypeOK, RecvAccept, Learn
  <2>6. /\ tasks' \in [Wallet -> SUBSET Task]
        /\ deferred' \in [Wallet -> SUBSET Task]
        /\ kept' \in [Wallet -> SUBSET Task]
        /\ holding' \in [Wallet -> BOOLEAN]
    BY <1>6, <2>3, <2>4, HoldTyped DEF RecvAccept
  <2>7. docs' \in [Wallet -> SUBSET Doc]
    BY <1>6 DEF TypeOK, RecvAccept, Retain
  <2> QED BY <1>6, <2>5, <2>6, <2>7 DEF TypeOK, RecvAccept
<1>7. CASE d.kind = "issue" /\ RecvIssue(w, d)
  <2>1. d.ex \in Exchange
    BY <1>0, <1>7 DEF OnExchange
  <2>2. \A k \in {"receipt", "refused"} : doc(k, d.ex, w) \in Doc
    BY <2>1, DocTyped DEF OnExchange, Errors
  <2> QED BY <1>7, <2>1, <2>2 DEF TypeOK, RecvIssue, Retain, SendNext
<1>8. CASE RecvOther(w, d)
  BY <1>8 DEF TypeOK, RecvOther, Retain
<1> QED BY <1>1, <1>2, <1>3, <1>4, <1>5, <1>6, <1>7, <1>8 DEF Handle

\* So does receiving one, held or handled.
LEMMA TypeReceive ==
    ASSUME TypeOK, NEW w \in Wallet, Receive(w) \/ ReceiveTwice(w)
    PROVE  TypeOK'
<1> DEFINE d == Head(inbox[w])
<1>1. inbox[w] # <<>> /\ inbox[w] \in Seq(Doc) /\ Handle(w, d)
  BY DEF TypeOK, Receive, ReceiveTwice
<1>2. d \in Doc /\ Tail(inbox[w]) \in Seq(Doc) /\ Append(Tail(inbox[w]), d) \in Seq(Doc)
  BY <1>1
<1>3. inbox' \in [Wallet -> Seq(Doc)]
  <2>1. CASE Receive(w)
    BY <1>2, <2>1 DEF TypeOK, Receive
  <2>2. CASE ReceiveTwice(w)
    <3>1. PICK q \in {inbox[w], Append(Tail(inbox[w]), d)} : inbox' = [inbox EXCEPT ![w] = q]
      BY <2>2 DEF ReceiveTwice
    <3>2. q \in Seq(Doc)
      BY <1>1, <1>2
    <3> QED BY <3>1, <3>2 DEF TypeOK
  <2> QED BY <2>1, <2>2
<1>4. crashes' \in Nat /\ duplicates' \in Nat /\ failures' \in Nat /\ up' = up
  BY DEF TypeOK, Receive, ReceiveTwice, budget
<1> QED BY <1>1, <1>2, <1>3, <1>4, TypeHandle DEF TypeOK

\* So does the end of a send.
LEMMA TypeSend ==
    ASSUME TypeOK, NEW w \in Wallet, NEW d \in sending[w], Send(w, d)
    PROVE  TypeOK'
<1>1. d \in Doc /\ Query(w) \subseteq Doc
  BY DocTyped DEF TypeOK, Query
<1>2. StartDelivery(w, d.ex, "user") \subseteq Task \/ d.kind # "accept"
  BY <1>1, DocEx, TaskTyped DEF StartDelivery, OnExchange, Answering, By
<1>3. inbox' \in [Wallet -> Seq(Doc)]
  BY <1>1, OtherTyped DEF TypeOK, Send
<1>4. /\ tasks' \in [Wallet -> SUBSET Task]
      /\ docs' \in [Wallet -> SUBSET Doc]
      /\ sending' \in [Wallet -> SUBSET Doc]
  <2>1. /\ tasks \in [Wallet -> SUBSET Task]
        /\ docs \in [Wallet -> SUBSET Doc]
        /\ sending \in [Wallet -> SUBSET Doc]
        /\ AfterSend(w, d)
    BY DEF TypeOK, Send
  <2>2. CASE d.kind = "accept"
    <3>1. StartDelivery(w, d.ex, "user") \subseteq Task
      BY <1>2, <2>2
    <3> QED BY <1>1, <2>1, <2>2, <3>1 DEF AfterSend, Retain
  <2>3. CASE d.kind # "accept"
    BY <2>1, <2>3 DEF AfterSend
  <2> QED BY <2>2, <2>3
<1> QED BY <1>3, <1>4 DEF TypeOK, Send, budget

\* So does what happens to a wallet.
LEMMA TypeEnvironment ==
    ASSUME TypeOK, NEW w \in Wallet, Environment(w)
    PROVE  TypeOK'
<1>1. CASE \E a \in {"accept", "decline"} : Respond(w, a)
  <2>1. PICK a \in {"accept", "decline"} : Respond(w, a)
    BY <1>1
  <2>2. prompt[w] \in Exchange
    BY <2>1 DEF TypeOK, Respond
  <2>3. task(a, "user", prompt[w]) \in Task
    BY <2>2, TaskTyped DEF Answering, By
  <2> QED BY <2>1, <2>3 DEF TypeOK, Respond, durable, budget
<1>2. CASE \E e \in Exchange : Upgrade(w, e)
  BY <1>2, DocTyped DEF TypeOK, Upgrade, Retain, SendNext, budget, OnExchange
<1>3. CASE \E e \in Exchange : Withdraw(w, e)
  BY <1>3 DEF TypeOK, Withdraw, volatile, budget
<1>4. CASE Release(w)
  BY <1>4 DEF TypeOK, Release, budget
<1>5. CASE Stop(w)
  BY <1>5, DocTyped DEF TypeOK, Stop, SendNext, budget, Basic
<1>6. CASE Crash(w)
  BY <1>6 DEF TypeOK, Crash, durable
<1>7. CASE \E t \in tasks[w] : DeliveryFails(w, t)
  BY <1>7 DEF TypeOK, DeliveryFails, Runs, durable
<1>8. CASE \E d \in sending[w] : SendFails(w, d)
  BY <1>8 DEF TypeOK, SendFails, durable
<1>9. CASE ReceiveTwice(w)
  BY <1>9, TypeReceive
<1> QED BY <1>1, <1>2, <1>3, <1>4, <1>5, <1>6, <1>7, <1>8, <1>9 DEF Environment

\* So does every step a wallet gets on with by itself.
LEMMA TypeSystem ==
    ASSUME TypeOK, NEW w \in Wallet, System(w)
    PROVE  TypeOK'
<1>1. CASE Connect(w)
  <2>1. task("announce", "release", NoExchange) \in Task
    BY TaskTyped DEF Opening, By
  <2>3. /\ tasks' \in [Wallet -> SUBSET Task] /\ deferred' \in [Wallet -> SUBSET Task]
        /\ kept' \in [Wallet -> SUBSET Task] /\ holding' \in [Wallet -> BOOLEAN]
    BY <1>1, <2>1, HoldTyped DEF Connect
  <2>4. connected' \in [Wallet -> BOOLEAN]
    BY <1>1 DEF Connect, TypeOK
  <2> QED BY <1>1, <2>3, <2>4 DEF TypeOK, Connect, budget
<1>2. CASE Restart(w)
  BY <1>2, TaskTyped DEF TypeOK, Restart, durable, budget, Opening, By
<1> QED BY <1>1, <1>2, TypeRun, TypeSend, TypeReceive DEF System

\* Every variable keeps the shape the source gives it.
THEOREM TypeCorrect == Spec => []TypeOK
<1>1. TypeOK /\ [Next]_vars => TypeOK'
  <2> SUFFICES ASSUME TypeOK, [Next]_vars PROVE TypeOK'
    OBVIOUS
  <2>1. CASE Next
    BY <2>1, TypeSystem, TypeEnvironment DEF Next
  <2>2. CASE UNCHANGED vars
    BY <2>2 DEF TypeOK, vars, durable, volatile, budget
  <2> QED BY <2>1, <2>2
<1> QED BY <1>1, TypeInit, PTL DEF Spec

-----------------------------------------------------------------------------
(* One credential per exchange.  The invariant that a step preserves says, besides the  *)
(* count: who a document in transit is from, that a credential is counted exactly when  *)
(* its issue document is retained, that one delivery of an exchange runs at a time, and *)
(* that a delivery that signs has found no issue document.                              *)

\* The documents that wait for a wallet at its mediator.
Queued(w) == {inbox[w][i] : i \in 1..Len(inbox[w])}

\* What a wallet sends is its own, and what is queued for it is the peer's.
InTransit ==
    \A w \in Wallet : /\ \A d \in sending[w] : d.from = w
                      /\ \A d \in Queued(w) : d.from = Other(w)

\* A held step starts a delivery under one name, and is never a delivery that signs.
HeldSteps ==
    \A w \in Wallet : \A t \in deferred[w] \cup kept[w] :
        t.op # "sign" /\ (t.op = "deliver" => t = task("deliver", "release", t.ex))

\* A card is issued with the retained delivery, once.
Counted ==
    \A w \in Wallet, e \in Exchange : cards[w][e] = IF AlreadyIssued(w, e) THEN 1 ELSE 0

\* One delivery of an exchange runs at a time (inFlightVrcDeliveries).
OneDelivery ==
    \A w \in Wallet, e \in Exchange : \A s, t \in Deliveries(w, e) : s = t

\* A delivery that signs saw that none was retained.
SigningIsFirst ==
    \A w \in Wallet : \A t \in tasks[w] : t.op = "sign" => ~AlreadyIssued(w, t.ex)

\* The inductive invariant of OneCardPerExchange.
OneCardInv == TypeOK /\ InTransit /\ HeldSteps /\ Counted /\ OneDelivery /\ SigningIsFirst

\* What a step adds to a queue is there with what was there before.
LEMMA QueueOps ==
    ASSUME NEW S, NEW q \in Seq(S), NEW d \in S
    PROVE  /\ \A i \in 1..Len(Append(q, d)) : Append(q, d)[i] \in {q[j] : j \in 1..Len(q)} \cup {d}
           /\ q # <<>> =>
                /\ Head(q) \in {q[j] : j \in 1..Len(q)}
                /\ Tail(q) \in Seq(S)
                /\ \A i \in 1..Len(Tail(q)) : Tail(q)[i] \in {q[j] : j \in 1..Len(q)}
<1>1. \A i \in 1..Len(Append(q, d)) : Append(q, d)[i] \in {q[j] : j \in 1..Len(q)} \cup {d}
  OBVIOUS
<1>2. ASSUME q # <<>>
      PROVE  /\ Head(q) \in {q[j] : j \in 1..Len(q)}
             /\ Tail(q) \in Seq(S)
             /\ \A i \in 1..Len(Tail(q)) : Tail(q)[i] \in {q[j] : j \in 1..Len(q)}
  <2>1. Len(q) \in Nat /\ Len(q) # 0 /\ Head(q) = q[1] /\ Len(Tail(q)) = Len(q) - 1
    BY <1>2
  <2>2. \A i \in 1..Len(Tail(q)) : Tail(q)[i] = q[i + 1]
    BY <1>2
  <2> QED BY <1>2, <2>1, <2>2
<1> QED BY <1>1, <1>2

\* A step takes a document off a queue, puts one that was due to be sent on one, or leaves
\* the queues alone.
LEMMA QueueStep ==
    ASSUME TypeOK, NEW w \in Wallet, System(w) \/ Environment(w)
    PROVE  \/ inbox' = inbox
           \/ \E d \in sending[w] : Send(w, d) /\ Queued(w)' = Queued(w)
                                    /\ Queued(Other(w))' \subseteq Queued(Other(w)) \cup {d}
           \/ \E d \in Queued(w) : Handle(w, d) /\ \A v \in Wallet : Queued(v)' \subseteq Queued(v)
<1>1. CASE \E d \in sending[w] : Send(w, d)
  <2>1. PICK d \in sending[w] : Send(w, d)
    BY <1>1
  <2>2. d \in Doc /\ inbox[Other(w)] \in Seq(Doc) /\ Other(w) \in Wallet /\ Other(w) # w
    BY OtherTyped DEF TypeOK
  <2>3. inbox'[w] = inbox[w] /\ inbox'[Other(w)] = Append(inbox[Other(w)], d)
    BY <2>1, <2>2 DEF Send, TypeOK
  <2>4. \A i \in 1..Len(Append(inbox[Other(w)], d)) :
           Append(inbox[Other(w)], d)[i] \in Queued(Other(w)) \cup {d}
    BY <2>2, QueueOps DEF Queued
  <2> QED BY <2>1, <2>3, <2>4 DEF Queued
<1>2. CASE Receive(w) \/ ReceiveTwice(w)
  <2> DEFINE q == inbox[w]
             d == Head(q)
  <2>1. q \in Seq(Doc) /\ q # <<>> /\ Handle(w, d)
    BY <1>2 DEF TypeOK, Receive, ReceiveTwice
  <2>2. /\ d \in Queued(w) /\ d \in Doc
        /\ Tail(q) \in Seq(Doc)
        /\ \A i \in 1..Len(Tail(q)) : Tail(q)[i] \in Queued(w)
    BY <2>1, QueueOps DEF Queued
  <2>3. \A i \in 1..Len(Append(Tail(q), d)) : Append(Tail(q), d)[i] \in Queued(w)
    BY <2>2, QueueOps
  <2>4. PICK r \in {q, Tail(q), Append(Tail(q), d)} : inbox' = [inbox EXCEPT ![w] = r]
    BY <1>2 DEF Receive, ReceiveTwice
  <2>5. \A i \in 1..Len(r) : r[i] \in Queued(w)
    BY <2>2, <2>3 DEF Queued
  <2>6. inbox'[w] = r /\ \A v \in Wallet \ {w} : inbox'[v] = inbox[v]
    BY <2>4 DEF TypeOK
  <2>7. Queued(w)' \subseteq Queued(w) /\ \A v \in Wallet \ {w} : Queued(v)' = Queued(v)
    BY <2>5, <2>6 DEF Queued
  <2> QED BY <2>1, <2>2, <2>7
<1>3. CASE ~(\E d \in sending[w] : Send(w, d)) /\ ~(Receive(w) \/ ReceiveTwice(w))
  BY <1>3 DEF System, Environment, Run, Connect, Restart, Announce, MaybeOpen, OpenCheck, Propose, Ask,
     Accept, Decline, Forget, DeliverCheck, Issue, RestoreHold, Sweep, RestoreAsk, Reask, ForgetAnswered, Respond,
     Upgrade, Withdraw, Release, Stop, Crash, DeliveryFails, SendFails
<1> QED BY <1>1, <1>2, <1>3

\* The cases of a step: a message is handled, or something else happens.
LEMMA Handled ==
    ASSUME TypeOK, NEW w \in Wallet, Receive(w) \/ ReceiveTwice(w)
    PROVE  \E d \in Queued(w) : d \in Doc /\ Handle(w, d)
<1>1. inbox[w] \in Seq(Doc) /\ inbox[w] # <<>> /\ Handle(w, Head(inbox[w]))
  BY DEF TypeOK, Receive, ReceiveTwice
<1>2. Head(inbox[w]) \in Queued(w) /\ Head(inbox[w]) \in Doc
  BY <1>1, QueueOps DEF Queued
<1> QED BY <1>1, <1>2

\* What a wallet sends stays its own, and what is queued for it the peer's.
LEMMA InTransitStep ==
    ASSUME TypeOK, InTransit, NEW w \in Wallet, System(w) \/ Environment(w)
    PROVE  InTransit'
<1>0. sending \in [Wallet -> SUBSET Doc]
  BY DEF TypeOK
<1>1. \A v \in Wallet : \A d \in sending'[v] : d \in sending[v] \/ d.from = v
  <2> SUFFICES ASSUME NEW v \in Wallet, NEW d \in sending'[v], d \notin sending[v] PROVE d.from = v
    OBVIOUS
  <2>1. CASE Receive(w) \/ ReceiveTwice(w)
    <3>1. PICK m \in Queued(w) : m \in Doc /\ Handle(w, m)
      BY <2>1, Handled
    <3> QED BY <1>0, <3>1 DEF Handle, RecvAnnounce, RecvStop, RecvQuery, RecvAnswer, RecvPropose,
               RecvAccept, RecvIssue, RecvOther, SendNext, doc
  <2>2. CASE \E t \in tasks[w] : Run(w, t)
    <3>1. PICK t \in tasks[w] : Run(w, t)
      BY <2>2
    <3>2. CASE sending' = sending
      BY <3>2
    <3>3. CASE Announce(w, t) \/ Forget(w, t) \/ Issue(w, t)
      BY <1>0, <3>3 DEF Announce, Forget, Issue, SendNext, doc
    <3>4. CASE MaybeOpen(w, t)
      BY <1>0, <3>4 DEF MaybeOpen, SendNext, Query, doc
    <3>5. CASE \E e \in Exchange : Propose(w, t, e)
      BY <1>0, <3>5 DEF Propose, SendNext, doc
    <3> QED BY <3>1, <3>2, <3>3, <3>4, <3>5 DEF Run, OpenCheck, Ask, Accept, Decline, DeliverCheck,
               RestoreHold, Sweep, RestoreAsk, Reask, ForgetAnswered
  <2>3. CASE \E m \in sending[w] : Send(w, m)
    BY <1>0, <2>3 DEF Send, AfterSend, Query, doc
  <2>4. CASE Connect(w) \/ Restart(w) \/ (Environment(w) /\ ~ReceiveTwice(w))
    <3>1. CASE sending' = sending
      BY <3>1
    <3>2. CASE \E e \in Exchange : Upgrade(w, e)
      BY <1>0, <3>2 DEF Upgrade, SendNext, doc
    <3>3. CASE Stop(w) \/ Crash(w) \/ \E m \in sending[w] : SendFails(w, m)
      BY <1>0, <3>3 DEF Stop, Crash, SendFails, SendNext, doc
    <3> QED BY <2>4, <3>1, <3>2, <3>3 DEF Connect, Restart, Environment, Respond, Withdraw, Release,
               DeliveryFails, volatile
  <2> QED BY <2>1, <2>2, <2>3, <2>4 DEF System
<1>2. \A v \in Wallet : \A d \in Queued(v)' : d.from = Other(v)
  <2> SUFFICES ASSUME NEW v \in Wallet, NEW d \in Queued(v)' PROVE d.from = Other(v)
    OBVIOUS
  <2>1. CASE d \in Queued(v)
    BY <2>1 DEF InTransit
  <2>2. CASE d \notin Queued(v)
    <3>1. Queued(v)' # Queued(v) /\ ~(Queued(v)' \subseteq Queued(v)) /\ inbox' # inbox
      BY <2>2 DEF Queued
    <3>2. PICK m \in sending[w] : /\ Queued(w)' = Queued(w)
                                   /\ Queued(Other(w))' \subseteq Queued(Other(w)) \cup {m}
      BY <3>1, QueueStep
    <3>3. v = Other(w)
      BY <3>1, <3>2, OtherTyped DEF Wallet, Other
    <3> QED BY <2>2, <3>2, <3>3, OtherTyped DEF InTransit
  <2> QED BY <2>1, <2>2
<1> QED BY <1>1, <1>2 DEF InTransit

\* A held delivery stays one that does not sign yet.
LEMMA HeldStepsStep ==
    ASSUME TypeOK, HeldSteps, NEW w \in Wallet, System(w) \/ Environment(w)
    PROVE  HeldSteps'
<1>0. deferred \in [Wallet -> SUBSET Task] /\ kept \in [Wallet -> SUBSET Task]
  BY DEF TypeOK
<1> DEFINE Good(t) == t.op # "sign" /\ (t.op = "deliver" => t = task("deliver", "release", t.ex))
<1> SUFFICES ASSUME NEW v \in Wallet, NEW t \in (deferred[v] \cup kept[v])',
                    t \notin deferred[v] \cup kept[v]
             PROVE  Good(t)
  BY DEF HeldSteps
<1>1. CASE Receive(w) \/ ReceiveTwice(w)
  <2>1. PICK m \in Queued(w) : m \in Doc /\ Handle(w, m)
    BY <1>1, Handled
  <2>2. CASE RecvAnnounce(w)
    <3>1. t = task("maybeOpen", "inbound", NoExchange)
      BY <1>0, <2>2 DEF RecvAnnounce
    <3> QED BY <3>1 DEF task
  <2>3. CASE RecvAccept(w, m)
    <3>1. t = task("deliver", "release", m.ex)
      BY <1>0, <2>3 DEF RecvAccept, Proceed, Hold
    <3> QED BY <3>1 DEF task
  <2>4. CASE ~RecvAnnounce(w) /\ ~RecvAccept(w, m)
    BY <1>0, <2>1, <2>4 DEF Handle, RecvStop, RecvQuery, RecvAnswer, RecvPropose, RecvIssue, RecvOther
  <2> QED BY <2>2, <2>3, <2>4
<1>2. CASE Connect(w)
  <2>1. t = task("announce", "release", NoExchange)
    BY <1>0, <1>2 DEF Connect, Proceed, Hold
  <2> QED BY <2>1 DEF task
<1>3. CASE (System(w) \/ Environment(w)) /\ ~Connect(w) /\ ~Receive(w) /\ ~ReceiveTwice(w)
  BY <1>0, <1>3 DEF System, Run, Restart, Announce, MaybeOpen, OpenCheck, Propose, Ask, Accept,
     Decline, Forget, DeliverCheck, Issue, RestoreHold, Sweep, RestoreAsk, Reask, ForgetAnswered, Send, Environment,
     Respond, Upgrade, Withdraw, Release, Stop, Crash, DeliveryFails, SendFails, durable, volatile
<1> QED BY <1>1, <1>2, <1>3

\* Documents are never thrown away, and only Issue makes an issue document of this side.
LEMMA IssuedStep ==
    ASSUME TypeOK, InTransit, NEW w \in Wallet, System(w) \/ Environment(w),
           ~\E t \in tasks[w] : Issue(w, t)
    PROVE  \A v \in Wallet, e \in Exchange : AlreadyIssued(v, e)' = AlreadyIssued(v, e)
<1>0. docs \in [Wallet -> SUBSET Doc]
  BY DEF TypeOK
<1> SUFFICES ASSUME NEW v \in Wallet
             PROVE  /\ docs[v] \subseteq docs'[v]
                    /\ \A d \in docs'[v] : d \in docs[v] \/ d.kind # "issue" \/ d.from # v
  BY DEF AlreadyIssued, doc
<1>1. CASE docs' = docs
  BY <1>1
<1>2. CASE Receive(w) \/ ReceiveTwice(w)
  <2>1. PICK m \in Queued(w) : m \in Doc /\ Handle(w, m)
    BY <1>2, Handled
  <2>2. m.from # w
    BY OtherTyped DEF InTransit
  <2>3. CASE RecvPropose(w, m)
    <3>1. docs' = [docs EXCEPT ![w] = @ \cup ({m} \cup
               IF IsUpgrade(w, m.ex) /\ record[w] # "both" THEN {doc("mismatch", m.ex, w)} ELSE {})]
      BY <2>3 DEF RecvPropose, Retain
    <3> QED BY <1>0, <2>2, <3>1 DEF doc
  <2>4. CASE RecvIssue(w, m)
    <3>1. \E D \in {{m, doc("receipt", m.ex, w)}, {m}} : docs' = [docs EXCEPT ![w] = @ \cup D]
      BY <2>4 DEF RecvIssue, Retain
    <3> QED BY <1>0, <2>2, <3>1 DEF doc
  <2>5. CASE RecvQuery(w, m) \/ RecvAnswer(w, m) \/ RecvAccept(w, m) \/ RecvOther(w, m)
    BY <1>0, <2>2, <2>5 DEF RecvQuery, RecvAnswer, RecvAccept, RecvOther, Retain, doc
  <2>6. CASE RecvAnnounce(w) \/ RecvStop(w)
    BY <1>0, <2>6 DEF RecvAnnounce, RecvStop
  <2> QED BY <2>1, <2>3, <2>4, <2>5, <2>6 DEF Handle
<1>3. CASE \E t \in tasks[w] : MaybeOpen(w, t)
  BY <1>0, <1>3 DEF MaybeOpen, Retain, Query, doc
<1>4. CASE \E t \in tasks[w] : Accept(w, t) \/ Decline(w, t)
  BY <1>0, <1>4 DEF Accept, Decline, Retain, doc
<1>5. CASE \E e \in Exchange : Upgrade(w, e) \/ \E t \in tasks[w] : Propose(w, t, e)
  BY <1>0, <1>5 DEF Upgrade, Propose, Retain, doc
<1>6. CASE \E d \in sending[w] : Send(w, d)
  BY <1>0, <1>6 DEF Send, AfterSend, Retain, Query, doc
<1> QED BY <1>1, <1>2, <1>3, <1>4, <1>5, <1>6 DEF System, Run, Connect, Restart, Announce, OpenCheck, Ask,
           Forget, DeliverCheck, Issue, RestoreHold, Sweep, RestoreAsk, Reask, ForgetAnswered, Environment, Respond,
           Withdraw, Release, Stop, Crash, DeliveryFails, SendFails, durable

\* No step but Run issues a card.
LEMMA CardsStep ==
    ASSUME TypeOK, NEW w \in Wallet, System(w) \/ Environment(w), ~\E t \in tasks[w] : Issue(w, t)
    PROVE  cards' = cards
<1>1. CASE Receive(w) \/ ReceiveTwice(w)
  BY <1>1, Handled, TypeHandle
<1>2. CASE ~Receive(w) /\ ~ReceiveTwice(w)
  BY <1>2 DEF System, Run, Connect, Restart, Announce, MaybeOpen, OpenCheck, Propose, Ask, Accept,
     Decline, Forget, DeliverCheck, Issue, RestoreHold, Sweep, RestoreAsk, Reask, ForgetAnswered, Send, Environment,
     Respond, Upgrade, Withdraw, Release, Stop, Crash, DeliveryFails, SendFails, durable
<1> QED BY <1>1, <1>2

\* A run of the delivery of a credential.
Delivering(t) == t.op \in {"deliver", "sign"}

\* How a step changes what is delivering: not at all but for ending; one delivery starts on
\* an exchange that had none; a delivery goes on to sign; held deliveries start.
LEMMA DeliveryStep ==
    ASSUME TypeOK, HeldSteps, NEW w \in Wallet, System(w) \/ Environment(w)
    PROVE  \/ \A v \in Wallet : \A t \in tasks'[v] : Delivering(t) => t \in tasks[v]
           \/ \E e \in Exchange, b \in By :
                 /\ Deliveries(w, e) = {}
                 /\ tasks' = [tasks EXCEPT ![w] = @ \cup {task("deliver", b, e)}]
           \/ \E t \in tasks[w] : DeliverCheck(w, t)
           \/ Release(w)
<1>0. tasks \in [Wallet -> SUBSET Task]
  BY DEF TypeOK
<1>1. CASE tasks' = tasks
  BY <1>1
<1>2. CASE Receive(w) \/ ReceiveTwice(w)
  <2>1. PICK m \in Queued(w) : m \in Doc /\ Handle(w, m)
    BY <1>2, Handled
  <2>2. CASE RecvAnnounce(w)
    BY <1>0, <2>2 DEF RecvAnnounce, Delivering, task
  <2>3. CASE RecvAnswer(w, m)
    BY <1>0, <2>3 DEF RecvAnswer, Delivering, task
  <2>4. CASE RecvPropose(w, m)
    BY <1>0, <2>4 DEF RecvPropose, Delivering, task
  <2>5. CASE m.kind = "accept" /\ RecvAccept(w, m)
    <3>1. m.ex \in Exchange
      BY <2>1, <2>5, DocEx DEF OnExchange
    <3>2. CASE tasks' = [tasks EXCEPT ![w] = @ \cup {task("deliver", "inbound", m.ex)}]
               /\ Deliveries(w, m.ex) = {}
      BY <3>1, <3>2 DEF By
    <3>3. tasks' = tasks \/ tasks' = [tasks EXCEPT ![w] = @ \cup {}] \/
          (/\ tasks' = [tasks EXCEPT ![w] = @ \cup {task("deliver", "inbound", m.ex)}]
           /\ Deliveries(w, m.ex) = {})
      BY <2>5 DEF RecvAccept, Proceed, Hold, StartDelivery
    <3> QED BY <1>0, <3>2, <3>3
  <2>6. CASE RecvQuery(w, m) \/ RecvIssue(w, m) \/ RecvOther(w, m) \/ RecvStop(w)
    BY <2>6 DEF RecvQuery, RecvIssue, RecvOther, RecvStop
  <2> QED BY <2>1, <2>2, <2>3, <2>4, <2>5, <2>6 DEF Handle
<1>3. CASE \E t \in tasks[w] : Run(w, t)
  <2>1. PICK t \in tasks[w] : Run(w, t)
    BY <1>3
  <2>2. CASE DeliverCheck(w, t)
    BY <2>2
  <2>3. CASE Announce(w, t) \/ (\E e \in Exchange : Propose(w, t, e)) \/ Ask(w, t) \/ Forget(w, t)
             \/ Issue(w, t) \/ RestoreHold(w, t) \/ Reask(w, t) \/ ForgetAnswered(w, t)
    BY <1>0, <2>3 DEF Announce, Propose, Ask, Forget, Issue, RestoreHold, Reask, ForgetAnswered, Runs
  <2>4. CASE MaybeOpen(w, t)
    BY <1>0, <2>4 DEF MaybeOpen, Runs, Delivering, task
  <2>5. CASE OpenCheck(w, t)
    BY <1>0, <2>5 DEF OpenCheck, Runs, Delivering, task
  <2>6. CASE Accept(w, t) \/ Decline(w, t)
    BY <1>0, <2>6 DEF Accept, Decline, Runs, Delivering, task
  <2>7. CASE Sweep(w, t)
    BY <1>0, <2>7 DEF Sweep, Runs, Delivering, task
  <2>8. CASE RestoreAsk(w, t)
    BY <1>0, <2>8 DEF RestoreAsk, Runs, Delivering, task
  <2> QED BY <2>1, <2>2, <2>3, <2>4, <2>5, <2>6, <2>7, <2>8 DEF Run
<1>4. CASE \E d \in sending[w] : Send(w, d)
  <2>1. PICK d \in sending[w] : Send(w, d)
    BY <1>4
  <2>2. CASE d.kind = "accept" /\ Deliveries(w, d.ex) = {}
    <3>1. d.ex \in Exchange
      BY <2>2, DocEx DEF TypeOK, OnExchange
    <3>2. tasks' = [tasks EXCEPT ![w] = @ \cup {task("deliver", "user", d.ex)}]
      BY <2>1, <2>2 DEF Send, AfterSend, StartDelivery
    <3> QED BY <2>2, <3>1, <3>2 DEF By
  <2>3. CASE ~(d.kind = "accept" /\ Deliveries(w, d.ex) = {})
    BY <1>0, <2>1, <2>3 DEF Send, AfterSend, StartDelivery
  <2> QED BY <2>2, <2>3
<1>5. CASE Connect(w)
  BY <1>0, <1>5 DEF Connect, Proceed, Hold, Delivering, task
<1>6. CASE Restart(w)
  BY <1>0, <1>6 DEF Restart, Delivering, task
<1>7. CASE Environment(w) /\ ~ReceiveTwice(w)
  <2>1. CASE \E a \in {"accept", "decline"} : Respond(w, a)
    BY <1>0, <2>1 DEF Respond, Delivering, task
  <2>2. CASE Crash(w) \/ \E t \in tasks[w] : DeliveryFails(w, t)
    BY <1>0, <2>2 DEF Crash, DeliveryFails, Runs
  <2>3. CASE Release(w)
    BY <2>3
  <2> QED BY <1>1, <1>7, <2>1, <2>2, <2>3 DEF Environment, Upgrade, Withdraw, Stop, SendFails, volatile
<1> QED BY <1>2, <1>3, <1>4, <1>5, <1>6, <1>7 DEF System

\* No step leaves two deliveries of one exchange to be signed.
LEMMA OneDeliveryStep ==
    ASSUME TypeOK, HeldSteps, OneDelivery, SigningIsFirst,
           NEW w \in Wallet, System(w) \/ Environment(w)
    PROVE  /\ OneDelivery'
           /\ \A v \in Wallet : \A t \in tasks'[v] : t.op = "sign" => ~AlreadyIssued(v, t.ex)
<1>0. tasks \in [Wallet -> SUBSET Task] /\ deferred \in [Wallet -> SUBSET Task]
  BY DEF TypeOK
<1>1. CASE \A v \in Wallet : \A t \in tasks'[v] : Delivering(t) => t \in tasks[v]
  BY <1>1 DEF OneDelivery, SigningIsFirst, Deliveries, Delivering
<1>2. CASE \E e \in Exchange, b \in By :
             /\ Deliveries(w, e) = {}
             /\ tasks' = [tasks EXCEPT ![w] = @ \cup {task("deliver", b, e)}]
  <2>1. PICK e \in Exchange, b \in By :
             /\ Deliveries(w, e) = {}
             /\ tasks' = [tasks EXCEPT ![w] = @ \cup {task("deliver", b, e)}]
    BY <1>2
  <2>2. tasks'[w] = tasks[w] \cup {task("deliver", b, e)} /\ \A v \in Wallet \ {w} : tasks'[v] = tasks[v]
    BY <1>0, <2>1
  <2>3. task("deliver", b, e).op = "deliver" /\ task("deliver", b, e).ex = e
    BY DEF task
  <2> QED BY <2>1, <2>2, <2>3 DEF OneDelivery, SigningIsFirst, Deliveries
<1>3. CASE \E t \in tasks[w] : DeliverCheck(w, t)
  <2>1. PICK t \in tasks[w] : DeliverCheck(w, t)
    BY <1>3
  <2> DEFINE sign == task("sign", t.by, t.ex)
  <2>2. t.op = "deliver" /\ sign.op = "sign" /\ sign.ex = t.ex
    BY <2>1 DEF DeliverCheck, task
  <2>3. /\ tasks'[w] \subseteq (tasks[w] \ {t}) \cup {sign}
        /\ sign \in tasks'[w] => sign \in tasks[w] \/ ~AlreadyIssued(w, t.ex)
        /\ \A v \in Wallet \ {w} : tasks'[v] = tasks[v]
    BY <1>0, <2>1 DEF DeliverCheck, Runs
  <2> HIDE DEF sign
  <2> QED BY <2>2, <2>3 DEF OneDelivery, SigningIsFirst, Deliveries
<1>4. CASE Release(w)
  <2>1. /\ \A t \in tasks'[w] : t \in tasks[w]
               \/ (t \in deferred[w] /\ (t.op # "deliver" \/ Deliveries(w, t.ex) = {}))
        /\ \A v \in Wallet \ {w} : tasks'[v] = tasks[v]
    BY <1>0, <1>4 DEF Release
  <2>2. \A t \in deferred[w] : Delivering(t) => t.op = "deliver" /\ t = task("deliver", "release", t.ex)
    BY DEF HeldSteps, Delivering
  <2>3. \A e \in Exchange : \A t \in Deliveries(w, e)' : t \in Deliveries(w, e)
               \/ (Deliveries(w, e) = {} /\ t = task("deliver", "release", e))
    BY <2>1, <2>2 DEF Deliveries, Delivering
  <2>4. \A v \in Wallet, e \in Exchange : \A s, t \in Deliveries(v, e)' : s = t
    BY <2>1, <2>3 DEF OneDelivery, Deliveries
  <2>5. \A v \in Wallet : \A t \in tasks'[v] : t.op = "sign" => t \in tasks[v]
    BY <2>1, <2>2 DEF Delivering
  <2> QED BY <2>4, <2>5 DEF OneDelivery, SigningIsFirst
<1> QED BY <1>1, <1>2, <1>3, <1>4, DeliveryStep

\* No step issues a second card on an exchange.
LEMMA CountedStep ==
    ASSUME OneCardInv, NEW w \in Wallet, System(w) \/ Environment(w)
    PROVE  Counted' /\ SigningIsFirst'
<1>0. /\ tasks \in [Wallet -> SUBSET Task] /\ docs \in [Wallet -> SUBSET Doc]
      /\ cards \in [Wallet -> [Exchange -> Nat]]
  BY DEF OneCardInv, TypeOK
<1>1. CASE \E t \in tasks[w] : Issue(w, t)
  <2>1. PICK t \in tasks[w] : Issue(w, t)
    BY <1>1
  <2>2. t.op = "sign" /\ t \in Task /\ t.ex \in Exchange /\ ~AlreadyIssued(w, t.ex)
    BY <1>0, <2>1, TaskEx DEF Issue, OneCardInv, SigningIsFirst, Answering
  <2>3. /\ docs'[w] = docs[w] \cup {doc("issue", t.ex, w)}
        /\ \A v \in Wallet \ {w} : docs'[v] = docs[v]
        /\ tasks'[w] = tasks[w] \ {t}
        /\ \A v \in Wallet \ {w} : tasks'[v] = tasks[v]
    BY <1>0, <2>1 DEF Issue, Retain, Runs
  <2>4. /\ cards'[w][t.ex] = cards[w][t.ex] + 1
        /\ \A e \in Exchange \ {t.ex} : cards'[w][e] = cards[w][e]
        /\ \A v \in Wallet \ {w} : cards'[v] = cards[v]
    BY <1>0, <2>1, <2>2 DEF Issue
  <2>5. \A v \in Wallet, e \in Exchange :
            AlreadyIssued(v, e)' <=> AlreadyIssued(v, e) \/ (v = w /\ e = t.ex)
    BY <2>3 DEF AlreadyIssued, doc
  <2>6. Counted'
    BY <1>0, <2>2, <2>4, <2>5 DEF OneCardInv, Counted
  <2>7. \A v \in Wallet : \A s \in tasks'[v] : s.op = "sign" => s \in tasks[v] /\ s.ex \in Exchange
                                              /\ ~(v = w /\ s.ex = t.ex)
    <3>1. \A v \in Wallet : \A s \in tasks'[v] : s \in tasks[v] /\ ~(v = w /\ s = t)
      BY <2>3
    <3>2. \A v \in Wallet : \A s \in tasks[v] : s.op = "sign" => s.ex \in Exchange
      BY <1>0, TaskEx DEF Answering
    <3>3. \A s \in tasks[w] : s.op = "sign" /\ s.ex = t.ex => s = t
      BY <2>2 DEF OneCardInv, OneDelivery, Deliveries
    <3> QED BY <3>1, <3>2, <3>3
  <2>8. SigningIsFirst'
    BY <2>5, <2>7 DEF OneCardInv, SigningIsFirst
  <2> QED BY <2>6, <2>8
<1>2. CASE ~\E t \in tasks[w] : Issue(w, t)
  <2>1. \A v \in Wallet, e \in Exchange : AlreadyIssued(v, e)' = AlreadyIssued(v, e)
    BY <1>2, IssuedStep DEF OneCardInv
  <2>2. cards' = cards
    BY <1>2, CardsStep DEF OneCardInv
  <2>3. Counted'
    BY <2>1, <2>2 DEF OneCardInv, Counted
  <2>4. \A v \in Wallet : \A t \in tasks'[v] : t.op = "sign" => ~AlreadyIssued(v, t.ex)
    BY OneDeliveryStep DEF OneCardInv
  <2>5. \A v \in Wallet : \A t \in tasks'[v] : t.op = "sign" => t.ex \in Exchange
    <3>1. tasks' \in [Wallet -> SUBSET Task]
      BY TypeSystem, TypeEnvironment DEF OneCardInv, TypeOK
    <3> QED BY <3>1, TaskEx DEF Answering
  <2> QED BY <2>1, <2>3, <2>4, <2>5 DEF SigningIsFirst
<1> QED BY <1>1, <1>2

\* The invariant holds at first, and every step keeps it.
LEMMA OneCardHolds == Spec => []OneCardInv
<1>1. Init => OneCardInv
  <2> SUFFICES ASSUME Init PROVE OneCardInv
    OBVIOUS
  <2>1. \A w \in Wallet : Queued(w) = {}
    BY DEF Init, Queued
  <2> QED BY <2>1, TypeInit DEF Init, OneCardInv, InTransit, HeldSteps, Counted, AlreadyIssued,
             OneDelivery, Deliveries, SigningIsFirst
<1>2. OneCardInv /\ [Next]_vars => OneCardInv'
  <2> SUFFICES ASSUME OneCardInv, [Next]_vars PROVE OneCardInv'
    OBVIOUS
  <2>1. CASE Next
    <3>1. PICK w \in Wallet : System(w) \/ Environment(w)
      BY <2>1 DEF Next
    <3> QED BY <3>1, TypeSystem, TypeEnvironment, InTransitStep, HeldStepsStep, OneDeliveryStep,
               CountedStep DEF OneCardInv
  <2>2. CASE UNCHANGED vars
    BY <2>2 DEF vars, durable, volatile, budget, OneCardInv, TypeOK, InTransit, Queued, HeldSteps,
       Counted, AlreadyIssued, OneDelivery, Deliveries, SigningIsFirst
  <2> QED BY <2>1, <2>2
<1> QED BY <1>1, <1>2, PTL DEF Spec

\* "Idempotent per direction" (deliverVrcViaTrustTaskForExchange): however a delivery is
\* triggered, interrupted or repeated, each wallet makes at most one credential per exchange.
THEOREM OneCard == Spec => []OneCardPerExchange
<1>1. OneCardInv => OneCardPerExchange
  BY DEF OneCardInv, Counted, OneCardPerExchange
<1> QED BY <1>1, OneCardHolds, PTL

-----------------------------------------------------------------------------
(* The marks, what a start-up makes of the newest, and what a step of a wallet leaves alone. *)

\* Forgetting the marks of an answered propose forgets all of them, or keeps the newest.
LEMMA MarksNewest ==
    ASSUME NEW m \in Seq(Exchange), NEW e \in Exchange
    PROVE  \/ MarksWithout(m, e) = <<>>
           \/ /\ MarksWithout(m, e) \in Seq(Exchange) /\ m # <<>> /\ e # m[Len(m)]
              /\ MarksWithout(m, e)[Len(MarksWithout(m, e))] = m[Len(m)]
<1> DEFINE own == {i \in 1..Len(m) : m[i] = e}
           last == CHOOSE i \in own : \A j \in own : j <= i
<1>1. CASE own = {}
  BY <1>1 DEF MarksWithout
<1>2. CASE own # {}
  <2>1. last \in own /\ \A j \in own : j <= last
    <3>1. \E i \in own : \A j \in own : j <= i
      <4> HIDE DEF own
      <4>1. own \subseteq 1..Len(m) /\ Len(m) \in Nat
        BY DEF own
      <4> QED BY <1>2, <4>1, LastIndex
    <3> HIDE DEF own
    <3> QED BY <3>1
  <2>2. last \in 1..Len(m) /\ Len(m) \in Nat
    <3> HIDE DEF last
    <3> QED BY <2>1
  <2> DEFINE s == SubSeq(m, last + 1, Len(m))
  <2>3. MarksWithout(m, e) = s
    BY <1>2 DEF MarksWithout
  <2>4. CASE last = Len(m)
    <3> HIDE DEF last
    <3>1. s = <<>>
      BY <2>2, <2>4, SubSeqProperties
    <3> QED BY <2>3, <3>1
  <2>5. CASE last # Len(m)
    <3>1. Len(m) \notin own
      <4> HIDE DEF last, own
      <4> QED BY <2>1, <2>2, <2>5
    <3>2. e # m[Len(m)]
      BY <2>2, <3>1
    <3>3. s \in Seq(Exchange) /\ Len(s) = Len(m) - last /\ s[Len(m) - last] = m[Len(m)]
      <4> HIDE DEF last, own
      <4>1. last + 1 \in 1..Len(m) /\ \A i \in (last + 1)..Len(m) : m[i] \in Exchange
        BY <2>2, <2>5
      <4>2. s \in Seq(Exchange) /\ Len(s) = Len(m) - last
        BY <2>2, <2>5, <4>1, SubSeqProperties
      <4>3. Len(m) - last \in 1..(Len(m) - last) /\ last + 1 + (Len(m) - last) - 1 = Len(m)
        BY <2>2, <2>5
      <4>4. s[Len(m) - last] = m[last + 1 + (Len(m) - last) - 1]
        BY <2>2, <2>5, <4>1, <4>3, SubSeqProperties
      <4>5. m[last + 1 + (Len(m) - last) - 1] = m[Len(m)]
        BY <4>3
      <4> HIDE DEF s
      <4> QED BY <4>2, <4>4, <4>5
    <3>4. m # <<>>
      BY <2>2
    <3>5. s[Len(s)] = m[Len(m)]
      <4> HIDE DEF s, last
      <4> QED BY <3>3
    <3>6. MarksWithout(m, e) \in Seq(Exchange)
      BY MarksTyped
    <3> HIDE DEF s, own, last
    <3>7. MarksWithout(m, e)[Len(MarksWithout(m, e))] = m[Len(m)]
      BY <2>3, <3>5
    <3> QED BY <3>2, <3>4, <3>6, <3>7
  <2> QED BY <2>4, <2>5
<1> QED BY <1>1, <1>2

\* No document a wallet retained is thrown away.
LEMMA DocsStay ==
    ASSUME TypeOK, NEW w \in Wallet, System(w) \/ Environment(w)
    PROVE  \A v \in Wallet : docs[v] \subseteq docs'[v]
<1>0. docs \in [Wallet -> SUBSET Doc]
  BY DEF TypeOK
<1>1. CASE docs' = docs \/ \E D : Retain(w, D)
  BY <1>0, <1>1 DEF Retain
<1>2. CASE Receive(w) \/ ReceiveTwice(w)
  <2>1. PICK m \in Queued(w) : m \in Doc /\ Handle(w, m)
    BY <1>2, Handled
  <2> QED BY <1>1, <2>1 DEF Handle, RecvAnnounce, RecvStop, RecvQuery, RecvAnswer, RecvPropose,
             RecvAccept, RecvIssue, RecvOther
<1>3. CASE \E t \in tasks[w] : Run(w, t)
  BY <1>1, <1>3 DEF Run, Announce, MaybeOpen, OpenCheck, Propose, Ask, Accept, Decline, Forget,
     DeliverCheck, Issue, RestoreHold, Sweep, RestoreAsk, Reask, ForgetAnswered, durable
<1>4. CASE \E d \in sending[w] : Send(w, d)
  BY <1>1, <1>4 DEF Send, AfterSend
<1> QED BY <1>1, <1>2, <1>3, <1>4 DEF System, Connect, Restart, Environment, Respond, Upgrade,
           Withdraw, Release, Stop, Crash, DeliveryFails, SendFails, durable

\* A step of a wallet leaves what the other one asks alone.
LEMMA OnlyItsOwn ==
    ASSUME TypeOK, NEW w \in Wallet, System(w) \/ Environment(w), NEW v \in Wallet, v # w
    PROVE  up'[v] = up[v] /\ prompt'[v] = prompt[v] /\ marks'[v] = marks[v] /\ tasks'[v] = tasks[v]
<1>0. /\ tasks \in [Wallet -> SUBSET Task] /\ up \in [Wallet -> BOOLEAN]
      /\ marks \in [Wallet -> Seq(Exchange)] /\ prompt \in [Wallet -> Exchange \cup {NoExchange}]
  BY DEF TypeOK
<1>1. CASE Receive(w) \/ ReceiveTwice(w)
  <2>1. PICK m \in Queued(w) : m \in Doc /\ Handle(w, m)
    BY <1>1, Handled
  <2>2. UNCHANGED <<marks, prompt, up>>
    BY <1>1, <2>1, TypeHandle DEF Receive, ReceiveTwice
  <2>3. tasks'[v] = tasks[v]
    BY <1>0, <2>1 DEF Handle, RecvAnnounce, RecvStop, RecvQuery, RecvAnswer, RecvPropose,
       RecvAccept, RecvIssue, RecvOther, Proceed, Hold
  <2> QED BY <2>2, <2>3
<1>2. CASE \E t \in tasks[w] : Run(w, t) /\ ~RestoreAsk(w, t)
  <2>1. PICK t \in tasks[w] : Run(w, t) /\ ~RestoreAsk(w, t)
    BY <1>2
  <2>2. up' = up
    BY <2>1 DEF Run, Announce, MaybeOpen, OpenCheck, Propose, Ask, Accept, Decline,
       Forget, DeliverCheck, Issue, RestoreHold, Sweep, Reask, ForgetAnswered
  <2>3. prompt'[v] = prompt[v] /\ marks'[v] = marks[v]
    BY <1>0, <2>1 DEF Run, Announce, MaybeOpen, OpenCheck, Propose, Ask, Accept, Decline,
       Forget, DeliverCheck, Issue, RestoreHold, Sweep, Reask, ForgetAnswered, durable
  <2>4. tasks'[v] = tasks[v]
    BY <1>0, <2>1 DEF Run, Runs, Announce, MaybeOpen, OpenCheck, Propose, Ask, Accept, Decline,
       Forget, DeliverCheck, Issue, RestoreHold, Sweep, Reask, ForgetAnswered
  <2> QED BY <2>2, <2>3, <2>4
<1>5. CASE \E t \in tasks[w] : RestoreAsk(w, t)
  BY <1>0, <1>5 DEF Runs, RestoreAsk, durable
<1>3. CASE Connect(w) \/ Restart(w) \/ \E d \in sending[w] : Send(w, d)
  BY <1>0, <1>3 DEF Connect, Proceed, Hold, Restart, Send, AfterSend, durable
<1>4. CASE Environment(w) /\ ~ReceiveTwice(w)
  BY <1>0, <1>4 DEF Environment, Respond, Upgrade, Withdraw, Release, Stop, Crash, DeliveryFails,
     SendFails, Runs, durable, volatile
<1> QED BY <1>1, <1>2, <1>3, <1>4, <1>5 DEF System

\* The start-up finds nothing to do, or goes on with the newest mark.
LEMMA RestoreGoesOn ==
    ASSUME TypeOK, NEW w \in Wallet, NEW t \in tasks[w], RestoreAsk(w, t)
    PROVE  /\ t.op = "restoreAsk" /\ up[w]
           /\ UNCHANGED <<durable, up, prompt, sending, holding, deferred, inbox, budget>>
           /\ \/ /\ tasks' = [tasks EXCEPT ![w] = (@ \ {t}) \cup {}]
                 /\ marks[w] = <<>> \/ prompt[w] # NoExchange
              \/ /\ marks[w] # <<>> /\ prompt[w] = NoExchange
                 /\ NewestMark(w) \in Exchange /\ Len(marks[w]) \in 1..Len(marks[w])
                 /\ NewestMark(w) = marks[w][Len(marks[w])]
                 /\ \E o \in {"reask", "forgetAnswered"} :
                       /\ tasks' = [tasks EXCEPT ![w] = (@ \ {t}) \cup {task(o, "user", NewestMark(w))}]
                       /\ (o = "reask") = ~Answered(w, NewestMark(w))
<1>1. marks[w] \in Seq(Exchange)
  BY DEF TypeOK
<1>2. marks[w] # <<>> => NewestMark(w) \in Exchange /\ Len(marks[w]) \in 1..Len(marks[w])
                          /\ NewestMark(w) = marks[w][Len(marks[w])]
  BY <1>1 DEF NewestMark
<1> QED BY <1>2 DEF RestoreAsk, Runs

-----------------------------------------------------------------------------
(* Consent before a card.  The invariant follows the consent from the propose that was
   received, over the question and its answer, to the acceptance that starts a delivery. *)

\* The other wallet's propose on the exchange is retained here.
Proposed(w, e) == doc("propose", e, Other(w)) \in docs[w]

\* This wallet accepted on the exchange.
Accepted(w, e) == doc("accept", e, w) \in docs[w]

\* One of the two persons was asked on the exchange, and accepted.
Consented(e) == \E r \in Wallet : Accepted(r, e) /\ Proposed(r, e)

\* Only a propose that was received is asked, marked, or accepted.
Asking ==
    \A w \in Wallet :
        /\ \A t \in tasks[w] : t.op \in {"ask", "accept", "reask"} => Proposed(w, t.ex)
        /\ prompt[w] # NoExchange => Proposed(w, prompt[w])
        /\ \A i \in 1..Len(marks[w]) : Proposed(w, marks[w][i])

\* Only what the person accepted is retained, on its way, or in transit as an acceptance.
Accepting ==
    \A w \in Wallet :
        /\ \A e \in Exchange : Accepted(w, e) => Proposed(w, e)
        /\ \A t \in tasks[w] : t.op = "forgetAccepted" => Accepted(w, t.ex)
        /\ \A d \in sending[w] : d.kind = "accept" => Accepted(w, d.ex)
        /\ \A d \in Queued(w) : d.kind = "accept" => Accepted(Other(w), d.ex)

\* A delivery runs, is held, or is done only on an exchange that has consent.
Giving ==
    \A w \in Wallet :
        /\ \A t \in tasks[w] \cup deferred[w] \cup kept[w] : Delivering(t) => Consented(t.ex)
        /\ \A e \in Exchange : AlreadyIssued(w, e) => Consented(e)

\* Only an announcement, an opening or a delivery is held.
HeldOps ==
    \A w \in Wallet : \A t \in deferred[w] \cup kept[w] :
        t.op \in {"announce", "maybeOpen", "deliver"}

\* The inductive invariant of ConsentBeforeCard.
ConsentInv == TypeOK /\ InTransit /\ HeldOps /\ Asking /\ Accepting /\ Giving

\* A consent once given stays on file.
LEMMA ConsentStays ==
    ASSUME TypeOK, NEW w \in Wallet, System(w) \/ Environment(w)
    PROVE  /\ \A v \in Wallet, e \in Exchange : Proposed(v, e) => Proposed(v, e)'
           /\ \A v \in Wallet, e \in Exchange : Accepted(v, e) => Accepted(v, e)'
           /\ \A e \in Exchange : Consented(e) => Consented(e)'
<1>1. \A v \in Wallet : docs[v] \subseteq docs'[v]
  BY DocsStay
<1> QED BY <1>1 DEF Proposed, Accepted, Consented

\* Forgetting marks makes none.
LEMMA MarksOld ==
    ASSUME NEW m \in Seq(Exchange), NEW e \in Exchange, NEW i \in 1..Len(MarksWithout(m, e))
    PROVE  \E j \in 1..Len(m) : MarksWithout(m, e)[i] = m[j]
<1> DEFINE own == {k \in 1..Len(m) : m[k] = e}
           last == CHOOSE k \in own : \A j \in own : j <= k
<1>1. CASE own = {}
  <2>1. Len(MarksWithout(m, e)) = 0
    BY <1>1 DEF MarksWithout
  <2> HIDE DEF own
  <2> QED BY <2>1
<1>2. CASE own # {}
  <2>1. last \in own
    <3>1. \E k \in own : \A j \in own : j <= k
      <4> HIDE DEF own
      <4>1. own \subseteq 1..Len(m) /\ Len(m) \in Nat
        BY DEF own
      <4> QED BY <1>2, <4>1, LastIndex
    <3> HIDE DEF own
    <3> QED BY <3>1
  <2>2. last \in 1..Len(m) /\ Len(m) \in Nat
    <3> HIDE DEF last
    <3> QED BY <2>1
  <2> DEFINE s == SubSeq(m, last + 1, Len(m))
  <2>3. MarksWithout(m, e) = s
    BY <1>2 DEF MarksWithout
  <2>4. CASE last = Len(m)
    <3> HIDE DEF last
    <3>1. s = <<>>
      BY <2>2, <2>4, SubSeqProperties
    <3> HIDE DEF s
    <3>2. Len(MarksWithout(m, e)) = 0
      BY <2>3, <3>1
    <3> QED BY <3>2
  <2>5. CASE last # Len(m)
    <3> HIDE DEF last, own
    <3>1. last + 1 \in 1..Len(m) /\ \A k \in (last + 1)..Len(m) : m[k] \in Exchange
      BY <2>2, <2>5
    <3>2. Len(s) = Len(m) - last
      BY <2>2, <2>5, <3>1, SubSeqProperties
    <3>3. i \in 1..(Len(m) - last) /\ i \in 1..(Len(m) - (last + 1) + 1)
      <4> HIDE DEF s
      <4> QED BY <2>2, <2>3, <3>2
    <3>4. s[i] = m[last + 1 + i - 1]
      BY <2>2, <2>5, <3>1, <3>3, SubSeqProperties
    <3>5. last + 1 + i - 1 \in 1..Len(m)
      BY <2>2, <3>3
    <3> HIDE DEF s
    <3> QED BY <2>3, <3>4, <3>5
  <2> QED BY <2>4, <2>5
<1> QED BY <1>1, <1>2

\* What a step retains was received, or is of a kind that a running function makes.
LEMMA DocsOrigin ==
    ASSUME TypeOK, InTransit, NEW w \in Wallet, System(w) \/ Environment(w),
           NEW v \in Wallet, NEW d \in docs'[v], d \notin docs[v]
    PROVE  /\ v = w
           /\ \/ d \in Queued(w) /\ d.from = Other(w)
              \/ /\ d.from = w
                 /\ d.kind = "accept" => \E t \in tasks[w] : t.op = "accept" /\ t.ex = d.ex
                 /\ d.kind = "declined" => \E t \in tasks[w] : t.op = "decline"
                 /\ d.kind = "issue" => \E t \in tasks[w] : t.op = "sign" /\ t.ex = d.ex
<1> DEFINE Mine == /\ d.from = w
                   /\ d.kind = "accept" => \E t \in tasks[w] : t.op = "accept" /\ t.ex = d.ex
                   /\ d.kind = "declined" => \E t \in tasks[w] : t.op = "decline"
                   /\ d.kind = "issue" => \E t \in tasks[w] : t.op = "sign" /\ t.ex = d.ex
<1>0. docs \in [Wallet -> SUBSET Doc]
  BY DEF TypeOK
<1>1. CASE docs' = docs
  BY <1>1
<1>2. CASE Receive(w) \/ ReceiveTwice(w)
  <2>1. PICK m \in Queued(w) : m \in Doc /\ Handle(w, m)
    BY <1>2, Handled
  <2>2. m.from = Other(w)
    BY DEF InTransit
  <2>3. CASE RecvPropose(w, m)
    <3>1. docs' = [docs EXCEPT ![w] = @ \cup ({m} \cup
               IF IsUpgrade(w, m.ex) /\ record[w] # "both" THEN {doc("mismatch", m.ex, w)} ELSE {})]
      BY <2>3 DEF RecvPropose, Retain
    <3> QED BY <1>0, <2>2, <3>1 DEF doc
  <2>4. CASE RecvIssue(w, m)
    <3>1. \E D \in {{m, doc("receipt", m.ex, w)}, {m}} : docs' = [docs EXCEPT ![w] = @ \cup D]
      BY <2>4 DEF RecvIssue, Retain
    <3> QED BY <1>0, <2>2, <3>1 DEF doc
  <2>5. CASE RecvQuery(w, m) \/ RecvAnswer(w, m) \/ RecvAccept(w, m) \/ RecvOther(w, m)
    BY <1>0, <2>2, <2>5 DEF RecvQuery, RecvAnswer, RecvAccept, RecvOther, Retain, doc
  <2>6. CASE RecvAnnounce(w) \/ RecvStop(w)
    BY <1>0, <2>6 DEF RecvAnnounce, RecvStop
  <2> QED BY <2>1, <2>3, <2>4, <2>5, <2>6 DEF Handle
<1>3. CASE \E t \in tasks[w] : MaybeOpen(w, t)
  BY <1>0, <1>3 DEF MaybeOpen, Retain, Query, doc
<1>4. CASE \E t \in tasks[w] : Accept(w, t) \/ Decline(w, t) \/ Issue(w, t)
  BY <1>0, <1>4 DEF Accept, Decline, Issue, Retain, doc
<1>5. CASE \E e \in Exchange : Upgrade(w, e) \/ \E t \in tasks[w] : Propose(w, t, e)
  BY <1>0, <1>5 DEF Upgrade, Propose, Retain, doc
<1>6. CASE \E m \in sending[w] : Send(w, m)
  BY <1>0, <1>6 DEF Send, AfterSend, Retain, Query, doc
<1> QED BY <1>1, <1>2, <1>3, <1>4, <1>5, <1>6 DEF System, Run, Connect, Restart, Announce, OpenCheck, Ask,
           Forget, DeliverCheck, RestoreHold, Sweep, RestoreAsk, Reask, ForgetAnswered, Environment, Respond,
           Withdraw, Release, Stop, Crash, DeliveryFails, SendFails, durable

\* An acceptance is sent once its marks are forgotten, and never otherwise.
LEMMA SendingOrigin ==
    ASSUME TypeOK, NEW w \in Wallet, System(w) \/ Environment(w),
           NEW v \in Wallet, NEW d \in sending'[v], d \notin sending[v], d.kind = "accept"
    PROVE  v = w /\ \E t \in tasks[w] : t.op = "forgetAccepted" /\ t.ex = d.ex
<1>0. sending \in [Wallet -> SUBSET Doc]
  BY DEF TypeOK
<1>1. CASE sending' = sending
  BY <1>1
<1>2. CASE Receive(w) \/ ReceiveTwice(w)
  <2>1. PICK m \in Queued(w) : m \in Doc /\ Handle(w, m)
    BY <1>2, Handled
  <2> QED BY <1>0, <2>1 DEF Handle, RecvAnnounce, RecvStop, RecvQuery, RecvAnswer, RecvPropose,
             RecvAccept, RecvIssue, RecvOther, SendNext, doc
<1>3. ASSUME \E D : SendNext(w, D) /\ \A m \in D : m.kind # "accept"
      PROVE  FALSE
  BY <1>0, <1>3 DEF SendNext
<1>a. CASE \E t \in tasks[w] : Announce(w, t) \/ Issue(w, t) \/ \E e \in Exchange : Propose(w, t, e)
  <2>1. PICK k \in {"announce", "issue", "propose"} : \E e : SendNext(w, {doc(k, e, w)})
    BY <1>a DEF Announce, Issue, Propose
  <2> QED BY <1>3, <2>1 DEF doc
<1>b. CASE \E t \in tasks[w] : MaybeOpen(w, t)
  <2>1. SendNext(w, Query(w)) \/ SendNext(w, {})
    BY <1>b DEF MaybeOpen
  <2> QED BY <1>3, <2>1 DEF Query, doc
<1>4. CASE \E t \in tasks[w] : Forget(w, t)
  BY <1>0, <1>4 DEF Forget, SendNext, doc
<1>5. CASE \E m \in sending[w] : Send(w, m) \/ SendFails(w, m)
  BY <1>0, <1>5 DEF Send, SendFails, AfterSend, Query, doc
<1>6. CASE Stop(w) \/ \E e \in Exchange : Upgrade(w, e)
  <2>1. PICK k \in {"stop", "propose"} : \E e : SendNext(w, {doc(k, e, w)})
    BY <1>6 DEF Stop, Upgrade
  <2> QED BY <1>3, <2>1 DEF doc
<1>7. CASE Crash(w)
  BY <1>0, <1>7 DEF Crash
<1> QED BY <1>1, <1>2, <1>a, <1>b, <1>7, <1>4, <1>5, <1>6 DEF System, Run, Connect, Restart, OpenCheck, Ask, Accept,
           Decline, DeliverCheck, RestoreHold, Sweep, RestoreAsk, Reask, ForgetAnswered, Environment, Respond,
           Withdraw, Release, DeliveryFails, volatile

\* A function that asks, answers or delivers was started by what it acts on.
LEMMA TasksOrigin ==
    ASSUME TypeOK, InTransit, HeldOps, NEW w \in Wallet, System(w) \/ Environment(w),
           NEW v \in Wallet, NEW t \in tasks'[v], t \notin tasks[v]
    PROVE  /\ v = w
           /\ t.op = "ask" => Proposed(w, t.ex)'
           /\ t.op = "accept" => prompt[w] # NoExchange /\ t.ex = prompt[w]
           /\ t.op = "reask" => \E i \in 1..Len(marks[w]) : t.ex = marks[w][i]
           /\ t.op = "forgetAccepted" => Accepted(w, t.ex)'
           /\ Delivering(t) =>
                 \/ t \in deferred[w]
                 \/ \E s \in tasks[w] : Delivering(s) /\ s.ex = t.ex
                 \/ \E d \in sending[w] \cup Queued(w) : d.kind = "accept" /\ d.ex = t.ex
<1>0. /\ tasks \in [Wallet -> SUBSET Task] /\ docs \in [Wallet -> SUBSET Doc]
      /\ deferred \in [Wallet -> SUBSET Task]
  BY DEF TypeOK
<1>1. CASE Receive(w) \/ ReceiveTwice(w)
  <2>1. PICK m \in Queued(w) : m \in Doc /\ Handle(w, m)
    BY <1>1, Handled
  <2>2. m.from = Other(w)
    BY DEF InTransit
  <2>3. CASE RecvPropose(w, m) /\ m.kind = "propose"
    <3>1. v = w /\ t = task("ask", "inbound", m.ex) /\ m \in docs'[w]
      BY <1>0, <2>3 DEF RecvPropose, Retain
    <3>2. m = doc("propose", m.ex, Other(w))
      BY <2>1, <2>2, <2>3 DEF Doc, doc
    <3>3. Proposed(w, m.ex)'
      BY <3>1, <3>2 DEF Proposed
    <3>4. t.op = "ask" /\ t.ex = m.ex /\ ~Delivering(t)
      BY <3>1 DEF task, Delivering
    <3> QED BY <3>1, <3>3, <3>4
  <2>4. CASE RecvAccept(w, m) /\ m.kind = "accept"
    <3>1. v = w /\ t = task("deliver", "inbound", m.ex)
      BY <1>0, <2>4 DEF RecvAccept, Proceed, Hold, StartDelivery
    <3>2. t.op = "deliver" /\ t.ex = m.ex
      BY <3>1 DEF task
    <3> QED BY <2>4, <3>1, <3>2
  <2>5. CASE RecvAnnounce(w) \/ RecvAnswer(w, m)
    BY <1>0, <2>5 DEF RecvAnnounce, RecvAnswer, task, Delivering
  <2>6. CASE RecvStop(w) \/ RecvQuery(w, m) \/ RecvIssue(w, m) \/ RecvOther(w, m)
    BY <1>0, <2>6 DEF RecvStop, RecvQuery, RecvIssue, RecvOther
  <2> QED BY <2>1, <2>3, <2>4, <2>5, <2>6 DEF Handle
<1>2. CASE Connect(w)
  <2>1. v = w /\ t = task("announce", "release", NoExchange)
    BY <1>0, <1>2 DEF Connect, Proceed, Hold
  <2> QED BY <2>1 DEF task, Delivering
<1>3. CASE Restart(w)
  BY <1>0, <1>3 DEF Restart, task, Delivering
<1>4. ASSUME NEW s \in tasks[w], Accept(w, s) PROVE v = w /\ t.op = "forgetAccepted" /\ Accepted(w, t.ex)'
  <2>1. v = w /\ t = task("forgetAccepted", "user", s.ex) /\ doc("accept", s.ex, w) \in docs'[w]
    BY <1>0, <1>4 DEF Accept, Runs, Retain
  <2> QED BY <2>1 DEF task, Accepted
<1>5. CASE \E s \in tasks[w] : DeliverCheck(w, s)
  BY <1>0, <1>5 DEF DeliverCheck, Runs, task, Delivering
<1>6. CASE \E s \in tasks[w] : MaybeOpen(w, s) \/ OpenCheck(w, s) \/ Decline(w, s) \/ Sweep(w, s)
  BY <1>0, <1>6 DEF MaybeOpen, OpenCheck, Decline, Sweep, Runs, task, Delivering
<1>7. CASE \E s \in tasks[w] : \/ Announce(w, s) \/ Ask(w, s) \/ Forget(w, s) \/ Issue(w, s)
                               \/ RestoreHold(w, s) \/ Reask(w, s) \/ ForgetAnswered(w, s)
                               \/ DeliveryFails(w, s)
                               \/ \E e \in Exchange : Propose(w, s, e)
  <2>1. PICK s \in tasks[w] : Runs(w, s, {})
    BY <1>7 DEF Announce, Ask, Forget, Issue, RestoreHold, Reask, ForgetAnswered, DeliveryFails, Propose
  <2> QED BY <1>0, <2>1 DEF Runs
<1>8. CASE \E d \in sending[w] : Send(w, d)
  <2>1. PICK d \in sending[w] : Send(w, d)
    BY <1>8
  <2>2. d.kind = "accept" /\ v = w /\ t = task("deliver", "user", d.ex)
    BY <1>0, <2>1 DEF Send, AfterSend, StartDelivery
  <2>3. t.op = "deliver" /\ t.ex = d.ex
    BY <2>2 DEF task
  <2> QED BY <2>2, <2>3
<1>9. CASE \E a \in {"accept", "decline"} : Respond(w, a)
  BY <1>0, <1>9 DEF Respond, task, Delivering
<1>10. CASE Release(w) \/ Crash(w)
  <2>1. v = w /\ t \in deferred[w]
    BY <1>0, <1>10 DEF Release, Crash
  <2>2. t.op \in {"announce", "maybeOpen", "deliver"}
    BY <2>1 DEF HeldOps
  <2> QED BY <2>1, <2>2
<1>11. CASE tasks' = tasks
  BY <1>11
<1>12. CASE \E s \in tasks[w] : RestoreAsk(w, s)
  <2>1. PICK s \in tasks[w] : RestoreAsk(w, s)
    BY <1>12
  <2>2. /\ v = w /\ Len(marks[w]) \in 1..Len(marks[w]) /\ NewestMark(w) = marks[w][Len(marks[w])]
        /\ \E o \in {"reask", "forgetAnswered"} : t = task(o, "user", NewestMark(w))
    BY <1>0, <2>1, RestoreGoesOn
  <2> QED BY <2>2 DEF task, Delivering
<1> QED BY <1>1, <1>2, <1>3, <1>4, <1>5, <1>6, <1>7, <1>8, <1>9, <1>10, <1>11, <1>12
    DEF System, Run, Environment, Upgrade, Withdraw, Stop, SendFails, volatile, Delivering

\* What is held is what a message that came late would have started.
LEMMA HeldOrigin ==
    ASSUME TypeOK, NEW w \in Wallet, System(w) \/ Environment(w),
           NEW v \in Wallet, NEW t \in deferred'[v] \cup kept'[v],
           t \notin deferred[v] \cup kept[v]
    PROVE  /\ v = w
           /\ t.op \in {"announce", "maybeOpen", "deliver"}
           /\ t.op = "deliver" => \E d \in Queued(w) : d.kind = "accept" /\ d.ex = t.ex
           /\ t.op = "maybeOpen" => \E d \in Queued(w) : d.kind = "announce"
<1>0. deferred \in [Wallet -> SUBSET Task] /\ kept \in [Wallet -> SUBSET Task]
  BY DEF TypeOK
<1>1. CASE Receive(w) \/ ReceiveTwice(w)
  <2>1. PICK m \in Queued(w) : m \in Doc /\ Handle(w, m)
    BY <1>1, Handled
  <2>2. CASE RecvAnnounce(w) /\ m.kind = "announce"
    <3>1. v = w /\ t = task("maybeOpen", "inbound", NoExchange)
      BY <1>0, <2>2 DEF RecvAnnounce
    <3>2. t.op = "maybeOpen"
      BY <3>1 DEF task
    <3> QED BY <2>2, <3>1, <3>2
  <2>3. CASE RecvAccept(w, m) /\ m.kind = "accept"
    <3>1. v = w /\ t = task("deliver", "release", m.ex)
      BY <1>0, <2>3 DEF RecvAccept, Proceed, Hold
    <3>2. t.op = "deliver" /\ t.ex = m.ex
      BY <3>1 DEF task
    <3> QED BY <2>3, <3>1, <3>2
  <2>4. CASE ~(RecvAnnounce(w) /\ m.kind = "announce") /\ ~(RecvAccept(w, m) /\ m.kind = "accept")
    BY <1>0, <2>1, <2>4 DEF Handle, RecvStop, RecvQuery, RecvAnswer, RecvPropose, RecvIssue, RecvOther
  <2> QED BY <2>2, <2>3, <2>4
<1>2. CASE Connect(w)
  <2>1. v = w /\ t = task("announce", "release", NoExchange)
    BY <1>0, <1>2 DEF Connect, Proceed, Hold
  <2> QED BY <2>1 DEF task
<1>3. CASE (System(w) \/ Environment(w)) /\ ~Connect(w) /\ ~Receive(w) /\ ~ReceiveTwice(w)
  BY <1>0, <1>3 DEF System, Run, Restart, Announce, MaybeOpen, OpenCheck, Propose, Ask, Accept,
     Decline, Forget, DeliverCheck, Issue, RestoreHold, Sweep, RestoreAsk, Reask, ForgetAnswered, Send, Environment,
     Respond, Upgrade, Withdraw, Release, Stop, Crash, DeliveryFails, SendFails, durable, volatile
<1> QED BY <1>1, <1>2, <1>3

\* What is put on screen or marked was asked.
LEMMA ScreenOrigin ==
    ASSUME TypeOK, NEW w \in Wallet, System(w) \/ Environment(w), NEW v \in Wallet
    PROVE  /\ \/ prompt'[v] = prompt[v]
              \/ prompt'[v] = NoExchange
              \/ \E t \in tasks[v] : t.op \in {"ask", "reask"} /\ t.ex = prompt'[v]
           /\ \A i \in 1..Len(marks'[v]) :
                 \/ \E j \in 1..Len(marks[v]) : marks'[v][i] = marks[v][j]
                 \/ \E t \in tasks[v] : t.op = "ask" /\ t.ex = marks'[v][i]
<1>0. /\ marks \in [Wallet -> Seq(Exchange)] /\ prompt \in [Wallet -> Exchange \cup {NoExchange}]
      /\ tasks \in [Wallet -> SUBSET Task]
  BY DEF TypeOK
<1>1. CASE marks'[v] = marks[v] /\ prompt'[v] = prompt[v]
  BY <1>1
<1>2. CASE Receive(w) \/ ReceiveTwice(w)
  BY <1>1, <1>2, Handled, TypeHandle
<1>3. CASE v # w
  BY <1>1, <1>3, OnlyItsOwn
<1>4. ASSUME NEW t \in tasks[w], v = w, Ask(w, t)
      PROVE  /\ t.op = "ask" /\ t.ex = prompt'[v]
             /\ \A i \in 1..Len(marks'[v]) :
                   (\E j \in 1..Len(marks[v]) : marks'[v][i] = marks[v][j]) \/ t.ex = marks'[v][i]
  <2>1. t.op = "ask" /\ prompt'[w] = t.ex /\ marks'[w] = Append(marks[w], t.ex)
        /\ t.ex \in Exchange
    BY <1>0, <1>4, TaskEx DEF Ask, Answering
  <2>2. \A i \in 1..Len(Append(marks[w], t.ex)) :
           Append(marks[w], t.ex)[i] \in {marks[w][j] : j \in 1..Len(marks[w])} \cup {t.ex}
    BY <1>0, <2>1, QueueOps
  <2> QED BY <1>4, <2>1, <2>2
<1>5. ASSUME NEW t \in tasks[w], v = w, Forget(w, t) \/ ForgetAnswered(w, t)
      PROVE  /\ prompt'[v] = prompt[v]
             /\ \A i \in 1..Len(marks'[v]) : \E j \in 1..Len(marks[v]) : marks'[v][i] = marks[v][j]
  <2>1. prompt' = prompt /\ marks'[w] = MarksWithout(marks[w], t.ex) /\ t.ex \in Exchange
    BY <1>0, <1>5, TaskEx DEF Forget, ForgetAnswered, Answering
  <2> QED BY <1>0, <1>5, <2>1, MarksOld
<1>6. ASSUME NEW t \in tasks[w], v = w, Reask(w, t)
      PROVE  t.op = "reask" /\ t.ex = prompt'[v] /\ marks' = marks
  BY <1>0, <1>6 DEF Reask, durable
<1>7. CASE Crash(w) \/ \E a \in {"accept", "decline"} : Respond(w, a)
  BY <1>0, <1>7 DEF Crash, Respond, durable
<1>8. CASE \E t \in tasks[w] : Run(w, t) /\ ~Ask(w, t) /\ ~Forget(w, t) /\ ~ForgetAnswered(w, t) /\ ~Reask(w, t)
  BY <1>1, <1>8 DEF Run, Announce, MaybeOpen, OpenCheck, Propose, Accept, Decline, DeliverCheck, Issue,
     RestoreHold, Sweep, RestoreAsk, durable
<1>9. CASE \E d \in sending[w] : Send(w, d) \/ SendFails(w, d)
  BY <1>1, <1>9 DEF Send, SendFails, durable
<1>10. CASE \/ Connect(w) \/ Restart(w) \/ Release(w) \/ Stop(w)
            \/ \E e \in Exchange : Upgrade(w, e) \/ Withdraw(w, e)
            \/ \E t \in tasks[w] : DeliveryFails(w, t)
  BY <1>1, <1>10 DEF Connect, Restart, Release, Stop, Upgrade, Withdraw, DeliveryFails, durable, volatile
<1> QED BY <1>1, <1>2, <1>3, <1>4, <1>5, <1>6, <1>7, <1>8, <1>9, <1>10 DEF System, Environment, Run

\* The questions, the marks and the answers of a step are about proposes received.
LEMMA AskingStep ==
    ASSUME ConsentInv, NEW w \in Wallet, System(w) \/ Environment(w)
    PROVE  Asking'
<1>0. TypeOK /\ InTransit /\ HeldOps /\ tasks \in [Wallet -> SUBSET Task]
      /\ marks \in [Wallet -> Seq(Exchange)] /\ prompt \in [Wallet -> Exchange \cup {NoExchange}]
  BY DEF ConsentInv, TypeOK
<1>1. TypeOK'
  BY <1>0, TypeSystem, TypeEnvironment
<1>2. \A v \in Wallet, e \in Exchange : Proposed(v, e) => Proposed(v, e)'
  BY <1>0, ConsentStays
<1>3. ASSUME NEW v \in Wallet, NEW t \in tasks'[v], t.op \in {"ask", "accept", "reask"}
      PROVE  Proposed(v, t.ex)'
  <2>1. CASE t \in tasks[v]
    <3>1. t.ex \in Exchange /\ Proposed(v, t.ex)
      BY <1>0, <1>3, <2>1, TaskEx DEF ConsentInv, Asking, Answering
    <3> QED BY <1>2, <3>1
  <2>2. CASE t \notin tasks[v]
    <3>1. v = w /\ (t.op = "ask" => Proposed(w, t.ex)')
               /\ (t.op = "accept" => prompt[w] # NoExchange /\ t.ex = prompt[w])
               /\ (t.op = "reask" => \E i \in 1..Len(marks[w]) : t.ex = marks[w][i])
      BY <1>0, <2>2, TasksOrigin
    <3>2. t.op \in {"accept", "reask"} => t.ex \in Exchange /\ Proposed(w, t.ex)
      BY <1>0, <3>1 DEF ConsentInv, Asking
    <3> QED BY <1>2, <1>3, <3>1, <3>2
  <2> QED BY <2>1, <2>2
<1>4. ASSUME NEW v \in Wallet, prompt'[v] # NoExchange
      PROVE  Proposed(v, prompt[v])'
  <2>1. PICK e \in Exchange : e = prompt'[v]
    BY <1>1, <1>4 DEF TypeOK
  <2>2. \/ prompt'[v] = prompt[v]
        \/ \E t \in tasks[v] : t.op \in {"ask", "reask"} /\ t.ex = prompt'[v]
    BY <1>0, <1>4, ScreenOrigin
  <2>3. Proposed(v, e)
    BY <1>4, <2>1, <2>2 DEF ConsentInv, Asking
  <2>4. Proposed(v, e)'
    BY <1>2, <2>3
  <2> QED BY <2>1, <2>4 DEF Proposed
<1>5. ASSUME NEW v \in Wallet, NEW i \in 1..Len(marks'[v])
      PROVE  Proposed(v, marks[v][i])'
  <2>1. PICK e \in Exchange : e = marks'[v][i]
    BY <1>1, <1>5 DEF TypeOK
  <2>2. \/ \E j \in 1..Len(marks[v]) : marks'[v][i] = marks[v][j]
        \/ \E t \in tasks[v] : t.op = "ask" /\ t.ex = marks'[v][i]
    BY <1>0, ScreenOrigin
  <2>3. Proposed(v, e)
    BY <2>1, <2>2 DEF ConsentInv, Asking
  <2>4. Proposed(v, e)'
    BY <1>2, <2>3
  <2> QED BY <2>1, <2>4 DEF Proposed
<1> QED BY <1>3, <1>4, <1>5 DEF Asking

\* The acceptances of a step are the person's.
LEMMA AcceptingStep ==
    ASSUME ConsentInv, NEW w \in Wallet, System(w) \/ Environment(w)
    PROVE  Accepting'
<1>t. TypeOK /\ InTransit /\ HeldOps
  BY DEF ConsentInv
<1>0. TypeOK /\ InTransit /\ HeldOps /\ tasks \in [Wallet -> SUBSET Task]
      /\ sending \in [Wallet -> SUBSET Doc] /\ inbox \in [Wallet -> Seq(Doc)]
  BY DEF ConsentInv, TypeOK
<1>1. \A v \in Wallet, e \in Exchange :
         (Accepted(v, e) => Accepted(v, e)') /\ (Proposed(v, e) => Proposed(v, e)')
  BY <1>0, ConsentStays
<1>2. ASSUME NEW v \in Wallet, NEW e \in Exchange, Accepted(v, e)'
      PROVE  Proposed(v, e)'
  <2>1. CASE Accepted(v, e)
    BY <1>1, <2>1 DEF ConsentInv, Accepting
  <2>2. CASE ~Accepted(v, e)
    <3> DEFINE d == doc("accept", e, v)
    <3>1. d \in docs'[v] /\ d \notin docs[v] /\ d.from = v /\ d.kind = "accept" /\ d.ex = e
      BY <1>2, <2>2 DEF Accepted, doc
    <3> HIDE DEF d
    <3>a. /\ v = w
          /\ \/ d \in Queued(w) /\ d.from = Other(w)
             \/ d.kind = "accept" => \E t \in tasks[w] : t.op = "accept" /\ t.ex = d.ex
      BY <1>t, <3>1, DocsOrigin
    <3>2. v = w /\ \E t \in tasks[w] : t.op = "accept" /\ t.ex = e
      BY <3>1, <3>a, OtherTyped
    <3>3. Proposed(v, e)
      BY <3>2 DEF ConsentInv, Asking
    <3> QED BY <1>1, <3>3
  <2> QED BY <2>1, <2>2
<1>3. ASSUME NEW v \in Wallet, NEW t \in tasks'[v], t.op = "forgetAccepted"
      PROVE  Accepted(v, t.ex)'
  <2>1. CASE t \in tasks[v]
    <3>1. t.ex \in Exchange /\ Accepted(v, t.ex)
      BY <1>0, <1>3, <2>1, TaskEx DEF ConsentInv, Accepting, Answering
    <3> QED BY <1>1, <3>1
  <2>2. CASE t \notin tasks[v]
    BY <1>0, <1>3, <2>2, TasksOrigin
  <2> QED BY <2>1, <2>2
<1>4. ASSUME NEW v \in Wallet, NEW d \in sending'[v], d.kind = "accept"
      PROVE  Accepted(v, d.ex)'
  <2>1. CASE d \in sending[v]
    <3>1. d.ex \in Exchange /\ Accepted(v, d.ex)
      BY <1>0, <1>4, <2>1, DocEx DEF ConsentInv, Accepting, OnExchange
    <3> QED BY <1>1, <3>1
  <2>2. CASE d \notin sending[v]
    <3>1. PICK t \in tasks[w] : v = w /\ t.op = "forgetAccepted" /\ t.ex = d.ex
      BY <1>0, <1>4, <2>2, SendingOrigin
    <3>2. t.ex \in Exchange /\ Accepted(w, t.ex)
      BY <1>0, <3>1, TaskEx DEF ConsentInv, Accepting, Answering
    <3> QED BY <1>1, <3>1, <3>2
  <2> QED BY <2>1, <2>2
<1>5. ASSUME NEW v \in Wallet, NEW d \in Queued(v)', d.kind = "accept"
      PROVE  Accepted(Other(v), d.ex)'
  <2>1. CASE d \in Queued(v)
    <3>1. d \in Doc
      BY <1>0, <2>1 DEF Queued
    <3>2. d.ex \in Exchange /\ Other(v) \in Wallet /\ Accepted(Other(v), d.ex)
      BY <1>5, <2>1, <3>1, DocEx, OtherTyped DEF ConsentInv, Accepting, OnExchange
    <3> QED BY <1>1, <3>2
  <2>2. CASE d \notin Queued(v)
    <3>1. inbox' # inbox /\ ~(Queued(v)' \subseteq Queued(v))
      BY <1>5, <2>2 DEF Queued
    <3>2. PICK m \in sending[w] : /\ Queued(w)' = Queued(w)
                                   /\ Queued(Other(w))' \subseteq Queued(Other(w)) \cup {m}
      BY <1>0, <3>1, QueueStep
    <3>3. v = Other(w) /\ Other(v) = w /\ d = m
      BY <1>5, <2>2, <3>1, <3>2, OtherTyped DEF Wallet, Other
    <3>4. d.ex \in Exchange /\ Accepted(w, d.ex)
      BY <1>0, <1>5, <3>3, DocEx DEF ConsentInv, Accepting, OnExchange
    <3> QED BY <1>1, <3>3, <3>4
  <2> QED BY <2>1, <2>2
<1> QED BY <1>2, <1>3, <1>4, <1>5 DEF Accepting

\* A step starts, holds and does only deliveries that have consent.
LEMMA GivingStep ==
    ASSUME ConsentInv, NEW w \in Wallet, System(w) \/ Environment(w)
    PROVE  Giving'
<1>t. TypeOK /\ InTransit /\ HeldOps
  BY DEF ConsentInv
<1>0. TypeOK /\ InTransit /\ HeldOps /\ tasks \in [Wallet -> SUBSET Task]
      /\ sending \in [Wallet -> SUBSET Doc] /\ inbox \in [Wallet -> Seq(Doc)]
      /\ deferred \in [Wallet -> SUBSET Task] /\ kept \in [Wallet -> SUBSET Task]
  BY DEF ConsentInv, TypeOK
<1>1. \A e \in Exchange : Consented(e) => Consented(e)'
  BY <1>0, ConsentStays
<1>2. \A e \in Exchange, r \in Wallet : Accepted(r, e) => Consented(e)
  BY DEF ConsentInv, Accepting, Consented
<1>3. ASSUME NEW d \in sending[w] \cup Queued(w), d.kind = "accept"
      PROVE  d.ex \in Exchange /\ Consented(d.ex)
  <2>1. d \in Doc
    BY <1>0 DEF Queued
  <2>2. d.ex \in Exchange /\ Other(w) \in Wallet
    BY <1>3, <2>1, DocEx, OtherTyped DEF OnExchange
  <2>3. Accepted(w, d.ex) \/ Accepted(Other(w), d.ex)
    BY <1>3 DEF ConsentInv, Accepting
  <2> QED BY <1>2, <2>2, <2>3
<1>4. ASSUME NEW v \in Wallet, NEW t \in tasks[v] \cup deferred[v] \cup kept[v], Delivering(t)
      PROVE  t.ex \in Exchange /\ Consented(t.ex)
  BY <1>0, <1>4, TaskEx DEF ConsentInv, Giving, Delivering, Answering
<1>5. ASSUME NEW v \in Wallet, NEW t \in tasks'[v] \cup deferred'[v] \cup kept'[v], Delivering(t)
      PROVE  Consented(t.ex)'
  <2>1. CASE t \in tasks[v] \cup deferred[v] \cup kept[v]
    BY <1>1, <1>4, <1>5, <2>1
  <2>2. CASE t \in tasks'[v] /\ t \notin tasks[v]
    <3>1. /\ v = w
          /\ \/ t \in deferred[w]
             \/ \E s \in tasks[w] : Delivering(s) /\ s.ex = t.ex
             \/ \E d \in sending[w] \cup Queued(w) : d.kind = "accept" /\ d.ex = t.ex
      BY <1>t, <1>5, <2>2, TasksOrigin
    <3> QED BY <1>1, <1>3, <1>4, <1>5, <3>1
  <2>3. CASE t \in deferred'[v] \cup kept'[v] /\ t \notin deferred[v] \cup kept[v]
    <3>1. /\ v = w /\ t.op \in {"announce", "maybeOpen", "deliver"}
          /\ t.op = "deliver" => \E d \in Queued(w) : d.kind = "accept" /\ d.ex = t.ex
      BY <1>t, <2>3, HeldOrigin
    <3>2. \E d \in Queued(w) : d.kind = "accept" /\ d.ex = t.ex
      BY <1>5, <3>1 DEF Delivering
    <3> QED BY <1>1, <1>3, <3>2
  <2> QED BY <1>5, <2>1, <2>2, <2>3
<1>6. ASSUME NEW v \in Wallet, NEW e \in Exchange, AlreadyIssued(v, e)'
      PROVE  Consented(e)'
  <2>1. CASE AlreadyIssued(v, e)
    BY <1>1, <2>1 DEF ConsentInv, Giving
  <2>2. CASE ~AlreadyIssued(v, e)
    <3> DEFINE d == doc("issue", e, v)
    <3>1. d \in docs'[v] /\ d \notin docs[v] /\ d.from = v /\ d.kind = "issue" /\ d.ex = e
      BY <1>6, <2>2 DEF AlreadyIssued, doc
    <3> HIDE DEF d
    <3>a. /\ v = w
          /\ \/ d \in Queued(w) /\ d.from = Other(w)
             \/ d.kind = "issue" => \E t \in tasks[w] : t.op = "sign" /\ t.ex = d.ex
      BY <1>t, <3>1, DocsOrigin
    <3>2. \E t \in tasks[w] : t.op = "sign" /\ t.ex = e
      BY <3>1, <3>a, OtherTyped
    <3> QED BY <1>1, <1>4, <3>2 DEF Delivering
  <2> QED BY <2>1, <2>2
<1> QED BY <1>5, <1>6 DEF Giving

\* The invariant of consent holds at first.
LEMMA ConsentInit == Init => ConsentInv
<1> SUFFICES ASSUME Init PROVE ConsentInv
  OBVIOUS
<1>1. \A w \in Wallet : Queued(w) = {} /\ marks[w] = <<>>
  BY DEF Init, Queued
<1> QED BY <1>1, TypeInit DEF Init, ConsentInv, InTransit, HeldOps, Asking, Accepting, Giving,
           Accepted, AlreadyIssued

\* Every step keeps the invariant of consent.
LEMMA ConsentStep == ConsentInv /\ [Next]_vars => ConsentInv'
<1> SUFFICES ASSUME ConsentInv, [Next]_vars PROVE ConsentInv'
  OBVIOUS
<1>1. CASE Next
  <2>1. PICK w \in Wallet : System(w) \/ Environment(w)
    BY <1>1 DEF Next
  <2>2. HeldOps'
    BY <2>1, HeldOrigin DEF HeldOps, ConsentInv
  <2> QED BY <2>1, <2>2, TypeSystem, TypeEnvironment, InTransitStep, AskingStep, AcceptingStep,
             GivingStep DEF ConsentInv
<1>2. CASE UNCHANGED vars
  BY <1>2 DEF vars, durable, volatile, budget, ConsentInv, TypeOK, InTransit, Queued, HeldOps,
     Asking, Accepting, Giving, Proposed, Accepted, Consented, AlreadyIssued
<1> QED BY <1>1, <1>2

\* Accepting the proposal is the consent moment: however messages are doubled, steps held
\* and apps killed, no credential leaves either wallet on an exchange that the person who
\* was asked did not accept.
THEOREM ConsentFirst == Spec => []ConsentBeforeCard
<1>1. ConsentInv => ConsentBeforeCard
  BY DEF ConsentInv, Giving, Consented, Proposed, Accepted, AlreadyIssued, ConsentBeforeCard
<1> QED BY <1>1, ConsentInit, ConsentStep, PTL DEF Spec

-----------------------------------------------------------------------------
(* No delivery is skipped.  The invariant follows what each wallet knows of the other:
   which messages can only be there once a relationship DID is on file. *)

\* A relationship DID is on file here.
Recorded(w) == record[w] # "none"

\* An announcement or an answer comes from a wallet with a DID on file, a query goes to
\* one, and a propose or an acceptance says that both have.
Vouched(d) ==
    /\ d.kind \in {"announce", "answer"} => Recorded(d.from)
    /\ d.kind = "query" => Recorded(Other(d.from))
    /\ d.kind \in {"propose", "accept"} => \A v \in Wallet : Recorded(v)

\* An opening of the exchange.
Openings == {"maybeOpen", "open", "propose"}

\* Who has both DIDs, or opens the exchange, has a peer with a DID on file.
Known ==
    \A w \in Wallet :
        /\ \A d \in docs[w] \cup sending[w] \cup Queued(w) : Vouched(d)
        /\ record[w] = "both" => Recorded(Other(w))
        /\ \A t \in tasks[w] \cup deferred[w] \cup kept[w] : t.op \in Openings => Recorded(Other(w))

\* Both DIDs are on file where an acceptance is retained or a delivery runs or is held.
Both ==
    \A w \in Wallet :
        /\ \A d \in docs[w] : d.kind = "accept" => record[w] = "both"
        /\ \A t \in tasks[w] \cup deferred[w] \cup kept[w] : Delivering(t) => record[w] = "both"

\* The inductive invariant of DeliveryNeverSkipped.
DeliveryInv == ConsentInv /\ Known /\ Both

\* A relationship DID once on file stays, and who learns the peer's was told it.
LEMMA RecordStep ==
    ASSUME TypeOK, NEW w \in Wallet, System(w) \/ Environment(w), NEW v \in Wallet
    PROVE  /\ Recorded(v) => Recorded(v)'
           /\ record[v] = "both" => record'[v] = "both"
           /\ record'[v] = "both" /\ record[v] # "both" =>
                 /\ v = w
                 /\ \/ \E d \in Queued(w) : d \in Doc /\ d.kind \in {"announce", "accept"}
                    \/ \E t \in tasks[w] : t.op = "accept"
<1>0. record \in [Wallet -> {"none", "own", "both"}]
  BY DEF TypeOK
<1>1. CASE record' = record
  BY <1>1 DEF Recorded
<1>2. CASE Receive(w) \/ ReceiveTwice(w)
  <2>1. PICK m \in Queued(w) : m \in Doc /\ Handle(w, m)
    BY <1>2, Handled
  <2>2. CASE m.kind = "announce" /\ RecvAnnounce(w)
    <3>1. record' = [record EXCEPT ![w] = Learn(@)]
      BY <2>2 DEF RecvAnnounce
    <3> QED BY <1>0, <2>1, <2>2, <3>1 DEF Learn, Recorded
  <2>3. CASE m.kind = "accept" /\ RecvAccept(w, m)
    <3>1. record' = [record EXCEPT ![w] = Learn(@)] \/ record' = record
      BY <1>0, <2>3 DEF RecvAccept
    <3> QED BY <1>0, <1>1, <2>1, <2>3, <3>1 DEF Learn, Recorded
  <2>4. CASE RecvStop(w) \/ RecvQuery(w, m) \/ RecvAnswer(w, m) \/ RecvPropose(w, m)
             \/ RecvIssue(w, m) \/ RecvOther(w, m)
    BY <1>1, <2>4 DEF RecvStop, RecvQuery, RecvAnswer, RecvPropose, RecvIssue, RecvOther
  <2> QED BY <2>1, <2>2, <2>3, <2>4 DEF Handle
<1>3. CASE \E t \in tasks[w] : Announce(w, t) \/ \E e \in Exchange : Propose(w, t, e)
  <2>1. record' = [record EXCEPT ![w] = Create(@)]
    BY <1>3 DEF Announce, Propose
  <2> QED BY <1>0, <2>1 DEF Create, Recorded
<1>4. CASE \E t \in tasks[w] : Accept(w, t)
  <2>1. \E t \in tasks[w] : t.op = "accept"
    BY <1>4 DEF Accept
  <2>2. record' = [record EXCEPT ![w] = Create(@)] \/ record' = [record EXCEPT ![w] = Create(Learn(@))]
    BY <1>0, <1>4 DEF Accept
  <2> QED BY <1>0, <2>1, <2>2 DEF Create, Learn, Recorded
<1> QED BY <1>1, <1>2, <1>3, <1>4 DEF System, Run, Connect, Restart, MaybeOpen, OpenCheck, Ask, Decline,
           Forget, DeliverCheck, Issue, RestoreHold, Sweep, RestoreAsk, Reask, ForgetAnswered, Send, Environment, Respond,
           Upgrade, Withdraw, Release, Stop, Crash, DeliveryFails, SendFails, durable

\* An opening is started by what the peer said, or where both DIDs are on file.
LEMMA OpeningOrigin ==
    ASSUME TypeOK, NEW w \in Wallet, System(w) \/ Environment(w),
           NEW v \in Wallet, NEW t \in tasks'[v], t \notin tasks[v], t.op \in Openings
    PROVE  /\ v = w
           /\ \/ t \in deferred[w]
              \/ \E s \in tasks[w] : s.op \in Openings
              \/ \E d \in Queued(w) : d \in Doc /\ d.kind \in {"announce", "answer"}
              \/ record[w] = "both"
<1>0. tasks \in [Wallet -> SUBSET Task] /\ deferred \in [Wallet -> SUBSET Task]
  BY DEF TypeOK
<1>1. v = w
  BY OnlyItsOwn
<1>2. CASE Receive(w) \/ ReceiveTwice(w)
  <2>1. PICK m \in Queued(w) : m \in Doc /\ Handle(w, m)
    BY <1>2, Handled
  <2>2. CASE m.kind \in {"announce", "answer"}
    BY <1>1, <2>1, <2>2
  <2>3. CASE RecvPropose(w, m)
    <3>1. t = task("ask", "inbound", m.ex)
      BY <1>0, <1>1, <2>3 DEF RecvPropose
    <3> QED BY <3>1 DEF task, Openings
  <2>4. CASE RecvAccept(w, m)
    <3>1. t = task("deliver", "inbound", m.ex)
      BY <1>0, <1>1, <2>4 DEF RecvAccept, Proceed, Hold, StartDelivery
    <3> QED BY <3>1 DEF task, Openings
  <2>5. CASE RecvStop(w) \/ RecvQuery(w, m) \/ RecvIssue(w, m) \/ RecvOther(w, m)
    BY <1>0, <2>5 DEF RecvStop, RecvQuery, RecvIssue, RecvOther
  <2> QED BY <2>1, <2>2, <2>3, <2>4, <2>5 DEF Handle
<1>3. CASE Connect(w)
  <2>1. t = task("announce", "release", NoExchange)
    BY <1>0, <1>1, <1>3 DEF Connect, Proceed, Hold
  <2> QED BY <2>1 DEF task, Openings
<1>4. CASE Restart(w)
  BY <1>0, <1>1, <1>4 DEF Restart, task, Openings
<1>5. CASE \E s \in tasks[w] : MaybeOpen(w, s) \/ OpenCheck(w, s)
  BY <1>1, <1>5 DEF MaybeOpen, OpenCheck, Openings
<1>6. CASE \E s \in tasks[w] : Sweep(w, s)
  BY <1>0, <1>1, <1>6 DEF Sweep, Runs, task, Openings
<1>7. CASE \E s \in tasks[w] : Accept(w, s) \/ Decline(w, s) \/ DeliverCheck(w, s)
  BY <1>0, <1>1, <1>7 DEF Accept, Decline, DeliverCheck, Runs, task, Openings
<1>8. CASE \E s \in tasks[w] : \/ Announce(w, s) \/ Ask(w, s) \/ Forget(w, s) \/ Issue(w, s)
                               \/ RestoreHold(w, s) \/ Reask(w, s) \/ ForgetAnswered(w, s)
                               \/ DeliveryFails(w, s)
                               \/ \E e \in Exchange : Propose(w, s, e)
  <2>1. PICK s \in tasks[w] : Runs(w, s, {})
    BY <1>8 DEF Announce, Ask, Forget, Issue, RestoreHold, Reask, ForgetAnswered, DeliveryFails, Propose
  <2> QED BY <1>0, <1>1, <2>1 DEF Runs
<1>9. CASE \E d \in sending[w] : Send(w, d)
  <2>1. PICK d \in sending[w] : Send(w, d)
    BY <1>9
  <2>2. t = task("deliver", "user", d.ex)
    BY <1>0, <1>1, <2>1 DEF Send, AfterSend, StartDelivery
  <2> QED BY <2>2 DEF task, Openings
<1>10. CASE \E a \in {"accept", "decline"} : Respond(w, a)
  BY <1>0, <1>1, <1>10 DEF Respond, task, Openings
<1>11. CASE Release(w) \/ Crash(w)
  BY <1>0, <1>1, <1>11 DEF Release, Crash
<1>12. CASE tasks' = tasks
  BY <1>12
<1>13. CASE \E s \in tasks[w] : RestoreAsk(w, s)
  BY <1>0, <1>1, <1>13 DEF RestoreAsk, Runs, task, Openings
<1> QED BY <1>2, <1>3, <1>4, <1>5, <1>6, <1>7, <1>8, <1>9, <1>10, <1>11, <1>12, <1>13
    DEF System, Run, Environment, Upgrade, Withdraw, Stop, SendFails, volatile

\* What a step of a wallet retains or is about to send is vouched for, as what it had.
LEMMA VouchedStep ==
    ASSUME DeliveryInv, NEW w \in Wallet, System(w) \/ Environment(w),
           NEW v \in Wallet, NEW d \in docs'[v] \cup sending'[v]
    PROVE  Vouched(d)'
<1>0. /\ docs \in [Wallet -> SUBSET Doc] /\ sending \in [Wallet -> SUBSET Doc]
      /\ record \in [Wallet -> {"none", "own", "both"}] /\ tasks \in [Wallet -> SUBSET Task]
  BY DEF DeliveryInv, ConsentInv, TypeOK
<1>t. TypeOK /\ InTransit
  BY DEF DeliveryInv, ConsentInv
<1>r. \A u \in Wallet : Recorded(u) => Recorded(u)'
  BY <1>t, RecordStep
<1>g. ASSUME NEW m \in Doc, Vouched(m) PROVE Vouched(m)'
  <2>1. m.from \in Wallet /\ Other(m.from) \in Wallet
    BY DocEx, OtherTyped
  <2> QED BY <1>r, <1>g, <2>1 DEF Vouched
<1>p. ASSUME NEW k \in {"mismatch", "declined", "receipt", "refused", "issue", "stop"},
             NEW e, d = doc(k, e, w)
      PROVE  Vouched(d)'
  BY <1>p DEF Vouched, doc
<1>o. Other(w) \in Wallet /\ Other(w) # w /\ Other(Other(w)) = w /\ Wallet = {w, Other(w)}
  BY OtherTyped DEF Wallet, Other
<1>1. CASE d \in docs[v] \cup sending[v]
  <2>1. d \in Doc /\ Vouched(d)
    BY <1>0, <1>1 DEF DeliveryInv, Known
  <2> QED BY <1>g, <2>1
<1>2. CASE Receive(w) \/ ReceiveTwice(w)
  <2>1. PICK m \in Queued(w) : m \in Doc /\ Handle(w, m)
    BY <1>t, <1>2, Handled
  <2>2. m.from = Other(w) /\ Vouched(m)
    BY <1>t, <2>1 DEF InTransit, DeliveryInv, Known
  <2>3. CASE d = m
    BY <1>g, <2>1, <2>2, <2>3
  <2>4. CASE RecvQuery(w, m) /\ m.kind = "query" /\ d # m
    <3>1. d \in docs[v] \cup sending[v] \/ d = doc("answer", NoExchange, w)
      BY <1>0, <2>4 DEF RecvQuery, Retain, SendNext
    <3>2. Recorded(w)'
      BY <1>o, <1>r, <2>2, <2>4 DEF Vouched
    <3> QED BY <1>1, <3>1, <3>2 DEF Vouched, doc
  <2>5. CASE (RecvPropose(w, m) \/ RecvIssue(w, m)) /\ d # m
    <3>1. \/ d \in docs[v] \cup sending[v]
          \/ \E k \in {"mismatch", "receipt", "refused"} : d = doc(k, m.ex, w)
      BY <1>0, <2>5 DEF RecvPropose, RecvIssue, Retain, SendNext
    <3> QED BY <1>1, <1>p, <3>1
  <2>6. CASE (\/ RecvAnnounce(w) \/ RecvStop(w) \/ RecvAnswer(w, m) \/ RecvAccept(w, m)
              \/ RecvOther(w, m)) /\ d # m
    <3>1. d \in docs[v] \cup sending[v]
      BY <1>0, <2>6 DEF RecvAnnounce, RecvStop, RecvAnswer, RecvAccept, RecvOther, Retain
    <3> QED BY <1>1, <3>1
  <2> QED BY <2>1, <2>3, <2>4, <2>5, <2>6 DEF Handle
<1>3. CASE \E t \in tasks[w] : Announce(w, t)
  <2>1. d \in docs[v] \cup sending[v] \/ d = doc("announce", NoExchange, w)
    BY <1>0, <1>3 DEF Announce, SendNext
  <2>2. Recorded(w)'
    BY <1>0, <1>3 DEF Announce, Create, Recorded
  <2> QED BY <1>1, <2>1, <2>2 DEF Vouched, doc
<1>4. CASE \E t \in tasks[w] : MaybeOpen(w, t)
  <2>1. d \in docs[v] \cup sending[v] \/ d = doc("query", NoExchange, w)
    BY <1>0, <1>4 DEF MaybeOpen, Retain, SendNext, Query
  <2>2. Recorded(Other(w))'
    BY <1>o, <1>r, <1>4 DEF MaybeOpen, DeliveryInv, Known, Openings
  <2> QED BY <1>1, <2>1, <2>2 DEF Vouched, doc
<1>5. CASE \E e \in Exchange : Upgrade(w, e) \/ \E t \in tasks[w] : Propose(w, t, e)
  <2>1. d \in docs[v] \cup sending[v] \/ \E e : d = doc("propose", e, w)
    BY <1>0, <1>5 DEF Upgrade, Propose, Retain, SendNext
  <2>2. Recorded(w)' /\ Recorded(Other(w))'
    <3>1. CASE \E e \in Exchange : Upgrade(w, e)
      BY <1>o, <1>r, <3>1 DEF Upgrade, DeliveryInv, Known, Recorded
    <3>2. CASE \E t \in tasks[w], e \in Exchange : Propose(w, t, e)
      <4>1. Recorded(Other(w))
        BY <3>2 DEF Propose, DeliveryInv, Known, Openings
      <4>2. record' = [record EXCEPT ![w] = Create(@)]
        BY <3>2 DEF Propose
      <4> QED BY <1>0, <1>o, <1>r, <4>1, <4>2 DEF Create, Recorded
    <3> QED BY <1>5, <3>1, <3>2
  <2> QED BY <1>o, <1>1, <2>1, <2>2 DEF Vouched, doc
<1>6. ASSUME NEW t \in tasks[w], Accept(w, t) PROVE Vouched(d)'
  <2>1. d \in docs[v] \cup sending[v] \/ d = doc("accept", t.ex, w)
    BY <1>0, <1>6 DEF Accept, Retain
  <2>2. doc("propose", t.ex, Other(w)) \in docs[w]
    BY <1>6 DEF Accept, DeliveryInv, ConsentInv, Asking, Proposed
  <2>3. Vouched(doc("propose", t.ex, Other(w)))
    BY <2>2 DEF DeliveryInv, Known
  <2>4. \A u \in Wallet : Recorded(u)
    BY <2>3 DEF Vouched, doc
  <2> QED BY <1>r, <1>1, <2>1, <2>4 DEF Vouched, doc
<1>7. ASSUME NEW t \in tasks[w], Forget(w, t) PROVE Vouched(d)'
  <2>1. CASE t.op = "forgetAccepted"
    <3>1. d \in docs[v] \cup sending[v] \/ d = doc("accept", t.ex, w)
      BY <1>0, <1>7, <2>1 DEF Forget, SendNext
    <3>2. doc("accept", t.ex, w) \in docs[w]
      BY <2>1 DEF DeliveryInv, ConsentInv, Accepting, Accepted
    <3>3. doc("accept", t.ex, w) \in Doc /\ Vouched(doc("accept", t.ex, w))
      BY <1>0, <3>2 DEF DeliveryInv, Known
    <3> QED BY <1>1, <1>g, <3>1, <3>3
  <2>2. CASE t.op # "forgetAccepted"
    <3>1. d \in docs[v] \cup sending[v] \/ d = doc("declined", t.ex, w)
      BY <1>0, <1>7, <2>2 DEF Forget, SendNext
    <3> QED BY <1>1, <1>p, <3>1
  <2> QED BY <2>1, <2>2
<1>8. CASE \E t \in tasks[w] : Decline(w, t) \/ Issue(w, t)
  <2>1. d \in docs[v] \cup sending[v] \/ \E k \in {"declined", "issue"} : \E e : d = doc(k, e, w)
    BY <1>0, <1>8 DEF Decline, Issue, Retain, SendNext
  <2> QED BY <1>1, <1>p, <2>1
<1>9. CASE \E m \in sending[w] : Send(w, m)
  <2>1. PICK m \in sending[w] : Send(w, m)
    BY <1>9
  <2>2. \/ d \in docs[v] \cup sending[v]
        \/ m.kind = "accept" /\ d = doc("query", NoExchange, w)
    BY <1>0, <2>1 DEF Send, AfterSend, Retain, Query
  <2>3. CASE m.kind = "accept" /\ d = doc("query", NoExchange, w)
    <3>1. Vouched(m)
      BY <2>1 DEF DeliveryInv, Known
    <3>2. Recorded(Other(w))'
      BY <1>o, <1>r, <2>3, <3>1 DEF Vouched
    <3> QED BY <2>3, <3>2 DEF Vouched, doc
  <2> QED BY <1>1, <2>2, <2>3
<1>10. CASE Stop(w)
  <2>1. d \in docs[v] \cup sending[v] \/ d = doc("stop", NoExchange, w)
    BY <1>0, <1>10 DEF Stop, SendNext
  <2> QED BY <1>1, <1>p, <2>1
<1>11. CASE docs' = docs /\ \A u \in Wallet : sending'[u] \subseteq sending[u]
  BY <1>1, <1>11
<1>12. CASE Crash(w) \/ \E m \in sending[w] : SendFails(w, m)
  BY <1>0, <1>11, <1>12 DEF Crash, SendFails, durable
<1> QED BY <1>2, <1>3, <1>4, <1>5, <1>6, <1>7, <1>8, <1>9, <1>10, <1>11, <1>12
    DEF System, Run, Connect, Restart, OpenCheck, Ask, DeliverCheck, RestoreHold, Sweep, RestoreAsk, Reask, ForgetAnswered,
        Environment, Respond, Withdraw, Release, DeliveryFails, durable, volatile

\* An acceptance is retained by who makes it, or by who consumes it.
LEMMA AcceptRetained ==
    ASSUME TypeOK, InTransit, NEW w \in Wallet, System(w) \/ Environment(w),
           NEW v \in Wallet, NEW d \in docs'[v], d \notin docs[v], d.kind = "accept",
           ~\E t \in tasks[w] : Accept(w, t)
    PROVE  v = w /\ \E m \in Queued(w) : m.kind = "accept" /\ Handle(w, m)
<1>0. docs \in [Wallet -> SUBSET Doc]
  BY DEF TypeOK
<1>1. v = w
  BY DocsOrigin
<1>2. CASE Receive(w) \/ ReceiveTwice(w)
  <2>1. PICK m \in Queued(w) : m \in Doc /\ Handle(w, m)
    BY <1>2, Handled
  <2>2. d = m \/ d.kind # "accept"
    <3>1. CASE RecvPropose(w, m)
      <4>1. docs' = [docs EXCEPT ![w] = @ \cup ({m} \cup
                 IF IsUpgrade(w, m.ex) /\ record[w] # "both" THEN {doc("mismatch", m.ex, w)} ELSE {})]
        BY <3>1 DEF RecvPropose, Retain
      <4> QED BY <1>0, <1>1, <4>1 DEF doc
    <3>2. CASE RecvIssue(w, m)
      <4>1. \E D \in {{m, doc("receipt", m.ex, w)}, {m}} : docs' = [docs EXCEPT ![w] = @ \cup D]
        BY <3>2 DEF RecvIssue, Retain
      <4> QED BY <1>0, <1>1, <4>1 DEF doc
    <3>3. CASE RecvQuery(w, m) \/ RecvAnswer(w, m) \/ RecvAccept(w, m) \/ RecvOther(w, m)
      BY <1>0, <1>1, <3>3 DEF RecvQuery, RecvAnswer, RecvAccept, RecvOther, Retain, doc
    <3>4. CASE RecvAnnounce(w) \/ RecvStop(w)
      BY <1>0, <1>1, <3>4 DEF RecvAnnounce, RecvStop
    <3> QED BY <2>1, <3>1, <3>2, <3>3, <3>4 DEF Handle
  <2> QED BY <1>1, <2>1, <2>2
<1>3. CASE docs' = docs
  BY <1>3
<1>4. CASE \E k \in {"query", "declined", "issue", "propose"} : \E e : Retain(w, {doc(k, e, w)})
  BY <1>0, <1>1, <1>4 DEF Retain, doc
<1>5. CASE \E t \in tasks[w] : MaybeOpen(w, t)
  BY <1>0, <1>1, <1>5 DEF MaybeOpen, Retain, Query, doc
<1>6. CASE \E m \in sending[w] : Send(w, m)
  BY <1>0, <1>1, <1>6 DEF Send, AfterSend, Retain, Query, doc
<1> QED BY <1>2, <1>3, <1>4, <1>5, <1>6 DEF System, Run, Connect, Restart, Announce, OpenCheck, Propose, Ask,
           Decline, Forget, DeliverCheck, Issue, RestoreHold, Sweep, RestoreAsk, Reask, ForgetAnswered, Environment, Respond,
           Upgrade, Withdraw, Release, Stop, Crash, DeliveryFails, SendFails, durable

\* A delivery is started by an acceptance sent or consumed, or goes on.
LEMMA DeliveryStarted ==
    ASSUME TypeOK, NEW w \in Wallet, System(w) \/ Environment(w),
           NEW v \in Wallet, NEW t \in tasks'[v] \cup deferred'[v] \cup kept'[v], Delivering(t),
           t \notin tasks[v] \cup deferred[v] \cup kept[v]
    PROVE  \/ \E s \in tasks[w] : Delivering(s) /\ s.ex = t.ex
           \/ \E d \in sending[w] : d.kind = "accept" /\ d.ex = t.ex
           \/ \E m \in Queued(w) : /\ m.kind = "accept" /\ m.ex = t.ex
                                  /\ Handle(w, m) /\ ~NotActedOn(w, t.ex)
<1>0. /\ tasks \in [Wallet -> SUBSET Task] /\ deferred \in [Wallet -> SUBSET Task]
      /\ kept \in [Wallet -> SUBSET Task]
  BY DEF TypeOK
<1>1. CASE Receive(w) \/ ReceiveTwice(w)
  <2>1. PICK m \in Queued(w) : m \in Doc /\ Handle(w, m)
    BY <1>1, Handled
  <2>2. CASE m.kind = "accept" /\ RecvAccept(w, m)
    <3>1. \E b \in By : t = task("deliver", b, m.ex)
      BY <1>0, <2>2 DEF RecvAccept, Proceed, Hold, StartDelivery, By
    <3>2. t.ex = m.ex
      BY <3>1 DEF task
    <3>3. CASE NotActedOn(w, m.ex)
      BY <1>0, <2>2, <3>3 DEF RecvAccept, Proceed
    <3> QED BY <2>1, <2>2, <3>2, <3>3
  <2>3. CASE RecvPropose(w, m)
    <3>1. t = task("ask", "inbound", m.ex)
      BY <1>0, <2>3 DEF RecvPropose
    <3> QED BY <3>1 DEF task, Delivering
  <2>4. CASE RecvAnnounce(w) \/ RecvAnswer(w, m)
    <3>1. \E o \in {"maybeOpen", "open"} : t = task(o, "inbound", NoExchange)
      BY <1>0, <2>4 DEF RecvAnnounce, RecvAnswer
    <3> QED BY <3>1 DEF task, Delivering
  <2>5. CASE RecvStop(w) \/ RecvQuery(w, m) \/ RecvIssue(w, m) \/ RecvOther(w, m)
    BY <1>0, <2>5 DEF RecvStop, RecvQuery, RecvIssue, RecvOther
  <2> QED BY <2>1, <2>2, <2>3, <2>4, <2>5 DEF Handle
<1>2. CASE \E d \in sending[w] : Send(w, d)
  <2>1. PICK d \in sending[w] : Send(w, d)
    BY <1>2
  <2>2. d.kind = "accept" /\ t = task("deliver", "user", d.ex)
    BY <1>0, <2>1 DEF Send, AfterSend, StartDelivery
  <2>3. t.ex = d.ex
    BY <2>2 DEF task
  <2> QED BY <2>2, <2>3
<1>3. CASE Connect(w)
  <2>1. t = task("announce", "release", NoExchange)
    BY <1>0, <1>3 DEF Connect, Proceed, Hold
  <2> QED BY <2>1 DEF task, Delivering
<1>4. CASE Restart(w)
  BY <1>0, <1>4 DEF Restart, durable, task, Delivering
<1>5. CASE \E s \in tasks[w] : DeliverCheck(w, s)
  <2>1. PICK s \in tasks[w] : DeliverCheck(w, s)
    BY <1>5
  <2>2. t = task("sign", s.by, s.ex)
    BY <1>0, <2>1 DEF DeliverCheck, Runs, durable
  <2> QED BY <2>1, <2>2 DEF DeliverCheck, Delivering, task
<1>6. CASE \E s \in tasks[w] : \/ MaybeOpen(w, s) \/ OpenCheck(w, s) \/ Accept(w, s)
                               \/ Decline(w, s) \/ Sweep(w, s) \/ RestoreAsk(w, s)
  BY <1>0, <1>6 DEF MaybeOpen, OpenCheck, Accept, Decline, Sweep, RestoreAsk, Runs, task, Delivering, durable
<1>7. CASE \E s \in tasks[w] : \/ Announce(w, s) \/ Ask(w, s) \/ Forget(w, s) \/ Issue(w, s)
                               \/ RestoreHold(w, s) \/ Reask(w, s) \/ ForgetAnswered(w, s)
                               \/ DeliveryFails(w, s)
                               \/ \E e \in Exchange : Propose(w, s, e)
  <2>1. PICK s \in tasks[w] : /\ Runs(w, s, {}) /\ kept' = kept
                              /\ \A u \in Wallet : deferred'[u] \subseteq deferred[u] \cup kept[u]
    BY <1>0, <1>7 DEF Announce, Ask, Forget, Issue, RestoreHold, Reask, ForgetAnswered, DeliveryFails, Propose, durable
  <2> QED BY <1>0, <2>1 DEF Runs
<1>8. CASE \E a \in {"accept", "decline"} : Respond(w, a)
  BY <1>0, <1>8 DEF Respond, task, Delivering, durable
<1>9. CASE Release(w) \/ Crash(w) \/ Stop(w)
  BY <1>0, <1>9 DEF Release, Crash, Stop, durable
<1>10. CASE UNCHANGED <<tasks, deferred, kept>>
  BY <1>10
<1> QED BY <1>1, <1>2, <1>3, <1>4, <1>5, <1>6, <1>7, <1>8, <1>9, <1>10
    DEF System, Run, Environment, Upgrade, Withdraw, SendFails, volatile, durable

\* Who is told of the peer's DID, or opens the exchange, has a peer with one on file.
LEMMA KnownStep ==
    ASSUME DeliveryInv, NEW w \in Wallet, System(w) \/ Environment(w)
    PROVE  Known'
<1>0. /\ sending \in [Wallet -> SUBSET Doc] /\ inbox \in [Wallet -> Seq(Doc)]
  BY DEF DeliveryInv, ConsentInv, TypeOK
<1>t. TypeOK /\ InTransit /\ HeldOps
  BY DEF DeliveryInv, ConsentInv
<1>r. \A u \in Wallet : Recorded(u) => Recorded(u)'
  BY <1>t, RecordStep
<1>o. \A u \in Wallet : Other(u) \in Wallet /\ Other(u) # u
  BY OtherTyped
<1>q. ASSUME NEW d \in Queued(w), d \in Doc, d.kind \in {"announce", "answer", "accept"}
      PROVE  Recorded(Other(w))
  <2>1. Vouched(d) /\ d.from = Other(w)
    BY <1>q, <1>t DEF DeliveryInv, Known, InTransit
  <2> QED BY <1>q, <1>o, <2>1 DEF Vouched
<1>1. ASSUME NEW v \in Wallet, NEW d \in Queued(v)'
      PROVE  Vouched(d)'
  <2>1. CASE d \in Queued(v)
    <3>1. d \in Doc /\ Vouched(d)
      BY <1>0, <2>1 DEF Queued, DeliveryInv, Known
    <3>2. d.from \in Wallet /\ Other(d.from) \in Wallet
      BY <1>o, <3>1, DocEx
    <3> QED BY <1>r, <3>1, <3>2 DEF Vouched
  <2>2. CASE d \notin Queued(v)
    <3>1. inbox' # inbox /\ ~(Queued(v)' \subseteq Queued(v))
      BY <1>1, <2>2 DEF Queued
    <3>2. PICK m \in sending[w] : /\ Queued(w)' = Queued(w)
                                   /\ Queued(Other(w))' \subseteq Queued(Other(w)) \cup {m}
      BY <1>t, <3>1, QueueStep
    <3>3. d = m
      BY <1>1, <2>2, <3>2 DEF Wallet, Other
    <3>4. d \in Doc /\ Vouched(d)
      BY <1>0, <3>3 DEF DeliveryInv, Known
    <3>5. d.from \in Wallet /\ Other(d.from) \in Wallet
      BY <1>o, <3>4, DocEx
    <3> QED BY <1>r, <3>4, <3>5 DEF Vouched
  <2> QED BY <2>1, <2>2
<1>2. ASSUME NEW v \in Wallet, record'[v] = "both"
      PROVE  Recorded(Other(v))'
  <2>1. CASE record[v] = "both"
    BY <1>o, <1>r, <2>1 DEF DeliveryInv, Known
  <2>2. CASE record[v] # "both"
    <3>1. /\ v = w
          /\ \/ \E d \in Queued(w) : d \in Doc /\ d.kind \in {"announce", "accept"}
             \/ \E t \in tasks[w] : t.op = "accept"
      BY <1>t, <1>2, <2>2, RecordStep
    <3>2. CASE \E d \in Queued(w) : d \in Doc /\ d.kind \in {"announce", "accept"}
      BY <1>o, <1>q, <1>r, <3>1, <3>2
    <3>3. CASE \E t \in tasks[w] : t.op = "accept"
      <4>1. PICK t \in tasks[w] : doc("propose", t.ex, Other(w)) \in docs[w]
        BY <3>3 DEF DeliveryInv, ConsentInv, Asking, Proposed
      <4>2. Vouched(doc("propose", t.ex, Other(w)))
        BY <4>1 DEF DeliveryInv, Known
      <4> QED BY <1>o, <1>r, <3>1, <4>2 DEF Vouched, doc
    <3> QED BY <3>1, <3>2, <3>3
  <2> QED BY <2>1, <2>2
<1>3. ASSUME NEW v \in Wallet, NEW t \in tasks'[v] \cup deferred'[v] \cup kept'[v], t.op \in Openings
      PROVE  Recorded(Other(v))'
  <2>1. CASE t \in tasks[v] \cup deferred[v] \cup kept[v]
    BY <1>3, <1>o, <1>r, <2>1 DEF DeliveryInv, Known
  <2>2. CASE t \in tasks'[v] /\ t \notin tasks[v]
    <3>1. /\ v = w
          /\ \/ t \in deferred[w]
             \/ \E s \in tasks[w] : s.op \in Openings
             \/ \E d \in Queued(w) : d \in Doc /\ d.kind \in {"announce", "answer"}
             \/ record[w] = "both"
      BY <1>3, <1>t, <2>2, OpeningOrigin
    <3>2. Recorded(Other(w))
      BY <1>3, <1>q, <3>1 DEF DeliveryInv, Known
    <3> QED BY <1>o, <1>r, <3>1, <3>2
  <2>3. CASE t \in deferred'[v] \cup kept'[v] /\ t \notin deferred[v] \cup kept[v]
    <3>1. /\ v = w /\ t.op \in {"announce", "maybeOpen", "deliver"}
          /\ t.op = "maybeOpen" => \E d \in Queued(w) : d.kind = "announce"
      BY <1>t, <2>3, HeldOrigin
    <3>2. PICK d \in Queued(w) : d.kind = "announce"
      BY <1>3, <3>1 DEF Openings
    <3>3. d \in Doc
      BY <1>0 DEF Queued
    <3> QED BY <1>o, <1>q, <1>r, <3>1, <3>2, <3>3
  <2> QED BY <1>3, <2>1, <2>2, <2>3
<1> QED BY <1>1, <1>2, <1>3, VouchedStep DEF Known

\* Where an acceptance is retained or a delivery starts, both DIDs are on file.
LEMMA BothStep ==
    ASSUME DeliveryInv, NEW w \in Wallet, System(w) \/ Environment(w)
    PROVE  Both'
<1>0. /\ tasks \in [Wallet -> SUBSET Task] /\ sending \in [Wallet -> SUBSET Doc]
      /\ docs \in [Wallet -> SUBSET Doc] /\ record \in [Wallet -> {"none", "own", "both"}]
      /\ inbox \in [Wallet -> Seq(Doc)]
  BY DEF DeliveryInv, ConsentInv, TypeOK
<1>t. TypeOK /\ InTransit /\ HeldOps
  BY DEF DeliveryInv, ConsentInv
<1>r. \A u \in Wallet : record[u] = "both" => record'[u] = "both"
  BY <1>t, RecordStep
<1>k. \A d \in docs[w] \cup Queued(w) : d.kind \in {"propose", "accept"} => Recorded(w)
  BY DEF DeliveryInv, Known, Vouched
<1>u. \A e : IsUpgrade(w, e) => record[w] = "both"
  BY DEF IsUpgrade, DeliveryInv, Both
<1>a. ASSUME NEW m \in Queued(w), m.kind = "accept", Handle(w, m) PROVE record'[w] = "both"
  <2>1. RecvAccept(w, m)
    BY <1>a DEF Handle, Basic, Errors
  <2>2. Recorded(w)
    BY <1>a, <1>k
  <2>3. CASE IsUpgrade(w, m.ex)
    BY <1>r, <1>u, <2>3
  <2>4. CASE ~IsUpgrade(w, m.ex)
    <3>1. record' = [record EXCEPT ![w] = Learn(@)]
      BY <2>1, <2>4 DEF RecvAccept
    <3> QED BY <1>0, <2>2, <3>1 DEF Learn, Recorded
  <2> QED BY <2>3, <2>4
<1>1. ASSUME NEW v \in Wallet, NEW d \in docs'[v], d.kind = "accept"
      PROVE  record'[v] = "both"
  <2>1. CASE d \in docs[v]
    BY <1>1, <1>r, <2>1 DEF DeliveryInv, Both
  <2>2. CASE v = w /\ \E t \in tasks[w] : Accept(w, t)
    <3>1. PICK t \in tasks[w] : Accept(w, t)
      BY <2>2
    <3>2. doc("propose", t.ex, Other(w)) \in docs[w]
      BY <3>1 DEF Accept, DeliveryInv, ConsentInv, Asking, Proposed
    <3>3. Recorded(w)
      BY <1>k, <3>2 DEF doc
    <3>4. CASE IsUpgrade(w, t.ex)
      BY <1>r, <1>u, <2>2, <3>4
    <3>5. CASE ~IsUpgrade(w, t.ex)
      <4>1. record' = [record EXCEPT ![w] = Create(Learn(@))]
        BY <3>1, <3>5 DEF Accept
      <4> QED BY <1>0, <2>2, <3>3, <4>1 DEF Create, Learn, Recorded
    <3> QED BY <3>4, <3>5
  <2>3. CASE d \notin docs[v] /\ ~\E t \in tasks[w] : Accept(w, t)
    <3>1. v = w /\ \E m \in Queued(w) : m.kind = "accept" /\ Handle(w, m)
      BY <1>1, <1>t, <2>3, AcceptRetained
    <3> QED BY <1>a, <3>1
  <2>4. d \notin docs[v] => v = w
    BY <1>t, DocsOrigin
  <2> QED BY <2>1, <2>2, <2>3, <2>4
<1>2. ASSUME NEW v \in Wallet, NEW t \in tasks'[v] \cup deferred'[v] \cup kept'[v], Delivering(t)
      PROVE  record'[v] = "both"
  <2>1. CASE t \in tasks[v] \cup deferred[v] \cup kept[v]
    BY <1>2, <1>r, <2>1 DEF DeliveryInv, Both
  <2>2. CASE t \notin tasks[v] \cup deferred[v] \cup kept[v]
    <3>1. \/ \E s \in tasks[w] : Delivering(s)
          \/ \E d \in sending[w] : d.kind = "accept"
          \/ \E m \in Queued(w) : m.kind = "accept" /\ Handle(w, m)
      BY <1>2, <1>t, <2>2, DeliveryStarted
    <3>2. v = w
      BY <1>2, <1>t, <2>2, TasksOrigin, HeldOrigin
    <3>3. CASE \E s \in tasks[w] : Delivering(s)
      BY <1>r, <3>2, <3>3 DEF DeliveryInv, Both
    <3>4. CASE \E d \in sending[w] : d.kind = "accept"
      <4>1. PICK d \in sending[w] : doc("accept", d.ex, w) \in docs[w]
        BY <3>4 DEF DeliveryInv, ConsentInv, Accepting, Accepted
      <4>2. record[w] = "both"
        BY <4>1 DEF DeliveryInv, Both, doc
      <4> QED BY <1>r, <3>2, <4>2
    <3>5. CASE \E m \in Queued(w) : m.kind = "accept" /\ Handle(w, m)
      BY <1>a, <3>2, <3>5
    <3> QED BY <3>1, <3>3, <3>4, <3>5
  <2> QED BY <2>1, <2>2
<1> QED BY <1>1, <1>2 DEF Both

\* Both relationship DIDs are on file wherever a delivery starts: for any number of
\* exchanges, no delivery on an accepted exchange is skipped for want of one.
THEOREM NeverSkipped == Spec => []DeliveryNeverSkipped
<1>1. Init => DeliveryInv
  <2> SUFFICES ASSUME Init PROVE DeliveryInv
    OBVIOUS
  <2>1. \A w \in Wallet : Queued(w) = {}
    BY DEF Init, Queued
  <2> QED BY <2>1, ConsentInit DEF Init, DeliveryInv, Known, Both
<1>2. DeliveryInv /\ [Next]_vars => DeliveryInv'
  <2> SUFFICES ASSUME DeliveryInv, [Next]_vars PROVE DeliveryInv'
    OBVIOUS
  <2>1. CASE Next
    <3>1. PICK w \in Wallet : System(w) \/ Environment(w)
      BY <2>1 DEF Next
    <3> QED BY <3>1, <2>1, ConsentStep, KnownStep, BothStep DEF DeliveryInv
  <2>2. CASE UNCHANGED vars
    <3>1. ConsentInv'
      BY <2>2, ConsentStep DEF DeliveryInv
    <3> QED BY <2>2, <3>1 DEF vars, durable, volatile, budget, DeliveryInv, Known, Both, Vouched, Recorded,
               Queued
  <2> QED BY <2>1, <2>2
<1>3. DeliveryInv => DeliveryNeverSkipped
  BY DEF DeliveryInv, Both, Deliveries, Delivering, DeliveryNeverSkipped
<1> QED BY <1>1, <1>2, <1>3, PTL DEF Spec

-----------------------------------------------------------------------------
(* A withdrawn upgrade stays withdrawn.  The invariant adds that an exchange has one
   proposer, so who withdrew one never accepted it. *)

\* A propose that is retained, on its way or in transit is retained by who made it.
MadeByProposer ==
    \A w \in Wallet : \A d \in docs[w] \cup sending[w] \cup Queued(w) :
        d.kind = "propose" => d \in docs[d.from]

\* An exchange id is used by one of the two wallets.
OneProposer ==
    \A w \in Wallet, e \in Exchange :
        doc("propose", e, w) \in docs[w] => doc("propose", e, Other(w)) \notin docs[Other(w)]

\* What the person withdrew is an upgrade proposed here.
WithdrawnOwn ==
    \A w \in Wallet : \A e \in withdrawn[w] : doc("propose", e, w) \in docs[w] /\ IsUpgrade(w, e)

\* The inductive invariant behind WithdrawnStaysWithdrawn.
WithdrawnInv == ConsentInv /\ MadeByProposer /\ OneProposer /\ WithdrawnOwn

\* A step makes a propose only under a fresh exchange id, and retains what it sends.
LEMMA ProposeOrigin ==
    ASSUME TypeOK, InTransit, NEW w \in Wallet, System(w) \/ Environment(w),
           NEW v \in Wallet, NEW d \in docs'[v] \cup sending'[v], d \notin docs[v] \cup sending[v],
           d.kind = "propose"
    PROVE  /\ v = w
           /\ \/ d \in Queued(w)
              \/ d.from = w /\ d \in docs'[w] /\ d.ex \in Exchange /\ Fresh(d.ex)
<1>0. docs \in [Wallet -> SUBSET Doc] /\ sending \in [Wallet -> SUBSET Doc]
  BY DEF TypeOK
<1>p. ASSUME NEW k \in {"announce", "query", "answer", "mismatch", "accept", "declined", "receipt",
                        "refused", "issue", "stop"}, NEW e, d = doc(k, e, w)
      PROVE  FALSE
  BY <1>p DEF doc
<1>1. CASE Receive(w) \/ ReceiveTwice(w)
  <2>1. PICK m \in Queued(w) : m \in Doc /\ Handle(w, m)
    BY <1>1, Handled
  <2>2. CASE RecvPropose(w, m) \/ RecvIssue(w, m) \/ RecvQuery(w, m)
    <3>1. v = w /\ (\/ d = m
                    \/ \E k \in {"mismatch", "receipt", "refused"} : d = doc(k, m.ex, w)
                    \/ d = doc("answer", NoExchange, w))
      BY <1>0, <2>2 DEF RecvPropose, RecvIssue, RecvQuery, Retain, SendNext
    <3> QED BY <1>p, <2>1, <3>1
  <2>3. CASE \/ RecvAnnounce(w) \/ RecvStop(w) \/ RecvAnswer(w, m) \/ RecvAccept(w, m)
             \/ RecvOther(w, m)
    <3>1. v = w /\ d = m
      BY <1>0, <2>3 DEF RecvAnnounce, RecvStop, RecvAnswer, RecvAccept, RecvOther, Retain
    <3> QED BY <2>1, <3>1
  <2> QED BY <2>1, <2>2, <2>3 DEF Handle
<1>2. ASSUME NEW e \in Exchange, Upgrade(w, e) \/ \E t \in tasks[w] : Propose(w, t, e)
      PROVE  v = w /\ d.from = w /\ d \in docs'[w] /\ d.ex \in Exchange /\ Fresh(d.ex)
  <2>1. Fresh(e) /\ Retain(w, {doc("propose", e, w)}) /\ SendNext(w, {doc("propose", e, w)})
    BY <1>2 DEF Upgrade, Propose
  <2>2. v = w /\ d = doc("propose", e, w) /\ d \in docs'[w]
    BY <1>0, <2>1 DEF Retain, SendNext
  <2> QED BY <2>1, <2>2 DEF doc
<1>3. CASE \E t \in tasks[w] : \/ Announce(w, t) \/ MaybeOpen(w, t) \/ Accept(w, t)
                               \/ Decline(w, t) \/ Forget(w, t) \/ Issue(w, t)
  <2>1. \E k \in {"announce", "query", "accept", "declined", "issue"} : \E e : d = doc(k, e, w)
    BY <1>0, <1>3 DEF Announce, MaybeOpen, Accept, Decline, Forget, Issue, Retain, SendNext, Query
  <2> QED BY <1>p, <2>1
<1>4. CASE \E m \in sending[w] : Send(w, m)
  <2>1. d = doc("query", NoExchange, w)
    BY <1>0, <1>4 DEF Send, AfterSend, Retain, Query
  <2> QED BY <1>p, <2>1
<1>5. CASE Stop(w)
  <2>1. d = doc("stop", NoExchange, w)
    BY <1>0, <1>5 DEF Stop, SendNext
  <2> QED BY <1>p, <2>1
<1>6. CASE docs' = docs /\ \A u \in Wallet : sending'[u] \subseteq sending[u]
  BY <1>6
<1>7. CASE Crash(w) \/ \E m \in sending[w] : SendFails(w, m)
  BY <1>0, <1>6, <1>7 DEF Crash, SendFails, durable
<1> QED BY <1>1, <1>2, <1>3, <1>4, <1>5, <1>6, <1>7
    DEF System, Run, Connect, Restart, OpenCheck, Ask, DeliverCheck, RestoreHold, Sweep, RestoreAsk, Reask, ForgetAnswered,
        Environment, Respond, Withdraw, Release, DeliveryFails, durable, volatile

\* Only the person withdraws an upgrade.
LEMMA WithdrawnStep ==
    ASSUME TypeOK, NEW w \in Wallet, System(w) \/ Environment(w)
    PROVE  withdrawn' = withdrawn \/ \E e \in Exchange : Withdraw(w, e)
<1>1. CASE Receive(w) \/ ReceiveTwice(w)
  BY <1>1, Handled, TypeHandle
<1>2. CASE ~Receive(w) /\ ~ReceiveTwice(w)
  BY <1>2 DEF System, Run, Connect, Restart, Announce, MaybeOpen, OpenCheck, Propose, Ask, Accept,
     Decline, Forget, DeliverCheck, Issue, RestoreHold, Sweep, RestoreAsk, Reask, ForgetAnswered, Send, Environment, Respond,
     Upgrade, Release, Stop, Crash, DeliveryFails, SendFails, durable
<1> QED BY <1>1, <1>2

\* A step keeps the invariant.
LEMMA WithdrawnInvStep ==
    ASSUME WithdrawnInv, NEW w \in Wallet, System(w) \/ Environment(w)
    PROVE  MadeByProposer' /\ OneProposer' /\ WithdrawnOwn'
<1>0. /\ docs \in [Wallet -> SUBSET Doc] /\ sending \in [Wallet -> SUBSET Doc]
      /\ inbox \in [Wallet -> Seq(Doc)] /\ withdrawn \in [Wallet -> SUBSET Exchange]
  BY DEF WithdrawnInv, ConsentInv, TypeOK
<1>t. TypeOK /\ InTransit
  BY DEF WithdrawnInv, ConsentInv
<1>d. \A v \in Wallet : docs[v] \subseteq docs'[v]
  BY <1>t, DocsStay
<1>o. \A v \in Wallet : Other(v) \in Wallet /\ Other(v) # v /\ Other(Other(v)) = v
  BY OtherTyped
<1>m. ASSUME NEW v \in Wallet, NEW d \in docs[v] \cup sending[v] \cup Queued(v), d.kind = "propose"
      PROVE  d \in docs'[d.from]
  <2>1. d \in Doc
    BY <1>0 DEF Queued
  <2>2. d.from \in Wallet /\ d \in docs[d.from]
    BY <1>m, <2>1, DocEx DEF WithdrawnInv, MadeByProposer
  <2> QED BY <1>d, <2>2
<1>1. ASSUME NEW v \in Wallet, NEW d \in docs'[v] \cup sending'[v] \cup Queued(v)', d.kind = "propose"
      PROVE  d \in docs'[d.from]
  <2>1. CASE d \in docs[v] \cup sending[v] \cup Queued(v)
    BY <1>1, <1>m, <2>1
  <2>2. CASE d \in docs'[v] \cup sending'[v] /\ d \notin docs[v] \cup sending[v]
    <3>1. \/ d \in Queued(w)
          \/ d.from = w /\ d \in docs'[w]
      BY <1>1, <1>t, <2>2, ProposeOrigin
    <3> QED BY <1>1, <1>m, <3>1
  <2>3. CASE d \in Queued(v)' /\ d \notin Queued(v)
    <3>1. inbox' # inbox /\ ~(Queued(v)' \subseteq Queued(v))
      BY <2>3 DEF Queued
    <3>2. PICK m \in sending[w] : /\ Queued(w)' = Queued(w)
                                   /\ Queued(Other(w))' \subseteq Queued(Other(w)) \cup {m}
      BY <1>t, <3>1, QueueStep
    <3>3. d = m
      BY <2>3, <3>2 DEF Wallet, Other
    <3> QED BY <1>1, <1>m, <3>3
  <2> QED BY <1>1, <2>1, <2>2, <2>3
<1>n. ASSUME NEW v \in Wallet, NEW e \in Exchange, doc("propose", e, v) \in docs'[v],
             doc("propose", e, v) \notin docs[v]
      PROVE  v = w /\ Fresh(e)
  <2> DEFINE d == doc("propose", e, v)
  <2>1. d.kind = "propose" /\ d.from = v /\ d.ex = e
    BY DEF doc
  <2>2. CASE d \in sending[v]
    BY <1>n, <1>0, <2>1, <2>2 DEF WithdrawnInv, MadeByProposer
  <2>3. CASE d \notin sending[v]
    <3>1. d \in docs'[v] \cup sending'[v] /\ d \notin docs[v] \cup sending[v]
      BY <1>n, <2>3
    <3> HIDE DEF d
    <3>2. v = w /\ (d \in Queued(w) \/ Fresh(d.ex))
      BY <1>t, <2>1, <3>1, ProposeOrigin
    <3>3. d \in Queued(w) => d.from # w
      BY <1>o, <1>t DEF InTransit
    <3> QED BY <2>1, <3>2, <3>3
  <2> QED BY <2>2, <2>3
<1>2. ASSUME NEW v \in Wallet, NEW e \in Exchange, doc("propose", e, v) \in docs'[v],
             doc("propose", e, Other(v)) \in docs'[Other(v)]
      PROVE  FALSE
  <2>1. ~(doc("propose", e, v) \in docs[v] /\ doc("propose", e, Other(v)) \in docs[Other(v)])
    BY DEF WithdrawnInv, OneProposer
  <2>2. CASE doc("propose", e, v) \notin docs[v]
    <3>1. v = w /\ Fresh(e)
      BY <1>2, <1>n, <2>2
    <3>2. doc("propose", e, Other(v)) \notin docs[Other(v)]
      BY <1>o, <3>1 DEF Fresh
    <3>3. Other(v) = w
      BY <1>2, <1>n, <1>o, <3>2
    <3> QED BY <1>o, <3>1, <3>3
  <2>3. CASE doc("propose", e, Other(v)) \notin docs[Other(v)]
    <3>1. Other(v) = w /\ Fresh(e)
      BY <1>2, <1>n, <1>o, <2>3
    <3>2. doc("propose", e, v) \notin docs[v]
      BY <3>1 DEF Fresh
    <3>3. v = w
      BY <1>2, <1>n, <3>2
    <3> QED BY <1>o, <3>1, <3>3
  <2> QED BY <2>1, <2>2, <2>3
<1>3. ASSUME NEW v \in Wallet, NEW e \in withdrawn'[v]
      PROVE  doc("propose", e, v) \in docs'[v] /\ IsUpgrade(v, e)'
  <2>1. e \in withdrawn[v] \/ (v = w /\ Withdraw(w, e))
    <3>1. CASE withdrawn' = withdrawn
      BY <3>1
    <3>2. ASSUME NEW f \in Exchange, Withdraw(w, f)
          PROVE  e \in withdrawn[v] \/ (v = w /\ Withdraw(w, e))
      BY <1>0, <3>2 DEF Withdraw
    <3> QED BY <1>t, <3>1, <3>2, WithdrawnStep
  <2>2. doc("propose", e, v) \in docs[v] /\ IsUpgrade(v, e)
    BY <2>1 DEF Withdraw, WithdrawnInv, WithdrawnOwn
  <2> QED BY <1>d, <2>2 DEF IsUpgrade
<1> QED BY <1>1, <1>2, <1>3 DEF MadeByProposer, OneProposer, WithdrawnOwn

\* The invariant holds at first, and every step keeps it.
LEMMA WithdrawnHolds == Spec => []WithdrawnInv
<1>1. Init => WithdrawnInv
  <2> SUFFICES ASSUME Init PROVE WithdrawnInv
    OBVIOUS
  <2>1. \A w \in Wallet : Queued(w) = {}
    BY DEF Init, Queued
  <2> QED BY <2>1, ConsentInit DEF Init, WithdrawnInv, MadeByProposer, OneProposer, WithdrawnOwn
<1>2. WithdrawnInv /\ [Next]_vars => WithdrawnInv'
  <2> SUFFICES ASSUME WithdrawnInv, [Next]_vars PROVE WithdrawnInv'
    OBVIOUS
  <2>1. ConsentInv'
    BY ConsentStep DEF WithdrawnInv
  <2>2. CASE Next
    <3>1. PICK w \in Wallet : System(w) \/ Environment(w)
      BY <2>2 DEF Next
    <3> QED BY <2>1, <3>1, WithdrawnInvStep DEF WithdrawnInv
  <2>3. CASE UNCHANGED vars
    BY <2>1, <2>3 DEF vars, durable, volatile, WithdrawnInv, MadeByProposer, OneProposer, WithdrawnOwn,
       Queued, IsUpgrade
  <2> QED BY <2>2, <2>3
<1> QED BY <1>1, <1>2, PTL DEF Spec

\* "A later acceptance of it sends no card" (cancelRelationshipUpgrade), however the
\* acceptance is doubled, held or interrupted.
THEOREM StaysWithdrawn == Spec => WithdrawnStaysWithdrawn
<1> DEFINE Idle(w, e) == /\ Deliveries(w, e) = {}
                         /\ \A t \in deferred[w] \cup kept[w] : t.ex # e
           Starts(t, e) == t.ex = e /\ t.op \in {"deliver", "sign"}
           NoneStarts == \A w \in Wallet : \A e \in withdrawn[w] :
                            Idle(w, e) => \A t \in tasks'[w] \cup deferred'[w] : ~Starts(t, e)
<1>1. WithdrawnInv /\ [Next]_vars => NoneStarts
  <2> SUFFICES ASSUME WithdrawnInv, [Next]_vars, NEW v \in Wallet, NEW e \in withdrawn[v], Idle(v, e),
                      NEW t \in tasks'[v] \cup deferred'[v], Starts(t, e)
               PROVE  FALSE
    OBVIOUS
  <2>t. TypeOK /\ InTransit /\ HeldOps /\ withdrawn \in [Wallet -> SUBSET Exchange]
        /\ sending \in [Wallet -> SUBSET Doc]
    BY DEF WithdrawnInv, ConsentInv, TypeOK
  <2>1. Delivering(t) /\ t \notin tasks[v] \cup deferred[v] \cup kept[v]
    BY DEF Delivering, Deliveries
  <2>2. CASE Next
    <3>1. PICK w \in Wallet : System(w) \/ Environment(w)
      BY <2>2 DEF Next
    <3>2. v = w
      BY <2>t, <2>1, <3>1, TasksOrigin, HeldOrigin
    <3>3. \/ \E s \in tasks[w] : Delivering(s) /\ s.ex = t.ex
          \/ \E d \in sending[w] : d.kind = "accept" /\ d.ex = t.ex
          \/ ~NotActedOn(w, t.ex)
      BY <2>t, <2>1, <3>1, DeliveryStarted
    <3>4. ~\E s \in tasks[w] : Delivering(s) /\ s.ex = t.ex
      BY <3>2 DEF Deliveries, Delivering
    <3>5. ~\E d \in sending[w] : d.kind = "accept" /\ d.ex = t.ex
      <4> SUFFICES ASSUME NEW d \in sending[w], d.kind = "accept", d.ex = e PROVE FALSE
        OBVIOUS
      <4>1. e \in Exchange /\ Proposed(w, e)
        BY <2>t, <3>2 DEF WithdrawnInv, ConsentInv, Accepting
      <4>2. doc("propose", e, Other(w)) \in docs[Other(w)]
        BY <4>1 DEF Proposed, WithdrawnInv, MadeByProposer, doc
      <4>3. doc("propose", e, w) \in docs[w]
        BY <3>2 DEF WithdrawnInv, WithdrawnOwn
      <4> QED BY <4>1, <4>2, <4>3 DEF WithdrawnInv, OneProposer
    <3>6. NotActedOn(w, t.ex)
      BY <3>2 DEF WithdrawnInv, WithdrawnOwn, NotActedOn
    <3> QED BY <3>3, <3>4, <3>5, <3>6
  <2>3. CASE UNCHANGED vars
    BY <2>1, <2>3 DEF vars, volatile
  <2> QED BY <2>2, <2>3
<1> QED BY <1>1, WithdrawnHolds, PTL DEF Spec, WithdrawnStaysWithdrawn

-----------------------------------------------------------------------------
(* A held delivery signs nothing.  As long as nothing is delivered twice, a propose is asked    *)
(* about once and its acceptance made once, and each is in one place only: the propose until it *)
(* is accepted, the acceptance until its delivery is held, runs or is done.                     *)

\* The messages of a kind on an exchange that wait for a wallet, by their places in its queue.
Waiting(w, kind, e) == {i \in 1..Len(inbox[w]) : inbox[w][i].kind = kind /\ inbox[w][i].ex = e}
DueBy(w, kind, e) == {d \in sending[w] : d.kind = kind /\ d.ex = e}
RunningFor(w, op, e) == {t \in tasks[w] : t.op = op /\ t.ex = e}
HeldFor(w, e) == {t \in deferred[w] \cup kept[w] : t.op = "deliver" /\ t.ex = e}

\* This wallet's credential on the exchange is out, or its delivery runs.
Given(w, e) == Deliveries(w, e) # {} \/ AlreadyIssued(w, e)

\* The propose is marked here as asked.
Marked(w, e) == \E i \in 1..Len(marks[w]) : marks[w][i] = e

\* Where the peer's propose may be besides the queue, until this wallet accepts it.
ProposeAt(w, e) ==
    ({"due"} \X DueBy(Other(w), "propose", e)) \cup ({"asking"} \X RunningFor(w, "ask", e))
    \cup ({"again"} \X RunningFor(w, "reask", e))
    \cup ({"screen"} \X {x \in {prompt[w]} : x = e}) \cup ({"accepting"} \X RunningFor(w, "accept", e))
    \cup ({"accepted"} \X {d \in docs[w] : d = doc("accept", e, w)})

\* Where the peer's acceptance may be besides the queue, until this wallet's credential is out.
AcceptAt(w, e) ==
    ({"forgetting"} \X RunningFor(Other(w), "forgetAccepted", e)) \cup ({"due"} \X DueBy(Other(w), "accept", e))
    \cup ({"held"} \X HeldFor(w, e))
    \cup ({"given"} \X {x \in {e} : Given(w, e)})

\* One thing is in one place, of those in a queue and those elsewhere.
OneOf(queue, places) ==
    /\ \A i, j \in queue : i = j
    /\ \A x, y \in places : x = y
    /\ queue # {} => places = {}

\* The propose is on its way to the question no more.
AskedBefore(w, e) ==
    /\ Waiting(w, "propose", e) = {}
    /\ DueBy(Other(w), "propose", e) = {} /\ RunningFor(w, "ask", e) = {}

\* A propose is asked about once, and its mark is made then.
AskedOnce ==
    \A w \in Wallet, e \in Exchange :
        /\ OneOf(Waiting(w, "propose", e), ProposeAt(w, e))
        /\ Marked(w, e) => AskedBefore(w, e)

\* An acceptance starts one delivery, or has it held.
AcceptedOnce ==
    \A w \in Wallet, e \in Exchange :
        /\ OneOf(Waiting(w, "accept", e), AcceptAt(w, e))
        /\ HeldFor(w, e) # {} => Accepted(Other(w), e)

\* The steps of the start-up that bring a propose back.
Starting == {"sweep", "restoreAsk", "reask", "forgetAnswered"}

\* Nothing runs while the app does not, and nothing is answered before the start-up is through.
StartsUpFirst ==
    \A w \in Wallet :
        /\ ~up[w] => tasks[w] = {}
        /\ (\E t \in tasks[w] : t.op \in Starting) => \A t \in tasks[w] : t.op \notin {"accept", "decline"}
        /\ \A s, t \in tasks[w] : s.op \in Starting /\ t.op \in Starting => s = t

\* Nothing new comes.
LEMMA OneStays ==
    ASSUME NEW q, NEW s, NEW q1, NEW s1, OneOf(q, s), q1 \subseteq q, s1 \subseteq s
    PROVE  OneOf(q1, s1)
BY DEF OneOf

\* The one thing changes its place.
LEMMA OneMoves ==
    ASSUME NEW q, NEW s, NEW s1, OneOf(q, s), NEW x \in s, NEW y, s1 \subseteq (s \ {x}) \cup {y}
    PROVE  OneOf(q, s1)
BY DEF OneOf

\* It comes where there was none.
LEMMA OneComes ==
    ASSUME NEW y, NEW s1, s1 \subseteq {y}
    PROVE  OneOf({}, s1)
BY DEF OneOf

\* It goes from its place to the queue.
LEMMA OneQueued ==
    ASSUME NEW q, NEW s, NEW q1, NEW s1, OneOf(q, s), NEW x \in s, NEW n,
           q1 \subseteq q \cup {n}, s1 \subseteq s \ {x}
    PROVE  OneOf(q1, s1)
BY DEF OneOf

\* A queue loses its head, and the rest moves up.
LEMMA OneShifts ==
    ASSUME NEW q, NEW s, NEW q1 \in SUBSET Nat, NEW s1, OneOf(q, s), \A i \in q1 : i + 1 \in q, s1 \subseteq s
    PROVE  OneOf(q1, s1)
<1>1. ASSUME NEW i \in q1, NEW j \in q1 PROVE i = j
  <2>1. i + 1 = j + 1 /\ i \in Nat /\ j \in Nat
    BY DEF OneOf
  <2> QED BY <2>1
<1> QED BY <1>1 DEF OneOf

\* At first nothing was asked.
LEMMA OnceInit == Init => AskedOnce /\ AcceptedOnce /\ StartsUpFirst
<1> SUFFICES ASSUME Init PROVE AskedOnce /\ AcceptedOnce /\ StartsUpFirst
  OBVIOUS
<1>1. \A w \in Wallet : \A kind, e : Waiting(w, kind, e) = {}
  BY DEF Init, Waiting
<1>2. \A w \in Wallet : \A kind, e : DueBy(w, kind, e) = {} /\ DueBy(Other(w), kind, e) = {}
  BY OtherTyped DEF Init, DueBy
<1>3. \A w \in Wallet : \A op, e : RunningFor(w, op, e) = {} /\ RunningFor(Other(w), op, e) = {}
  BY OtherTyped DEF Init, RunningFor
<1>4. \A w \in Wallet, e \in Exchange : HeldFor(w, e) = {} /\ Deliveries(w, e) = {} /\ ~AlreadyIssued(w, e)
  BY DEF Init, HeldFor, Deliveries, AlreadyIssued
<1>5. \A w \in Wallet, e \in Exchange : ProposeAt(w, e) = {}
  BY <1>2, <1>3, NoExchangeIsNone DEF ProposeAt, Init
<1>6. \A w \in Wallet, e \in Exchange : AcceptAt(w, e) = {}
  BY <1>2, <1>3, <1>4 DEF AcceptAt, Given
<1>10. \A w \in Wallet : \A e : ~Marked(w, e)
  BY DEF Init, Marked
<1>7. AskedOnce
  BY <1>1, <1>5, <1>10 DEF AskedOnce, OneOf
<1>8. AcceptedOnce
  BY <1>1, <1>4, <1>6 DEF AcceptedOnce, OneOf
<1>9. StartsUpFirst
  BY DEF Init, StartsUpFirst
<1> QED BY <1>7, <1>8, <1>9

\* Steps that ask and answer nothing.
Quiet(w) ==
    \/ Connect(w) \/ Restart(w) \/ Release(w) \/ Stop(w) \/ Crash(w) \/ \E e \in Exchange : Withdraw(w, e)
    \/ \E t \in tasks[w] : \/ Announce(w, t) \/ MaybeOpen(w, t) \/ OpenCheck(w, t) \/ Decline(w, t)
                           \/ Forget(w, t) \/ DeliverCheck(w, t) \/ Issue(w, t) \/ RestoreHold(w, t)
                           \/ Sweep(w, t) \/ ForgetAnswered(w, t) \/ DeliveryFails(w, t)
    \/ \E d \in sending[w] : SendFails(w, d)

\* A quiet step adds no question, no acceptance, and no mark.
LEMMA QuietParts ==
    ASSUME TypeOK, HeldOps, NEW w \in Wallet, Quiet(w), NEW v \in Wallet
    PROVE  /\ inbox' = inbox /\ prompt'[v] \in {prompt[v], NoExchange}
           /\ \A t \in tasks'[v] : t \in tasks[v] \/ t.op \notin {"ask", "accept", "reask"}
           /\ \A d \in sending'[v] : d \in sending[v] \/ d.kind # "propose"
           /\ \A d \in docs'[v] : d \in docs[v] \/ d.kind # "accept"
           /\ \A i \in 1..Len(marks'[v]) : \E j \in 1..Len(marks[v]) : marks'[v][i] = marks[v][j]
<1>0. /\ tasks \in [Wallet -> SUBSET Task] /\ docs \in [Wallet -> SUBSET Doc]
      /\ sending \in [Wallet -> SUBSET Doc] /\ marks \in [Wallet -> Seq(Exchange)]
      /\ prompt \in [Wallet -> Exchange \cup {NoExchange}]
      /\ deferred \in [Wallet -> SUBSET Task]
  BY DEF TypeOK
<1>1. inbox' = inbox
  BY DEF Quiet, Connect, Restart, Release, Stop, Crash, Withdraw, Announce, MaybeOpen, OpenCheck, Decline, Forget,
     DeliverCheck, Issue, RestoreHold, Sweep, ForgetAnswered, DeliveryFails, SendFails
<1>2. prompt'[v] \in {prompt[v], NoExchange}
  <2>1. prompt' = prompt \/ prompt' = [prompt EXCEPT ![w] = NoExchange]
    BY DEF Quiet, Connect, Restart, Release, Stop, Crash, Withdraw, Announce, MaybeOpen, OpenCheck, Decline, Forget,
       DeliverCheck, Issue, RestoreHold, Sweep, ForgetAnswered, DeliveryFails, SendFails, volatile
  <2> QED BY <1>0, <2>1
<1>3. ASSUME NEW t \in tasks'[v], t \notin tasks[v] PROVE t.op \notin {"ask", "accept", "reask"}
  <2>n. ASSUME NEW o \in {"announce", "open", "propose", "maybeOpen", "restoreHold", "sweep", "restoreAsk",
                          "forgetDeclined", "sign"}, NEW b, NEW e, t = task(o, b, e)
        PROVE  t.op \notin {"ask", "accept", "reask"}
    BY <2>n DEF task
  <2>2. CASE \E s \in tasks[w] : \/ Announce(w, s) \/ Forget(w, s) \/ Issue(w, s) \/ RestoreHold(w, s)
                                 \/ ForgetAnswered(w, s) \/ DeliveryFails(w, s)
    <3>1. PICK s \in tasks[w] : Runs(w, s, {})
      BY <2>2 DEF Announce, Forget, Issue, RestoreHold, ForgetAnswered, DeliveryFails
    <3> QED BY <1>0, <1>3, <3>1 DEF Runs
  <2>3. CASE \E s \in tasks[w] : MaybeOpen(w, s) \/ OpenCheck(w, s)
    <3>1. PICK s \in tasks[w] :
             \E new \in {{}, {task("open", s.by, NoExchange)}, {task("propose", s.by, NoExchange)}} :
                 tasks' = [tasks EXCEPT ![w] = (@ \ {s}) \cup new]
      BY <2>3 DEF MaybeOpen, OpenCheck, Runs
    <3>2. t = task("open", s.by, NoExchange) \/ t = task("propose", s.by, NoExchange)
      BY <1>0, <1>3, <3>1
    <3> QED BY <2>n, <3>2
  <2>4. CASE \E s \in tasks[w] : DeliverCheck(w, s) \/ Decline(w, s)
    <3>1. PICK s \in tasks[w] :
             \E new \in {{}, {task("sign", s.by, s.ex)}, {task("forgetDeclined", "user", s.ex)}} :
                 tasks' = [tasks EXCEPT ![w] = (@ \ {s}) \cup new]
      BY <2>4 DEF DeliverCheck, Decline, Runs
    <3>2. t = task("sign", s.by, s.ex) \/ t = task("forgetDeclined", "user", s.ex)
      BY <1>0, <1>3, <3>1
    <3> QED BY <2>n, <3>2
  <2>8. CASE \E s \in tasks[w] : Sweep(w, s)
    <3>1. t \in {task("restoreAsk", "user", NoExchange), task("maybeOpen", "sweep", NoExchange)}
      BY <1>0, <1>3, <2>8 DEF Sweep, Runs
    <3> QED BY <2>n, <3>1
  <2>5. CASE Release(w)
    <3>1. t \in deferred[w] /\ w \in Wallet
      BY <1>0, <1>3, <2>5 DEF Release
    <3>2. t.op \in {"announce", "maybeOpen", "deliver"}
      BY <3>1 DEF HeldOps
    <3> QED BY <3>2
  <2>6. CASE Connect(w) \/ Restart(w)
    <3>1. CASE Connect(w)
      <4>1. t = task("announce", "release", NoExchange)
        BY <1>0, <1>3, <3>1 DEF Connect, Proceed, Hold
      <4> QED BY <2>n, <4>1
    <3>2. CASE Restart(w)
      <4>1. t \in {task("restoreHold", "sweep", NoExchange), task("sweep", "sweep", NoExchange)}
        BY <1>0, <1>3, <3>2 DEF Restart
      <4> QED BY <2>n, <4>1
    <3> QED BY <2>6, <3>1, <3>2
  <2>7. CASE Stop(w) \/ Crash(w) \/ (\E e \in Exchange : Withdraw(w, e)) \/ \E d \in sending[w] : SendFails(w, d)
    <3>1. tasks' = tasks \/ tasks' = [tasks EXCEPT ![w] = {}]
      BY <2>7 DEF Stop, Crash, Withdraw, SendFails, volatile
    <3> QED BY <1>0, <1>3, <3>1
  <2> QED BY <2>2, <2>3, <2>4, <2>5, <2>6, <2>7, <2>8 DEF Quiet
<1>4. ASSUME NEW d \in sending'[v], d \notin sending[v] PROVE d.kind # "propose"
  <2>n. ASSUME NEW k \in {"announce", "query", "issue", "stop", "accept", "declined"}, NEW e, d = doc(k, e, w)
        PROVE  d.kind # "propose"
    BY <2>n DEF doc
  <2>1. CASE \E s \in tasks[w] : Announce(w, s) \/ Issue(w, s) \/ Forget(w, s)
    <3>1. PICK k \in {"announce", "issue", "accept", "declined"} : \E e : SendNext(w, {doc(k, e, w)})
      BY <2>1 DEF Announce, Issue, Forget
    <3>2. \E e : d = doc(k, e, w)
      BY <1>0, <1>4, <3>1 DEF SendNext
    <3> QED BY <2>n, <3>2
  <2>5. CASE Stop(w) \/ \E s \in tasks[w] : MaybeOpen(w, s)
    <3>1. PICK D \in {{}, Query(w), {doc("stop", NoExchange, w)}} : SendNext(w, D)
      BY <2>5 DEF Stop, MaybeOpen
    <3>2. d = doc("query", NoExchange, w) \/ d = doc("stop", NoExchange, w)
      BY <1>0, <1>4, <3>1 DEF SendNext, Query
    <3> QED BY <2>n, <3>2
  <2>3. CASE Crash(w) \/ \E m \in sending[w] : SendFails(w, m)
    BY <1>0, <1>4, <2>3 DEF Crash, SendFails
  <2>4. CASE sending' = sending
    BY <1>4, <2>4
  <2> QED BY <2>1, <2>5, <2>3, <2>4 DEF Quiet, Connect, Restart, Release, Withdraw, OpenCheck, Decline,
             DeliverCheck, RestoreHold, Sweep, ForgetAnswered, DeliveryFails, volatile
<1>5. ASSUME NEW d \in docs'[v], d \notin docs[v] PROVE d.kind # "accept"
  <2>n. ASSUME NEW k \in {"query", "issue", "declined"}, NEW e, d = doc(k, e, w)
        PROVE  d.kind # "accept"
    BY <2>n DEF doc
  <2>1. CASE \E s \in tasks[w] : MaybeOpen(w, s)
    <3>1. PICK D \in {{}, Query(w)} : Retain(w, D)
      BY <2>1 DEF MaybeOpen
    <3>2. d = doc("query", NoExchange, w)
      BY <1>0, <1>5, <3>1 DEF Retain, Query
    <3> QED BY <2>n, <3>2
  <2>3. CASE \E s \in tasks[w] : Issue(w, s) \/ Decline(w, s)
    <3>1. PICK k \in {"issue", "declined"} : \E e : Retain(w, {doc(k, e, w)})
      BY <2>3 DEF Issue, Decline
    <3>2. \E e : d = doc(k, e, w)
      BY <1>0, <1>5, <3>1 DEF Retain
    <3> QED BY <2>n, <3>2
  <2>2. CASE docs' = docs
    BY <1>5, <2>2
  <2> QED BY <2>1, <2>2, <2>3 DEF Quiet, Connect, Restart, Release, Stop, Crash, Withdraw, Announce, OpenCheck, Forget,
             DeliverCheck, RestoreHold, Sweep, ForgetAnswered, DeliveryFails, SendFails, durable
<1>6. \A i \in 1..Len(marks'[v]) : \E j \in 1..Len(marks[v]) : marks'[v][i] = marks[v][j]
  <2>1. CASE marks' = marks
    BY <2>1
  <2>2. ASSUME NEW s \in tasks[w], Forget(w, s) \/ ForgetAnswered(w, s)
        PROVE  \A i \in 1..Len(marks'[v]) : \E j \in 1..Len(marks[v]) : marks'[v][i] = marks[v][j]
    <3>1. /\ marks'[w] = MarksWithout(marks[w], s.ex) /\ s.ex \in Exchange /\ marks[w] \in Seq(Exchange)
          /\ \A u \in Wallet \ {w} : marks'[u] = marks[u]
      BY <1>0, <2>2, TaskEx DEF Forget, ForgetAnswered, Answering
    <3>2. \A i \in 1..Len(MarksWithout(marks[w], s.ex)) :
             \E j \in 1..Len(marks[w]) : MarksWithout(marks[w], s.ex)[i] = marks[w][j]
      BY <3>1, MarksOld
    <3>3. CASE v = w
      BY <3>1, <3>2, <3>3
    <3>4. CASE v # w
      BY <3>1, <3>4
    <3> QED BY <3>3, <3>4
  <2> QED BY <2>1, <2>2 DEF Quiet, Connect, Restart, Release, Stop, Crash, Withdraw, Announce, MaybeOpen, OpenCheck,
             Decline, DeliverCheck, Issue, RestoreHold, Sweep, DeliveryFails, SendFails, durable
<1> QED BY <1>1, <1>2, <1>3, <1>4, <1>5, <1>6

\* A document that is sent comes last in the peer's queue.
LEMMA SendQueues ==
    ASSUME TypeOK, NEW w \in Wallet, NEW d \in sending[w], Send(w, d), NEW v \in Wallet, NEW kind, NEW e
    PROVE  Waiting(v, kind, e)' \subseteq
              Waiting(v, kind, e) \cup {i \in {Len(inbox[v]) + 1} : v = Other(w) /\ d.kind = kind /\ d.ex = e}
<1>1. inbox[v] \in Seq(Doc) /\ inbox[Other(w)] \in Seq(Doc) /\ d \in Doc
  BY OtherTyped DEF TypeOK
<1>2. inbox'[v] = inbox[v] \/ (v = Other(w) /\ inbox'[v] = Append(inbox[v], d))
  BY OtherTyped DEF Send, TypeOK
<1>3. CASE inbox'[v] = inbox[v]
  BY <1>3 DEF Waiting
<1>4. CASE v = Other(w) /\ inbox'[v] = Append(inbox[v], d)
  BY <1>1, <1>4 DEF Waiting
<1> QED BY <1>2, <1>3, <1>4

\* A message that is received was the first in the queue, and the others move up.
LEMMA ReceiveQueues ==
    ASSUME TypeOK, NEW w \in Wallet, Receive(w), NEW v \in Wallet, NEW kind, NEW e
    PROVE  /\ Waiting(v, kind, e)' \in SUBSET (Nat \ {0})
           /\ v # w => Waiting(v, kind, e)' = Waiting(v, kind, e)
           /\ \A i \in Waiting(w, kind, e)' : i + 1 \in Waiting(w, kind, e)
           /\ Head(inbox[w]).kind = kind /\ Head(inbox[w]).ex = e => 1 \in Waiting(w, kind, e)
<1>1. /\ inbox[w] \in Seq(Doc) /\ inbox[w] # <<>> /\ inbox'[w] = Tail(inbox[w])
      /\ v # w => inbox'[v] = inbox[v]
  BY DEF TypeOK, Receive
<1>2. /\ Len(inbox[w]) \in Nat /\ Len(inbox[w]) # 0 /\ Head(inbox[w]) = inbox[w][1]
      /\ Len(Tail(inbox[w])) = Len(inbox[w]) - 1
      /\ \A i \in 1..Len(Tail(inbox[w])) : Tail(inbox[w])[i] = inbox[w][i + 1]
  BY <1>1
<1>3. Waiting(v, kind, e)' \in SUBSET (Nat \ {0})
  BY DEF Waiting
<1>4. v # w => Waiting(v, kind, e)' = Waiting(v, kind, e)
  BY <1>1 DEF Waiting
<1>5. \A i \in Waiting(w, kind, e)' : i + 1 \in Waiting(w, kind, e)
  BY <1>1, <1>2 DEF Waiting
<1>6. Head(inbox[w]).kind = kind /\ Head(inbox[w]).ex = e => 1 \in Waiting(w, kind, e)
  BY <1>2 DEF Waiting
<1> QED BY <1>3, <1>4, <1>5, <1>6

\* What is received, and who sent it.
LEMMA ReceivedHead ==
    ASSUME TypeOK, InTransit, NEW w \in Wallet, Receive(w)
    PROVE  /\ Head(inbox[w]) \in Doc /\ Head(inbox[w]) \in Queued(w) /\ Handle(w, Head(inbox[w]))
           /\ Head(inbox[w]).from = Other(w)
<1>1. inbox[w] \in Seq(Doc) /\ inbox[w] # <<>> /\ Handle(w, Head(inbox[w]))
  BY DEF TypeOK, Receive
<1>2. Head(inbox[w]) \in Queued(w) /\ Head(inbox[w]) \in Doc
  BY <1>1, QueueOps DEF Queued
<1> QED BY <1>1, <1>2 DEF InTransit

\* A place that gets nothing new.
LEMMA ProposeAtStays ==
    ASSUME NEW v, NEW e,
           \A d \in sending'[Other(v)] : d \in sending[Other(v)] \/ d.kind # "propose" \/ d.ex # e,
           \A t \in tasks'[v] : t \in tasks[v] \/ t.op \notin {"ask", "accept", "reask"} \/ t.ex # e,
           prompt'[v] = e => prompt[v] = e,
           Accepted(v, e)' => Accepted(v, e)
    PROVE  ProposeAt(v, e)' \subseteq ProposeAt(v, e)
<1>1. DueBy(Other(v), "propose", e)' \subseteq DueBy(Other(v), "propose", e)
  BY DEF DueBy
<1>2. \A op \in {"ask", "accept", "reask"} : RunningFor(v, op, e)' \subseteq RunningFor(v, op, e)
  BY DEF RunningFor
<1>3. \A d \in docs'[v] : d = doc("accept", e, v) => d \in docs[v]
  BY DEF Accepted
<1> QED BY <1>1, <1>2, <1>3 DEF ProposeAt

\* No place at all.
LEMMA ProposeAtEmpty ==
    ASSUME NEW v, NEW e, ProposeAt(v, e) = {}
    PROVE  /\ DueBy(Other(v), "propose", e) = {} /\ RunningFor(v, "ask", e) = {} /\ RunningFor(v, "accept", e) = {}
           /\ RunningFor(v, "reask", e) = {} /\ prompt[v] # e /\ ~Accepted(v, e)
<1>1. \A d \in DueBy(Other(v), "propose", e) : <<"due", d>> \in ProposeAt(v, e)
  BY DEF ProposeAt
<1>2. \A t \in RunningFor(v, "ask", e) : <<"asking", t>> \in ProposeAt(v, e)
  BY DEF ProposeAt
<1>3. \A t \in RunningFor(v, "accept", e) : <<"accepting", t>> \in ProposeAt(v, e)
  BY DEF ProposeAt
<1>6. \A t \in RunningFor(v, "reask", e) : <<"again", t>> \in ProposeAt(v, e)
  BY DEF ProposeAt
<1>4. prompt[v] = e => <<"screen", e>> \in ProposeAt(v, e)
  BY DEF ProposeAt
<1>5. Accepted(v, e) => <<"accepted", doc("accept", e, v)>> \in ProposeAt(v, e)
  BY DEF ProposeAt, Accepted
<1> QED BY <1>1, <1>2, <1>3, <1>4, <1>5, <1>6

\* A mark that stays, on a propose that stays asked.
LEMMA MarkedStays ==
    ASSUME NEW v \in Wallet, NEW e \in Exchange, AskedOnce, Marked(v, e)' => Marked(v, e),
           \A d \in sending'[Other(v)] : d \in sending[Other(v)] \/ d.kind # "propose" \/ d.ex # e,
           \A t \in tasks'[v] : t \in tasks[v] \/ t.op # "ask" \/ t.ex # e,
           Waiting(v, "propose", e) = {} => Waiting(v, "propose", e)' = {}
    PROVE  Marked(v, e)' => AskedBefore(v, e)'
<1> SUFFICES ASSUME Marked(v, e)' PROVE AskedBefore(v, e)'
  OBVIOUS
<1>1. AskedBefore(v, e)
  BY DEF AskedOnce
<1>2. DueBy(Other(v), "propose", e)' = {}
  BY <1>1 DEF AskedBefore, DueBy
<1>3. RunningFor(v, "ask", e)' = {}
  BY <1>1 DEF AskedBefore, RunningFor
<1> QED BY <1>1, <1>2, <1>3 DEF AskedBefore

\* Asked once, after a step.
AskedOn(v, e) ==
    /\ OneOf(Waiting(v, "propose", e), ProposeAt(v, e))
    /\ Marked(v, e) => AskedBefore(v, e)

\* A quiet step moves no propose.
LEMMA AskedQuiet ==
    ASSUME TypeOK, HeldOps, AskedOnce, NEW w \in Wallet, Quiet(w), NEW v \in Wallet, NEW e \in Exchange
    PROVE  AskedOn(v, e)'
<1>1. /\ inbox' = inbox /\ prompt'[v] \in {prompt[v], NoExchange}
      /\ \A t \in tasks'[v] : t \in tasks[v] \/ t.op \notin {"ask", "accept", "reask"}
      /\ \A d \in docs'[v] : d \in docs[v] \/ d.kind # "accept"
      /\ \A i \in 1..Len(marks'[v]) : \E j \in 1..Len(marks[v]) : marks'[v][i] = marks[v][j]
  BY QuietParts
<1>2. \A d \in sending'[Other(v)] : d \in sending[Other(v)] \/ d.kind # "propose"
  BY QuietParts, OtherTyped
<1>3. Accepted(v, e)' => Accepted(v, e)
  BY <1>1 DEF Accepted, doc
<1>4. Waiting(v, "propose", e)' = Waiting(v, "propose", e)
  BY <1>1 DEF Waiting
<1>5. prompt'[v] = e => prompt[v] = e
  BY <1>1, NoExchangeIsNone
<1>6. Marked(v, e)' => Marked(v, e)
  BY <1>1 DEF Marked
<1>7. ProposeAt(v, e)' \subseteq ProposeAt(v, e)
  BY <1>1, <1>2, <1>3, <1>5, ProposeAtStays
<1>8. OneOf(Waiting(v, "propose", e), ProposeAt(v, e))
  BY DEF AskedOnce
<1>9. OneOf(Waiting(v, "propose", e)', ProposeAt(v, e)')
  BY <1>4, <1>7, <1>8, OneStays
<1>10. Marked(v, e)' => AskedBefore(v, e)'
  BY <1>1, <1>2, <1>4, <1>6, MarkedStays
<1> QED BY <1>9, <1>10 DEF AskedOn, OneOf

\* A propose under an exchange id that is fresh is nowhere yet.
LEMMA FreshNowhere ==
    ASSUME ConsentInv, MadeByProposer, NEW e \in Exchange, Fresh(e), NEW v \in Wallet
    PROVE  /\ Waiting(v, "propose", e) = {} /\ ProposeAt(v, e) = {} /\ ~Marked(v, e)
<1>0. /\ TypeOK /\ InTransit /\ Asking /\ Accepting
      /\ inbox[v] \in Seq(Doc) /\ sending[Other(v)] \in SUBSET Doc /\ Other(v) \in Wallet
  BY OtherTyped DEF ConsentInv, TypeOK
<1>1. ASSUME NEW u \in Wallet, NEW d \in docs[u] \cup sending[u] \cup Queued(u), d.kind = "propose", d.ex = e,
             d.from \in Wallet, d \in Doc
      PROVE  FALSE
  <2>1. d \in docs[d.from]
    BY <1>1 DEF MadeByProposer
  <2>2. d = doc("propose", e, d.from)
    BY <1>1 DEF Doc, doc
  <2> QED BY <1>1, <2>1, <2>2 DEF Fresh
<1>2. ~Proposed(v, e)
  <2> DEFINE d == doc("propose", e, Other(v))
  <2> SUFFICES ASSUME d \in docs[v] PROVE FALSE
    BY DEF Proposed
  <2>1. d.kind = "propose" /\ d.ex = e /\ d.from = Other(v) /\ d \in Doc
    BY <1>0 DEF doc, TypeOK
  <2> HIDE DEF d
  <2> QED BY <1>0, <1>1, <2>1
<1>3. Waiting(v, "propose", e) = {}
  <2> SUFFICES ASSUME NEW i \in Waiting(v, "propose", e) PROVE FALSE
    OBVIOUS
  <2>1. inbox[v][i] \in Queued(v) /\ inbox[v][i] \in Doc /\ inbox[v][i].kind = "propose" /\ inbox[v][i].ex = e
    BY <1>0 DEF Waiting, Queued
  <2> QED BY <1>1, <2>1, DocEx
<1>4. DueBy(Other(v), "propose", e) = {}
  <2> SUFFICES ASSUME NEW d \in DueBy(Other(v), "propose", e) PROVE FALSE
    OBVIOUS
  <2>1. d \in sending[Other(v)] /\ d \in Doc /\ d.kind = "propose" /\ d.ex = e
    BY <1>0 DEF DueBy
  <2> QED BY <1>0, <1>1, <2>1, DocEx
<1>5. \A t \in tasks[v] : t.op \in {"ask", "accept", "reask"} => t.ex # e
  BY <1>0, <1>2 DEF Asking
<1>6. prompt[v] # e /\ ~Marked(v, e)
  BY <1>0, <1>2, NoExchangeIsNone DEF Asking, Marked
<1>7. ~Accepted(v, e)
  BY <1>0, <1>2 DEF Accepting
<1>8. RunningFor(v, "ask", e) = {} /\ RunningFor(v, "accept", e) = {} /\ RunningFor(v, "reask", e) = {}
  BY <1>5 DEF RunningFor
<1>9. ProposeAt(v, e) = {}
  BY <1>4, <1>6, <1>7, <1>8 DEF ProposeAt, Accepted
<1> QED BY <1>3, <1>6, <1>9

\* A propose that is made waits to be sent.
LEMMA AskedPropose ==
    ASSUME ConsentInv, MadeByProposer, AskedOnce, NEW w \in Wallet, NEW f \in Exchange,
           Upgrade(w, f) \/ \E t \in tasks[w] : Propose(w, t, f),
           NEW v \in Wallet, NEW e \in Exchange
    PROVE  AskedOn(v, e)'
<1>0. /\ TypeOK /\ docs \in [Wallet -> SUBSET Doc] /\ sending \in [Wallet -> SUBSET Doc]
      /\ tasks \in [Wallet -> SUBSET Task] /\ Other(v) \in Wallet
  BY OtherTyped DEF ConsentInv, TypeOK
<1> DEFINE d == doc("propose", f, w)
<1>1. Fresh(f) /\ Retain(w, {d}) /\ SendNext(w, {d}) /\ inbox' = inbox /\ prompt' = prompt /\ marks' = marks
  BY DEF Upgrade, Propose
<1>2. \A t \in tasks'[v] : t \in tasks[v]
  BY <1>0 DEF Upgrade, Propose, Runs
<1>3. d.kind = "propose" /\ d.ex = f /\ d.from = w
  BY DEF doc
<1>4. \A m \in sending'[Other(v)] : m \in sending[Other(v)] \/ (m = d /\ Other(v) = w)
  BY <1>0, <1>1 DEF SendNext
<1>5. Accepted(v, e)' => Accepted(v, e)
  BY <1>0, <1>1 DEF Accepted, Retain, doc
<1>6. Waiting(v, "propose", e)' = Waiting(v, "propose", e) /\ Marked(v, e)' = Marked(v, e)
  BY <1>1 DEF Waiting, Marked
<1> HIDE DEF d
<1>7. CASE e # f
  <2>1. \A m \in sending'[Other(v)] : m \in sending[Other(v)] \/ m.kind # "propose" \/ m.ex # e
    BY <1>3, <1>4, <1>7
  <2>2. ProposeAt(v, e)' \subseteq ProposeAt(v, e)
    BY <1>1, <1>2, <1>5, <2>1, ProposeAtStays
  <2>3. OneOf(Waiting(v, "propose", e), ProposeAt(v, e))
    BY DEF AskedOnce
  <2>4. OneOf(Waiting(v, "propose", e)', ProposeAt(v, e)')
    BY <1>6, <2>2, <2>3, OneStays
  <2>5. Marked(v, e)' => AskedBefore(v, e)'
    BY <1>2, <1>6, <2>1, MarkedStays
  <2> QED BY <2>4, <2>5 DEF AskedOn, OneOf
<1>8. CASE e = f
  <2>1. Waiting(v, "propose", e)' = {} /\ ProposeAt(v, e) = {} /\ ~Marked(v, e)'
    BY <1>1, <1>6, <1>8, FreshNowhere
  <2>3. /\ DueBy(Other(v), "propose", e) = {} /\ RunningFor(v, "ask", e) = {} /\ RunningFor(v, "accept", e) = {}
        /\ RunningFor(v, "reask", e) = {} /\ prompt[v] # e /\ ~Accepted(v, e)
    BY <2>1, ProposeAtEmpty
  <2>2. /\ RunningFor(v, "ask", e)' = {} /\ RunningFor(v, "accept", e)' = {}
        /\ RunningFor(v, "reask", e)' = {} /\ prompt'[v] # e /\ ~Accepted(v, e)'
    BY <1>1, <1>2, <1>5, <2>3 DEF RunningFor
  <2>4. DueBy(Other(v), "propose", e)' \subseteq {d}
    BY <1>4, <2>3 DEF DueBy
  <2>5. ProposeAt(v, e)' \subseteq {<<"due", d>>}
    BY <2>2, <2>4 DEF ProposeAt, Accepted
  <2>6. OneOf({}, ProposeAt(v, e)')
    BY <2>5, OneComes
  <2> QED BY <2>1, <2>6 DEF AskedOn, OneOf
<1> QED BY <1>7, <1>8

\* A propose that is sent waits in the peer's queue.
LEMMA AskedSend ==
    ASSUME TypeOK, AskedOnce, NEW w \in Wallet, NEW d \in sending[w], Send(w, d),
           NEW v \in Wallet, NEW e \in Exchange
    PROVE  AskedOn(v, e)'
<1>0. /\ docs \in [Wallet -> SUBSET Doc] /\ sending \in [Wallet -> SUBSET Doc]
      /\ tasks \in [Wallet -> SUBSET Task] /\ Other(v) \in Wallet /\ Other(w) \in Wallet /\ Other(Other(v)) = v
  BY OtherTyped DEF TypeOK
<1> DEFINE q == doc("query", NoExchange, w)
<1>q. q.kind = "query"
  BY DEF doc
<1>1. prompt' = prompt /\ marks' = marks
  BY DEF Send
<1>2. \A t \in tasks'[v] : t \in tasks[v] \/ t.op \notin {"ask", "accept", "reask"}
  BY <1>0 DEF Send, AfterSend, StartDelivery, task
<1>3. \A m \in sending'[Other(v)] : m \in sending[Other(v)] \/ m.kind # "propose"
  <2>1. \A m \in sending'[Other(v)] : m \in sending[Other(v)] \/ m = q
    BY <1>0 DEF Send, AfterSend, Query
  <2> QED BY <1>q, <2>1
<1>4. Accepted(v, e)' => Accepted(v, e)
  <2>1. \A m \in docs'[v] : m \in docs[v] \/ m = q
    BY <1>0 DEF Send, AfterSend, Query, Retain
  <2> QED BY <1>q, <2>1 DEF Accepted, doc
<1> HIDE DEF q
<1>5. ProposeAt(v, e)' \subseteq ProposeAt(v, e)
  BY <1>1, <1>2, <1>3, <1>4, ProposeAtStays
<1>6. Marked(v, e)' = Marked(v, e)
  BY <1>1 DEF Marked
<1>7. Waiting(v, "propose", e)' \subseteq
         Waiting(v, "propose", e) \cup {i \in {Len(inbox[v]) + 1} : v = Other(w) /\ d.kind = "propose" /\ d.ex = e}
  BY SendQueues
<1>8. OneOf(Waiting(v, "propose", e), ProposeAt(v, e))
  BY DEF AskedOnce
<1>9. CASE v = Other(w) /\ d.kind = "propose" /\ d.ex = e
  <2>1. Other(v) = w /\ <<"due", d>> \in ProposeAt(v, e) /\ d \in DueBy(Other(v), "propose", e)
    BY <1>9, OtherTyped DEF ProposeAt, DueBy
  <2>2. d \notin sending'[Other(v)]
    BY <1>0, <1>9, <2>1 DEF Send, AfterSend
  <2>3. <<"due", d>> \notin ProposeAt(v, e)'
    BY <2>2 DEF ProposeAt, DueBy
  <2> DEFINE x == <<"due", d>>
             n == Len(inbox[v]) + 1
  <2>6. /\ x \in ProposeAt(v, e) /\ ProposeAt(v, e)' \subseteq ProposeAt(v, e) \ {x}
        /\ Waiting(v, "propose", e)' \subseteq Waiting(v, "propose", e) \cup {n}
    BY <1>5, <1>7, <2>1, <2>3
  <2> HIDE DEF x, n
  <2>4. OneOf(Waiting(v, "propose", e)', ProposeAt(v, e)')
    BY <1>8, <2>6, OneQueued
  <2>5. ~Marked(v, e)'
    BY <1>6, <2>1 DEF AskedOnce, AskedBefore
  <2> QED BY <2>4, <2>5 DEF AskedOn, OneOf
<1>10. CASE ~(v = Other(w) /\ d.kind = "propose" /\ d.ex = e)
  <2>1. Waiting(v, "propose", e)' \subseteq Waiting(v, "propose", e)
    BY <1>7, <1>10
  <2>2. OneOf(Waiting(v, "propose", e)', ProposeAt(v, e)')
    BY <1>5, <1>8, <2>1, OneStays
  <2>3. Marked(v, e)' => AskedBefore(v, e)'
    BY <1>2, <1>3, <1>6, <2>1, MarkedStays
  <2> QED BY <2>2, <2>3 DEF AskedOn, OneOf
<1> QED BY <1>9, <1>10

\* A propose that is received is asked about next.
LEMMA AskedReceive ==
    ASSUME TypeOK, InTransit, AskedOnce, NEW w \in Wallet, Receive(w), NEW v \in Wallet, NEW e \in Exchange
    PROVE  AskedOn(v, e)'
<1> DEFINE m == Head(inbox[w])
<1>0. /\ docs \in [Wallet -> SUBSET Doc] /\ sending \in [Wallet -> SUBSET Doc]
      /\ tasks \in [Wallet -> SUBSET Task] /\ Other(v) \in Wallet /\ Other(w) \in Wallet /\ Other(w) # w
  BY OtherTyped DEF TypeOK
<1>m. m \in Doc /\ Handle(w, m) /\ m.from = Other(w)
  BY ReceivedHead
<1>1. prompt' = prompt /\ marks' = marks
  BY <1>m DEF Handle, RecvAnnounce, RecvStop, RecvQuery, RecvAnswer, RecvPropose, RecvAccept, RecvIssue, RecvOther
<1>q. /\ Waiting(v, "propose", e)' \in SUBSET (Nat \ {0})
      /\ v # w => Waiting(v, "propose", e)' = Waiting(v, "propose", e)
      /\ v = w => \A i \in Waiting(v, "propose", e)' : i + 1 \in Waiting(v, "propose", e)
      /\ m.kind = "propose" /\ m.ex = e => 1 \in Waiting(w, "propose", e)
  BY ReceiveQueues
<1> HIDE DEF m
<1>2. ASSUME NEW t \in tasks'[v], t \notin tasks[v], t.op \in {"ask", "accept", "reask"}
      PROVE  v = w /\ m.kind = "propose" /\ t = task("ask", "inbound", m.ex)
  <2>n. \A b, f : task("maybeOpen", b, f).op = "maybeOpen" /\ task("open", b, f).op = "open"
                  /\ task("deliver", b, f).op = "deliver"
    BY DEF task
  <2>1. CASE RecvPropose(w, m) /\ m.kind = "propose"
    BY <1>0, <1>2, <2>1 DEF RecvPropose
  <2>2. CASE RecvAnnounce(w) \/ RecvAnswer(w, m)
    <3>1. t = task("maybeOpen", "inbound", NoExchange) \/ t = task("open", "inbound", NoExchange)
      BY <1>0, <1>2, <2>2 DEF RecvAnnounce, RecvAnswer
    <3> QED BY <1>2, <2>n, <3>1
  <2>3. CASE RecvAccept(w, m)
    <3>1. t = task("deliver", "inbound", m.ex)
      BY <1>0, <1>2, <2>3 DEF RecvAccept, Proceed, Hold, StartDelivery
    <3> QED BY <1>2, <2>n, <3>1
  <2>4. CASE tasks' = tasks
    BY <1>2, <2>4
  <2> QED BY <1>m, <2>1, <2>2, <2>3, <2>4 DEF Handle, RecvStop, RecvQuery, RecvIssue, RecvOther
<1>3. ASSUME NEW d \in sending'[Other(v)], d \notin sending[Other(v)] PROVE d.kind # "propose"
  <2>1. \E k \in {"answer", "mismatch", "receipt", "refused"} : \E f : d = doc(k, f, w)
    BY <1>0, <1>m, <1>3 DEF Handle, RecvAnnounce, RecvStop, RecvQuery, RecvAnswer, RecvPropose, RecvAccept,
       RecvIssue, RecvOther, SendNext
  <2> QED BY <2>1 DEF doc
<1>4. Accepted(v, e)' => Accepted(v, e)
  <2> DEFINE d == doc("accept", e, v)
  <2> SUFFICES ASSUME d \in docs'[v], d \notin docs[v] PROVE FALSE
    BY DEF Accepted
  <2>1. d.kind = "accept" /\ d.from = v
    BY DEF doc
  <2>2. v = w /\ (d = m \/ \E k \in {"answer", "mismatch", "receipt"} : \E f : d = doc(k, f, w))
    <3> HIDE DEF d
    <3> QED BY <1>0, <1>m DEF Handle, RecvAnnounce, RecvStop, RecvQuery, RecvAnswer, RecvPropose, RecvAccept,
               RecvIssue, RecvOther, Retain
  <2> QED BY <1>0, <1>m, <2>1, <2>2 DEF doc
<1>5. OneOf(Waiting(v, "propose", e), ProposeAt(v, e))
  BY DEF AskedOnce
<1>6. Marked(v, e)' = Marked(v, e)
  BY <1>1 DEF Marked
<1>7. CASE v = w /\ m.kind = "propose" /\ m.ex = e
  <2> DEFINE y == <<"asking", task("ask", "inbound", e)>>
  <2>1. 1 \in Waiting(v, "propose", e)
    BY <1>q, <1>7
  <2>2. ProposeAt(v, e)' \subseteq ProposeAt(v, e) \cup {y}
    <3>1. DueBy(Other(v), "propose", e)' \subseteq DueBy(Other(v), "propose", e)
      BY <1>3 DEF DueBy
    <3>2. RunningFor(v, "ask", e)' \subseteq RunningFor(v, "ask", e) \cup {task("ask", "inbound", e)}
      BY <1>2, <1>7 DEF RunningFor
    <3>3. /\ RunningFor(v, "accept", e)' \subseteq RunningFor(v, "accept", e)
          /\ RunningFor(v, "reask", e)' \subseteq RunningFor(v, "reask", e)
      BY <1>2 DEF RunningFor, task
    <3>4. \A d \in docs'[v] : d = doc("accept", e, v) => d \in docs[v]
      BY <1>4 DEF Accepted
    <3> QED BY <1>1, <3>1, <3>2, <3>3, <3>4 DEF ProposeAt
  <2> HIDE DEF y
  <2>3. \A i \in Waiting(v, "propose", e)' : i + 1 \in Waiting(v, "propose", e)
    BY <1>q, <1>7
  <2>0. Waiting(v, "propose", e)' \in SUBSET (Nat \ {0})
    BY <1>q
  <2>4. OneOf(Waiting(v, "propose", e)', ProposeAt(v, e)')
    <3>1. ProposeAt(v, e) = {} /\ \A i \in Waiting(v, "propose", e) : i = 1
      BY <1>5, <2>1 DEF OneOf
    <3>2. Waiting(v, "propose", e)' = {}
      BY <2>0, <2>3, <3>1
    <3>3. ProposeAt(v, e)' \subseteq {y}
      BY <2>2, <3>1
    <3> QED BY <3>2, <3>3, OneComes
  <2>5. ~Marked(v, e)'
    BY <1>6, <2>1 DEF AskedOnce, AskedBefore
  <2> QED BY <2>4, <2>5 DEF AskedOn, OneOf
<1>8. CASE ~(v = w /\ m.kind = "propose" /\ m.ex = e)
  <2>1. \A t \in tasks'[v] : t \in tasks[v] \/ t.op \notin {"ask", "accept", "reask"} \/ t.ex # e
    BY <1>2, <1>8 DEF task
  <2>2. ProposeAt(v, e)' \subseteq ProposeAt(v, e)
    BY <1>1, <1>3, <1>4, <2>1, ProposeAtStays
  <2>3. OneOf(Waiting(v, "propose", e)', ProposeAt(v, e)')
    <3>1. CASE v = w
      <4>1. /\ Waiting(v, "propose", e)' \in SUBSET Nat
            /\ \A i \in Waiting(v, "propose", e)' : i + 1 \in Waiting(v, "propose", e)
        BY <1>q, <3>1
      <4> QED BY <1>5, <2>2, <4>1, OneShifts
    <3>2. CASE v # w
      BY <1>q, <1>5, <2>2, <3>2, OneStays
    <3> QED BY <3>1, <3>2
  <2>4. Waiting(v, "propose", e) = {} => Waiting(v, "propose", e)' = {}
    BY <1>q
  <2>5. Marked(v, e)' => AskedBefore(v, e)'
    BY <1>3, <1>6, <2>1, <2>4, MarkedStays
  <2> QED BY <2>3, <2>5 DEF AskedOn, OneOf
<1> QED BY <1>7, <1>8

\* What is asked about is on screen.
LEMMA AskedAsk ==
    ASSUME TypeOK, AskedOnce, NEW w \in Wallet, NEW t \in tasks[w], Ask(w, t), NEW v \in Wallet, NEW e \in Exchange
    PROVE  AskedOn(v, e)'
<1>0. /\ tasks \in [Wallet -> SUBSET Task] /\ marks \in [Wallet -> Seq(Exchange)]
      /\ prompt \in [Wallet -> Exchange \cup {NoExchange}]
  BY DEF TypeOK
<1>1. /\ t.op = "ask" /\ t.ex \in Exchange /\ inbox' = inbox /\ sending' = sending /\ docs' = docs
      /\ tasks' = [tasks EXCEPT ![w] = @ \ {t}] /\ prompt' = [prompt EXCEPT ![w] = t.ex]
      /\ marks' = [marks EXCEPT ![w] = Append(@, t.ex)]
  BY <1>0, TaskEx DEF Ask, Runs, Answering
<1>2. Waiting(v, "propose", e)' = Waiting(v, "propose", e)
  BY <1>1 DEF Waiting
<1>3. OneOf(Waiting(v, "propose", e), ProposeAt(v, e))
  BY DEF AskedOnce
<1>4. CASE v = w /\ t.ex = e
  <2> DEFINE x == <<"asking", t>>
             y == <<"screen", e>>
  <2>1. x \in ProposeAt(v, e)
    BY <1>1, <1>4 DEF ProposeAt, RunningFor
  <2>2. \A z \in ProposeAt(v, e) : z = x
    BY <1>3, <2>1 DEF OneOf
  <2>3. DueBy(Other(v), "propose", e) = {}
    <3> SUFFICES ASSUME NEW d \in DueBy(Other(v), "propose", e) PROVE FALSE
      OBVIOUS
    <3>1. <<"due", d>> \in ProposeAt(v, e)
      BY DEF ProposeAt
    <3> QED BY <2>2, <3>1
  <2>4. \A s \in RunningFor(v, "ask", e) : s = t
    <3> SUFFICES ASSUME NEW s \in RunningFor(v, "ask", e) PROVE s = t
      OBVIOUS
    <3>1. <<"asking", s>> \in ProposeAt(v, e)
      BY DEF ProposeAt
    <3> QED BY <2>2, <3>1
  <2>5. RunningFor(v, "accept", e) = {} /\ RunningFor(v, "reask", e) = {} /\ ~Accepted(v, e)
    <3>3. \A s \in RunningFor(v, "reask", e) : <<"again", s>> \in ProposeAt(v, e)
      BY DEF ProposeAt
    <3>1. \A s \in RunningFor(v, "accept", e) : <<"accepting", s>> \in ProposeAt(v, e)
      BY DEF ProposeAt
    <3>2. Accepted(v, e) => <<"accepted", doc("accept", e, v)>> \in ProposeAt(v, e)
      BY DEF ProposeAt, Accepted
    <3> QED BY <2>2, <3>1, <3>2, <3>3
  <2>6. RunningFor(v, "ask", e)' = {} /\ RunningFor(v, "accept", e)' = {} /\ RunningFor(v, "reask", e)' = {}
    BY <1>0, <1>1, <1>4, <2>4, <2>5 DEF RunningFor
  <2>7. DueBy(Other(v), "propose", e)' = {} /\ ~Accepted(v, e)'
    BY <1>1, <2>3, <2>5 DEF DueBy, Accepted
  <2>8. ProposeAt(v, e)' \subseteq {y}
    BY <2>6, <2>7 DEF ProposeAt, Accepted
  <2>9. Waiting(v, "propose", e)' = {}
    BY <1>2, <1>3, <2>1 DEF OneOf
  <2> HIDE DEF x, y
  <2>10. OneOf(Waiting(v, "propose", e)', ProposeAt(v, e)')
    BY <2>8, <2>9, OneComes
  <2> QED BY <2>6, <2>7, <2>9, <2>10 DEF AskedOn, AskedBefore, OneOf
<1>5. CASE ~(v = w /\ t.ex = e)
  <2>1. \A s \in tasks'[v] : s \in tasks[v]
    BY <1>0, <1>1
  <2>2. (prompt'[v] = e => prompt[v] = e) /\ (Accepted(v, e)' => Accepted(v, e))
    BY <1>0, <1>1, <1>5 DEF Accepted
  <2>3. Marked(v, e)' => Marked(v, e)
    <3>1. CASE v # w
      BY <1>0, <1>1, <3>1 DEF Marked
    <3>2. CASE v = w
      <4>1. marks'[w] = Append(marks[w], t.ex) /\ marks[w] \in Seq(Exchange)
        BY <1>0, <1>1
      <4>2. \A i \in 1..Len(Append(marks[w], t.ex)) :
               Append(marks[w], t.ex)[i] \in {marks[w][j] : j \in 1..Len(marks[w])} \cup {t.ex}
        BY <1>1, <4>1, QueueOps
      <4> QED BY <1>5, <3>2, <4>1, <4>2 DEF Marked
    <3> QED BY <3>1, <3>2
  <2>4. ProposeAt(v, e)' \subseteq ProposeAt(v, e)
    BY <1>1, <2>1, <2>2, ProposeAtStays
  <2>5. OneOf(Waiting(v, "propose", e)', ProposeAt(v, e)')
    BY <1>2, <1>3, <2>4, OneStays
  <2>6. Marked(v, e)' => AskedBefore(v, e)'
    BY <1>1, <1>2, <2>1, <2>3, MarkedStays
  <2> QED BY <2>5, <2>6 DEF AskedOn, OneOf
<1> QED BY <1>4, <1>5

\* The prompt is answered, and gone.
LEMMA AskedRespond ==
    ASSUME TypeOK, AskedOnce, NEW w \in Wallet, NEW a \in {"accept", "decline"}, Respond(w, a),
           NEW v \in Wallet, NEW e \in Exchange
    PROVE  AskedOn(v, e)'
<1>0. /\ tasks \in [Wallet -> SUBSET Task] /\ prompt \in [Wallet -> Exchange \cup {NoExchange}]
  BY DEF TypeOK
<1> DEFINE t == task(a, "user", prompt[w])
<1>1. /\ inbox' = inbox /\ sending' = sending /\ docs' = docs /\ marks' = marks /\ prompt[w] # NoExchange
      /\ tasks' = [tasks EXCEPT ![w] = @ \cup {t}] /\ prompt' = [prompt EXCEPT ![w] = NoExchange]
  BY DEF Respond, durable
<1>t. t.op = a /\ t.ex = prompt[w]
  BY DEF task
<1> HIDE DEF t
<1>2. Waiting(v, "propose", e)' = Waiting(v, "propose", e) /\ Marked(v, e)' = Marked(v, e)
  BY <1>1 DEF Waiting, Marked
<1>3. OneOf(Waiting(v, "propose", e), ProposeAt(v, e))
  BY DEF AskedOnce
<1>4. \A s \in tasks'[v] : s \in tasks[v] \/ (v = w /\ s = t)
  BY <1>0, <1>1
<1>5. (prompt'[v] = e => prompt[v] = e) /\ (Accepted(v, e)' => Accepted(v, e))
  BY <1>0, <1>1, NoExchangeIsNone DEF Accepted
<1>6. Marked(v, e)' => AskedBefore(v, e)'
  <2>1. \A s \in tasks'[v] : s \in tasks[v] \/ s.op # "ask" \/ s.ex # e
    BY <1>t, <1>4
  <2> QED BY <1>1, <1>2, <2>1, MarkedStays
<1>7. CASE v = w /\ prompt[w] = e
  <2> DEFINE x == <<"screen", e>>
             y == <<"accepting", t>>
  <2>1. x \in ProposeAt(v, e)
    BY <1>7 DEF ProposeAt
  <2>2. ProposeAt(v, e)' \subseteq (ProposeAt(v, e) \ {x}) \cup {y}
    <3>1. prompt'[v] # e
      BY <1>0, <1>1, <1>7, NoExchangeIsNone
    <3>2. /\ RunningFor(v, "ask", e)' \subseteq RunningFor(v, "ask", e)
          /\ RunningFor(v, "reask", e)' \subseteq RunningFor(v, "reask", e)
      BY <1>t, <1>4 DEF RunningFor
    <3>3. RunningFor(v, "accept", e)' \subseteq RunningFor(v, "accept", e) \cup {t}
      BY <1>4 DEF RunningFor
    <3> QED BY <1>1, <3>1, <3>2, <3>3 DEF ProposeAt, DueBy
  <2> HIDE DEF x, y
  <2>3. OneOf(Waiting(v, "propose", e), ProposeAt(v, e)')
    BY <1>3, <2>1, <2>2, OneMoves
  <2> QED BY <1>2, <1>6, <2>3 DEF AskedOn, OneOf
<1>8. CASE ~(v = w /\ prompt[w] = e)
  <2>1. \A s \in tasks'[v] : s \in tasks[v] \/ s.op \notin {"ask", "accept", "reask"} \/ s.ex # e
    BY <1>t, <1>4, <1>8
  <2>2. ProposeAt(v, e)' \subseteq ProposeAt(v, e)
    BY <1>1, <1>5, <2>1, ProposeAtStays
  <2>3. OneOf(Waiting(v, "propose", e)', ProposeAt(v, e)')
    BY <1>2, <1>3, <2>2, OneStays
  <2> QED BY <1>6, <2>3 DEF AskedOn, OneOf
<1> QED BY <1>7, <1>8

\* The acceptance is retained.
LEMMA AskedAccept ==
    ASSUME TypeOK, AskedOnce, NEW w \in Wallet, NEW t \in tasks[w], Accept(w, t), NEW v \in Wallet, NEW e \in Exchange
    PROVE  AskedOn(v, e)'
<1>0. tasks \in [Wallet -> SUBSET Task] /\ docs \in [Wallet -> SUBSET Doc]
  BY DEF TypeOK
<1>1. /\ t.op = "accept" /\ inbox' = inbox /\ sending' = sending /\ marks' = marks /\ prompt' = prompt
      /\ tasks' = [tasks EXCEPT ![w] = (@ \ {t}) \cup {task("forgetAccepted", "user", t.ex)}]
      /\ docs' = [docs EXCEPT ![w] = @ \cup {doc("accept", t.ex, w)}]
  BY DEF Accept, Runs, Retain
<1>2. Waiting(v, "propose", e)' = Waiting(v, "propose", e) /\ Marked(v, e)' = Marked(v, e)
  BY <1>1 DEF Waiting, Marked
<1>3. OneOf(Waiting(v, "propose", e), ProposeAt(v, e))
  BY DEF AskedOnce
<1>4. \A s \in tasks'[v] : (s \in tasks[v] /\ (v = w => s # t)) \/ s.op = "forgetAccepted"
  BY <1>0, <1>1 DEF task
<1>6. Marked(v, e)' => AskedBefore(v, e)'
  <2>1. \A s \in tasks'[v] : s \in tasks[v] \/ s.op # "ask" \/ s.ex # e
    BY <1>4
  <2> QED BY <1>1, <1>2, <2>1, MarkedStays
<1>7. CASE v = w /\ t.ex = e
  <2> DEFINE x == <<"accepting", t>>
             y == <<"accepted", doc("accept", e, w)>>
  <2>1. x \in ProposeAt(v, e)
    BY <1>1, <1>7 DEF ProposeAt, RunningFor
  <2>2. ProposeAt(v, e)' \subseteq (ProposeAt(v, e) \ {x}) \cup {y}
    <3>2. /\ RunningFor(v, "ask", e)' \subseteq RunningFor(v, "ask", e)
          /\ RunningFor(v, "reask", e)' \subseteq RunningFor(v, "reask", e)
      BY <1>4 DEF RunningFor
    <3>3. RunningFor(v, "accept", e)' \subseteq RunningFor(v, "accept", e) \ {t}
      BY <1>4, <1>7 DEF RunningFor
    <3> QED BY <1>1, <1>7, <3>2, <3>3 DEF ProposeAt, DueBy
  <2> HIDE DEF x, y
  <2>3. OneOf(Waiting(v, "propose", e), ProposeAt(v, e)')
    BY <1>3, <2>1, <2>2, OneMoves
  <2> QED BY <1>2, <1>6, <2>3 DEF AskedOn, OneOf
<1>8. CASE ~(v = w /\ t.ex = e)
  <2>1. \A s \in tasks'[v] : s \in tasks[v] \/ s.op \notin {"ask", "accept", "reask"} \/ s.ex # e
    BY <1>4
  <2>4. Accepted(v, e)' => Accepted(v, e)
    BY <1>0, <1>1, <1>8 DEF Accepted, doc
  <2>2. ProposeAt(v, e)' \subseteq ProposeAt(v, e)
    BY <1>1, <2>1, <2>4, ProposeAtStays
  <2>3. OneOf(Waiting(v, "propose", e)', ProposeAt(v, e)')
    BY <1>2, <1>3, <2>2, OneStays
  <2> QED BY <1>6, <2>3 DEF AskedOn, OneOf
<1> QED BY <1>7, <1>8

\* The start-up chooses a propose that was marked and not answered, before anything is answered
\* in this run of the app.
LEMMA AskedRestore ==
    ASSUME TypeOK, AskedOnce, StartsUpFirst, NEW w \in Wallet, NEW t \in tasks[w], RestoreAsk(w, t),
           NEW v \in Wallet, NEW e \in Exchange
    PROVE  AskedOn(v, e)'
<1>0. /\ tasks \in [Wallet -> SUBSET Task] /\ marks \in [Wallet -> Seq(Exchange)]
      /\ prompt \in [Wallet -> Exchange \cup {NoExchange}]
  BY DEF TypeOK
<1>1. /\ inbox' = inbox /\ sending' = sending /\ docs' = docs /\ t.op = "restoreAsk"
      /\ prompt' = prompt /\ marks' = marks
  BY DEF RestoreAsk, durable
<1>2. Waiting(v, "propose", e)' = Waiting(v, "propose", e) /\ Marked(v, e)' = Marked(v, e)
  BY <1>1 DEF Waiting, Marked
<1>3. OneOf(Waiting(v, "propose", e), ProposeAt(v, e))
  BY DEF AskedOnce
<1>4. ASSUME NEW s \in tasks'[v], s \notin tasks[v]
      PROVE  /\ v = w /\ s.op \in {"reask", "forgetAnswered"} /\ s.ex = NewestMark(w)
             /\ marks[w] # <<>> /\ prompt[w] = NoExchange
             /\ s.op = "reask" => s = task("reask", "user", NewestMark(w)) /\ ~Answered(w, NewestMark(w))
  <2>1. /\ v = w /\ marks[w] # <<>> /\ prompt[w] = NoExchange
        /\ s = task(IF Answered(w, NewestMark(w)) THEN "forgetAnswered" ELSE "reask", "user", NewestMark(w))
    BY <1>0, <1>4 DEF RestoreAsk, Runs
  <2> QED BY <2>1 DEF task
<1>5. Accepted(v, e)' => Accepted(v, e)
  BY <1>1 DEF Accepted
<1>6. Marked(v, e)' => AskedBefore(v, e)'
  <2>1. \A s \in tasks'[v] : s \in tasks[v] \/ s.op # "ask" \/ s.ex # e
    BY <1>4
  <2> QED BY <1>1, <1>2, <2>1, MarkedStays
<1>7. CASE \A s \in tasks'[v] : s \in tasks[v] \/ s.op # "reask" \/ s.ex # e
  <2>1. \A s \in tasks'[v] : s \in tasks[v] \/ s.op \notin {"ask", "accept", "reask"} \/ s.ex # e
    BY <1>4, <1>7
  <2>2. ProposeAt(v, e)' \subseteq ProposeAt(v, e)
    BY <1>1, <1>5, <2>1, ProposeAtStays
  <2>3. OneOf(Waiting(v, "propose", e)', ProposeAt(v, e)')
    BY <1>2, <1>3, <2>2, OneStays
  <2> QED BY <1>6, <2>3 DEF AskedOn, OneOf
<1>8. ASSUME NEW s \in tasks'[v], s \notin tasks[v], s.op = "reask", s.ex = e
      PROVE  AskedOn(v, e)'
  <2>1. /\ v = w /\ marks[w] # <<>> /\ e = NewestMark(w) /\ ~Answered(w, e) /\ prompt[w] = NoExchange
        /\ s = task("reask", "user", e)
    BY <1>4, <1>8
  <2>2. Len(marks[w]) \in 1..Len(marks[w])
    BY <1>0, <2>1
  <2>3. AskedBefore(v, e)
    BY <2>1, <2>2 DEF Marked, NewestMark, AskedOnce
  <2>4. RunningFor(v, "accept", e) = {}
    BY <1>1, <2>1 DEF RunningFor, StartsUpFirst, Starting
  <2>5. ~Accepted(v, e)
    BY <2>1 DEF Answered, Accepted, doc
  <2>6. DueBy(Other(v), "propose", e)' = {} /\ RunningFor(v, "ask", e)' = {} /\ RunningFor(v, "accept", e)' = {}
    BY <1>1, <1>4, <2>3, <2>4 DEF AskedBefore, DueBy, RunningFor
  <2>7. PICK z : ProposeAt(v, e)' \subseteq {z}
    <3>1. ProposeAt(v, e)' \subseteq {"again"} \X RunningFor(v, "reask", e)'
      BY <1>1, <1>5, <2>1, <2>5, <2>6, NoExchangeIsNone DEF ProposeAt, Accepted
    <3>2. RunningFor(v, "reask", e) = {}
      BY <1>1, <2>1 DEF RunningFor, StartsUpFirst, Starting
    <3>3. \A x \in RunningFor(v, "reask", e)' : x = s
      BY <1>4, <2>1, <3>2 DEF RunningFor
    <3>4. ProposeAt(v, e)' \subseteq {<<"again", s>>}
      BY <3>1, <3>3
    <3> QED BY <3>4
  <2>8. Waiting(v, "propose", e)' = {}
    BY <1>2, <2>3 DEF AskedBefore
  <2>9. OneOf(Waiting(v, "propose", e)', ProposeAt(v, e)')
    BY <2>7, <2>8, OneComes
  <2> QED BY <1>6, <2>9 DEF AskedOn, OneOf
<1> QED BY <1>7, <1>8

\* What the start-up chose is on screen again.
LEMMA AskedReask ==
    ASSUME TypeOK, AskedOnce, NEW w \in Wallet, NEW t \in tasks[w], Reask(w, t), NEW v \in Wallet, NEW e \in Exchange
    PROVE  AskedOn(v, e)'
<1>0. /\ tasks \in [Wallet -> SUBSET Task] /\ prompt \in [Wallet -> Exchange \cup {NoExchange}]
  BY DEF TypeOK
<1>1. /\ t.op = "reask" /\ inbox' = inbox /\ sending' = sending /\ docs' = docs /\ marks' = marks
      /\ tasks' = [tasks EXCEPT ![w] = @ \ {t}] /\ prompt' = [prompt EXCEPT ![w] = t.ex]
  BY DEF Reask, Runs, durable
<1>2. Waiting(v, "propose", e)' = Waiting(v, "propose", e) /\ Marked(v, e)' = Marked(v, e)
  BY <1>1 DEF Waiting, Marked
<1>3. OneOf(Waiting(v, "propose", e), ProposeAt(v, e))
  BY DEF AskedOnce
<1>4. \A s \in tasks'[v] : s \in tasks[v] /\ (v = w => s # t)
  BY <1>0, <1>1
<1>5. Accepted(v, e)' => Accepted(v, e)
  BY <1>1 DEF Accepted
<1>6. Marked(v, e)' => AskedBefore(v, e)'
  BY <1>1, <1>2, <1>4, MarkedStays
<1>7. CASE v = w /\ t.ex = e
  <2> DEFINE x == <<"again", t>>
             y == <<"screen", e>>
  <2>1. x \in ProposeAt(v, e)
    BY <1>1, <1>7 DEF ProposeAt, RunningFor
  <2>2. ProposeAt(v, e)' \subseteq (ProposeAt(v, e) \ {x}) \cup {y}
    <3>1. \A op \in {"ask", "accept"} : RunningFor(v, op, e)' \subseteq RunningFor(v, op, e)
      BY <1>4 DEF RunningFor
    <3>2. RunningFor(v, "reask", e)' \subseteq RunningFor(v, "reask", e) \ {t}
      BY <1>4, <1>7 DEF RunningFor
    <3> QED BY <1>1, <3>1, <3>2 DEF ProposeAt, DueBy
  <2> HIDE DEF x, y
  <2>3. OneOf(Waiting(v, "propose", e), ProposeAt(v, e)')
    BY <1>3, <2>1, <2>2, OneMoves
  <2> QED BY <1>2, <1>6, <2>3 DEF AskedOn, OneOf
<1>8. CASE ~(v = w /\ t.ex = e)
  <2>1. prompt'[v] = e => prompt[v] = e
    BY <1>0, <1>1, <1>8
  <2>2. ProposeAt(v, e)' \subseteq ProposeAt(v, e)
    BY <1>1, <1>4, <1>5, <2>1, ProposeAtStays
  <2>3. OneOf(Waiting(v, "propose", e)', ProposeAt(v, e)')
    BY <1>2, <1>3, <2>2, OneStays
  <2> QED BY <1>6, <2>3 DEF AskedOn, OneOf
<1> QED BY <1>7, <1>8

\* A step asks about a propose once at most.
LEMMA AskedOnceStep ==
    ASSUME ConsentInv, MadeByProposer, AskedOnce, StartsUpFirst, NEW w \in Wallet,
           System(w) \/ Environment(w), ~ReceiveTwice(w)
    PROVE  AskedOnce'
<1>0. TypeOK /\ InTransit /\ HeldOps
  BY DEF ConsentInv
<1> SUFFICES ASSUME NEW v \in Wallet, NEW e \in Exchange PROVE AskedOn(v, e)'
  BY DEF AskedOnce, AskedOn
<1>1. CASE Quiet(w)
  BY <1>0, <1>1, AskedQuiet
<1>2. CASE \E f \in Exchange : Upgrade(w, f) \/ \E t \in tasks[w] : Propose(w, t, f)
  BY <1>2, AskedPropose
<1>3. CASE \E d \in sending[w] : Send(w, d)
  BY <1>0, <1>3, AskedSend
<1>4. CASE Receive(w)
  BY <1>0, <1>4, AskedReceive
<1>5. CASE \E t \in tasks[w] : Ask(w, t)
  BY <1>0, <1>5, AskedAsk
<1>6. CASE \E a \in {"accept", "decline"} : Respond(w, a)
  BY <1>0, <1>6, AskedRespond
<1>7. CASE \E t \in tasks[w] : Accept(w, t)
  BY <1>0, <1>7, AskedAccept
<1>8. CASE \E t \in tasks[w] : RestoreAsk(w, t)
  BY <1>0, <1>8, AskedRestore
<1>9. CASE \E t \in tasks[w] : Reask(w, t)
  BY <1>0, <1>9, AskedReask
<1> QED BY <1>1, <1>2, <1>3, <1>4, <1>5, <1>6, <1>7, <1>8, <1>9 DEF System, Environment, Run, Quiet

\* Nothing is answered before the start-up is through.
LEMMA StartsUpFirstStep ==
    ASSUME TypeOK, InTransit, HeldOps, StartsUpFirst, NEW w \in Wallet, System(w) \/ Environment(w)
    PROVE  StartsUpFirst'
<1>0. /\ tasks \in [Wallet -> SUBSET Task] /\ up \in [Wallet -> BOOLEAN] /\ deferred \in [Wallet -> SUBSET Task]
  BY DEF TypeOK
<1>1. \A v \in Wallet \ {w} : tasks'[v] = tasks[v] /\ up'[v] = up[v]
  BY OnlyItsOwn
<1>3. CASE Crash(w)
  BY <1>0, <1>1, <1>3 DEF Crash, StartsUpFirst
<1>4. CASE Restart(w)
  <2>1. tasks'[w] = {task("restoreHold", "sweep", NoExchange), task("sweep", "sweep", NoExchange)} /\ up'[w]
    BY <1>0, <1>4 DEF Restart
  <2>2. \A t \in tasks'[w] : t.op \notin {"accept", "decline"}
                             /\ (t.op \in Starting => t = task("sweep", "sweep", NoExchange))
    BY <2>1 DEF task, Starting
  <2> QED BY <1>1, <2>1, <2>2 DEF StartsUpFirst
<1>5. CASE \E a \in {"accept", "decline"} : Respond(w, a)
  <2>1. PICK a \in {"accept", "decline"} : Respond(w, a)
    BY <1>5
  <2>2. /\ tasks'[w] = tasks[w] \cup {task(a, "user", prompt[w])} /\ up' = up /\ up[w]
        /\ \A t \in tasks[w] : t.op \notin Starting
    BY <1>0, <2>1 DEF Respond, StartedUp, Starting
  <2>3. \A t \in tasks'[w] : t.op \notin Starting
    BY <2>2 DEF task, Starting
  <2> QED BY <1>1, <2>2, <2>3 DEF StartsUpFirst
<1>6. CASE /\ up' = up /\ up[w]
           /\ \A t \in tasks'[w] : t \in tasks[w] \/ t.op \notin {"accept", "decline"} \cup Starting
  BY <1>1, <1>6 DEF StartsUpFirst
<1>7. CASE tasks' = tasks /\ up' = up
  BY <1>7 DEF StartsUpFirst
<1>8. CASE Connect(w) \/ Release(w)
  <2>1. up' = up /\ up[w]
    BY <1>8 DEF Connect, Release
  <2>2. \A t \in tasks'[w] : t \in tasks[w] \/ t = task("announce", "release", NoExchange) \/ t \in deferred[w]
    BY <1>0, <1>8 DEF Connect, Release, Proceed, Hold
  <2>3. \A t \in tasks'[w] : t \in tasks[w] \/ t.op \in {"announce", "maybeOpen", "deliver"}
    <3>1. \A t \in deferred[w] : t.op \in {"announce", "maybeOpen", "deliver"}
      BY DEF HeldOps
    <3> QED BY <2>2, <3>1 DEF task
  <2>4. \A t \in tasks'[w] : t \in tasks[w] \/ t.op \notin {"accept", "decline"} \cup Starting
    BY <2>3 DEF Starting
  <2> QED BY <1>6, <2>1, <2>4
<1>9. CASE Receive(w) \/ ReceiveTwice(w)
  <2>1. up' = up /\ up[w]
    BY <1>9 DEF Receive, ReceiveTwice
  <2>2. PICK m \in Queued(w) : m \in Doc /\ Handle(w, m)
    BY <1>9, Handled
  <2>3. \A t \in tasks'[w] : \/ t \in tasks[w]
                             \/ \E o \in {"maybeOpen", "open", "ask", "deliver"} : \E f : t = task(o, "inbound", f)
    BY <1>0, <2>2 DEF Handle, RecvAnnounce, RecvStop, RecvQuery, RecvAnswer, RecvPropose, RecvAccept,
       RecvIssue, RecvOther, Proceed, Hold, StartDelivery
  <2>4. \A t \in tasks'[w] : t \in tasks[w] \/ t.op \in {"maybeOpen", "open", "ask", "deliver"}
    BY <2>3 DEF task
  <2>5. \A t \in tasks'[w] : t \in tasks[w] \/ t.op \notin {"accept", "decline"} \cup Starting
    BY <2>4 DEF Starting
  <2> QED BY <1>6, <2>1, <2>5
<1>10. CASE \E d \in sending[w] : Send(w, d)
  <2>1. up' = up /\ up[w] /\ \A t \in tasks'[w] : t \in tasks[w] \/ t.op = "deliver"
    BY <1>0, <1>10 DEF Send, AfterSend, StartDelivery, task
  <2> QED BY <1>6, <2>1 DEF Starting
<1>11. CASE \E t \in tasks[w] : Run(w, t) \/ DeliveryFails(w, t)
  <2>1. PICK t \in tasks[w] : Run(w, t) \/ DeliveryFails(w, t)
    BY <1>11
  <2>2. up' = up /\ up[w]
    BY <2>1 DEF Run, DeliveryFails, Announce, MaybeOpen, OpenCheck, Propose, Ask, Accept, Decline, Forget, DeliverCheck,
       Issue, RestoreHold, Sweep, RestoreAsk, Reask, ForgetAnswered, Runs
  <2>3. CASE Sweep(w, t) \/ RestoreAsk(w, t)
    <3>1. t.op \in Starting
      BY <2>3 DEF Sweep, RestoreAsk, Starting
    <3>5. PICK o \in Starting : \E f : \A s \in tasks'[w] : \/ s \in tasks[w] /\ s # t
                                                       \/ s = task(o, "user", f)
                                                       \/ s = task("maybeOpen", "sweep", NoExchange)
      <4>1. CASE Sweep(w, t)
        <5>1. \A s \in tasks'[w] : \/ s \in tasks[w] /\ s # t
                                   \/ s = task("restoreAsk", "user", NoExchange)
                                   \/ s = task("maybeOpen", "sweep", NoExchange)
          BY <1>0, <4>1 DEF Sweep, Runs
        <5> QED BY <5>1 DEF Starting
      <4>2. CASE RestoreAsk(w, t)
        <5>1. PICK o \in Starting : \A s \in tasks'[w] : (s \in tasks[w] /\ s # t) \/ s = task(o, "user", NewestMark(w))
          BY <1>0, <4>2 DEF RestoreAsk, Runs, Starting
        <5> QED BY <5>1
      <4> QED BY <2>3, <4>1, <4>2
    <3>2. PICK f : \A s \in tasks'[w] : \/ s \in tasks[w] /\ s # t
                                        \/ s = task(o, "user", f)
                                        \/ s = task("maybeOpen", "sweep", NoExchange)
      BY <3>5
    <3>3. \A s \in tasks'[w] : \/ s \in tasks[w] /\ s # t
                               \/ s.op \notin {"accept", "decline"} /\ (s.op \in Starting => s = task(o, "user", f))
      BY <3>2 DEF task, Starting
    <3>4. \A s \in tasks'[w] : /\ s.op \notin {"accept", "decline"}
                               /\ s.op \in Starting => s = task(o, "user", f)
      BY <3>1, <3>3 DEF StartsUpFirst
    <3> QED BY <1>1, <2>2, <3>4 DEF StartsUpFirst
  <2>4. CASE ~(Sweep(w, t) \/ RestoreAsk(w, t))
    <3>1. \E new \in {{}, {task("open", t.by, NoExchange)}, {task("propose", t.by, NoExchange)},
                      {task("forgetAccepted", "user", t.ex)}, {task("forgetDeclined", "user", t.ex)},
                      {task("sign", t.by, t.ex)}} : tasks' = [tasks EXCEPT ![w] = (@ \ {t}) \cup new]
      <4>1. CASE \/ Announce(w, t) \/ Ask(w, t) \/ Forget(w, t) \/ Issue(w, t) \/ RestoreHold(w, t)
                 \/ Reask(w, t) \/ ForgetAnswered(w, t) \/ DeliveryFails(w, t) \/ \E e \in Exchange : Propose(w, t, e)
        BY <4>1 DEF Announce, Ask, Forget, Issue, RestoreHold, Reask, ForgetAnswered, DeliveryFails, Propose, Runs
      <4>2. CASE MaybeOpen(w, t) \/ OpenCheck(w, t)
        BY <4>2 DEF MaybeOpen, OpenCheck, Runs
      <4>3. CASE Accept(w, t) \/ Decline(w, t) \/ DeliverCheck(w, t)
        BY <4>3 DEF Accept, Decline, DeliverCheck, Runs
      <4> QED BY <2>1, <2>4, <4>1, <4>2, <4>3 DEF Run
    <3>2. \A s \in tasks'[w] : s \in tasks[w] \/ s.op \in {"open", "propose", "forgetAccepted", "forgetDeclined", "sign"}
      <4>1. \A s \in tasks'[w] : s \in tasks[w] \/ \E o \in {"open", "propose", "forgetAccepted", "forgetDeclined", "sign"} :
                                                     \E b, f : s = task(o, b, f)
        BY <1>0, <3>1
      <4> QED BY <4>1 DEF task
    <3>3. \A s \in tasks'[w] : s \in tasks[w] \/ s.op \notin {"accept", "decline"} \cup Starting
      BY <3>2 DEF Starting
    <3> QED BY <1>6, <2>2, <3>3
  <2> QED BY <2>3, <2>4
<1>12. CASE Stop(w) \/ \E e \in Exchange : Upgrade(w, e) \/ Withdraw(w, e)
  BY <1>7, <1>12 DEF Stop, Upgrade, Withdraw, volatile
<1>13. CASE \E d \in sending[w] : SendFails(w, d)
  BY <1>7, <1>13 DEF SendFails
<1> QED BY <1>3, <1>4, <1>5, <1>7, <1>8, <1>9, <1>10, <1>11, <1>12, <1>13 DEF System, Environment

\* An acceptance that gets no new place.
LEMMA AcceptAtStays ==
    ASSUME NEW v, NEW e,
           \A t \in tasks'[Other(v)] : t \in tasks[Other(v)] \/ t.op # "forgetAccepted" \/ t.ex # e,
           \A d \in sending'[Other(v)] : d \in sending[Other(v)] \/ d.kind # "accept" \/ d.ex # e,
           HeldFor(v, e)' \subseteq HeldFor(v, e),
           Given(v, e)' => Given(v, e)
    PROVE  AcceptAt(v, e)' \subseteq AcceptAt(v, e)
<1>1. DueBy(Other(v), "accept", e)' \subseteq DueBy(Other(v), "accept", e)
  BY DEF DueBy
<1>2. RunningFor(Other(v), "forgetAccepted", e)' \subseteq RunningFor(Other(v), "forgetAccepted", e)
  BY DEF RunningFor
<1> QED BY <1>1, <1>2 DEF AcceptAt

\* What is on its way, or held, was accepted.
LEMMA OnlyAccepted ==
    ASSUME ConsentInv, AcceptedOnce, NEW v \in Wallet, NEW e \in Exchange, ~Accepted(Other(v), e)
    PROVE  /\ Waiting(v, "accept", e) = {} /\ RunningFor(Other(v), "forgetAccepted", e) = {}
           /\ DueBy(Other(v), "accept", e) = {} /\ HeldFor(v, e) = {}
<1>0. TypeOK /\ Accepting /\ inbox[v] \in Seq(Doc) /\ Other(v) \in Wallet
  BY OtherTyped DEF ConsentInv, TypeOK
<1>1. Waiting(v, "accept", e) = {}
  BY <1>0 DEF Waiting, Queued, Accepting
<1>2. RunningFor(Other(v), "forgetAccepted", e) = {}
  BY <1>0 DEF RunningFor, Accepting
<1>3. DueBy(Other(v), "accept", e) = {}
  BY <1>0 DEF DueBy, Accepting
<1>4. HeldFor(v, e) = {}
  BY DEF AcceptedOnce
<1> QED BY <1>1, <1>2, <1>3, <1>4

\* Who accepted did not propose.
LEMMA OneSideAccepts ==
    ASSUME ConsentInv, MadeByProposer, OneProposer, NEW v \in Wallet, NEW e \in Exchange, Proposed(v, e)
    PROVE  ~Proposed(Other(v), e) /\ ~Accepted(Other(v), e)
<1>0. Accepting /\ Other(v) \in Wallet /\ Other(Other(v)) = v
  BY OtherTyped DEF ConsentInv
<1>1. \A u \in Wallet : Proposed(u, e) => doc("propose", e, Other(u)) \in docs[Other(u)]
  BY DEF Proposed, MadeByProposer, doc
<1>2. ~Proposed(Other(v), e)
  BY <1>0, <1>1 DEF OneProposer
<1> QED BY <1>0, <1>2 DEF Accepting

\* Accepted once, after a step.
AcceptedOn(v, e) ==
    /\ OneOf(Waiting(v, "accept", e), AcceptAt(v, e))
    /\ HeldFor(v, e) # {} => Accepted(Other(v), e)

\* What is held after a step was held, or its acceptance was received.
LEMMA HeldAccepted ==
    ASSUME ConsentInv, AcceptedOnce, NEW w \in Wallet, System(w) \/ Environment(w),
           NEW v \in Wallet, NEW e \in Exchange
    PROVE  HeldFor(v, e)' # {} => Accepted(Other(v), e)'
<1>0. TypeOK /\ Accepting /\ Other(v) \in Wallet
  BY OtherTyped DEF ConsentInv
<1> SUFFICES ASSUME NEW t \in deferred'[v] \cup kept'[v], t.op = "deliver", t.ex = e PROVE Accepted(Other(v), e)'
  BY DEF HeldFor
<1>1. CASE t \in deferred[v] \cup kept[v]
  <2>1. Accepted(Other(v), e)
    BY <1>1 DEF HeldFor, AcceptedOnce
  <2> QED BY <1>0, <2>1, ConsentStays
<1>2. CASE t \notin deferred[v] \cup kept[v]
  <2>1. v = w /\ \E d \in Queued(w) : d.kind = "accept" /\ d.ex = t.ex
    BY <1>0, <1>2, HeldOrigin
  <2>2. Accepted(Other(v), e)
    BY <1>0, <2>1 DEF Accepting
  <2> QED BY <1>0, <2>2, ConsentStays
<1> QED BY <1>1, <1>2

\* Steps that neither make, send nor receive an acceptance, and release none.
Still(w) ==
    \/ Connect(w) \/ Restart(w) \/ Stop(w) \/ Crash(w) \/ (\E e \in Exchange : Upgrade(w, e) \/ Withdraw(w, e))
    \/ \E a \in {"accept", "decline"} : Respond(w, a)
    \/ \E t \in tasks[w] : \/ Announce(w, t) \/ MaybeOpen(w, t) \/ OpenCheck(w, t) \/ Ask(w, t) \/ Decline(w, t)
                           \/ (\E e \in Exchange : Propose(w, t, e))
                           \/ (Forget(w, t) /\ t.op = "forgetDeclined") \/ DeliverCheck(w, t) \/ Issue(w, t)
                           \/ RestoreHold(w, t) \/ Sweep(w, t) \/ RestoreAsk(w, t) \/ Reask(w, t)
                           \/ ForgetAnswered(w, t) \/ DeliveryFails(w, t)
    \/ \E d \in sending[w] : SendFails(w, d)

\* A still step adds no acceptance, holds no delivery and starts none.
LEMMA StillParts ==
    ASSUME TypeOK, InTransit, HeldOps, NEW w \in Wallet, Still(w), NEW v \in Wallet
    PROVE  /\ inbox' = inbox
           /\ \A t \in tasks'[v] : t \in tasks[v] \/ t.op # "forgetAccepted"
           /\ \A d \in sending'[v] : d \in sending[v] \/ d.kind # "accept"
           /\ \A e \in Exchange : HeldFor(v, e)' \subseteq HeldFor(v, e) /\ (Given(v, e)' => Given(v, e))
<1>0. /\ tasks \in [Wallet -> SUBSET Task] /\ docs \in [Wallet -> SUBSET Doc]
      /\ sending \in [Wallet -> SUBSET Doc] /\ kept \in [Wallet -> SUBSET Task]
      /\ deferred \in [Wallet -> SUBSET Task]
  BY DEF TypeOK
<1>s. System(w) \/ Environment(w)
  BY DEF Still, System, Environment, Run
<1>1. inbox' = inbox
  BY DEF Still, Connect, Restart, Stop, Crash, Upgrade, Withdraw, Respond, Announce, MaybeOpen, OpenCheck, Ask, Decline,
     Propose, Forget, DeliverCheck, Issue, RestoreHold, Sweep, RestoreAsk, Reask, ForgetAnswered, DeliveryFails, SendFails
<1>n. \A o, b, f : task(o, b, f).op = o /\ task(o, b, f).ex = f
  BY DEF task
<1>2. ASSUME NEW t \in tasks'[v], t \notin tasks[v]
      PROVE  /\ t.op # "forgetAccepted"
             /\ Delivering(t) => v = w /\ \E s \in tasks[w] : s.op = "deliver" /\ s.ex = t.ex
  <2>1. CASE \E s \in tasks[w] : \/ Announce(w, s) \/ Ask(w, s) \/ Forget(w, s) \/ Issue(w, s) \/ RestoreHold(w, s)
                                 \/ Reask(w, s) \/ ForgetAnswered(w, s) \/ DeliveryFails(w, s)
                                 \/ \E e \in Exchange : Propose(w, s, e)
    <3>1. PICK s \in tasks[w] : tasks' = [tasks EXCEPT ![w] = (@ \ {s}) \cup {}]
      BY <2>1 DEF Announce, Ask, Forget, Issue, RestoreHold, Reask, ForgetAnswered, DeliveryFails, Propose, Runs
    <3> QED BY <1>0, <1>2, <3>1
  <2>2. CASE \E s \in tasks[w] : MaybeOpen(w, s) \/ OpenCheck(w, s) \/ Decline(w, s)
    <3>1. PICK s \in tasks[w] :
             \E new \in {{}, {task("open", s.by, NoExchange)}, {task("propose", s.by, NoExchange)},
                         {task("forgetDeclined", "user", s.ex)}} : tasks' = [tasks EXCEPT ![w] = (@ \ {s}) \cup new]
      BY <2>2 DEF MaybeOpen, OpenCheck, Decline, Runs
    <3>2. \E o \in {"open", "propose", "forgetDeclined"} : \E b, f : t = task(o, b, f)
      BY <1>0, <1>2, <3>1
    <3> QED BY <1>n, <3>2 DEF Delivering
  <2>3. CASE \E s \in tasks[w] : DeliverCheck(w, s)
    <3>1. PICK s \in tasks[w] :
             /\ s.op = "deliver"
             /\ \E new \in {{}, {task("sign", s.by, s.ex)}} : tasks' = [tasks EXCEPT ![w] = (@ \ {s}) \cup new]
      BY <2>3 DEF DeliverCheck, Runs
    <3>2. v = w /\ t = task("sign", s.by, s.ex)
      BY <1>0, <1>2, <3>1
    <3> QED BY <1>n, <3>1, <3>2
  <2>4. CASE \E s \in tasks[w] : Sweep(w, s)
    <3>1. t \in {task("restoreAsk", "user", NoExchange), task("maybeOpen", "sweep", NoExchange)}
      BY <1>0, <1>2, <2>4 DEF Sweep, Runs
    <3> QED BY <1>n, <3>1 DEF Delivering
  <2>10. CASE \E s \in tasks[w] : RestoreAsk(w, s)
    <3>1. \E o \in {"reask", "forgetAnswered"} : t = task(o, "user", NewestMark(w))
      BY <1>0, <1>2, <2>10 DEF RestoreAsk, Runs
    <3> QED BY <1>n, <3>1 DEF Delivering
  <2>5. CASE Connect(w)
    <3>1. t = task("announce", "release", NoExchange)
      BY <1>0, <1>2, <2>5 DEF Connect, Proceed, Hold
    <3> QED BY <1>n, <3>1 DEF Delivering
  <2>6. CASE Restart(w)
    <3>1. t \in {task("restoreHold", "sweep", NoExchange), task("sweep", "sweep", NoExchange)}
      BY <1>0, <1>2, <2>6 DEF Restart
    <3> QED BY <1>n, <3>1 DEF Delivering
  <2>7. CASE \E a \in {"accept", "decline"} : Respond(w, a)
    <3>1. \E a \in {"accept", "decline"} : t = task(a, "user", prompt[w])
      BY <1>0, <1>2, <2>7 DEF Respond
    <3> QED BY <1>n, <3>1 DEF Delivering
  <2>8. CASE Crash(w)
    BY <1>0, <1>2, <2>8 DEF Crash
  <2>9. CASE tasks' = tasks
    BY <1>2, <2>9
  <2> QED BY <2>1, <2>2, <2>3, <2>4, <2>5, <2>6, <2>7, <2>8, <2>9, <2>10
      DEF Still, Stop, Upgrade, Withdraw, SendFails, volatile
<1>3. ASSUME NEW d \in sending'[v], d \notin sending[v] PROVE d.kind # "accept"
  <2> SUFFICES ASSUME d.kind = "accept" PROVE FALSE
    OBVIOUS
  <2>n. \A k, f : doc(k, f, w).kind = k
    BY DEF doc
  <2>1. CASE \E s \in tasks[w] : \/ Announce(w, s) \/ Issue(w, s) \/ (\E e \in Exchange : Propose(w, s, e))
                                 \/ (Forget(w, s) /\ s.op = "forgetDeclined")
    <3>1. \E k \in {"announce", "issue", "propose", "declined"} : \E f : SendNext(w, {doc(k, f, w)})
      BY <2>1 DEF Announce, Issue, Propose, Forget
    <3>2. \E k \in {"announce", "issue", "propose", "declined"} : \E f : d = doc(k, f, w)
      BY <1>0, <1>3, <3>1 DEF SendNext
    <3> QED BY <2>n, <3>2
  <2>2. CASE Stop(w) \/ \E e \in Exchange : Upgrade(w, e)
    <3>1. \E k \in {"stop", "propose"} : \E f : SendNext(w, {doc(k, f, w)})
      BY <2>2 DEF Stop, Upgrade
    <3>2. \E k \in {"stop", "propose"} : \E f : d = doc(k, f, w)
      BY <1>0, <1>3, <3>1 DEF SendNext
    <3> QED BY <2>n, <3>2
  <2>3. CASE \E s \in tasks[w] : MaybeOpen(w, s)
    <3>1. SendNext(w, {}) \/ SendNext(w, Query(w))
      BY <2>3 DEF MaybeOpen
    <3>2. d = doc("query", NoExchange, w)
      BY <1>0, <1>3, <3>1 DEF SendNext, Query
    <3> QED BY <2>n, <3>2
  <2>4. CASE Crash(w) \/ \E m \in sending[w] : SendFails(w, m)
    BY <1>0, <1>3, <2>4 DEF Crash, SendFails
  <2>5. CASE sending' = sending
    BY <1>3, <2>5
  <2> QED BY <2>1, <2>2, <2>3, <2>4, <2>5 DEF Still, Connect, Restart, Withdraw, Respond, OpenCheck, Ask, Decline,
             DeliverCheck, RestoreHold, Sweep, RestoreAsk, Reask, ForgetAnswered, DeliveryFails, durable, volatile
<1>4. ASSUME NEW t \in deferred'[v] \cup kept'[v], t.op = "deliver" PROVE t \in deferred[v] \cup kept[v]
  <2> SUFFICES ASSUME t \notin deferred[v] \cup kept[v] PROVE FALSE
    OBVIOUS
  <2>1. CASE Connect(w)
    <3>1. t = task("announce", "release", NoExchange)
      BY <1>0, <1>4, <2>1 DEF Connect, Proceed, Hold
    <3> QED BY <1>4, <1>n, <3>1
  <2>2. CASE Stop(w) \/ Crash(w) \/ \E s \in tasks[w] : RestoreHold(w, s)
    BY <1>0, <1>4, <2>2 DEF Stop, Crash, RestoreHold, durable
  <2>3. CASE deferred' = deferred /\ kept' = kept
    BY <1>4, <2>3
  <2> QED BY <2>1, <2>2, <2>3 DEF Still, Restart, Upgrade, Withdraw, Respond, Announce, MaybeOpen, OpenCheck, Ask,
             Decline, Propose, Forget, DeliverCheck, Issue, Sweep, RestoreAsk, Reask, ForgetAnswered, DeliveryFails, SendFails, durable, volatile
<1>5. ASSUME NEW e \in Exchange, Given(v, e)' PROVE Given(v, e)
  <2>1. CASE Deliveries(v, e)' # {}
    <3>1. PICK t \in tasks'[v] : Delivering(t) /\ t.ex = e
      BY <2>1 DEF Deliveries, Delivering
    <3>2. \E s \in tasks[v] : Delivering(s) /\ s.ex = e
      BY <1>2, <3>1 DEF Delivering
    <3> QED BY <3>2 DEF Given, Deliveries, Delivering
  <2>2. CASE AlreadyIssued(v, e)' /\ ~AlreadyIssued(v, e)
    <3> DEFINE d == doc("issue", e, v)
    <3>1. d.kind = "issue" /\ d.ex = e /\ d.from = v /\ d \in docs'[v] /\ d \notin docs[v]
      BY <2>2 DEF AlreadyIssued, doc
    <3> HIDE DEF d
    <3>2. v = w /\ (d.from = Other(w) \/ \E t \in tasks[w] : t.op = "sign" /\ t.ex = d.ex)
      BY <1>0, <1>s, <3>1, DocsOrigin
    <3>3. \E t \in tasks[v] : t.op = "sign" /\ t.ex = e
      BY <3>1, <3>2, OtherTyped
    <3> QED BY <3>3 DEF Given, Deliveries
  <2>3. CASE AlreadyIssued(v, e)
    BY <2>3 DEF Given
  <2> QED BY <1>5, <2>1, <2>2, <2>3 DEF Given
<1> QED BY <1>1, <1>2, <1>3, <1>4, <1>5 DEF HeldFor

\* A still step moves no acceptance.
LEMMA AcceptedStill ==
    ASSUME TypeOK, InTransit, HeldOps, AcceptedOnce, NEW w \in Wallet, Still(w), NEW v \in Wallet, NEW e \in Exchange
    PROVE  OneOf(Waiting(v, "accept", e)', AcceptAt(v, e)')
<1>1. /\ inbox' = inbox /\ HeldFor(v, e)' \subseteq HeldFor(v, e) /\ (Given(v, e)' => Given(v, e))
      /\ \A t \in tasks'[Other(v)] : t \in tasks[Other(v)] \/ t.op # "forgetAccepted"
      /\ \A d \in sending'[Other(v)] : d \in sending[Other(v)] \/ d.kind # "accept"
  BY StillParts, OtherTyped
<1>2. AcceptAt(v, e)' \subseteq AcceptAt(v, e)
  BY <1>1, AcceptAtStays
<1>3. Waiting(v, "accept", e)' = Waiting(v, "accept", e)
  BY <1>1 DEF Waiting
<1>4. OneOf(Waiting(v, "accept", e), AcceptAt(v, e))
  BY DEF AcceptedOnce
<1> QED BY <1>2, <1>3, <1>4, OneStays

\* The acceptance is made while no other was.
LEMMA AcceptedAccept ==
    ASSUME ConsentInv, MadeByProposer, OneProposer, AskedOnce, AcceptedOnce, NEW w \in Wallet,
           NEW t \in tasks[w], Accept(w, t), NEW v \in Wallet, NEW e \in Exchange
    PROVE  OneOf(Waiting(v, "accept", e)', AcceptAt(v, e)')
<1>0. /\ TypeOK /\ Asking /\ Giving /\ tasks \in [Wallet -> SUBSET Task] /\ docs \in [Wallet -> SUBSET Doc]
      /\ Other(v) \in Wallet /\ Other(Other(v)) = v /\ Other(v) # v
  BY OtherTyped DEF ConsentInv, TypeOK
<1> DEFINE n == task("forgetAccepted", "user", t.ex)
<1>1. /\ t.op = "accept" /\ inbox' = inbox /\ sending' = sending /\ deferred' = deferred /\ kept' = kept
      /\ tasks' = [tasks EXCEPT ![w] = (@ \ {t}) \cup {n}]
      /\ docs' = [docs EXCEPT ![w] = @ \cup {doc("accept", t.ex, w)}]
  BY DEF Accept, Runs, Retain
<1>n. n.op = "forgetAccepted" /\ n.ex = t.ex
  BY DEF task
<1> HIDE DEF n
<1>2. Waiting(v, "accept", e)' = Waiting(v, "accept", e) /\ HeldFor(v, e)' = HeldFor(v, e)
  BY <1>1 DEF Waiting, HeldFor
<1>3. \A u \in Wallet : \A s \in tasks'[u] : s \in tasks[u] \/ (u = w /\ s = n)
  BY <1>0, <1>1
<1>4. Given(v, e)' => Given(v, e)
  <2>1. Deliveries(v, e)' \subseteq Deliveries(v, e)
    BY <1>3, <1>n DEF Deliveries
  <2>2. AlreadyIssued(v, e)' => AlreadyIssued(v, e)
    BY <1>0, <1>1 DEF AlreadyIssued, doc
  <2> QED BY <2>1, <2>2 DEF Given
<1>5. OneOf(Waiting(v, "accept", e), AcceptAt(v, e))
  BY DEF AcceptedOnce
<1>6. CASE v = Other(w) /\ t.ex = e
  <2>0. Other(v) = w
    BY <1>6, OtherTyped
  <2>1. ~Accepted(w, e)
    <3> SUFFICES ASSUME Accepted(w, e) PROVE FALSE
      OBVIOUS
    <3>1. <<"accepting", t>> \in ProposeAt(w, e)
      BY <1>1, <1>6 DEF ProposeAt, RunningFor
    <3>2. <<"accepted", doc("accept", e, w)>> \in ProposeAt(w, e)
      BY DEF ProposeAt, Accepted
    <3>3. \A x, y \in ProposeAt(w, e) : x = y
      BY DEF AskedOnce, OneOf
    <3> QED BY <3>1, <3>2, <3>3
  <2>2. Proposed(w, e) /\ ~Proposed(v, e) /\ ~Accepted(v, e)
    <3>1. Proposed(w, e)
      BY <1>0, <1>1, <1>6 DEF Asking
    <3> QED BY <1>6, <3>1, OneSideAccepts
  <2>3. ~Given(v, e)
    <3>1. ~Consented(e)
      BY <1>6, <2>1, <2>2 DEF Consented, Wallet, Other
    <3> QED BY <1>0, <3>1 DEF Giving, Given, Deliveries, Delivering
  <2>4. /\ Waiting(v, "accept", e) = {} /\ RunningFor(w, "forgetAccepted", e) = {}
        /\ DueBy(w, "accept", e) = {} /\ HeldFor(v, e) = {}
    BY <2>0, <2>1, OnlyAccepted
  <2> DEFINE y == <<"forgetting", n>>
  <2>5. RunningFor(w, "forgetAccepted", e)' \subseteq {n}
    BY <1>3, <2>4 DEF RunningFor
  <2>6. DueBy(w, "accept", e)' = {} /\ HeldFor(v, e)' = {} /\ ~Given(v, e)'
    BY <1>1, <1>2, <1>4, <2>3, <2>4 DEF DueBy
  <2>7. AcceptAt(v, e)' \subseteq {y}
    BY <2>0, <2>5, <2>6 DEF AcceptAt
  <2> HIDE DEF y
  <2> QED BY <1>2, <2>4, <2>7, OneComes
<1>7. CASE ~(v = Other(w) /\ t.ex = e)
  <2>1. \A s \in tasks'[Other(v)] : s \in tasks[Other(v)] \/ s.op # "forgetAccepted" \/ s.ex # e
    BY <1>0, <1>3, <1>7, <1>n
  <2>2. AcceptAt(v, e)' \subseteq AcceptAt(v, e)
    BY <1>1, <1>2, <1>4, <2>1, AcceptAtStays
  <2> QED BY <1>2, <1>5, <2>2, OneStays
<1> QED BY <1>6, <1>7

\* Its marks forgotten, the acceptance waits to be sent.
LEMMA AcceptedForget ==
    ASSUME TypeOK, AcceptedOnce, NEW w \in Wallet, NEW t \in tasks[w], Forget(w, t), t.op = "forgetAccepted",
           NEW v \in Wallet, NEW e \in Exchange
    PROVE  OneOf(Waiting(v, "accept", e)', AcceptAt(v, e)')
<1>0. /\ tasks \in [Wallet -> SUBSET Task] /\ sending \in [Wallet -> SUBSET Doc]
      /\ Other(v) \in Wallet /\ Other(Other(v)) = v
  BY OtherTyped DEF TypeOK
<1> DEFINE d == doc("accept", t.ex, w)
<1>1. /\ inbox' = inbox /\ docs' = docs /\ deferred' = deferred /\ kept' = kept
      /\ tasks' = [tasks EXCEPT ![w] = @ \ {t}] /\ sending' = [sending EXCEPT ![w] = @ \cup {d}]
  BY DEF Forget, Runs, SendNext
<1>d. d.kind = "accept" /\ d.ex = t.ex
  BY DEF doc
<1> HIDE DEF d
<1>2. Waiting(v, "accept", e)' = Waiting(v, "accept", e) /\ HeldFor(v, e)' = HeldFor(v, e)
  BY <1>1 DEF Waiting, HeldFor
<1>3. \A u \in Wallet : tasks'[u] \subseteq tasks[u]
  BY <1>0, <1>1
<1>4. Given(v, e)' => Given(v, e)
  BY <1>1, <1>3 DEF Given, Deliveries, AlreadyIssued
<1>5. OneOf(Waiting(v, "accept", e), AcceptAt(v, e))
  BY DEF AcceptedOnce
<1>6. CASE v = Other(w) /\ t.ex = e
  <2>0. Other(v) = w
    BY <1>6, OtherTyped
  <2> DEFINE x == <<"forgetting", t>>
             y == <<"due", d>>
  <2>1. x \in AcceptAt(v, e)
    BY <1>6, <2>0 DEF AcceptAt, RunningFor
  <2>2. RunningFor(w, "forgetAccepted", e)' \subseteq RunningFor(w, "forgetAccepted", e) \ {t}
    BY <1>0, <1>1 DEF RunningFor
  <2>3. DueBy(w, "accept", e)' \subseteq DueBy(w, "accept", e) \cup {d}
    BY <1>0, <1>1 DEF DueBy
  <2>4. AcceptAt(v, e)' \subseteq (AcceptAt(v, e) \ {x}) \cup {y}
    BY <1>2, <1>4, <2>0, <2>2, <2>3 DEF AcceptAt
  <2> HIDE DEF x, y
  <2>5. OneOf(Waiting(v, "accept", e), AcceptAt(v, e)')
    BY <1>5, <2>1, <2>4, OneMoves
  <2> QED BY <1>2, <2>5
<1>7. CASE ~(v = Other(w) /\ t.ex = e)
  <2>1. \A m \in sending'[Other(v)] : m \in sending[Other(v)] \/ m.kind # "accept" \/ m.ex # e
    BY <1>0, <1>1, <1>7, <1>d
  <2>2. AcceptAt(v, e)' \subseteq AcceptAt(v, e)
    BY <1>0, <1>2, <1>3, <1>4, <2>1, AcceptAtStays
  <2> QED BY <1>2, <1>5, <2>2, OneStays
<1> QED BY <1>6, <1>7

\* The acceptance is sent: it waits in the peer's queue, and this side's delivery starts.
LEMMA AcceptedSend ==
    ASSUME ConsentInv, MadeByProposer, OneProposer, AcceptedOnce, NEW w \in Wallet, NEW d \in sending[w], Send(w, d),
           NEW v \in Wallet, NEW e \in Exchange
    PROVE  OneOf(Waiting(v, "accept", e)', AcceptAt(v, e)')
<1>0. /\ TypeOK /\ Accepting /\ docs \in [Wallet -> SUBSET Doc] /\ sending \in [Wallet -> SUBSET Doc]
      /\ tasks \in [Wallet -> SUBSET Task] /\ Other(v) \in Wallet /\ Other(w) \in Wallet /\ Other(Other(v)) = v
      /\ Other(w) # w
  BY OtherTyped DEF ConsentInv, TypeOK
<1> DEFINE q == doc("query", NoExchange, w)
           n == task("deliver", "user", d.ex)
<1>q. q.kind = "query" /\ n.op = "deliver" /\ n.ex = d.ex
  BY DEF doc, task
<1>1. deferred' = deferred /\ kept' = kept
  BY DEF Send
<1>2. \A u \in Wallet : \A s \in tasks'[u] : s \in tasks[u] \/ (s = n /\ u = w /\ d.kind = "accept")
  BY <1>0 DEF Send, AfterSend, StartDelivery
<1>3. \A u \in Wallet : \A m \in sending'[u] : (m \in sending[u] /\ (u = w => m # d)) \/ m = q
  BY <1>0 DEF Send, AfterSend, Query
<1>4. \A u \in Wallet : \A m \in docs'[u] : m \in docs[u] \/ m = q
  BY <1>0 DEF Send, AfterSend, Query, Retain
<1> HIDE DEF q, n
<1>5. HeldFor(v, e)' = HeldFor(v, e)
  BY <1>1 DEF HeldFor
<1>6. ~(v = w /\ d.kind = "accept" /\ d.ex = e) => (Given(v, e)' => Given(v, e))
  <2>1. ~(v = w /\ d.kind = "accept" /\ d.ex = e) => Deliveries(v, e)' \subseteq Deliveries(v, e)
    BY <1>2, <1>q DEF Deliveries
  <2>2. AlreadyIssued(v, e)' => AlreadyIssued(v, e)
    BY <1>4, <1>q DEF AlreadyIssued, doc
  <2> QED BY <2>1, <2>2 DEF Given
<1>7. /\ \A s \in tasks'[Other(v)] : s \in tasks[Other(v)] \/ s.op # "forgetAccepted"
      /\ \A m \in sending'[Other(v)] : m \in sending[Other(v)] \/ m.kind # "accept"
  BY <1>0, <1>2, <1>3, <1>q
<1>8. Waiting(v, "accept", e)' \subseteq
         Waiting(v, "accept", e) \cup {i \in {Len(inbox[v]) + 1} : v = Other(w) /\ d.kind = "accept" /\ d.ex = e}
  BY <1>0, SendQueues
<1>9. OneOf(Waiting(v, "accept", e), AcceptAt(v, e))
  BY DEF AcceptedOnce
<1>10. CASE v = w /\ d.kind = "accept" /\ d.ex = e
  <2>1. Accepted(w, e) /\ Proposed(w, e)
    BY <1>0, <1>10 DEF Accepting
  <2>2. ~Accepted(Other(v), e)
    BY <1>10, <2>1, OneSideAccepts
  <2>3. /\ Waiting(v, "accept", e) = {} /\ RunningFor(Other(v), "forgetAccepted", e) = {}
        /\ DueBy(Other(v), "accept", e) = {} /\ HeldFor(v, e) = {}
    BY <2>2, OnlyAccepted
  <2>4. Waiting(v, "accept", e)' = {}
    BY <1>0, <1>8, <1>10, <2>3
  <2>5. RunningFor(Other(v), "forgetAccepted", e)' = {} /\ DueBy(Other(v), "accept", e)' = {}
    BY <1>7, <2>3 DEF RunningFor, DueBy
  <2> DEFINE y == <<"given", e>>
  <2>6. AcceptAt(v, e)' \subseteq {y}
    BY <1>5, <2>3, <2>5 DEF AcceptAt
  <2> HIDE DEF y
  <2> QED BY <2>4, <2>6, OneComes
<1>11. CASE ~(v = w /\ d.kind = "accept" /\ d.ex = e)
  <2>1. AcceptAt(v, e)' \subseteq AcceptAt(v, e)
    BY <1>5, <1>6, <1>7, <1>11, AcceptAtStays
  <2>2. CASE v = Other(w) /\ d.kind = "accept" /\ d.ex = e
    <3> DEFINE x == <<"due", d>>
               k == Len(inbox[v]) + 1
    <3>1. Other(v) = w
      BY <2>2, OtherTyped
    <3>2. x \in AcceptAt(v, e)
      BY <2>2, <3>1 DEF AcceptAt, DueBy
    <3>3. d \notin DueBy(w, "accept", e)'
      BY <1>3, <1>q, <2>2 DEF DueBy
    <3>4. x \notin AcceptAt(v, e)'
      BY <3>1, <3>3 DEF AcceptAt
    <3>5. AcceptAt(v, e)' \subseteq AcceptAt(v, e) \ {x} /\ Waiting(v, "accept", e)' \subseteq Waiting(v, "accept", e) \cup {k}
      BY <1>8, <2>1, <3>4
    <3> HIDE DEF x, k
    <3> QED BY <1>9, <3>2, <3>5, OneQueued
  <2>3. CASE ~(v = Other(w) /\ d.kind = "accept" /\ d.ex = e)
    <3>1. Waiting(v, "accept", e)' \subseteq Waiting(v, "accept", e)
      BY <1>8, <2>3
    <3> QED BY <1>9, <2>1, <3>1, OneStays
  <2> QED BY <2>2, <2>3
<1> QED BY <1>10, <1>11

\* An acceptance that is received starts one delivery, or has it held.
LEMMA AcceptedReceive ==
    ASSUME TypeOK, InTransit, AcceptedOnce, NEW w \in Wallet, Receive(w), NEW v \in Wallet, NEW e \in Exchange
    PROVE  OneOf(Waiting(v, "accept", e)', AcceptAt(v, e)')
<1> DEFINE m == Head(inbox[w])
           run == task("deliver", "inbound", m.ex)
           hold == task("deliver", "release", m.ex)
<1>0. /\ docs \in [Wallet -> SUBSET Doc] /\ sending \in [Wallet -> SUBSET Doc]
      /\ tasks \in [Wallet -> SUBSET Task] /\ Other(v) \in Wallet /\ Other(w) \in Wallet /\ Other(w) # w
      /\ deferred \in [Wallet -> SUBSET Task] /\ kept \in [Wallet -> SUBSET Task]
  BY OtherTyped DEF TypeOK
<1>m. m \in Doc /\ Handle(w, m) /\ m.from = Other(w)
  BY ReceivedHead
<1>q. /\ Waiting(v, "accept", e)' \in SUBSET (Nat \ {0})
      /\ v # w => Waiting(v, "accept", e)' = Waiting(v, "accept", e)
      /\ v = w => \A i \in Waiting(v, "accept", e)' : i + 1 \in Waiting(v, "accept", e)
      /\ m.kind = "accept" /\ m.ex = e => 1 \in Waiting(w, "accept", e)
  BY ReceiveQueues
<1>n. run.op = "deliver" /\ run.ex = m.ex /\ hold.op = "deliver" /\ hold.ex = m.ex
  BY DEF task
<1> HIDE DEF m
<1>2. ASSUME NEW u \in Wallet, NEW t \in tasks'[u], t \notin tasks[u]
      PROVE  u = w /\ (\/ t.op \in {"maybeOpen", "open", "ask"}
                       \/ t = run /\ m.kind = "accept" /\ deferred' = deferred /\ kept' = kept)
  <2>n. \A b, f : task("maybeOpen", b, f).op = "maybeOpen" /\ task("open", b, f).op = "open"
                  /\ task("ask", b, f).op = "ask"
    BY DEF task
  <2>1. CASE RecvPropose(w, m)
    <3>1. u = w /\ t = task("ask", "inbound", m.ex)
      BY <1>0, <1>2, <2>1 DEF RecvPropose
    <3> QED BY <2>n, <3>1
  <2>2. CASE RecvAnnounce(w) \/ RecvAnswer(w, m)
    <3>1. u = w /\ (t = task("maybeOpen", "inbound", NoExchange) \/ t = task("open", "inbound", NoExchange))
      BY <1>0, <1>2, <2>2 DEF RecvAnnounce, RecvAnswer
    <3> QED BY <2>n, <3>1
  <2>3. CASE RecvAccept(w, m) /\ m.kind = "accept"
    <3>1. u = w /\ t = run /\ deferred' = deferred /\ kept' = kept
      BY <1>0, <1>2, <2>3 DEF RecvAccept, Proceed, Hold, StartDelivery
    <3> QED BY <2>3, <3>1
  <2>4. CASE tasks' = tasks
    BY <1>2, <2>4
  <2> QED BY <1>m, <2>1, <2>2, <2>3, <2>4 DEF Handle, RecvStop, RecvQuery, RecvIssue, RecvOther
<1>3. ASSUME NEW d \in sending'[Other(v)], d \notin sending[Other(v)] PROVE d.kind # "accept"
  <2>1. \E k \in {"answer", "mismatch", "receipt", "refused"} : \E f : d = doc(k, f, w)
    BY <1>0, <1>m, <1>3 DEF Handle, RecvAnnounce, RecvStop, RecvQuery, RecvAnswer, RecvPropose, RecvAccept,
       RecvIssue, RecvOther, SendNext
  <2> QED BY <2>1 DEF doc
<1>4. AlreadyIssued(v, e)' => AlreadyIssued(v, e)
  <2> DEFINE d == doc("issue", e, v)
  <2> SUFFICES ASSUME d \in docs'[v], d \notin docs[v] PROVE FALSE
    BY DEF AlreadyIssued
  <2>1. d.kind = "issue" /\ d.from = v
    BY DEF doc
  <2>2. v = w /\ (d = m \/ \E k \in {"answer", "mismatch", "receipt"} : \E f : d = doc(k, f, w))
    <3> HIDE DEF d
    <3> QED BY <1>0, <1>m DEF Handle, RecvAnnounce, RecvStop, RecvQuery, RecvAnswer, RecvPropose, RecvAccept,
               RecvIssue, RecvOther, Retain
  <2> QED BY <1>0, <1>m, <2>1, <2>2 DEF doc
<1>5. ASSUME NEW t \in deferred'[v] \cup kept'[v], t \notin deferred[v] \cup kept[v], t.op = "deliver"
      PROVE  v = w /\ t = hold /\ m.kind = "accept" /\ tasks' = tasks
  <2>1. CASE RecvAnnounce(w)
    <3>1. t = task("maybeOpen", "inbound", NoExchange)
      BY <1>0, <1>5, <2>1 DEF RecvAnnounce
    <3> QED BY <1>5, <3>1 DEF task
  <2>2. CASE RecvAccept(w, m) /\ m.kind = "accept"
    <3>1. v = w /\ t = hold /\ tasks' = tasks
      BY <1>0, <1>5, <2>2 DEF RecvAccept, Proceed, Hold
    <3> QED BY <2>2, <3>1
  <2>3. CASE RecvStop(w)
    BY <1>0, <1>5, <2>3 DEF RecvStop
  <2>4. CASE deferred' = deferred /\ kept' = kept
    BY <1>5, <2>4
  <2> QED BY <1>m, <2>1, <2>2, <2>3, <2>4 DEF Handle, RecvQuery, RecvAnswer, RecvPropose, RecvIssue, RecvOther
<1>6. OneOf(Waiting(v, "accept", e), AcceptAt(v, e))
  BY DEF AcceptedOnce
<1> HIDE DEF run, hold
<1>7. \A t \in tasks'[Other(v)] : t \in tasks[Other(v)] \/ t.op # "forgetAccepted"
  BY <1>0, <1>2, <1>n
<1>8. CASE v = w /\ m.kind = "accept" /\ m.ex = e
  <2>1. AcceptAt(v, e) = {} /\ \A i \in Waiting(v, "accept", e) : i = 1
    BY <1>q, <1>6, <1>8 DEF OneOf
  <2>2. Waiting(v, "accept", e)' = {}
    BY <1>q, <1>8, <2>1
  <2>3. /\ RunningFor(Other(v), "forgetAccepted", e) = {} /\ DueBy(Other(v), "accept", e) = {}
        /\ HeldFor(v, e) = {} /\ ~Given(v, e)
    <3>1. \A t \in RunningFor(Other(v), "forgetAccepted", e) : <<"forgetting", t>> \in AcceptAt(v, e)
      BY DEF AcceptAt
    <3>2. \A d \in DueBy(Other(v), "accept", e) : <<"due", d>> \in AcceptAt(v, e)
      BY DEF AcceptAt
    <3>3. \A t \in HeldFor(v, e) : <<"held", t>> \in AcceptAt(v, e)
      BY DEF AcceptAt
    <3>4. Given(v, e) => <<"given", e>> \in AcceptAt(v, e)
      BY DEF AcceptAt
    <3> QED BY <2>1, <3>1, <3>2, <3>3, <3>4
  <2>4. RunningFor(Other(v), "forgetAccepted", e)' = {} /\ DueBy(Other(v), "accept", e)' = {}
    BY <1>3, <1>7, <2>3 DEF RunningFor, DueBy
  <2>5. HeldFor(v, e)' \subseteq {hold}
    BY <1>5, <2>3 DEF HeldFor
  <2>6. HeldFor(v, e)' # {} => ~Given(v, e)'
    <3> SUFFICES ASSUME HeldFor(v, e)' # {} PROVE ~Given(v, e)'
      OBVIOUS
    <3>1. tasks' = tasks
      BY <1>5, <2>3 DEF HeldFor
    <3> QED BY <1>4, <2>3, <3>1 DEF Given, Deliveries
  <2> DEFINE y == <<"held", hold>>
             z == <<"given", e>>
  <2>7. AcceptAt(v, e)' \subseteq {y} \/ AcceptAt(v, e)' \subseteq {z}
    BY <2>4, <2>5, <2>6 DEF AcceptAt
  <2> HIDE DEF y, z
  <2> QED BY <2>2, <2>7, OneComes
<1>9. CASE ~(v = w /\ m.kind = "accept" /\ m.ex = e)
  <2>1. HeldFor(v, e)' \subseteq HeldFor(v, e)
    BY <1>5, <1>9, <1>n DEF HeldFor
  <2>2. Given(v, e)' => Given(v, e)
    <3>1. Deliveries(v, e)' \subseteq Deliveries(v, e)
      BY <1>2, <1>9, <1>n DEF Deliveries
    <3> QED BY <1>4, <3>1 DEF Given
  <2>3. AcceptAt(v, e)' \subseteq AcceptAt(v, e)
    BY <1>3, <1>7, <2>1, <2>2, AcceptAtStays
  <2>4. CASE v = w
    <3>1. /\ Waiting(v, "accept", e)' \in SUBSET Nat
          /\ \A i \in Waiting(v, "accept", e)' : i + 1 \in Waiting(v, "accept", e)
      BY <1>q, <2>4
    <3> QED BY <1>6, <2>3, <3>1, OneShifts
  <2>5. CASE v # w
    BY <1>q, <1>6, <2>3, <2>5, OneStays
  <2> QED BY <2>4, <2>5
<1> QED BY <1>8, <1>9

\* A held delivery that is released runs, and is held no more.
LEMMA AcceptedRelease ==
    ASSUME TypeOK, HeldOps, AcceptedOnce, NEW w \in Wallet, Release(w), NEW v \in Wallet, NEW e \in Exchange
    PROVE  OneOf(Waiting(v, "accept", e)', AcceptAt(v, e)')
<1>0. /\ tasks \in [Wallet -> SUBSET Task] /\ deferred \in [Wallet -> SUBSET Task] /\ kept \in [Wallet -> SUBSET Task]
      /\ Other(v) \in Wallet
  BY OtherTyped DEF TypeOK
<1>1. /\ inbox' = inbox /\ sending' = sending /\ docs' = docs
      /\ deferred' = [deferred EXCEPT ![w] = {}] /\ kept' = [kept EXCEPT ![w] = {}]
      /\ \A u \in Wallet : \A t \in tasks'[u] : t \in tasks[u] \/ (u = w /\ t \in deferred[w])
  BY <1>0 DEF Release
<1>2. \A t \in deferred[w] : t.op \in {"announce", "maybeOpen", "deliver"}
  BY DEF HeldOps
<1>3. Waiting(v, "accept", e)' = Waiting(v, "accept", e)
  BY <1>1 DEF Waiting
<1>4. \A t \in tasks'[Other(v)] : t \in tasks[Other(v)] \/ t.op # "forgetAccepted"
  BY <1>0, <1>1, <1>2
<1>5. HeldFor(v, e)' \subseteq HeldFor(v, e) /\ (v = w => HeldFor(v, e)' = {})
  BY <1>0, <1>1 DEF HeldFor
<1>6. OneOf(Waiting(v, "accept", e), AcceptAt(v, e))
  BY DEF AcceptedOnce
<1>7. CASE v = w /\ \E t \in deferred[w] : t.op = "deliver" /\ t.ex = e
  <2>1. PICK t \in deferred[w] : t.op = "deliver" /\ t.ex = e
    BY <1>7
  <2> DEFINE x == <<"held", t>>
             y == <<"given", e>>
  <2>2. x \in AcceptAt(v, e)
    BY <1>7, <2>1 DEF AcceptAt, HeldFor
  <2>3. /\ RunningFor(Other(v), "forgetAccepted", e)' \subseteq RunningFor(Other(v), "forgetAccepted", e)
        /\ DueBy(Other(v), "accept", e)' = DueBy(Other(v), "accept", e) /\ HeldFor(v, e)' = {}
    BY <1>1, <1>4, <1>5, <1>7 DEF RunningFor, DueBy
  <2>4. AcceptAt(v, e)' \subseteq (AcceptAt(v, e) \ {x}) \cup {y}
    BY <2>3 DEF AcceptAt
  <2> HIDE DEF x, y
  <2>5. OneOf(Waiting(v, "accept", e), AcceptAt(v, e)')
    BY <1>6, <2>2, <2>4, OneMoves
  <2> QED BY <1>3, <2>5
<1>8. CASE ~(v = w /\ \E t \in deferred[w] : t.op = "deliver" /\ t.ex = e)
  <2>1. Deliveries(v, e)' \subseteq Deliveries(v, e)
    BY <1>1, <1>2, <1>8 DEF Deliveries
  <2>2. Given(v, e)' => Given(v, e)
    BY <1>1, <2>1 DEF Given, AlreadyIssued
  <2>3. AcceptAt(v, e)' \subseteq AcceptAt(v, e)
    BY <1>1, <1>4, <1>5, <2>2, AcceptAtStays
  <2> QED BY <1>3, <1>6, <2>3, OneStays
<1> QED BY <1>7, <1>8

\* A step makes an acceptance once at most, and starts or holds one delivery for it.
LEMMA AcceptedOnceStep ==
    ASSUME ConsentInv, MadeByProposer, OneProposer, AskedOnce, AcceptedOnce, NEW w \in Wallet,
           System(w) \/ Environment(w), ~ReceiveTwice(w)
    PROVE  AcceptedOnce'
<1>0. TypeOK /\ InTransit /\ HeldOps
  BY DEF ConsentInv
<1> SUFFICES ASSUME NEW v \in Wallet, NEW e \in Exchange
             PROVE  OneOf(Waiting(v, "accept", e)', AcceptAt(v, e)')
  BY HeldAccepted DEF AcceptedOnce, OneOf
<1>1. CASE Still(w)
  BY <1>0, <1>1, AcceptedStill
<1>2. CASE \E t \in tasks[w] : Accept(w, t)
  BY <1>2, AcceptedAccept
<1>3. CASE \E t \in tasks[w] : Forget(w, t) /\ t.op = "forgetAccepted"
  BY <1>0, <1>3, AcceptedForget
<1>4. CASE \E d \in sending[w] : Send(w, d)
  BY <1>4, AcceptedSend
<1>5. CASE Receive(w)
  BY <1>0, <1>5, AcceptedReceive
<1>6. CASE Release(w)
  BY <1>0, <1>6, AcceptedRelease
<1>7. \A t \in tasks[w] : Forget(w, t) => t.op \in {"forgetAccepted", "forgetDeclined"}
  BY DEF Forget
<1> QED BY <1>1, <1>2, <1>3, <1>4, <1>5, <1>6, <1>7 DEF System, Environment, Run, Still

\* Only the mediator's repeats are counted.
LEMMA DuplicatesStep ==
    ASSUME TypeOK, NEW w \in Wallet, System(w) \/ Environment(w), duplicates' = 0
    PROVE  duplicates = 0 /\ ~ReceiveTwice(w)
<1>1. ~ReceiveTwice(w)
  BY DEF TypeOK, ReceiveTwice
<1>2. duplicates' = duplicates
  BY <1>1 DEF System, Run, Connect, Restart, Announce, MaybeOpen, OpenCheck, Propose, Ask, Accept,
     Decline, Forget, DeliverCheck, Issue, RestoreHold, Sweep, RestoreAsk, Reask, ForgetAnswered, Send, Receive, Environment,
     Respond, Upgrade, Withdraw, Release, Stop, Crash, DeliveryFails, SendFails, budget
<1> QED BY <1>1, <1>2

\* The inductive invariant of HeldSignsNothing.
HeldInv == WithdrawnInv /\ HeldSteps /\ StartsUpFirst /\ (duplicates = 0 => AskedOnce /\ AcceptedOnce)

\* "Nothing it would start goes out" while a late acceptance is held (lateStep.ts), in this
\* run of the app or the next: the held delivery neither runs nor is done, as long as no
\* message was delivered twice.
THEOREM HeldDeliveryWaits == Spec => []HeldSignsNothing
<1>1. Init => HeldInv
  <2> SUFFICES ASSUME Init PROVE HeldInv
    OBVIOUS
  <2>1. \A w \in Wallet : Queued(w) = {}
    BY DEF Init, Queued
  <2>2. WithdrawnInv
    BY <2>1, ConsentInit DEF Init, WithdrawnInv, MadeByProposer, OneProposer, WithdrawnOwn
  <2>3. HeldSteps
    BY DEF Init, HeldSteps
  <2> QED BY <2>2, <2>3, OnceInit DEF HeldInv
<1>2. HeldInv /\ [Next]_vars => HeldInv'
  <2> SUFFICES ASSUME HeldInv, [Next]_vars PROVE HeldInv'
    OBVIOUS
  <2>1. CASE Next
    <3>1. PICK w \in Wallet : System(w) \/ Environment(w)
      BY <2>1 DEF Next
    <3>2. WithdrawnInv /\ ConsentInv /\ MadeByProposer /\ OneProposer /\ TypeOK /\ InTransit /\ HeldOps
      BY DEF HeldInv, WithdrawnInv, ConsentInv
    <3>3. WithdrawnInv'
      <4>1. ConsentInv'
        BY <3>2, ConsentStep
      <4> QED BY <3>1, <3>2, <4>1, WithdrawnInvStep DEF WithdrawnInv
    <3>4. HeldSteps'
      BY <3>1, <3>2, HeldStepsStep DEF HeldInv
    <3>5. StartsUpFirst'
      BY <3>1, <3>2, StartsUpFirstStep DEF HeldInv
    <3>6. ASSUME duplicates' = 0 PROVE AskedOnce' /\ AcceptedOnce'
      <4>1. duplicates = 0 /\ ~ReceiveTwice(w)
        BY <3>1, <3>2, <3>6, DuplicatesStep
      <4>2. AskedOnce /\ AcceptedOnce /\ StartsUpFirst
        BY <4>1 DEF HeldInv
      <4>3. AskedOnce'
        BY <3>1, <3>2, <4>1, <4>2, AskedOnceStep
      <4>4. AcceptedOnce'
        BY <3>1, <3>2, <4>1, <4>2, AcceptedOnceStep
      <4> QED BY <4>3, <4>4
    <3> QED BY <3>3, <3>4, <3>5, <3>6 DEF HeldInv
  <2>2. CASE UNCHANGED vars
    <3>1. WithdrawnInv'
      <4>1. ConsentInv'
        BY ConsentStep DEF HeldInv, WithdrawnInv
      <4> QED BY <2>2, <4>1 DEF HeldInv, vars, durable, volatile, WithdrawnInv, MadeByProposer, OneProposer,
                 WithdrawnOwn, Queued, IsUpgrade
    <3>2. HeldSteps' /\ StartsUpFirst'
      BY <2>2 DEF HeldInv, vars, durable, volatile, HeldSteps, StartsUpFirst
    <3>3. AskedOnce' = AskedOnce
      BY <2>2 DEF vars, durable, volatile, AskedOnce, AskedBefore, Marked, OneOf, Waiting, ProposeAt, DueBy, RunningFor
    <3>4. AcceptedOnce' = AcceptedOnce
      BY <2>2 DEF vars, durable, volatile, AcceptedOnce, OneOf, Waiting, AcceptAt, DueBy, RunningFor, HeldFor, Given,
         Deliveries, AlreadyIssued, Accepted
    <3>5. duplicates' = duplicates
      BY <2>2 DEF vars, budget
    <3> QED BY <3>1, <3>2, <3>3, <3>4, <3>5 DEF HeldInv
  <2> QED BY <2>1, <2>2
<1>3. HeldInv => HeldSignsNothing
  <2> SUFFICES ASSUME HeldInv, duplicates = 0, NEW w \in Wallet, NEW t \in deferred[w] \cup kept[w], t.op = "deliver"
               PROVE  ~AlreadyIssued(w, t.ex) /\ Deliveries(w, t.ex) = {}
    BY DEF HeldSignsNothing, AlreadyIssued
  <2>1. t.ex \in Exchange
    <3>1. t \in Task
      BY DEF HeldInv, WithdrawnInv, ConsentInv, TypeOK
    <3> QED BY <3>1, TaskEx DEF Answering
  <2>2. <<"held", t>> \in AcceptAt(w, t.ex)
    BY DEF AcceptAt, HeldFor
  <2>3. Given(w, t.ex) => <<"given", t.ex>> \in AcceptAt(w, t.ex)
    BY DEF AcceptAt
  <2>4. \A x, y \in AcceptAt(w, t.ex) : x = y
    BY <2>1 DEF HeldInv, AcceptedOnce, OneOf
  <2>5. ~Given(w, t.ex)
    BY <2>2, <2>3, <2>4
  <2> QED BY <2>5 DEF Given
<1> QED BY <1>1, <1>2, <1>3, PTL DEF Spec

-----------------------------------------------------------------------------
(* An answer forgets no later propose: what it leaves of the marks, and that a function
   that forgets marks has its answer retained. *)

\* With a mark of its own, an answer leaves those after its last.
LEMMA MarksAfter ==
    ASSUME NEW m \in Seq(Exchange), NEW e \in Exchange, NEW k \in 1..Len(m), m[k] = e
    PROVE  \E last \in 1..Len(m) : m[last] = e /\ Len(MarksWithout(m, e)) = Len(m) - last
<1> DEFINE own == {j \in 1..Len(m) : m[j] = e}
           last == CHOOSE j \in own : \A i \in own : i <= j
           s == SubSeq(m, last + 1, Len(m))
<1>1. k \in own /\ MarksWithout(m, e) = s
  BY DEF MarksWithout
<1>2. last \in own
  <2>1. \E j \in own : \A i \in own : i <= j
    <3> HIDE DEF own
    <3>1. own \subseteq 1..Len(m) /\ Len(m) \in Nat
      BY DEF own
    <3> QED BY <1>1, <3>1, LastIndex
  <2> HIDE DEF own
  <2> QED BY <2>1
<1>3. last \in 1..Len(m) /\ m[last] = e /\ Len(m) \in Nat
  <2> HIDE DEF last
  <2> QED BY <1>2
<1>4. Len(s) = Len(m) - last
  <2> HIDE DEF last, own
  <2>1. CASE last = Len(m)
    <3>1. s = <<>>
      BY <1>3, <2>1, SubSeqProperties
    <3> HIDE DEF s
    <3> QED BY <1>3, <2>1, <3>1
  <2>2. CASE last # Len(m)
    <3>1. last + 1 \in 1..Len(m) /\ \A j \in (last + 1)..Len(m) : m[j] \in Exchange
      BY <1>3, <2>2
    <3> QED BY <1>3, <2>2, <3>1, SubSeqProperties
  <2> QED BY <2>1, <2>2
<1> HIDE DEF last, s
<1> QED BY <1>1, <1>3, <1>4

\* What a decline or a start-up forgets the marks of is answered.
Declining ==
    \A w \in Wallet : \A t \in tasks[w] :
        /\ t.op = "forgetDeclined" => doc("declined", t.ex, w) \in docs[w]
        /\ t.op = "forgetAnswered" => Answered(w, t.ex)

\* A step keeps it so.
LEMMA DecliningStep ==
    ASSUME TypeOK, InTransit, HeldOps, Declining, NEW w \in Wallet, System(w) \/ Environment(w)
    PROVE  Declining'
<1>0. /\ tasks \in [Wallet -> SUBSET Task] /\ docs \in [Wallet -> SUBSET Doc]
      /\ deferred \in [Wallet -> SUBSET Task]
  BY DEF TypeOK
<1>d. \A v \in Wallet : docs[v] \subseteq docs'[v]
  BY DocsStay
<1>n. \A o, b, f : task(o, b, f).op = o /\ task(o, b, f).ex = f
  BY DEF task
<1> SUFFICES ASSUME NEW v \in Wallet, NEW t \in tasks'[v], t \notin tasks[v],
                    t.op \in {"forgetDeclined", "forgetAnswered"}
             PROVE  /\ t.op = "forgetDeclined" => doc("declined", t.ex, v) \in docs'[v]
                    /\ t.op = "forgetAnswered" => Answered(v, t.ex)'
  BY <1>d DEF Declining, Answered
<1>1. CASE \E s \in tasks[w] : Decline(w, s)
  <2>1. PICK s \in tasks[w] : Decline(w, s)
    BY <1>1
  <2>2. v = w /\ t = task("forgetDeclined", "user", s.ex) /\ doc("declined", s.ex, w) \in docs'[w]
    BY <1>0, <2>1 DEF Decline, Runs, Retain
  <2> QED BY <1>n, <2>2
<1>2. CASE Still(w) /\ ~\E s \in tasks[w] : Decline(w, s)
  <2>1. CASE \E s \in tasks[w] : \/ Announce(w, s) \/ Ask(w, s) \/ Forget(w, s) \/ Issue(w, s) \/ RestoreHold(w, s)
                                 \/ Reask(w, s) \/ ForgetAnswered(w, s) \/ DeliveryFails(w, s)
                                 \/ \E e \in Exchange : Propose(w, s, e)
    <3>1. PICK s \in tasks[w] : tasks' = [tasks EXCEPT ![w] = (@ \ {s}) \cup {}]
      BY <2>1 DEF Announce, Ask, Forget, Issue, RestoreHold, Reask, ForgetAnswered, DeliveryFails, Propose, Runs
    <3> QED BY <1>0, <3>1
  <2>2. CASE \E s \in tasks[w] : MaybeOpen(w, s) \/ OpenCheck(w, s) \/ DeliverCheck(w, s)
    <3>1. PICK s \in tasks[w] :
             \E new \in {{}, {task("open", s.by, NoExchange)}, {task("propose", s.by, NoExchange)},
                         {task("sign", s.by, s.ex)}} : tasks' = [tasks EXCEPT ![w] = (@ \ {s}) \cup new]
      BY <2>2 DEF MaybeOpen, OpenCheck, DeliverCheck, Runs
    <3>2. \E o \in {"open", "propose", "sign"} : \E b, f : t = task(o, b, f)
      BY <1>0, <3>1
    <3> QED BY <1>n, <3>2
  <2>4. CASE \E s \in tasks[w] : Sweep(w, s)
    <3>1. t \in {task("restoreAsk", "user", NoExchange), task("maybeOpen", "sweep", NoExchange)}
      BY <1>0, <2>4 DEF Sweep, Runs
    <3> QED BY <1>n, <3>1
  <2>10. CASE \E s \in tasks[w] : RestoreAsk(w, s)
    <3>1. /\ v = w /\ docs' = docs
          /\ t = task(IF Answered(w, NewestMark(w)) THEN "forgetAnswered" ELSE "reask", "user", NewestMark(w))
      BY <1>0, <2>10 DEF RestoreAsk, Runs, durable
    <3> QED BY <1>n, <3>1 DEF Answered
  <2>5. CASE Connect(w)
    <3>1. t = task("announce", "release", NoExchange)
      BY <1>0, <2>5 DEF Connect, Proceed, Hold
    <3> QED BY <1>n, <3>1
  <2>6. CASE Restart(w)
    <3>1. t \in {task("restoreHold", "sweep", NoExchange), task("sweep", "sweep", NoExchange)}
      BY <1>0, <2>6 DEF Restart
    <3> QED BY <1>n, <3>1
  <2>7. CASE \E a \in {"accept", "decline"} : Respond(w, a)
    <3>1. \E a \in {"accept", "decline"} : t = task(a, "user", prompt[w])
      BY <1>0, <2>7 DEF Respond
    <3> QED BY <1>n, <3>1
  <2>8. CASE Crash(w)
    BY <1>0, <2>8 DEF Crash
  <2>9. CASE tasks' = tasks
    BY <2>9
  <2> QED BY <1>2, <2>1, <2>2, <2>4, <2>5, <2>6, <2>7, <2>8, <2>9, <2>10
      DEF Still, Stop, Upgrade, Withdraw, SendFails, volatile
<1>3. CASE \E s \in tasks[w] : Accept(w, s)
  <2>1. \E f : t = task("forgetAccepted", "user", f)
    BY <1>0, <1>3 DEF Accept, Runs
  <2> QED BY <1>n, <2>1
<1>4. CASE \E s \in tasks[w] : Forget(w, s)
  BY <1>0, <1>4 DEF Forget, Runs
<1>5. CASE \E d \in sending[w] : Send(w, d)
  <2>1. \E f : t = task("deliver", "user", f)
    BY <1>0, <1>5 DEF Send, AfterSend, StartDelivery
  <2> QED BY <1>n, <2>1
<1>6. CASE Release(w)
  <2>1. t \in deferred[w]
    BY <1>0, <1>6 DEF Release
  <2> QED BY <2>1 DEF HeldOps
<1>7. CASE Receive(w) \/ ReceiveTwice(w)
  <2>1. PICK m \in Queued(w) : m \in Doc /\ Handle(w, m)
    BY <1>7, Handled
  <2>2. \E o \in {"maybeOpen", "open", "ask", "deliver"} : \E f : t = task(o, "inbound", f)
    BY <1>0, <2>1 DEF Handle, RecvAnnounce, RecvStop, RecvQuery, RecvAnswer, RecvPropose, RecvAccept,
       RecvIssue, RecvOther, Proceed, Hold, StartDelivery
  <2> QED BY <1>n, <2>2
<1> QED BY <1>1, <1>2, <1>3, <1>4, <1>5, <1>6, <1>7 DEF System, Environment, Run, Still

\* Only an answer forgets marks, and what it forgets is its own, or older, unless it finds no
\* mark of its own.
THEOREM LaterProposesStay == Spec => LaterProposeKept
<1> DEFINE Inv == ConsentInv /\ Declining
           Lost(w, i) == Len(marks'[w]) < Len(marks[w]) - i + 1
           Kept(w, i) ==
              \/ \E j \in i..Len(marks[w]) : Answered(w, marks[w][j])
              \/ \E t \in tasks[w] \ tasks'[w] :
                    /\ t.op \in {"forgetAccepted", "forgetDeclined", "forgetAnswered"}
                    /\ \A j \in 1..Len(marks[w]) : marks[w][j] # t.ex
           Keeps == \A w \in Wallet : \A i \in 1..Len(marks[w]) : Lost(w, i) => Kept(w, i)
<1>1. Init => Inv
  BY ConsentInit DEF Init, Declining
<1>2. Inv /\ [Next]_vars => Inv'
  <2> SUFFICES ASSUME Inv, [Next]_vars PROVE Inv'
    OBVIOUS
  <2>1. ConsentInv'
    BY ConsentStep
  <2>2. CASE Next
    <3>1. PICK w \in Wallet : System(w) \/ Environment(w)
      BY <2>2 DEF Next
    <3>2. TypeOK /\ InTransit /\ HeldOps
      BY DEF ConsentInv
    <3>3. Declining'
      BY <3>1, <3>2, DecliningStep
    <3> QED BY <2>1, <3>3
  <2>3. CASE UNCHANGED vars
    BY <2>1, <2>3 DEF vars, durable, volatile, Declining, Answered
  <2> QED BY <2>2, <2>3
<1>3. Inv /\ [Next]_vars => Keeps \/ UNCHANGED vars
  <2> SUFFICES ASSUME Inv, Next PROVE Keeps
    OBVIOUS
  <2> SUFFICES ASSUME NEW v \in Wallet, NEW i \in 1..Len(marks[v]), Lost(v, i) PROVE Kept(v, i)
    OBVIOUS
  <2>0. /\ TypeOK /\ Accepting /\ marks \in [Wallet -> Seq(Exchange)] /\ tasks \in [Wallet -> SUBSET Task]
        /\ marks[v] \in Seq(Exchange) /\ Len(marks[v]) \in Nat
    BY DEF ConsentInv, TypeOK
  <2>1. PICK w \in Wallet : System(w) \/ Environment(w)
    BY DEF Next
  <2>2. marks'[v] # marks[v]
    BY <2>0
  <2>3. v = w
    BY <2>0, <2>1, <2>2, OnlyItsOwn
  <2>4. CASE \E t \in tasks[w] : Forget(w, t) \/ ForgetAnswered(w, t)
    <3>1. PICK t \in tasks[w] : Forget(w, t) \/ ForgetAnswered(w, t)
      BY <2>4
    <3>2. /\ t.op \in {"forgetAccepted", "forgetDeclined", "forgetAnswered"} /\ t.ex \in Exchange
          /\ marks'[w] = MarksWithout(marks[w], t.ex) /\ t \notin tasks'[w]
      BY <2>0, <3>1, TaskEx DEF Forget, ForgetAnswered, Runs, Answering
    <3>3. Answered(w, t.ex)
      <4>1. doc("accept", t.ex, w).kind = "accept" /\ doc("accept", t.ex, w).ex = t.ex
        BY DEF doc
      <4>2. doc("declined", t.ex, w).kind \in Errors /\ doc("declined", t.ex, w).ex = t.ex
        BY DEF doc, Errors
      <4>3. CASE t.op = "forgetAccepted"
        <5>1. doc("accept", t.ex, w) \in docs[w]
          BY <2>0, <3>1, <4>3 DEF Accepting, Accepted
        <5> QED BY <4>1, <5>1 DEF Answered
      <4>4. CASE t.op = "forgetDeclined"
        <5>1. doc("declined", t.ex, w) \in docs[w]
          BY <3>1, <4>4 DEF Declining
        <5> QED BY <4>2, <5>1 DEF Answered
      <4>5. CASE t.op = "forgetAnswered"
        BY <3>1, <4>5 DEF Declining
      <4> QED BY <3>2, <4>3, <4>4, <4>5
    <3>4. CASE \A j \in 1..Len(marks[w]) : marks[w][j] # t.ex
      BY <2>3, <3>2, <3>4
    <3>5. ASSUME NEW k \in 1..Len(marks[w]), marks[w][k] = t.ex PROVE Kept(v, i)
      <4>1. PICK last \in 1..Len(marks[w]) :
               marks[w][last] = t.ex /\ Len(MarksWithout(marks[w], t.ex)) = Len(marks[w]) - last
        BY <2>0, <2>3, <3>2, <3>5, MarksAfter
      <4>2. last \in i..Len(marks[v])
        BY <2>0, <2>3, <3>2, <4>1
      <4> QED BY <2>3, <3>3, <4>1, <4>2
    <3> QED BY <3>4, <3>5
  <2>6. CASE \E t \in tasks[w] : Ask(w, t)
    <3>1. PICK t \in tasks[w] : marks'[w] = Append(marks[w], t.ex)
      BY <2>0, <2>6 DEF Ask
    <3>2. Len(Append(marks[w], t.ex)) = Len(marks[w]) + 1
      BY <2>0, <2>3
    <3> QED BY <2>0, <2>3, <3>1, <3>2
  <2>7. CASE Receive(w) \/ ReceiveTwice(w)
    BY <2>0, <2>2, <2>7, Handled, TypeHandle
  <2>8. CASE marks' = marks
    BY <2>2, <2>8
  <2> QED BY <2>1, <2>4, <2>6, <2>7, <2>8 DEF System, Environment, Run, Connect, Restart, Announce, MaybeOpen,
             OpenCheck, Propose, Accept, Decline, DeliverCheck, Issue, RestoreHold, Sweep, RestoreAsk, Reask, Send, Respond, Upgrade,
             Withdraw, Release, Stop, Crash, DeliveryFails, SendFails, durable
<1> HIDE DEF Inv
<1>4. Inv /\ [Next]_vars => [Keeps]_vars
  BY <1>3
<1> QED BY <1>1, <1>2, <1>4, PTL DEF Spec, LaterProposeKept

-----------------------------------------------------------------------------
(* The exchange implements the swap.  The invariant adds what an issue document in transit *)
(* says: its sender made the credential.                                                   *)

\* What is on its way as a credential was made by its sender.
IssueMade ==
    \A w \in Wallet : \A d \in sending[w] \cup Queued(w) :
        d.kind = "issue" => AlreadyIssued(d.from, d.ex)

\* The inductive invariant of the refinement.
SwapInv == OneCardInv /\ WithdrawnInv /\ IssueMade

\* Only Issue sends an issue document.
LEMMA IssueSent ==
    ASSUME TypeOK, NEW w \in Wallet, System(w) \/ Environment(w),
           NEW v \in Wallet, NEW d \in sending'[v], d \notin sending[v], d.kind = "issue"
    PROVE  AlreadyIssued(d.from, d.ex)'
<1>0. sending \in [Wallet -> SUBSET Doc] /\ docs \in [Wallet -> SUBSET Doc]
  BY DEF TypeOK
<1>1. CASE sending' = sending
  BY <1>1
<1>2. CASE Receive(w) \/ ReceiveTwice(w)
  <2>1. PICK m \in Queued(w) : m \in Doc /\ Handle(w, m)
    BY <1>2, Handled
  <2> QED BY <1>0, <2>1 DEF Handle, RecvAnnounce, RecvStop, RecvQuery, RecvAnswer, RecvPropose,
             RecvAccept, RecvIssue, RecvOther, SendNext, doc
<1>3. ASSUME \E D : SendNext(w, D) /\ \A m \in D : m.kind # "issue"
      PROVE  FALSE
  BY <1>0, <1>3 DEF SendNext
<1>a. CASE \E t \in tasks[w] : Announce(w, t) \/ Forget(w, t) \/ \E e \in Exchange : Propose(w, t, e)
  <2>1. PICK k \in {"announce", "accept", "declined", "propose"} : \E e : SendNext(w, {doc(k, e, w)})
    BY <1>a DEF Announce, Forget, Propose
  <2> QED BY <1>3, <2>1 DEF doc
<1>b. CASE \E t \in tasks[w] : MaybeOpen(w, t)
  <2>1. SendNext(w, Query(w)) \/ SendNext(w, {})
    BY <1>b DEF MaybeOpen
  <2> QED BY <1>3, <2>1 DEF Query, doc
<1>4. CASE \E t \in tasks[w] : Issue(w, t)
  <2>1. PICK t \in tasks[w] : Issue(w, t)
    BY <1>4
  <2>2. v = w /\ d = doc("issue", t.ex, w)
    BY <1>0, <2>1 DEF Issue, SendNext
  <2>3. doc("issue", t.ex, w) \in docs'[w] /\ d.from = w /\ d.ex = t.ex
    BY <1>0, <2>1, <2>2 DEF Issue, Retain, doc
  <2> QED BY <2>3 DEF AlreadyIssued
<1>5. CASE \E m \in sending[w] : Send(w, m) \/ SendFails(w, m)
  BY <1>0, <1>5 DEF Send, SendFails, AfterSend, Query, doc
<1>6. CASE Stop(w) \/ \E e \in Exchange : Upgrade(w, e)
  <2>1. PICK k \in {"stop", "propose"} : \E e : SendNext(w, {doc(k, e, w)})
    BY <1>6 DEF Stop, Upgrade
  <2> QED BY <1>3, <2>1 DEF doc
<1>7. CASE Crash(w)
  BY <1>0, <1>7 DEF Crash
<1> QED BY <1>1, <1>2, <1>a, <1>b, <1>7, <1>4, <1>5, <1>6 DEF System, Run, Connect, Restart, OpenCheck, Ask, Accept,
           Decline, DeliverCheck, RestoreHold, Sweep, RestoreAsk, Reask, ForgetAnswered, Environment, Respond,
           Withdraw, Release, DeliveryFails, volatile

\* A step keeps it so.
LEMMA IssueMadeStep ==
    ASSUME TypeOK, IssueMade, NEW w \in Wallet, System(w) \/ Environment(w)
    PROVE  IssueMade'
<1>0. sending \in [Wallet -> SUBSET Doc] /\ inbox \in [Wallet -> Seq(Doc)]
  BY DEF TypeOK
<1>1. ASSUME NEW v \in Wallet, NEW d \in sending[v] \cup Queued(v), d.kind = "issue"
      PROVE  AlreadyIssued(d.from, d.ex)'
  <2>1. d \in Doc
    BY <1>0 DEF Queued
  <2>2. d.from \in Wallet /\ AlreadyIssued(d.from, d.ex)
    BY <1>1, <2>1, DocEx DEF IssueMade
  <2>3. docs[d.from] \subseteq docs'[d.from]
    BY <2>2, DocsStay
  <2> QED BY <2>2, <2>3 DEF AlreadyIssued
<1>2. ASSUME NEW v \in Wallet, NEW d \in sending'[v] \cup Queued(v)', d.kind = "issue"
      PROVE  AlreadyIssued(d.from, d.ex)'
  <2>1. CASE d \in sending[v] \cup Queued(v)
    BY <1>1, <1>2, <2>1
  <2>2. CASE d \in sending'[v] /\ d \notin sending[v]
    BY <1>2, <2>2, IssueSent
  <2>3. CASE d \in Queued(v)' /\ d \notin Queued(v)
    <3>1. inbox' # inbox /\ ~(Queued(v)' \subseteq Queued(v))
      BY <2>3 DEF Queued
    <3>2. PICK m \in sending[w] : /\ Queued(w)' = Queued(w)
                                   /\ Queued(Other(w))' \subseteq Queued(Other(w)) \cup {m}
      BY <3>1, QueueStep
    <3>3. d = m
      BY <2>3, <3>2 DEF Wallet, Other
    <3> QED BY <1>1, <1>2, <3>3
  <2> QED BY <1>2, <2>1, <2>2, <2>3
<1> QED BY <1>2 DEF IssueMade

\* But for a propose or an acceptance, a step makes neither.
LEMMA MadeStays ==
    ASSUME TypeOK, InTransit, NEW w \in Wallet, System(w) \/ Environment(w),
           ~\E t \in tasks[w] : Accept(w, t),
           ~\E e \in Exchange : Upgrade(w, e) \/ \E t \in tasks[w] : Propose(w, t, e)
    PROVE  MadeHere("propose")' = MadeHere("propose") /\ MadeHere("accept")' = MadeHere("accept")
<1>0. docs \in [Wallet -> SUBSET Doc]
  BY DEF TypeOK
<1>d. \A v \in Wallet : docs[v] \subseteq docs'[v]
  BY DocsStay
<1> SUFFICES ASSUME NEW v \in Wallet, NEW d \in docs'[v]
             PROVE  d \in docs[v] \/ d.kind \notin {"propose", "accept"} \/ d.from # v
  <2>1. \A u \in Wallet : \A k \in {"propose", "accept"} : \A e \in Exchange :
           doc(k, e, u) \in docs'[u] <=> doc(k, e, u) \in docs[u]
    BY <1>d DEF doc
  <2> QED BY <2>1 DEF MadeHere
<1>1. CASE docs' = docs
  BY <1>1
<1>2. CASE Receive(w) \/ ReceiveTwice(w)
  <2>1. PICK m \in Queued(w) : m \in Doc /\ Handle(w, m)
    BY <1>2, Handled
  <2>2. m.from # w
    BY OtherTyped DEF InTransit
  <2>3. CASE RecvPropose(w, m)
    <3>1. docs' = [docs EXCEPT ![w] = @ \cup ({m} \cup
               IF IsUpgrade(w, m.ex) /\ record[w] # "both" THEN {doc("mismatch", m.ex, w)} ELSE {})]
      BY <2>3 DEF RecvPropose, Retain
    <3> QED BY <1>0, <2>2, <3>1 DEF doc
  <2>4. CASE RecvIssue(w, m)
    <3>1. \E D \in {{m, doc("receipt", m.ex, w)}, {m}} : docs' = [docs EXCEPT ![w] = @ \cup D]
      BY <2>4 DEF RecvIssue, Retain
    <3> QED BY <1>0, <2>2, <3>1 DEF doc
  <2>5. CASE RecvQuery(w, m) \/ RecvAnswer(w, m) \/ RecvAccept(w, m) \/ RecvOther(w, m)
    BY <1>0, <2>2, <2>5 DEF RecvQuery, RecvAnswer, RecvAccept, RecvOther, Retain, doc
  <2>6. CASE RecvAnnounce(w) \/ RecvStop(w)
    BY <1>0, <2>6 DEF RecvAnnounce, RecvStop
  <2> QED BY <2>1, <2>3, <2>4, <2>5, <2>6 DEF Handle
<1>3. CASE \E t \in tasks[w] : MaybeOpen(w, t)
  BY <1>0, <1>3 DEF MaybeOpen, Retain, Query, doc
<1>4. CASE \E t \in tasks[w] : Decline(w, t) \/ Issue(w, t)
  BY <1>0, <1>4 DEF Decline, Issue, Retain, doc
<1>6. CASE \E m \in sending[w] : Send(w, m)
  BY <1>0, <1>6 DEF Send, AfterSend, Retain, Query, doc
<1> QED BY <1>1, <1>2, <1>3, <1>4, <1>6 DEF System, Run, Connect, Restart, Announce, OpenCheck, Ask,
           Forget, DeliverCheck, RestoreHold, Sweep, RestoreAsk, Reask, ForgetAnswered, Environment, Respond,
           Withdraw, Release, Stop, Crash, DeliveryFails, SendFails, durable

\* Only what was received as a credential is stored.
LEMMA StoredStep ==
    ASSUME TypeOK, NEW w \in Wallet, System(w) \/ Environment(w)
    PROVE  \/ stored' = stored
           \/ \E d \in Queued(w) : /\ d \in Doc /\ d.kind = "issue"
                                   /\ stored' = [stored EXCEPT ![w] = @ \cup {d.ex}]
<1>0. stored \in [Wallet -> SUBSET Exchange]
  BY DEF TypeOK
<1>1. CASE Receive(w) \/ ReceiveTwice(w)
  <2>1. PICK m \in Queued(w) : m \in Doc /\ Handle(w, m)
    BY <1>1, Handled
  <2>2. CASE m.kind = "issue" /\ RecvIssue(w, m)
    BY <1>0, <1>1, <2>1, <2>2 DEF RecvIssue
  <2>3. CASE \/ RecvAnnounce(w) \/ RecvStop(w) \/ RecvQuery(w, m) \/ RecvAnswer(w, m) \/ RecvPropose(w, m)
             \/ RecvAccept(w, m) \/ RecvOther(w, m)
    BY <2>3 DEF RecvAnnounce, RecvStop, RecvQuery, RecvAnswer, RecvPropose, RecvAccept, RecvOther
  <2> QED BY <2>1, <2>2, <2>3 DEF Handle
<1>2. CASE ~Receive(w) /\ ~ReceiveTwice(w)
  BY <1>2 DEF System, Run, Connect, Restart, Announce, MaybeOpen, OpenCheck, Propose, Ask, Accept,
     Decline, Forget, DeliverCheck, Issue, RestoreHold, Sweep, RestoreAsk, Reask, ForgetAnswered, Send, Environment, Respond,
     Upgrade, Withdraw, Release, Stop, Crash, DeliveryFails, SendFails, durable
<1> QED BY <1>1, <1>2

\* Every step is a step of the swap, or changes nothing there.
LEMMA StepsOfTheSwap ==
    ASSUME SwapInv, NEW w \in Wallet, System(w) \/ Environment(w)
    PROVE  Promise!Next \/ UNCHANGED <<MadeHere("propose"), MadeHere("accept"), cards, stored>>
<1>t. TypeOK /\ InTransit
  BY DEF SwapInv, OneCardInv
<1>0. /\ docs \in [Wallet -> SUBSET Doc] /\ tasks \in [Wallet -> SUBSET Task]
      /\ cards \in [Wallet -> [Exchange -> Nat]] /\ inbox \in [Wallet -> Seq(Doc)]
      /\ stored \in [Wallet -> SUBSET Exchange]
  BY <1>t DEF TypeOK
<1>1. CASE \E e \in Exchange : Upgrade(w, e) \/ \E t \in tasks[w] : Propose(w, t, e)
  <2>1. PICK e \in Exchange : Upgrade(w, e) \/ \E t \in tasks[w] : Propose(w, t, e)
    BY <1>1
  <2>2. Fresh(e) /\ docs' = [docs EXCEPT ![w] = @ \cup {doc("propose", e, w)}] /\ UNCHANGED <<cards, stored>>
    BY <2>1 DEF Upgrade, Propose, Retain
  <2>3. /\ MadeHere("propose")' = [MadeHere("propose") EXCEPT ![w] = @ \cup {e}]
        /\ MadeHere("accept")' = MadeHere("accept")
    <3>1. \A u \in Wallet, f \in Exchange :
             /\ doc("propose", f, u) \in docs'[u] <=> doc("propose", f, u) \in docs[u] \/ (u = w /\ f = e)
             /\ doc("accept", f, u) \in docs'[u] <=> doc("accept", f, u) \in docs[u]
      BY <1>0, <2>2 DEF doc
    <3> QED BY <3>1 DEF MadeHere
  <2>4. \A q \in Wallet : e \notin MadeHere("propose")[q]
    BY <2>2 DEF Fresh, MadeHere
  <2> QED BY <2>2, <2>3, <2>4 DEF Promise!Next, Promise!Propose
<1>2. CASE \E t \in tasks[w] : Accept(w, t)
  <2>1. PICK t \in tasks[w] : Accept(w, t)
    BY <1>2
  <2>2. t.op = "accept" /\ docs' = [docs EXCEPT ![w] = @ \cup {doc("accept", t.ex, w)}] /\ UNCHANGED <<cards, stored>>
    BY <2>1 DEF Accept, Retain
  <2>3. t.ex \in Exchange
    BY <1>0, <2>2, TaskEx DEF Answering
  <2>4. /\ MadeHere("accept")' = [MadeHere("accept") EXCEPT ![w] = @ \cup {t.ex}]
        /\ MadeHere("propose")' = MadeHere("propose")
    <3>1. \A u \in Wallet, f \in Exchange :
             /\ doc("accept", f, u) \in docs'[u] <=> doc("accept", f, u) \in docs[u] \/ (u = w /\ f = t.ex)
             /\ doc("propose", f, u) \in docs'[u] <=> doc("propose", f, u) \in docs[u]
      BY <1>0, <2>2 DEF doc
    <3> QED BY <2>3, <3>1 DEF MadeHere
  <2>5. Other(w) \in Wallet \ {w} /\ t.ex \in MadeHere("propose")[Other(w)]
    <3>1. Proposed(w, t.ex)
      BY <2>2 DEF SwapInv, WithdrawnInv, ConsentInv, Asking
    <3>2. doc("propose", t.ex, Other(w)) \in docs[Other(w)]
      BY <3>1 DEF SwapInv, WithdrawnInv, MadeByProposer, Proposed, doc
    <3> QED BY <2>3, <3>2, OtherTyped DEF MadeHere
  <2> QED BY <2>2, <2>3, <2>4, <2>5 DEF Promise!Next, Promise!Accept
<1>3. CASE \E t \in tasks[w] : Issue(w, t)
  <2>1. PICK t \in tasks[w] : Issue(w, t)
    BY <1>3
  <2>2. t.op = "sign" /\ cards' = [cards EXCEPT ![w][t.ex] = @ + 1] /\ stored' = stored
        /\ docs' = [docs EXCEPT ![w] = @ \cup {doc("issue", t.ex, w)}]
    BY <2>1 DEF Issue, Retain
  <2>3. t.ex \in Exchange /\ ~AlreadyIssued(w, t.ex)
    BY <1>0, <2>2, TaskEx DEF Answering, SwapInv, OneCardInv, SigningIsFirst
  <2>4. cards[w][t.ex] = 0
    BY <2>3 DEF SwapInv, OneCardInv, Counted
  <2>5. cards' = [cards EXCEPT ![w][t.ex] = 1]
    BY <1>0, <2>2, <2>3, <2>4
  <2>6. PICK r \in Wallet : Accepted(r, t.ex)
    <3>1. Delivering(t)
      BY <2>2 DEF Delivering
    <3> QED BY <3>1 DEF SwapInv, WithdrawnInv, ConsentInv, Giving, Consented
  <2>7. t.ex \in MadeHere("accept")[r]
    BY <2>3, <2>6 DEF Accepted, MadeHere
  <2>8. MadeHere("propose")' = MadeHere("propose") /\ MadeHere("accept")' = MadeHere("accept")
    <3>1. \A u \in Wallet, f \in Exchange : \A k \in {"propose", "accept"} :
             doc(k, f, u) \in docs'[u] <=> doc(k, f, u) \in docs[u]
      BY <1>0, <2>2 DEF doc
    <3> QED BY <3>1 DEF MadeHere
  <2> QED BY <2>2, <2>3, <2>4, <2>5, <2>7, <2>8 DEF Promise!Next, Promise!Issue
<1>4. CASE /\ ~\E t \in tasks[w] : Accept(w, t) \/ Issue(w, t)
           /\ ~\E e \in Exchange : Upgrade(w, e) \/ \E t \in tasks[w] : Propose(w, t, e)
  <2>1. MadeHere("propose")' = MadeHere("propose") /\ MadeHere("accept")' = MadeHere("accept")
    BY <1>4, <1>t, MadeStays
  <2>2. cards' = cards
    BY <1>4, <1>t, CardsStep
  <2>3. CASE stored' = stored
    BY <2>1, <2>2, <2>3
  <2>4. CASE stored' # stored
    <3>1. PICK d \in Queued(w) : d \in Doc /\ d.kind = "issue" /\ stored' = [stored EXCEPT ![w] = @ \cup {d.ex}]
      BY <1>t, <2>4, StoredStep
    <3>2. d.ex \in Exchange /\ d.from = Other(w)
      BY <1>t, <3>1, DocEx DEF OnExchange, InTransit
    <3>3. AlreadyIssued(Other(w), d.ex)
      BY <3>1, <3>2 DEF SwapInv, IssueMade
    <3>4. Other(w) \in Wallet \ {w} /\ cards[Other(w)][d.ex] = 1
      BY <3>2, <3>3, OtherTyped DEF SwapInv, OneCardInv, Counted
    <3> QED BY <2>1, <2>2, <3>1, <3>2, <3>4 DEF Promise!Next, Promise!Store
  <2> QED BY <2>3, <2>4
<1> QED BY <1>1, <1>2, <1>3, <1>4

\* "Accepting the proposal is the trust-task dialect's consent moment" (handleInboundPropose):
\* for any number of exchanges, upgrades, kills, holds and repeated messages, the exchange is
\* the swap of CardSwap: what is accepted was proposed by the other, a credential is made once
\* and on an accepted exchange, and what is stored was made by the other.
THEOREM ExchangeIsTheSwap == Spec => ImplementsSwap
<1>1. Init => Promise!Init
  <2> SUFFICES ASSUME Init PROVE Promise!Init
    OBVIOUS
  <2>1. MadeHere("propose") = [w \in Wallet |-> {}] /\ MadeHere("accept") = [w \in Wallet |-> {}]
    BY DEF Init, MadeHere
  <2> QED BY <2>1 DEF Init, Promise!Init
<1>2. Init => IssueMade
  BY DEF Init, IssueMade, Queued
<1>3. OneCardInv /\ IssueMade /\ [Next]_vars => IssueMade'
  <2> SUFFICES ASSUME OneCardInv, IssueMade, [Next]_vars PROVE IssueMade'
    OBVIOUS
  <2>1. CASE Next
    BY <2>1, IssueMadeStep DEF Next, OneCardInv
  <2>2. CASE UNCHANGED vars
    BY <2>2 DEF vars, durable, volatile, IssueMade, Queued, AlreadyIssued
  <2> QED BY <2>1, <2>2
<1>4. SwapInv /\ [Next]_vars =>
         Promise!Next \/ UNCHANGED <<MadeHere("propose"), MadeHere("accept"), cards, stored>>
  <2> SUFFICES ASSUME SwapInv, [Next]_vars
               PROVE  Promise!Next \/ UNCHANGED <<MadeHere("propose"), MadeHere("accept"), cards, stored>>
    OBVIOUS
  <2>1. CASE Next
    BY <2>1, StepsOfTheSwap DEF Next
  <2>2. CASE UNCHANGED vars
    BY <2>2 DEF vars, durable, MadeHere
  <2> QED BY <2>1, <2>2
<1>5. SwapInv <=> OneCardInv /\ WithdrawnInv /\ IssueMade
  BY DEF SwapInv
<1> QED BY <1>1, <1>2, <1>3, <1>4, <1>5, OneCardHolds, WithdrawnHolds, PTL
        DEF Spec, ImplementsSwap, Promise!Spec, Promise!swap

-----------------------------------------------------------------------------
(* What was asked is asked again: what the start-up starts, what a step makes of the screen *)
(* and of the newest mark, and that only its own run ends a function.                       *)

\* What the start-up starts.
LEMMA StartingOrigin ==
    ASSUME TypeOK, InTransit, HeldOps, NEW w \in Wallet, System(w) \/ Environment(w),
           NEW t \in tasks'[w], t \notin tasks[w], t.op \in Starting
    PROVE  \/ Restart(w)
           \/ t.op = "restoreAsk" /\ \E s \in tasks[w] : Sweep(w, s)
           \/ /\ \E s \in tasks[w] : RestoreAsk(w, s)
              /\ t.op \in {"reask", "forgetAnswered"} /\ t.ex = NewestMark(w)
              /\ t.op = "reask" => ~Answered(w, t.ex)
<1>0. /\ tasks \in [Wallet -> SUBSET Task] /\ deferred \in [Wallet -> SUBSET Task]
  BY DEF TypeOK
<1>n. \A o, b, f : task(o, b, f).op = o /\ task(o, b, f).ex = f
  BY DEF task
<1>s. t.op \in {"sweep", "restoreAsk", "reask", "forgetAnswered"}
  BY DEF Starting
<1>1. CASE \E s \in tasks[w] : RestoreAsk(w, s)
  <2>1. t = task(IF Answered(w, NewestMark(w)) THEN "forgetAnswered" ELSE "reask", "user", NewestMark(w))
    BY <1>0, <1>1 DEF RestoreAsk, Runs
  <2> QED BY <1>1, <1>n, <2>1
<1>2. CASE \E s \in tasks[w] : Sweep(w, s)
  <2>1. t \in {task("restoreAsk", "user", NoExchange), task("maybeOpen", "sweep", NoExchange)}
    BY <1>0, <1>2 DEF Sweep, Runs
  <2> QED BY <1>2, <1>n, <1>s, <2>1
<1>3. CASE \E s \in tasks[w] : \/ Announce(w, s) \/ Ask(w, s) \/ Forget(w, s) \/ Issue(w, s) \/ RestoreHold(w, s)
                               \/ Reask(w, s) \/ ForgetAnswered(w, s) \/ DeliveryFails(w, s)
                               \/ \E e \in Exchange : Propose(w, s, e)
  <2>1. PICK s \in tasks[w] : tasks' = [tasks EXCEPT ![w] = (@ \ {s}) \cup {}]
    BY <1>3 DEF Announce, Ask, Forget, Issue, RestoreHold, Reask, ForgetAnswered, DeliveryFails, Propose, Runs
  <2> QED BY <1>0, <2>1
<1>4. CASE \E s \in tasks[w] : \/ MaybeOpen(w, s) \/ OpenCheck(w, s) \/ DeliverCheck(w, s)
                               \/ Accept(w, s) \/ Decline(w, s)
  <2>1. PICK s \in tasks[w] :
           \E new \in {{}, {task("open", s.by, NoExchange)}, {task("propose", s.by, NoExchange)},
                       {task("sign", s.by, s.ex)}, {task("forgetAccepted", "user", s.ex)},
                       {task("forgetDeclined", "user", s.ex)}} : tasks' = [tasks EXCEPT ![w] = (@ \ {s}) \cup new]
    BY <1>4 DEF MaybeOpen, OpenCheck, DeliverCheck, Accept, Decline, Runs
  <2>2. \E o \in {"open", "propose", "sign", "forgetAccepted", "forgetDeclined"} : \E b, f : t = task(o, b, f)
    BY <1>0, <2>1
  <2> QED BY <1>n, <1>s, <2>2
<1>5. CASE Connect(w)
  <2>1. t = task("announce", "release", NoExchange)
    BY <1>0, <1>5 DEF Connect, Proceed, Hold
  <2> QED BY <1>n, <1>s, <2>1
<1>6. CASE \E a \in {"accept", "decline"} : Respond(w, a)
  <2>1. \E a \in {"accept", "decline"} : t = task(a, "user", prompt[w])
    BY <1>0, <1>6 DEF Respond
  <2> QED BY <1>n, <1>s, <2>1
<1>7. CASE Crash(w)
  BY <1>0, <1>7 DEF Crash
<1>8. CASE tasks' = tasks
  BY <1>8
<1>9. CASE \E d \in sending[w] : Send(w, d)
  <2>1. \E f : t = task("deliver", "user", f)
    BY <1>0, <1>9 DEF Send, AfterSend, StartDelivery
  <2> QED BY <1>n, <1>s, <2>1
<1>10. CASE Release(w)
  <2>1. t \in deferred[w]
    BY <1>0, <1>10 DEF Release
  <2> QED BY <1>s, <2>1 DEF HeldOps
<1>11. CASE Receive(w) \/ ReceiveTwice(w)
  <2>1. PICK m \in Queued(w) : m \in Doc /\ Handle(w, m)
    BY <1>11, Handled
  <2>2. \E o \in {"maybeOpen", "open", "ask", "deliver"} : \E f : t = task(o, "inbound", f)
    BY <1>0, <2>1 DEF Handle, RecvAnnounce, RecvStop, RecvQuery, RecvAnswer, RecvPropose, RecvAccept,
       RecvIssue, RecvOther, Proceed, Hold, StartDelivery
  <2> QED BY <1>n, <1>s, <2>2
<1>12. CASE Restart(w)
  BY <1>12
<1> QED BY <1>1, <1>2, <1>3, <1>4, <1>5, <1>6, <1>7, <1>8, <1>9, <1>10, <1>11, <1>12
    DEF System, Environment, Run, Stop, Upgrade, Withdraw, SendFails, volatile

\* What a step makes of the screen and of the newest mark.
LEMMA ScreenStep ==
    ASSUME TypeOK, NEW w \in Wallet, System(w) \/ Environment(w)
    PROVE  /\ \/ prompt'[w] = prompt[w]
              \/ Crash(w)
              \/ \E a \in {"accept", "decline"} : Respond(w, a)
              \/ \E t \in tasks[w] : Ask(w, t) \/ Reask(w, t)
           /\ \/ \E t \in tasks[w] : Ask(w, t)
              \/ marks'[w] # <<>> => marks[w] # <<>> /\ NewestMark(w)' = NewestMark(w)
           /\ up'[w] => up[w] \/ Restart(w)
<1>0. /\ marks \in [Wallet -> Seq(Exchange)] /\ tasks \in [Wallet -> SUBSET Task] /\ up \in [Wallet -> BOOLEAN]
  BY DEF TypeOK
<1>1. CASE Receive(w) \/ ReceiveTwice(w)
  <2>1. UNCHANGED <<marks, prompt, up>>
    BY <1>1, Handled, TypeHandle DEF Receive, ReceiveTwice
  <2> QED BY <2>1 DEF NewestMark
<1>2. CASE \E t \in tasks[w] : Forget(w, t) \/ ForgetAnswered(w, t)
  <2>1. PICK t \in tasks[w] : Forget(w, t) \/ ForgetAnswered(w, t)
    BY <1>2
  <2>2. /\ marks'[w] = MarksWithout(marks[w], t.ex) /\ t.ex \in Exchange /\ marks[w] \in Seq(Exchange)
        /\ prompt' = prompt /\ up' = up
    BY <1>0, <2>1, TaskEx DEF Forget, ForgetAnswered, Answering
  <2>3. \/ MarksWithout(marks[w], t.ex) = <<>>
        \/ /\ marks[w] # <<>>
           /\ MarksWithout(marks[w], t.ex)[Len(MarksWithout(marks[w], t.ex))] = marks[w][Len(marks[w])]
    BY <2>2, MarksNewest
  <2> QED BY <2>2, <2>3 DEF NewestMark
<1>3. CASE \E t \in tasks[w] : Ask(w, t)
  BY <1>3 DEF Ask
<1>4. CASE (\E t \in tasks[w] : Reask(w, t)) \/ Crash(w) \/ \E a \in {"accept", "decline"} : Respond(w, a)
  <2>1. marks' = marks /\ (up'[w] => up[w])
    BY <1>0, <1>4 DEF Reask, Crash, Respond, durable
  <2> QED BY <1>4, <2>1 DEF NewestMark
<1>5. CASE Restart(w)
  BY <1>5 DEF Restart, durable, NewestMark
<1>6. CASE marks' = marks /\ prompt' = prompt /\ up' = up
  BY <1>6 DEF NewestMark
<1> QED BY <1>1, <1>2, <1>3, <1>4, <1>5, <1>6 DEF System, Environment, Run, Connect, Announce, MaybeOpen,
           OpenCheck, Propose, Accept, Decline, DeliverCheck, Issue, RestoreHold, Sweep, RestoreAsk, Send, Upgrade,
           Withdraw, Release, Stop, DeliveryFails, SendFails, durable, volatile

\* While the app runs and is not killed, only its own run ends a function, or a failed signing.
LEMMA TaskGone ==
    ASSUME TypeOK, NEW w \in Wallet, System(w) \/ Environment(w), up[w], ~Crash(w),
           NEW t \in tasks[w], t \notin tasks'[w], t.op # "sign"
    PROVE  Run(w, t)
<1>0. tasks \in [Wallet -> SUBSET Task]
  BY DEF TypeOK
<1>1. ASSUME NEW s \in tasks[w], Run(w, s) PROVE Run(w, t)
  <2>1. \A new : Runs(w, s, new) => s = t
    BY <1>0 DEF Runs
  <2>2. \E new : Runs(w, s, new)
    BY <1>1 DEF Run, Announce, MaybeOpen, OpenCheck, Propose, Ask, Accept, Decline, Forget, DeliverCheck,
       Issue, RestoreHold, Sweep, RestoreAsk, Reask, ForgetAnswered
  <2> QED BY <1>1, <2>1, <2>2
<1>2. CASE Receive(w) \/ ReceiveTwice(w)
  <2>1. PICK m \in Queued(w) : m \in Doc /\ Handle(w, m)
    BY <1>2, Handled
  <2>2. tasks[w] \subseteq tasks'[w]
    BY <1>0, <2>1 DEF Handle, RecvAnnounce, RecvStop, RecvQuery, RecvAnswer, RecvPropose, RecvAccept,
       RecvIssue, RecvOther, Proceed, Hold
  <2> QED BY <2>2
<1>3. CASE \E s \in tasks[w] : DeliveryFails(w, s)
  BY <1>0, <1>3 DEF DeliveryFails, Runs
<1>4. CASE Restart(w)
  BY <1>4 DEF Restart
<1>5. CASE \/ Connect(w) \/ (\E a \in {"accept", "decline"} : Respond(w, a)) \/ Release(w)
           \/ \E d \in sending[w] : Send(w, d)
  BY <1>0, <1>5 DEF Connect, Proceed, Hold, Respond, Release, Send, AfterSend
<1>6. CASE tasks' = tasks
  BY <1>6
<1> QED BY <1>1, <1>2, <1>3, <1>4, <1>5, <1>6 DEF System, Environment, Stop, Upgrade, Withdraw, SendFails, volatile

\* Until the start-up has looked, the screen shows the newest marked propose or none, and what
\* it chose to ask again has no answer of this wallet's person.
AskingAgain ==
    \A w \in Wallet :
        /\ ~up[w] => prompt[w] = NoExchange
        /\ (\E t \in tasks[w] : t.op \in {"sweep", "restoreAsk"}) /\ marks[w] # <<>>
           => prompt[w] \in {NoExchange, NewestMark(w)}
        /\ \A t \in tasks[w] : t.op = "reask" => ~PersonAnswered(w, t.ex)

\* The inductive invariant of AskedAgain.
AgainInv == ConsentInv /\ StartsUpFirst /\ AskingAgain

\* A step keeps it so.
LEMMA AskingAgainStep ==
    ASSUME AgainInv, NEW w \in Wallet, System(w) \/ Environment(w)
    PROVE  AskingAgain'
<1>0. /\ TypeOK /\ InTransit /\ HeldOps /\ StartsUpFirst
      /\ tasks \in [Wallet -> SUBSET Task] /\ marks \in [Wallet -> Seq(Exchange)] /\ docs \in [Wallet -> SUBSET Doc]
      /\ up \in [Wallet -> BOOLEAN] /\ prompt \in [Wallet -> Exchange \cup {NoExchange}]
  BY DEF AgainInv, ConsentInv, TypeOK
<1>1. \A v \in Wallet \ {w} : up'[v] = up[v] /\ prompt'[v] = prompt[v] /\ marks'[v] = marks[v] /\ tasks'[v] = tasks[v]
  BY <1>0, OnlyItsOwn
<1>d. ASSUME NEW v \in Wallet, NEW e \in Exchange, PersonAnswered(v, e)', ~PersonAnswered(v, e)
      PROVE  v = w /\ \E t \in tasks[w] : t.op \in {"accept", "decline"}
  <2>1. PICK k \in {"accept", "declined"} : doc(k, e, v) \in docs'[v] /\ doc(k, e, v) \notin docs[v]
    BY <1>d DEF PersonAnswered
  <2> DEFINE d == doc(k, e, v)
  <2>2. d.kind = k /\ d.from = v /\ d \in docs'[v] /\ d \notin docs[v]
    BY <2>1 DEF doc
  <2> HIDE DEF d
  <2>3. /\ v = w
        /\ \/ d.from = Other(w)
           \/ /\ d.kind = "accept" => \E t \in tasks[w] : t.op = "accept"
              /\ d.kind = "declined" => \E t \in tasks[w] : t.op = "decline"
    BY <1>0, <2>2, DocsOrigin
  <2> QED BY <2>2, <2>3, OtherTyped
<1>e. \A v \in Wallet : \A t \in tasks[v] : t.op = "reask" => t.ex \in Exchange
  BY <1>0, TaskEx DEF Answering
<1>2. ASSUME NEW v \in Wallet, v # w
      PROVE  /\ ~up'[v] => prompt'[v] = NoExchange
             /\ (\E t \in tasks'[v] : t.op \in {"sweep", "restoreAsk"}) /\ marks'[v] # <<>>
                => prompt'[v] \in {NoExchange, NewestMark(v)'}
             /\ \A t \in tasks'[v] : t.op = "reask" => ~PersonAnswered(v, t.ex)'
  <2>1. NewestMark(v)' = NewestMark(v)
    BY <1>1, <1>2 DEF NewestMark
  <2>2. \A t \in tasks[v] : t.op = "reask" => ~PersonAnswered(v, t.ex)'
    BY <1>d, <1>e, <1>2 DEF AgainInv, AskingAgain
  <2> QED BY <1>1, <1>2, <2>1, <2>2 DEF AgainInv, AskingAgain
<1>3. ~up'[w] => prompt'[w] = NoExchange
  <2>1. CASE Crash(w)
    BY <1>0, <2>1 DEF Crash
  <2>2. CASE (\E a \in {"accept", "decline"} : Respond(w, a)) \/ \E t \in tasks[w] : Ask(w, t) \/ Reask(w, t)
    BY <2>2 DEF Respond, Ask, Reask, Runs
  <2>3. CASE prompt'[w] = prompt[w] /\ ~Crash(w)
    <3>1. up[w] => up'[w]
      <4>1. CASE Receive(w) \/ ReceiveTwice(w)
        BY <4>1 DEF Receive, ReceiveTwice
      <4>2. CASE Restart(w)
        BY <1>0, <4>2 DEF Restart
      <4>3. CASE up' = up
        BY <4>3
      <4> QED BY <2>3, <4>1, <4>2, <4>3 DEF System, Environment, Run, Connect, Announce, MaybeOpen,
           OpenCheck, Propose, Ask, Accept, Decline, Forget, DeliverCheck, Issue, RestoreHold, Sweep, RestoreAsk,
           Reask, ForgetAnswered, Send, Respond, Upgrade, Withdraw, Release, Stop, DeliveryFails, SendFails, volatile
    <3> QED BY <2>3, <3>1 DEF AgainInv, AskingAgain
  <2> QED BY <1>0, <2>1, <2>2, <2>3, ScreenStep
<1>4. (\E t \in tasks'[w] : t.op \in {"sweep", "restoreAsk"}) /\ marks'[w] # <<>>
      => prompt'[w] \in {NoExchange, NewestMark(w)'}
  <2> SUFFICES ASSUME NEW t \in tasks'[w], t.op \in {"sweep", "restoreAsk"}, marks'[w] # <<>>
               PROVE  prompt'[w] \in {NoExchange, NewestMark(w)'}
    OBVIOUS
  <2>1. CASE Restart(w)
    BY <2>1 DEF Restart, AgainInv, AskingAgain
  <2>2. CASE Crash(w) \/ \E a \in {"accept", "decline"} : Respond(w, a)
    BY <1>0, <2>2 DEF Crash, Respond
  <2>3. CASE \E s \in tasks[w] : Ask(w, s)
    <3>1. PICK s \in tasks[w] : marks'[w] = Append(marks[w], s.ex) /\ prompt'[w] = s.ex /\ s.ex \in Exchange
      BY <1>0, <2>3, TaskEx DEF Ask, Answering
    <3>2. Append(marks[w], s.ex)[Len(Append(marks[w], s.ex))] = s.ex
      BY <1>0, <3>1
    <3> QED BY <3>1, <3>2 DEF NewestMark
  <2>4. CASE \E s \in tasks[w] : Reask(w, s)
    <3>1. PICK s \in tasks[w] : s.op = "reask" /\ t \in tasks[w] /\ t # s
      BY <1>0, <2>4 DEF Reask, Runs
    <3> QED BY <1>0, <3>1 DEF StartsUpFirst, Starting
  <2>5. CASE prompt'[w] = prompt[w] /\ ~Restart(w) /\ ~\E s \in tasks[w] : Ask(w, s)
    <3>1. \E s \in tasks[w] : s.op \in {"sweep", "restoreAsk"}
      <4>1. CASE t \in tasks[w]
        BY <4>1
      <4>2. CASE t \notin tasks[w]
        <5>1. \E s \in tasks[w] : Sweep(w, s)
          BY <1>0, <2>5, <4>2, StartingOrigin DEF Starting
        <5> QED BY <5>1 DEF Sweep
      <4> QED BY <4>1, <4>2
    <3>2. marks[w] # <<>> /\ NewestMark(w)' = NewestMark(w)
      BY <1>0, <2>5, ScreenStep
    <3> QED BY <2>5, <3>1, <3>2 DEF AgainInv, AskingAgain
  <2> QED BY <1>0, <2>1, <2>2, <2>3, <2>4, <2>5, ScreenStep
<1>5. ASSUME NEW t \in tasks'[w], t.op = "reask" PROVE ~PersonAnswered(w, t.ex)'
  <2>1. /\ ~PersonAnswered(w, t.ex) /\ t.ex \in Exchange
        /\ \E s \in tasks[w] : s.op \in Starting
    <3>1. CASE t \in tasks[w]
      BY <1>5, <1>e, <3>1 DEF AgainInv, AskingAgain, Starting
    <3>2. CASE t \notin tasks[w] /\ Restart(w)
      <4>1. t \in {task("restoreHold", "sweep", NoExchange), task("sweep", "sweep", NoExchange)}
        BY <1>0, <3>2 DEF Restart
      <4> QED BY <1>5, <4>1 DEF task
    <3>3. CASE t \notin tasks[w] /\ ~Restart(w)
      <4>1. /\ \E s \in tasks[w] : RestoreAsk(w, s)
            /\ ~Answered(w, t.ex)
        BY <1>0, <1>5, <3>3, StartingOrigin DEF Starting
      <4>2. ~PersonAnswered(w, t.ex)
        <5>1. /\ doc("accept", t.ex, w).kind = "accept" /\ doc("accept", t.ex, w).ex = t.ex
              /\ doc("declined", t.ex, w).kind = "declined" /\ doc("declined", t.ex, w).ex = t.ex
          BY DEF doc
        <5> QED BY <4>1, <5>1 DEF Answered, PersonAnswered, Errors
      <4>3. TypeOK'
        BY <1>0, TypeSystem, TypeEnvironment
      <4>4. t.ex \in Exchange
        BY <1>5, <4>3, TaskEx DEF TypeOK, Answering
      <4> QED BY <4>1, <4>2, <4>4 DEF RestoreAsk, Starting
    <3> QED BY <3>1, <3>2, <3>3
  <2>2. \A s \in tasks[w] : s.op \notin {"accept", "decline"}
    BY <1>0, <2>1 DEF StartsUpFirst
  <2> QED BY <1>d, <2>1, <2>2
<1> QED BY <1>2, <1>3, <1>4, <1>5 DEF AskingAgain

\* While the newest propose asked is not answered it stays asked, through kills and starts: it
\* goes from the screen only to its answer, or because the start-up puts up the older one it had
\* read before (restorePendingProposals); and what the start-up puts up was never answered.
THEOREM AsksAgain == Spec => AskedAgain
<1> DEFINE Restored(w) == {t \in tasks[w] \ tasks'[w] : t.op = "reask" /\ prompt'[w] = t.ex}
           Stays == \A w \in Wallet :
              LET restored == {t \in tasks[w] \ tasks'[w] : t.op = "reask" /\ prompt'[w] = t.ex}
              IN /\ Unasked(w)' => Unasked(w) \/ restored # {}
                 /\ \A t \in restored : ~PersonAnswered(w, t.ex)
<1>1. Init => AgainInv
  BY ConsentInit, OnceInit DEF Init, AgainInv, AskingAgain
<1>2. AgainInv /\ [Next]_vars => AgainInv'
  <2> SUFFICES ASSUME AgainInv, [Next]_vars PROVE AgainInv'
    OBVIOUS
  <2>1. ConsentInv'
    BY ConsentStep DEF AgainInv
  <2>2. CASE Next
    <3>1. PICK w \in Wallet : System(w) \/ Environment(w)
      BY <2>2 DEF Next
    <3>2. StartsUpFirst'
      BY <3>1, StartsUpFirstStep DEF AgainInv, ConsentInv
    <3>3. AskingAgain'
      BY <3>1, AskingAgainStep
    <3> QED BY <2>1, <3>2, <3>3 DEF AgainInv
  <2>3. CASE UNCHANGED vars
    BY <2>1, <2>3 DEF vars, durable, volatile, AgainInv, StartsUpFirst, AskingAgain, NewestMark, PersonAnswered
  <2> QED BY <2>2, <2>3
<1>3. AgainInv /\ [Next]_vars => Stays \/ UNCHANGED vars
  <2> SUFFICES ASSUME AgainInv, Next, NEW v \in Wallet
               PROVE  /\ Unasked(v)' => Unasked(v) \/ Restored(v) # {}
                      /\ \A t \in Restored(v) : ~PersonAnswered(v, t.ex)
    OBVIOUS
  <2>0. /\ TypeOK /\ InTransit /\ HeldOps
        /\ tasks \in [Wallet -> SUBSET Task] /\ marks \in [Wallet -> Seq(Exchange)]
        /\ docs \in [Wallet -> SUBSET Doc] /\ prompt \in [Wallet -> Exchange \cup {NoExchange}]
    BY DEF AgainInv, ConsentInv, TypeOK
  <2>1. PICK w \in Wallet : System(w) \/ Environment(w)
    BY DEF Next
  <2>2. \A t \in Restored(v) : ~PersonAnswered(v, t.ex)
    BY DEF AgainInv, AskingAgain
  <2>3. ASSUME Unasked(v)', ~Unasked(v) PROVE Restored(v) # {}
    <3> DEFINE n == NewestMark(v)
    <3>d. docs[v] \subseteq docs'[v]
      BY <2>0, <2>1, DocsStay
    <3>1. /\ up'[v] /\ marks'[v] # <<>> /\ prompt'[v] # NewestMark(v)' 
          /\ ~\E d \in docs'[v] : d.ex = NewestMark(v)' /\ d.kind \in {"accept"} \cup Errors
          /\ \A t \in tasks'[v] : /\ t.ex = NewestMark(v)' => t.op \notin {"ask", "accept", "decline", "reask"}
                                  /\ t.op \notin {"sweep", "restoreAsk"}
      BY <2>3 DEF Unasked, NewestMark, Answered
    <3>2. CASE v # w
      <4>1. up'[v] = up[v] /\ prompt'[v] = prompt[v] /\ marks'[v] = marks[v] /\ tasks'[v] = tasks[v]
        BY <2>0, <2>1, <3>2, OnlyItsOwn
      <4> QED BY <2>3, <3>d, <4>1 DEF Unasked, Answered
    <3>3. CASE v = w
      <4>1. ~\E t \in tasks[w] : Ask(w, t)
        <5> SUFFICES ASSUME NEW t \in tasks[w], Ask(w, t) PROVE FALSE
          OBVIOUS
        <5>1. marks'[w] = Append(marks[w], t.ex) /\ prompt'[w] = t.ex /\ t.ex \in Exchange
          BY <2>0, TaskEx DEF Ask, Answering
        <5>2. Append(marks[w], t.ex)[Len(Append(marks[w], t.ex))] = t.ex
          BY <2>0, <5>1
        <5> QED BY <3>1, <3>3, <5>1, <5>2 DEF NewestMark
      <4>2. marks[w] # <<>> /\ NewestMark(w)' = n
        BY <2>0, <2>1, <3>1, <3>3, <4>1, ScreenStep
      <4>3. up[w]
        <5>1. ~Restart(w)
          <6> SUFFICES ASSUME Restart(w) PROVE FALSE
            OBVIOUS
          <6>1. task("sweep", "sweep", NoExchange) \in tasks'[w] /\ task("sweep", "sweep", NoExchange).op = "sweep"
            BY <2>0 DEF Restart, task
          <6> QED BY <3>1, <3>3, <6>1
        <5> QED BY <2>0, <2>1, <3>1, <3>3, <5>1, ScreenStep
      <4>4. ~Answered(w, n)
        BY <3>1, <3>3, <3>d, <4>2 DEF Answered
      <4>5. ~Crash(w)
        BY <2>0, <3>1, <3>3 DEF Crash, TypeOK
      <4> HIDE DEF n
      <4>6. \/ prompt[w] = n
            \/ \E t \in tasks[w] : \/ t.ex = n /\ t.op \in {"ask", "accept", "decline", "reask"}
                                   \/ t.op \in {"sweep", "restoreAsk"}
        BY <2>3, <3>3, <4>2, <4>3, <4>4 DEF Unasked, NewestMark, n
      <4>7. ASSUME NEW t \in tasks[w], Reask(w, t) PROVE Restored(v) # {}
        <5>1. t \in Restored(v)
          BY <2>0, <3>3, <4>7 DEF Reask, Runs
        <5> QED BY <5>1
      <4>8. CASE prompt[w] = n
        <5>1. n # NoExchange
          BY <2>0, <3>3, <4>2, NoExchangeIsNone DEF n, NewestMark
        <5>2. ASSUME NEW a \in {"accept", "decline"}, Respond(w, a) PROVE FALSE
          <6>1. task(a, "user", n) \in tasks'[w] /\ task(a, "user", n).op = a /\ task(a, "user", n).ex = n
            BY <2>0, <4>8, <5>2 DEF Respond, task
          <6> QED BY <3>1, <3>3, <4>2, <6>1
        <5>3. prompt'[w] # prompt[w]
          BY <3>1, <3>3, <4>2, <4>8
        <5> QED BY <2>0, <2>1, <4>1, <4>5, <4>7, <5>2, <5>3, ScreenStep
      <4>9. ASSUME NEW t \in tasks[w], \/ t.ex = n /\ t.op \in {"ask", "accept", "decline", "reask"}
                                       \/ t.op \in {"sweep", "restoreAsk"}
            PROVE  Restored(v) # {}
        <5>1. t \notin tasks'[w]
          BY <3>1, <3>3, <4>2, <4>9
        <5>2. Run(w, t)
          BY <2>0, <2>1, <4>3, <4>5, <4>9, <5>1, TaskGone
        <5>3. CASE Reask(w, t)
          BY <4>7, <5>3
        <5>4. CASE Accept(w, t) \/ Decline(w, t)
          <6>1. PICK k \in {"accept", "declined"} : t.ex = n /\ docs' = [docs EXCEPT ![w] = @ \cup {doc(k, n, w)}]
            BY <4>9, <5>4 DEF Accept, Decline, Retain
          <6>2. doc(k, n, w) \in docs'[w] /\ doc(k, n, w).ex = n /\ doc(k, n, w).kind \in {"accept", "declined"}
            BY <2>0, <6>1 DEF doc
          <6> QED BY <3>1, <3>3, <4>2, <6>2 DEF Errors
        <5>5. CASE Sweep(w, t)
          <6>1. /\ task("restoreAsk", "user", NoExchange) \in tasks'[w]
                /\ task("restoreAsk", "user", NoExchange).op = "restoreAsk"
            BY <2>0, <5>5 DEF Sweep, Runs, task
          <6> QED BY <3>1, <3>3, <6>1
        <5>6. CASE RestoreAsk(w, t)
          <6>1. CASE prompt[w] # NoExchange
            <7>1. t.op = "restoreAsk" /\ prompt' = prompt
              BY <5>6 DEF RestoreAsk
            <7>2. prompt[w] = n
              BY <3>3, <4>2, <6>1, <7>1 DEF AgainInv, AskingAgain, n
            <7> QED BY <4>8, <7>2
          <6>2. CASE prompt[w] = NoExchange
            <7>1. task("reask", "user", n) \in tasks'[w]
              BY <2>0, <3>3, <4>2, <4>4, <5>6, <6>2 DEF RestoreAsk, Runs, n
            <7>2. task("reask", "user", n).op = "reask" /\ task("reask", "user", n).ex = n
              BY DEF task
            <7> QED BY <3>1, <3>3, <4>2, <7>1, <7>2
          <6> QED BY <6>1, <6>2
        <5>7. t.op \in {"ask", "accept", "decline", "reask", "sweep", "restoreAsk"}
          BY <4>9
        <5> QED BY <4>1, <5>2, <5>3, <5>4, <5>5, <5>6, <5>7 DEF Run, Announce, MaybeOpen, OpenCheck, Propose,
                   Forget, DeliverCheck, Issue, RestoreHold, ForgetAnswered
      <4> QED BY <4>6, <4>8, <4>9
    <3> QED BY <3>2, <3>3
  <2> QED BY <2>2, <2>3
<1>4. AgainInv /\ [Next]_vars => [Stays]_vars
  BY <1>3
<1> QED BY <1>1, <1>2, <1>4, PTL DEF Spec, AskedAgain

=============================================================================
