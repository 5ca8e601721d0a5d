------------------------ MODULE MediatorPickupProofs ------------------------
(***************************************************************************)
(* Proofs about MediatorPickup, for any number of messages, frames and     *)
(* upsets: a session acknowledges only what was taken, so that collecting  *)
(* implements the Mailbox, whatever breaks, ends or comes twice.           *)
(***************************************************************************)
EXTENDS MediatorPickup, FiniteSetTheorems, SequenceTheorems, TLAPS

-----------------------------------------------------------------------------
(* The inductive invariant.                                                *)

\* Numbers are given in turn, up to the bound.
Numbered == IsFiniteSet(sent) /\ Cardinality(sent) <= Messages /\ sent = 1..Cardinality(sent)

\* What a frame holds was sent; no consumer is handed a message that can never be opened;
\* what it will acknowledge was taken, or can never be opened.
FrameHolds(r) ==
  /\ r.todo \subseteq sent
  /\ r.at # 0 => r.at \in sent \ NeverOpens
  /\ r.acks \subseteq taken \cup NeverOpens

Remembered ==
  /\ seen \in Seq(Message) /\ Len(seen) <= SeenSize
  /\ \A i \in DOMAIN seen : seen[i] \in taken \cup NeverOpens

Collected ==
  /\ Numbered /\ queue \subseteq sent /\ taken \subseteq sent
  /\ Remembered
  /\ frame \in [Frames -> Frame]
  /\ \A f \in Frames : FrameHolds(frame[f])

-----------------------------------------------------------------------------
(* Values.                                                                 *)

\* An empty frame, and one just put on the wire, are frames.
LEMMA FrameTyped ==
  /\ NoFrame \in Frame
  /\ \A ms \in SUBSET Message : NewFrame(ms) \in Frame
  /\ \A ms \in SUBSET Message : NewFrame(ms).todo = ms /\ NewFrame(ms).at = 0 /\ NewFrame(ms).acks = {}
  /\ NoFrame.todo = {} /\ NoFrame.at = 0 /\ NoFrame.acks = {}
<1>1. NoFrame \in Frame
  BY DEF NoFrame, Frame
<1> QED BY <1>1 DEF NoFrame, NewFrame, Frame

\* What is sent is a message.
LEMMA SentIsMessage == Numbered => sent \subseteq Message
  BY FS_CardinalityType, PickupOK DEF Numbered, Message

\* remember keeps a sequence of messages, bounded, of what was there and the new one.
LEMMA RememberingTyped ==
  ASSUME NEW m \in Message, seen \in Seq(Message), Len(seen) <= SeenSize
  PROVE  /\ Remembering(m) \in Seq(Message)
         /\ Len(Remembering(m)) <= SeenSize
         /\ \A i \in DOMAIN Remembering(m) :
              Remembering(m)[i] = m \/ \E j \in DOMAIN seen : Remembering(m)[i] = seen[j]
<1> USE PickupOK
<1> DEFINE longer == IF IsSeen(m) THEN seen ELSE Append(seen, m)
<1>1. /\ longer \in Seq(Message) /\ Len(longer) <= SeenSize + 1
      /\ \A i \in 1..Len(longer) : longer[i] = m \/ \E j \in 1..Len(seen) : longer[i] = seen[j]
  OBVIOUS
<1>2. CASE Len(longer) > SeenSize
  <2>1. Remembering(m) = Tail(longer)
    BY <1>2 DEF Remembering
  <2>2. longer # <<>>
    BY <1>1, <1>2
  <2>3. /\ Tail(longer) \in Seq(Message) /\ Len(Tail(longer)) = Len(longer) - 1
        /\ \A i \in 1..Len(Tail(longer)) : Tail(longer)[i] = longer[i + 1] /\ i + 1 \in 1..Len(longer)
    <3> HIDE DEF longer
    <3> QED BY <1>1, <2>2
  <2> HIDE DEF longer
  <2>4. DOMAIN Tail(longer) = 1..Len(Tail(longer)) /\ DOMAIN seen = 1..Len(seen)
    BY <2>3
  <2>5. Len(Tail(longer)) <= SeenSize
    BY <1>1, <2>3
  <2>6. ASSUME NEW i \in 1..Len(Tail(longer))
        PROVE  Tail(longer)[i] = m \/ \E j \in DOMAIN seen : Tail(longer)[i] = seen[j]
    BY <1>1, <2>3, <2>4
  <2> QED BY <2>1, <2>3, <2>4, <2>5, <2>6
<1>3. CASE ~(Len(longer) > SeenSize)
  <2>1. Remembering(m) = longer
    BY <1>3 DEF Remembering
  <2> HIDE DEF longer
  <2> QED BY <1>1, <1>3, <2>1
<1> QED BY <1>2, <1>3
-----------------------------------------------------------------------------
(* Steps.                                                                  *)

\* A fresh phone has collected nothing.
LEMMA CollectedInit == PickupInit => Collected
<1> SUFFICES ASSUME PickupInit PROVE Collected
  OBVIOUS
<1>1. Numbered
  BY FS_EmptySet, PickupOK DEF PickupInit, Numbered
<1>2. Remembered
  BY PickupOK DEF PickupInit, Remembered
<1> QED BY <1>1, <1>2, FrameTyped DEF PickupInit, Collected, FrameHolds

\* A frame that is emptied, plugged out, heard or left by its session holds nothing new.
LEMMA FramesEmptied ==
  ASSUME Collected, UNCHANGED <<sent, taken, seen>>, queue' \subseteq queue,
         frame' \in [Frames -> Frame],
         \A f \in Frames : \/ frame'[f] = NoFrame
                          \/ /\ frame'[f].todo = frame[f].todo /\ frame'[f].at = frame[f].at
                             /\ frame'[f].acks = frame[f].acks
  PROVE  Collected'
<1>1. Numbered' /\ Remembered'
  BY DEF Collected, Numbered, Remembered
<1>2. ASSUME NEW f \in Frames PROVE FrameHolds(frame[f])'
  BY FrameTyped DEF Collected, FrameHolds
<1> QED BY <1>1, <1>2 DEF Collected

\* A frame put on the wire holds what was sent.
LEMMA FramePut ==
  ASSUME Collected, NEW ms, Put(ms), UNCHANGED <<taken, seen>>,
         Numbered', sent \subseteq sent', queue' \subseteq sent', ms \subseteq sent'
  PROVE  Collected'
<1>1. Remembered' /\ taken' \subseteq sent'
  BY DEF Collected, Remembered
<1>2. ms \in SUBSET Message
  BY FS_CardinalityType, PickupOK DEF Numbered, Message
<1>3. PICK g \in Frames : frame' = [frame EXCEPT ![g] = NewFrame(ms)]
  BY DEF Put, Free
<1>4. frame' \in [Frames -> Frame]
  BY <1>2, <1>3, FrameTyped DEF Collected
<1>5. ASSUME NEW f \in Frames PROVE FrameHolds(frame[f])'
  BY <1>2, <1>3, FrameTyped DEF Collected, FrameHolds
<1> QED BY <1>1, <1>4, <1>5 DEF Collected

\* A peer's message gets the next number.
LEMMA CollectedPost == Collected /\ Post => Collected'
<1> SUFFICES ASSUME Collected, Post PROVE Collected'
  OBVIOUS
<1> DEFINE n == Cardinality(sent)
<1>1. n \in Nat /\ n + 1 \in Message /\ sent = 1..n
  BY FS_CardinalityType DEF Post, Collected, Numbered
<1>2. sent' = sent \cup {n + 1} /\ queue' = queue \cup {n + 1} /\ UNCHANGED <<taken, seen>>
  BY DEF Post
<1>3. Numbered'
  <2>1. n + 1 \notin sent
    BY <1>1
  <2>2. IsFiniteSet(sent') /\ Cardinality(sent') = n + 1
    BY <1>2, <2>1, FS_AddElement DEF Collected, Numbered
  <2>3. sent' = 1..(n + 1)
    BY <1>1, <1>2
  <2> QED BY <1>1, <2>2, <2>3, PickupOK DEF Numbered, Message
<1>4. CASE Put({n + 1})
  <2>1. sent \subseteq sent' /\ queue' \subseteq sent' /\ {n + 1} \subseteq sent'
    BY <1>2 DEF Collected
  <2> QED BY <1>2, <1>3, <1>4, <2>1, FramePut
<1>5. CASE UNCHANGED frame
  <2>1. Remembered'
    BY <1>2 DEF Collected, Remembered
  <2>2. ASSUME NEW f \in Frames PROVE FrameHolds(frame[f])'
    BY <1>2, <1>5 DEF Collected, FrameHolds
  <2> QED BY <1>2, <1>3, <1>5, <2>1, <2>2 DEF Collected
<1> QED BY <1>4, <1>5 DEF Post

\* The mediator's answers hold what is queued.
LEMMA CollectedMediator == Collected /\ (AnswerRequest \/ Resync) => Collected'
<1>1. ASSUME Collected, Resync PROVE Collected'
  <2>1. UNCHANGED <<sent, taken, seen, queue, frame>>
    BY <1>1 DEF Resync, connection
  <2> QED BY <1>1, <2>1, FramesEmptied DEF Collected
<1>2. ASSUME Collected, AnswerRequest PROVE Collected'
  <2>1. UNCHANGED <<sent, taken, seen, queue>>
    BY <1>2 DEF AnswerRequest
  <2>2. CASE UNCHANGED frame
    BY <1>2, <2>1, <2>2, FramesEmptied DEF Collected
  <2>3. CASE Put(Batch)
    <3>1. Numbered' /\ sent \subseteq sent' /\ queue' \subseteq sent' /\ Batch \subseteq sent'
      BY <1>2, <2>1 DEF Collected, Numbered, Batch
    <3> QED BY <1>2, <2>1, <2>3, <3>1, FramePut
  <2> QED BY <1>2, <2>2, <2>3 DEF AnswerRequest
<1> QED BY <1>1, <1>2

\* Sockets and sessions come and go; what they carried is lost, and nothing else.
LEMMA CollectedConnection == Collected /\ Connection => Collected'
<1> SUFFICES ASSUME Collected, Connection PROVE Collected'
  OBVIOUS
<1>1. UNCHANGED <<sent, taken, queue>>
  BY DEF Connection, Breaks, Poll, CheckAlive, Send, Renew, ReopenEnds, Ends, NewSession, Killed,
         Reopens, connection, mediator
<1>2. CASE NewSession
  <2>1. UNCHANGED <<frame, sent, taken, queue>> /\ seen' = <<>>
    BY <1>2 DEF NewSession, mediator
  <2>2. Numbered' /\ Remembered'
    BY <2>1, PickupOK DEF Collected, Numbered, Remembered
  <2>3. ASSUME NEW f \in Frames PROVE FrameHolds(frame[f])'
    BY <2>1 DEF Collected, FrameHolds
  <2> QED BY <2>1, <2>2, <2>3 DEF Collected
<1>3. CASE ~NewSession
  <2>1. UNCHANGED seen
    BY <1>3 DEF Connection, Breaks, Poll, CheckAlive, Send, Renew, ReopenEnds, Ends, Killed, Reopens
  <2>2. \/ UNCHANGED frame
        \/ frame' = Unplugged
        \/ frame' = [f \in Frames |-> NoFrame]
        \/ frame' = [f \in Frames |-> IF frame[f].todo = {} /\ frame[f].at = 0 THEN NoFrame ELSE frame[f]]
        \/ frame' = [f \in Frames |-> IF Unplugged[f] = NoFrame THEN NoFrame ELSE [frame[f] EXCEPT !.old = TRUE]]
    BY <1>3 DEF Connection, Breaks, Poll, CheckAlive, Send, Renew, ReopenEnds, Ends, Killed, Reopens
  <2>3. \A f \in Frames : Unplugged[f] \in {NoFrame, frame[f]}
    BY DEF Unplugged
  <2>4. \A f \in Frames : frame'[f] \in {NoFrame, frame[f], [frame[f] EXCEPT !.old = TRUE]}
    BY <2>2, <2>3 DEF Unplugged
  <2>5. \A f \in Frames : frame[f] \in Frame
    BY DEF Collected
  <2>6. \A r \in Frame : /\ [r EXCEPT !.old = TRUE] \in Frame
                        /\ [r EXCEPT !.old = TRUE].todo = r.todo /\ [r EXCEPT !.old = TRUE].at = r.at
                        /\ [r EXCEPT !.old = TRUE].acks = r.acks
    BY DEF Frame
  <2>7. frame' \in [Frames -> Frame]
    <3>1. \E g : frame' = [f \in Frames |-> g[f]]
      BY <2>2 DEF Unplugged, Collected
    <3> QED BY <2>4, <2>5, <2>6, <3>1, FrameTyped
  <2> QED BY <1>1, <2>1, <2>4, <2>5, <2>6, <2>7, FramesEmptied
<1> QED BY <1>2, <1>3

\* Handling a frame hands on what it holds.
LEMMA CollectedHandle == ASSUME NEW f \in Frames, Collected, Handle(f) PROVE Collected'
<1> DEFINE r == frame[f]
           Fits(q) == /\ q.todo \subseteq sent
                      /\ q.at # 0 => q.at \in sent \ NeverOpens
                      /\ q.acks \subseteq taken' \cup NeverOpens
<1>1. r \in Frame /\ FrameHolds(r) /\ frame \in [Frames -> Frame] /\ sent \subseteq Message
  BY SentIsMessage DEF Collected
<1>2. UNCHANGED sent /\ queue' \subseteq queue
  BY DEF Handle, Receive, NextMessage, ConsumerTakes, ConsumerFails, Acknowledge, mediator
<1>3. ASSUME NEW q \in Frame, frame' = [frame EXCEPT ![f] = q], Fits(q),
             Remembered', taken \subseteq taken', taken' \subseteq sent
      PROVE  Collected'
  <2>1. ASSUME NEW g \in Frames PROVE FrameHolds(frame[g])'
    <3>1. CASE g = f
      BY <1>1, <1>2, <1>3, <3>1 DEF FrameHolds
    <3>2. CASE g # f
      <4>1. frame'[g] = frame[g] /\ FrameHolds(frame[g])
        BY <1>1, <1>3, <3>2 DEF Collected
      <4> QED BY <1>2, <1>3, <4>1 DEF FrameHolds
    <3> QED BY <3>1, <3>2
  <2>2. Numbered' /\ queue' \subseteq sent'
    BY <1>2 DEF Collected, Numbered
  <2> QED BY <1>1, <1>2, <1>3, <2>1, <2>2 DEF Collected
<1>4. CASE Receive(f) \/ Acknowledge(f)
  <2>1. UNCHANGED <<taken, seen>>
    BY <1>4 DEF Receive, Acknowledge
  <2>2. frame' \in {[frame EXCEPT ![f] = NoFrame], [frame EXCEPT ![f] = [r EXCEPT !.on = "phone"]]}
    BY <1>1, <1>4 DEF Receive, Acknowledge
  <2>3. [r EXCEPT !.on = "phone"] \in Frame /\ [r EXCEPT !.on = "phone"].todo = r.todo
        /\ [r EXCEPT !.on = "phone"].at = r.at /\ [r EXCEPT !.on = "phone"].acks = r.acks
    BY <1>1 DEF Frame
  <2>4. frame' \in [Frames -> Frame]
    BY <1>1, <2>2, <2>3, FrameTyped
  <2>5. \A g \in Frames : \/ frame'[g] = NoFrame
                         \/ /\ frame'[g].todo = frame[g].todo /\ frame'[g].at = frame[g].at
                            /\ frame'[g].acks = frame[g].acks
    BY <1>1, <2>2, <2>3
  <2> QED BY <1>2, <2>1, <2>4, <2>5, FramesEmptied
<1>5. CASE ConsumerFails(f)
  <2> DEFINE q == [r EXCEPT !.at = 0, !.todo = @ \ {r.at}]
  <2>1. UNCHANGED <<taken, seen>> /\ frame' = [frame EXCEPT ![f] = q]
    BY <1>1, <1>5 DEF ConsumerFails
  <2>2. q \in Frame /\ q.at = 0 /\ q.todo \subseteq r.todo /\ q.acks = r.acks
    BY <1>1 DEF Frame
  <2>3. Fits(q) /\ Remembered'
    BY <1>1, <1>2, <2>1, <2>2 DEF FrameHolds, Collected, Remembered
  <2> QED BY <1>3, <2>1, <2>2, <2>3 DEF Collected
<1>6. CASE ConsumerTakes(f)
  <2> DEFINE m == r.at
             q == [r EXCEPT !.at = 0, !.todo = @ \ {m}, !.acks = @ \cup {m}]
  <2>1. m \in sent \ NeverOpens /\ m \in Message /\ taken' = taken \cup {m} /\ Remember(f, m)
    BY <1>1, <1>6 DEF ConsumerTakes, FrameHolds
  <2>2. frame' = [frame EXCEPT ![f] = q]
    BY <1>1, <1>6 DEF ConsumerTakes
  <2>3. q \in Frame /\ q.at = 0 /\ q.todo \subseteq r.todo /\ q.acks = r.acks \cup {m}
    BY <1>1, <2>1 DEF Frame
  <2>4. Fits(q)
    BY <1>1, <1>2, <2>1, <2>3 DEF FrameHolds
  <2>5. Remembered'
    BY <2>1, RememberingTyped DEF Remember, Remembered, Collected
  <2> QED BY <1>3, <2>1, <2>2, <2>3, <2>4, <2>5 DEF Collected
<1>7. CASE NextMessage(f)
  <2> DEFINE acknowledged(m) == m \in NeverOpens \/ (IsSeen(m) /\ ~r.old)
             kept(m) == [r EXCEPT !.todo = @ \ {m}, !.acks = @ \cup {m}]
             dropped(m) == [r EXCEPT !.todo = @ \ {m}]
             handed(m) == [r EXCEPT !.at = m]
  <2>1. UNCHANGED taken
    BY <1>7 DEF NextMessage
  <2>2. PICK m \in r.todo :
          \/ acknowledged(m) /\ frame' = [frame EXCEPT ![f] = kept(m)] /\ Remember(f, m)
          \/ frame' = [frame EXCEPT ![f] = dropped(m)] /\ UNCHANGED seen
          \/ ~acknowledged(m) /\ frame' = [frame EXCEPT ![f] = handed(m)] /\ UNCHANGED seen
    BY <1>1, <1>7 DEF NextMessage, Least
  <2>3. m \in Message /\ m \in sent
    BY <1>1 DEF FrameHolds
  <2>4. /\ kept(m) \in Frame /\ kept(m).todo \subseteq r.todo /\ kept(m).at = r.at /\ kept(m).acks = r.acks \cup {m}
        /\ dropped(m) \in Frame /\ dropped(m).todo \subseteq r.todo /\ dropped(m).at = r.at /\ dropped(m).acks = r.acks
        /\ handed(m) \in Frame /\ handed(m).todo = r.todo /\ handed(m).at = m /\ handed(m).acks = r.acks
    BY <1>1, <2>3 DEF Frame
  <2> HIDE DEF kept, dropped, handed
  <2>5. CASE acknowledged(m) /\ frame' = [frame EXCEPT ![f] = kept(m)] /\ Remember(f, m)
    <3>1. m \in taken \cup NeverOpens
      BY <2>5 DEF IsSeen, Collected, Remembered
    <3>2. Remembered'
      <4>1. seen' = seen \/ seen' = Remembering(m)
        BY <2>5 DEF Remember
      <4>2. CASE seen' = seen
        BY <2>1, <4>2 DEF Remembered, Collected
      <4>3. CASE seen' = Remembering(m)
        BY <2>1, <2>3, <3>1, <4>3, RememberingTyped DEF Remembered, Collected
      <4> QED BY <4>1, <4>2, <4>3
    <3>3. Fits(kept(m))
      BY <1>1, <1>2, <2>1, <2>4, <3>1 DEF FrameHolds, kept
    <3> QED BY <1>3, <2>1, <2>4, <2>5, <3>2, <3>3 DEF Collected
  <2>6. CASE frame' = [frame EXCEPT ![f] = dropped(m)] /\ UNCHANGED seen
    <3>1. Remembered'
      BY <2>1, <2>6 DEF Remembered, Collected
    <3>2. Fits(dropped(m))
      BY <1>1, <1>2, <2>1, <2>4 DEF FrameHolds, dropped
    <3> QED BY <1>3, <2>1, <2>4, <2>6, <3>1, <3>2 DEF Collected
  <2>7. CASE ~acknowledged(m) /\ frame' = [frame EXCEPT ![f] = handed(m)] /\ UNCHANGED seen
    <3>1. Remembered'
      BY <2>1, <2>7 DEF Remembered, Collected
    <3>2. Fits(handed(m))
      BY <1>1, <1>2, <2>1, <2>3, <2>4, <2>7 DEF FrameHolds, handed
    <3> QED BY <1>3, <2>1, <2>4, <2>7, <3>1, <3>2 DEF Collected
  <2> QED BY <2>2, <2>5, <2>6, <2>7
<1> QED BY <1>4, <1>5, <1>6, <1>7 DEF Handle

\* Every step keeps it.
LEMMA CollectedStep == Collected /\ [PickupNext]_pickupVars => Collected'
<1>1. ASSUME Collected, UNCHANGED pickupVars PROVE Collected'
  <2>1. UNCHANGED <<sent, taken, seen, queue, frame>>
    BY <1>1 DEF pickupVars, mediator
  <2> QED BY <1>1, <2>1, FramesEmptied DEF Collected
<1> QED BY <1>1, CollectedPost, CollectedMediator, CollectedConnection, CollectedHandle DEF PickupNext

\* In every behaviour the invariant holds.
LEMMA AlwaysCollected == PickupSpec => []Collected
  BY CollectedInit, CollectedStep, PTL DEF PickupSpec

-----------------------------------------------------------------------------
(* What follows.                                                           *)

\* The socket, its timers and the mediator's memory of it.
Flags ==
  /\ opening \in BOOLEAN /\ renewal \in BOOLEAN /\ stopped \in BOOLEAN
  /\ asked \in BOOLEAN /\ resync \in BOOLEAN
\* What is counted stays within its bounds.
Counted ==
  /\ socket \in {"open", "silent", "closed"}
  /\ polls \in 0..2 /\ upsets \in 0..MaxUpsets

\* A step sets a flag, clears it or leaves it.
LEMMA FlagsStep == Flags /\ [PickupNext]_pickupVars => Flags'
<1> SUFFICES ASSUME Flags, [PickupNext]_pickupVars PROVE Flags'
  OBVIOUS
<1>1. CASE Post \/ AnswerRequest \/ Resync
  BY <1>1 DEF Flags, Post, AnswerRequest, Resync, connection
<1>2. CASE Connection
  BY <1>2 DEF Flags, Connection, Breaks, Poll, CheckAlive, Send, Renew, ReopenEnds, Ends, NewSession, Killed,
              Reopens, connection, mediator
<1>3. ASSUME NEW f \in Frames, Handle(f) PROVE Flags'
  BY <1>3 DEF Flags, Handle, Receive, NextMessage, ConsumerTakes, ConsumerFails, Acknowledge, connection, mediator
<1>4. CASE UNCHANGED pickupVars
  BY <1>4 DEF Flags, pickupVars, connection, mediator
<1> QED BY <1>1, <1>2, <1>3, <1>4 DEF PickupNext

\* An interval reopens the socket rather than count a third poll; every mishap is counted.
LEMMA CountedStep == Counted /\ [PickupNext]_pickupVars => Counted'
<1> SUFFICES ASSUME Counted, [PickupNext]_pickupVars PROVE Counted'
  OBVIOUS
<1> USE PickupOK
<1>1. CASE Post \/ AnswerRequest \/ Resync
  <2>1. UNCHANGED socket /\ polls' \in {0, polls}
    BY <1>1 DEF Post, AnswerRequest, Resync, connection
  <2>2. UNCHANGED upsets \/ Upset
    BY <1>1 DEF Post, AnswerRequest, Resync
  <2> QED BY <2>1, <2>2 DEF Counted, Upset
<1>2. CASE Connection
  BY <1>2 DEF Counted, Connection, Breaks, Poll, CheckAlive, Send, Renew, ReopenEnds, Ends, NewSession, Killed,
              Reopens, Upset, connection, mediator
<1>3. ASSUME NEW f \in Frames, Handle(f) PROVE Counted'
  BY <1>3 DEF Counted, Handle, Receive, NextMessage, ConsumerTakes, ConsumerFails, Acknowledge, Upset,
              connection, mediator
<1>4. CASE UNCHANGED pickupVars
  BY <1>4 DEF Counted, pickupVars, connection, mediator
<1> QED BY <1>1, <1>2, <1>3, <1>4 DEF PickupNext

\* Every reachable state has the shape of the session's fields; what it remembers stays
\* bounded and two polls without an answer are the most.
THEOREM TypeCorrect == PickupSpec => []PickupTypeOK
<1>1. PickupInit => Flags
  BY DEF PickupInit, Flags
<1>2. PickupInit => Counted
  BY PickupOK DEF PickupInit, Counted
<1>3. Collected /\ Flags /\ Counted => PickupTypeOK
  BY SentIsMessage DEF Collected, Remembered, Flags, Counted, PickupTypeOK
<1> QED BY <1>1, <1>2, <1>3, FlagsStep, CountedStep, AlwaysCollected, PTL DEF PickupSpec

\* What a session remembers, or is about to acknowledge, was taken or can never be opened:
\* a copy may be acknowledged unread.
THEOREM AcknowledgedWasTaken == PickupSpec => []SeenWasTaken
<1>1. Collected => SeenWasTaken
  BY DEF Collected, Remembered, FrameHolds, SeenWasTaken
<1> QED BY <1>1, AlwaysCollected, PTL

\* Every step of the session is a step of the mailbox, or none.
LEMMA StepsOfTheMailbox ==
  Collected /\ [PickupNext]_pickupVars => [Promise!Next]_<<sent, queue, taken>>
<1> SUFFICES ASSUME Collected, PickupNext PROVE Promise!Next \/ UNCHANGED <<sent, queue, taken>>
  BY DEF pickupVars, mediator
<1>1. CASE Post
  <2>1. Cardinality(sent) + 1 \in Message /\ Cardinality(sent) + 1 \notin sent
    BY <1>1, FS_CardinalityType DEF Post, Collected, Numbered
  <2> QED BY <1>1, <2>1 DEF Post, Promise!Next, Promise!Arrive
<1>2. CASE AnswerRequest \/ Resync \/ Connection
  BY <1>2 DEF AnswerRequest, Resync, Connection, Breaks, Poll, CheckAlive, Send, Renew, ReopenEnds, Ends,
              NewSession, Killed, Reopens, connection, mediator
<1>3. ASSUME NEW f \in Frames, ConsumerTakes(f) PROVE Promise!Next
  <2>1. frame[f].at \in sent \ NeverOpens /\ frame[f].at \in Message
    BY <1>3, SentIsMessage DEF ConsumerTakes, Collected, FrameHolds
  <2> QED BY <1>3, <2>1 DEF ConsumerTakes, Promise!Next, Promise!Take, mediator
<1>4. ASSUME NEW f \in Frames, Acknowledge(f) PROVE Promise!Next \/ UNCHANGED <<sent, queue, taken>>
  <2>1. frame[f].acks \subseteq taken \cup NeverOpens /\ frame[f].acks \in SUBSET Message
    BY DEF Collected, FrameHolds, Frame
  <2> QED BY <1>4, <2>1 DEF Acknowledge, Promise!Next, Promise!Leave
<1>5. ASSUME NEW f \in Frames, Receive(f) \/ NextMessage(f) \/ ConsumerFails(f)
      PROVE  UNCHANGED <<sent, queue, taken>>
  BY <1>5 DEF Receive, NextMessage, ConsumerFails, mediator
<1> QED BY <1>1, <1>2, <1>3, <1>4, <1>5 DEF PickupNext, Handle

\* "Hand a delivered frame to Credo, then acknowledge it - never the other way round"
\* (handleFrame): however sockets break, copies come and sessions end, collecting
\* implements the mailbox that loses nothing.
THEOREM CollectingLosesNothing == PickupSpec => ImplementsMailbox
<1>1. PickupInit => Promise!Init
  BY DEF PickupInit, Promise!Init
<1> QED BY <1>1, StepsOfTheMailbox, AlwaysCollected, PTL DEF PickupSpec, ImplementsMailbox, Promise!Spec
=============================================================================
