---------------------------- MODULE MediatorPickup ----------------------------
(***************************************************************************)
(* How a session collects its messages from the mediator                   *)
(* (VtiMediatorTransport.ts, VtiMediatorSession): live pushes, the drain   *)
(* of a delivery-request, the backstop poll, the reopening of a socket     *)
(* that closed or went silent, and an acknowledgement after each handler.  *)
(*                                                                         *)
(* A frame is handled on its own: while a consumer takes one message, the  *)
(* next frame, another copy of the message perhaps, is begun.              *)
(* The session object and its owner are in module IdentityListeners.       *)
(***************************************************************************)
EXTENDS Naturals, FiniteSets, Sequences

CONSTANTS
  Messages,     \* bound: how many messages peers send, numbered as they come
  Unreadable,   \* those that cannot be unpacked: left queued
  NeverOpens,   \* the TSP frames that can never be opened here: dropped
  Limit,        \* how many messages a delivery holds (20)
  SeenSize,     \* how many handled messages a session remembers (500)
  Frames,       \* bound: frames under way at once
  MaxUpsets     \* bound: dropped pushes, failed handlers, broken sockets, failed reopens, ended sessions

Message == 1..Messages

ASSUME PickupOK ==
  /\ Messages \in Nat /\ Limit \in Nat \ {0} /\ SeenSize \in Nat \ {0} /\ MaxUpsets \in Nat
  /\ Unreadable \subseteq Message /\ NeverOpens \subseteq Message /\ Unreadable \cap NeverOpens = {}
  /\ IsFiniteSet(Frames)

VARIABLES
  sent,     \* the messages peers sent
  queue,    \* those at the mediator
  socket,   \* open, silent (it reads open and carries nothing) or closed
  opening,  \* a reopen is running
  renewal,  \* the timer that replaces the socket before its token expires is set
  stopped,  \* there is no session: not yet, or its owner ended it
  asked,    \* a delivery-request is with the mediator
  resync,   \* the mediator dropped a push and is to say so
  polls,    \* delivery-requests since anything was heard (unansweredPolls)
  frame,    \* what is left of each frame under way
  seen,     \* messages handed off this session, oldest first
  taken,    \* messages a consumer took                                  (history)
  upsets

connection == <<socket, opening, renewal, stopped>>
mediator == <<sent, queue, asked, resync>>
pickupVars == <<connection, mediator, polls, frame, seen, taken, upsets>>

Upset == upsets < MaxUpsets /\ upsets' = upsets + 1
Least(ms) == {m \in ms : \A n \in ms : m <= n}

\* at: the message its consumer is handed; acks: what it will acknowledge; old: of an ended session.
NoFrame == [on |-> "none", todo |-> {}, at |-> 0, acks |-> {}, old |-> FALSE]
Frame == [on : {"none", "wire", "phone"}, todo : SUBSET Message, at : Message \cup {0},
          acks : SUBSET Message, old : BOOLEAN]
NewFrame(ms) == [NoFrame EXCEPT !.on = "wire", !.todo = ms]
Free == {f \in Frames : frame[f] = NoFrame}
OnWire == {f \in Frames : frame[f].on = "wire"}
Put(ms) == \E f \in Free : frame' = [frame EXCEPT ![f] = NewFrame(ms)]

\* What was on its way is lost with the socket.
Unplugged == [f \in Frames |-> IF f \in OnWire THEN NoFrame ELSE frame[f]]

IsSeen(m) == \E i \in DOMAIN seen : seen[i] = m

\* remember: the oldest goes when there are too many.
Remembering(m) ==
  LET longer == IF IsSeen(m) THEN seen ELSE Append(seen, m)
  IN  IF Len(longer) > SeenSize THEN Tail(longer) ELSE longer

-----------------------------------------------------------------------------
(* The mediator                                                            *)

\* A peer's message: queued, and pushed when the socket is there.
Post ==
  LET m == Cardinality(sent) + 1
  IN  /\ m \in Message
      /\ sent' = sent \cup {m} /\ queue' = queue \cup {m}
      /\ IF socket # "open" THEN UNCHANGED <<frame, resync, upsets>>
         ELSE \/ Put({m}) /\ UNCHANGED <<resync, upsets>>
              \/ Upset /\ resync' = TRUE /\ UNCHANGED frame
  /\ UNCHANGED <<connection, asked, polls, seen, taken>>

\* The oldest messages, Limit at most; an empty queue answers with a status.
Batch == {m \in queue : Cardinality({n \in queue : n < m}) < Limit}

AnswerRequest ==
  /\ asked /\ socket = "open"
  /\ asked' = FALSE
  /\ IF queue = {} THEN polls' = 0 /\ UNCHANGED frame ELSE Put(Batch) /\ UNCHANGED polls
  /\ UNCHANGED <<connection, sent, queue, resync, seen, taken, upsets>>

\* heardPickup: a request made just now stands for the one this asks for.
Resync ==
  /\ resync /\ socket = "open"
  /\ resync' = FALSE /\ polls' = 0
  /\ asked' \in {asked, TRUE}
  /\ UNCHANGED <<connection, sent, queue, frame, seen, taken, upsets>>

-----------------------------------------------------------------------------
(* The socket                                                              *)

\* reopen, one at a time: what is left of the old socket is closed.
Reopens ==
  /\ ~opening /\ ~stopped
  /\ opening' = TRUE /\ socket' = "closed"
  /\ asked' = FALSE /\ resync' = FALSE /\ frame' = Unplugged
  /\ UNCHANGED <<stopped, sent, queue, seen, taken>>

\* start succeeded: live delivery, a drain, the poll and the renewal are on.  When it fails,
\* so does each acknowledgement that waits for it.
ReopenEnds ==
  /\ opening
  /\ opening' = FALSE /\ polls' = 0
  /\ \/ socket' = "open" /\ asked' = TRUE /\ renewal' = TRUE /\ UNCHANGED upsets
        /\ UNCHANGED frame
     \/ /\ Upset /\ UNCHANGED <<socket, asked, renewal>>
        /\ frame' = [f \in Frames |-> IF frame[f].todo = {} /\ frame[f].at = 0 THEN NoFrame ELSE frame[f]]
  /\ UNCHANGED <<stopped, sent, queue, resync, seen, taken>>

Breaks ==
  /\ socket = "open" /\ Upset
  /\ socket' \in {"closed", "silent"}
  /\ asked' = FALSE /\ resync' = FALSE /\ frame' = Unplugged
  /\ UNCHANGED <<opening, renewal, stopped, sent, queue, polls, seen, taken>>

\* The mediator answers within an interval: when a timer rings, nothing is under way to the phone.
Quiet == socket = "open" => ~asked /\ OnWire = {}

\* The interval: nothing while closed; a reopen once two heard nothing back.
Poll ==
  /\ ~stopped /\ socket # "closed"
  /\ Quiet
  /\ IF polls < 2
     THEN /\ polls' = polls + 1 /\ asked' = (socket = "open")
          /\ UNCHANGED <<connection, sent, queue, resync, frame, seen, taken, upsets>>
     ELSE Reopens /\ polls' = 0 /\ UNCHANGED <<renewal, upsets>>

\* checkAlive, when the phone comes to the foreground: a silent socket is replaced.
CheckAlive ==
  IF socket = "open"
  THEN asked' = TRUE /\ UNCHANGED <<connection, sent, queue, resync, polls, frame, seen, taken, upsets>>
  ELSE socket = "silent" /\ Reopens /\ polls' = 0 /\ UNCHANGED <<renewal, upsets>>

\* Somebody sends: a closed socket is reopened first (ensureOpen).
Send == socket = "closed" /\ Reopens /\ UNCHANGED <<renewal, polls, upsets>>

\* Once in a token's life; the timer is not set again unless the reopen succeeds.
Renew ==
  /\ renewal /\ Reopens /\ renewal' = FALSE
  /\ IF Quiet THEN UNCHANGED upsets ELSE Upset
  /\ UNCHANGED polls

\* stop, and a new session for the identity; what the old one handles runs on.
Ends ==
  /\ ~stopped /\ ~opening /\ Upset
  /\ stopped' = TRUE /\ socket' = "closed" /\ renewal' = FALSE
  /\ asked' = FALSE /\ resync' = FALSE
  /\ frame' = [f \in Frames |-> IF Unplugged[f] = NoFrame THEN NoFrame ELSE [frame[f] EXCEPT !.old = TRUE]]
  /\ UNCHANGED <<opening, sent, queue, polls, seen, taken>>

NewSession ==
  /\ stopped
  /\ stopped' = FALSE /\ opening' = TRUE /\ polls' = 0 /\ seen' = <<>>
  /\ UNCHANGED <<socket, renewal, mediator, frame, taken, upsets>>

\* The app is killed: what was being handled is lost.
Killed ==
  /\ Upset
  /\ stopped' = TRUE /\ opening' = FALSE /\ socket' = "closed" /\ renewal' = FALSE
  /\ asked' = FALSE /\ resync' = FALSE
  /\ frame' = [f \in Frames |-> NoFrame]
  /\ UNCHANGED <<sent, queue, polls, seen, taken>>

-----------------------------------------------------------------------------
(* handleFrame and handleDelivery                                          *)

Receive(f) ==
  /\ f \in OnWire
  /\ polls' = 0
  /\ frame' = [frame EXCEPT ![f].on = "phone"]
  /\ UNCHANGED <<connection, mediator, seen, taken, upsets>>

Remember(f, m) == IF frame[f].old THEN UNCHANGED seen ELSE seen' = Remembering(m)

\* The next message: a copy and a dropped frame are acknowledged, an unreadable one is not.
NextMessage(f) ==
  /\ frame[f].on = "phone" /\ frame[f].at = 0
  /\ \E m \in Least(frame[f].todo) :
       LET acknowledged == m \in NeverOpens \/ (IsSeen(m) /\ ~frame[f].old)
       IN  \/ /\ acknowledged
              /\ frame' = [frame EXCEPT ![f].todo = @ \ {m}, ![f].acks = @ \cup {m}]
              /\ Remember(f, m)
           \/ /\ ~acknowledged /\ m \in Unreadable
              /\ frame' = [frame EXCEPT ![f].todo = @ \ {m}]
              /\ UNCHANGED seen
           \/ /\ frame[f].old /\ m \in taken  \* an ended session's memory is not kept here
              /\ frame' = [frame EXCEPT ![f].todo = @ \ {m}]
              /\ UNCHANGED seen
           \/ /\ ~acknowledged /\ m \notin Unreadable
              /\ frame' = [frame EXCEPT ![f].at = m]
              /\ UNCHANGED seen
  /\ UNCHANGED <<connection, mediator, polls, taken, upsets>>

\* The consumer took it: remembered, then acknowledged with the frame's others.
ConsumerTakes(f) ==
  /\ frame[f].at # 0
  /\ LET m == frame[f].at
     IN  /\ taken' = taken \cup {m}
         /\ Remember(f, m)
         /\ frame' = [frame EXCEPT ![f].at = 0, ![f].todo = @ \ {m}, ![f].acks = @ \cup {m}]
  /\ UNCHANGED <<connection, mediator, polls, upsets>>

\* Fault: a message its consumer refused is acknowledged with the others.
ConsumerFailsAcked(f) ==
  /\ frame[f].at # 0 /\ Upset
  /\ frame' = [frame EXCEPT ![f].at = 0, ![f].todo = @ \ {frame[f].at}, ![f].acks = @ \cup {frame[f].at}]
  /\ UNCHANGED <<connection, mediator, polls, seen, taken>>

\* Fault: it is remembered before it is taken.
ConsumerFailsSeen(f) ==
  /\ frame[f].at # 0 /\ Upset
  /\ Remember(f, frame[f].at)
  /\ frame' = [frame EXCEPT ![f].at = 0, ![f].todo = @ \ {frame[f].at}]
  /\ UNCHANGED <<connection, mediator, polls, taken>>

\* It threw: the message stays queued and its next copy is handled afresh.
ConsumerFails(f) ==
  /\ frame[f].at # 0 /\ Upset
  /\ frame' = [frame EXCEPT ![f].at = 0, ![f].todo = @ \ {frame[f].at}]
  /\ UNCHANGED <<connection, mediator, polls, seen, taken>>

\* acknowledge: lost on a silent socket and from an ended session; a closed socket is reopened first.
Handled(f) == frame[f].on = "phone" /\ frame[f].at = 0 /\ frame[f].todo = {}

Acknowledge(f) ==
  /\ Handled(f)
  /\ frame' = [frame EXCEPT ![f] = NoFrame]
  /\ \/ (frame[f].acks = {} \/ frame[f].old \/ socket = "silent") /\ UNCHANGED queue
     \/ ~frame[f].old /\ socket = "open" /\ queue' = queue \ frame[f].acks
  /\ UNCHANGED <<connection, sent, asked, resync, polls, seen, taken, upsets>>

-----------------------------------------------------------------------------
PickupInit ==
  /\ sent = {} /\ queue = {} /\ asked = FALSE /\ resync = FALSE
  /\ socket = "closed" /\ opening = FALSE /\ renewal = FALSE /\ stopped = TRUE
  /\ polls = 0 /\ frame = [f \in Frames |-> NoFrame] /\ seen = <<>> /\ taken = {} /\ upsets = 0

Handle(f) == Receive(f) \/ NextMessage(f) \/ ConsumerTakes(f) \/ ConsumerFails(f) \/ Acknowledge(f)
Connection == Breaks \/ Poll \/ CheckAlive \/ Send \/ Renew \/ ReopenEnds \/ Ends \/ NewSession \/ Killed

PickupNext == Post \/ AnswerRequest \/ Resync \/ Connection \/ \E f \in Frames : Handle(f)

PickupSpec == PickupInit /\ [][PickupNext]_pickupVars

\* An acknowledgement that waits for a closed socket reopens it.
AcknowledgementReopens == (\E f \in Frames : Handled(f) /\ ~frame[f].old /\ frame[f].acks # {}) /\ Send

\* The mediator answers, consumers end, timers ring and a reopen ends.
PickupFairness ==
  /\ WF_pickupVars(AnswerRequest) /\ WF_pickupVars(Poll) /\ WF_pickupVars(Renew) /\ WF_pickupVars(ReopenEnds)
  /\ WF_pickupVars(AcknowledgementReopens)
  /\ \A f \in Frames : WF_pickupVars(Handle(f))

PickupFairSpec == PickupSpec /\ PickupFairness

-----------------------------------------------------------------------------
PickupTypeOK ==
  /\ sent \subseteq Message /\ queue \subseteq sent /\ taken \subseteq sent
  /\ socket \in {"open", "silent", "closed"}
  /\ opening \in BOOLEAN /\ renewal \in BOOLEAN /\ stopped \in BOOLEAN
  /\ asked \in BOOLEAN /\ resync \in BOOLEAN
  /\ polls \in 0..2 /\ upsets \in 0..MaxUpsets
  /\ seen \in Seq(Message) /\ Len(seen) <= SeenSize
  /\ frame \in [Frames -> Frame]

(* What the session remembers, or is about to acknowledge, was taken by a   *)
(* consumer or can never be opened: a copy may be acknowledged unread.      *)
SeenWasTaken ==
  /\ \A i \in DOMAIN seen : seen[i] \in taken \cup NeverOpens
  /\ \A f \in Frames : frame[f].acks \subseteq taken \cup NeverOpens

(* Collecting implements the promise: nothing leaves the mediator before it *)
(* was taken, whatever breaks, ends or comes twice.                         *)
Promise == INSTANCE Mailbox WITH waiting <- queue
ImplementsMailbox == Promise!Spec

(* Every message that can be read is taken in the end, unless the socket    *)
(* stays closed for good: the drain, the backstop poll and the reopening of *)
(* a silent socket make up for every push that was lost.                    *)
EverythingTaken ==
  []<>(socket # "closed") => \A m \in Message \ (Unreadable \cup NeverOpens) : m \in queue ~> m \in taken

(* A copy that comes while the message is being handled is not handed over  *)
(* again: "Handed over twice, a vetting request was answered twice" ("a     *)
(* copy is acknowledged, not delivered", handleTspFrame).                   *)
HandedOverOnce ==
  \A f, g \in Frames : f # g /\ frame[f].at # 0 /\ ~frame[f].old /\ ~frame[g].old => frame[f].at # frame[g].at
=============================================================================
