------------------------------- MODULE Mailbox -------------------------------
(***************************************************************************)
(* What collecting a phone's messages promises (handleFrame: "Hand a       *)
(* delivered frame to Credo, then acknowledge it - never the other way     *)
(* round"): a message leaves the mediator only once it was taken, or can   *)
(* never be opened.  It may be taken more than once.                       *)
(***************************************************************************)
EXTENDS Naturals

CONSTANTS
  Message,
  NeverOpens  \* those among them that can never be opened

VARIABLES
  sent,    \* the messages peers sent
  waiting, \* those at the mediator
  taken    \* those the phone took

Init == sent = {} /\ waiting = {} /\ taken = {}

Arrive(m) ==
  /\ m \notin sent
  /\ sent' = sent \cup {m} /\ waiting' = waiting \cup {m}
  /\ UNCHANGED taken

Take(m) ==
  /\ m \in sent \ NeverOpens
  /\ taken' = taken \cup {m}
  /\ UNCHANGED <<sent, waiting>>

Leave(ms) ==
  /\ ms \subseteq taken \cup NeverOpens
  /\ waiting' = waiting \ ms
  /\ UNCHANGED <<sent, taken>>

Next ==
  \/ \E m \in Message : Arrive(m) \/ Take(m)
  \/ \E ms \in SUBSET Message : Leave(ms)

Spec == Init /\ [][Next]_<<sent, waiting, taken>>
=============================================================================
