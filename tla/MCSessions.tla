------------------------------ MODULE MCSessions ------------------------------
(* Two models of one phone's sessions side by side: who holds the shared    *)
(* session, with a phone in two communities (a step as one identity, a flow *)
(* that signs in again and again as the other, and polls of both), and how  *)
(* a session collects its messages.  One of them runs in a behaviour, the   *)
(* other stays where it begins, and nothing has to happen there.            *)
EXTENDS SharedSession, MediatorPickup
CONSTANTS d1, d2, step1, flow2, poll1, poll2, f1, f2
VARIABLE part

TheCallers == {step1, flow2, poll1, poll2}
TheDids == {d1, d2}
DidOf == [c \in TheCallers |-> IF c \in {flow2, poll2} THEN d2 ELSE d1]
KindOf == [c \in TheCallers |->
  CASE c \in {poll1, poll2} -> "poll" [] c = flow2 -> "connect" [] OTHER -> "step"]

BothInit == part \in {"sharing", "pickup"} /\ Init /\ PickupInit

BothNext ==
  /\ UNCHANGED part
  /\ \/ part = "sharing" /\ Next /\ UNCHANGED pickupVars
     \/ part = "pickup" /\ PickupNext /\ UNCHANGED vars

BothSpec == BothInit /\ [][BothNext]_<<vars, pickupVars, part>>
BothFair == BothSpec /\ Fairness /\ PickupFairness
=============================================================================
