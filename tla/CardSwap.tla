------------------------------ MODULE CardSwap ------------------------------
(***************************************************************************)
(* What the relationship exchange promises two people: one proposes, the   *)
(* other accepts ("the trust-task dialect's consent moment",               *)
(* handleInboundPropose), then each makes one credential ("Idempotent per  *)
(* direction", deliverVrcViaTrustTaskForExchange) and stores the one the   *)
(* other made.  Nothing is said of messages, holds, running functions or   *)
(* kills.                                                                  *)
(***************************************************************************)
EXTENDS Naturals

CONSTANTS
  Person,
  Exchange  \* exchange ids

VARIABLES
  proposed, \* the exchanges each person proposed
  accepted, \* those each accepted
  cards,    \* how many credentials each made, per exchange
  stored    \* the exchanges whose credential each holds

swap == <<proposed, accepted, cards, stored>>

Init ==
  /\ proposed = [p \in Person |-> {}]
  /\ accepted = [p \in Person |-> {}]
  /\ cards = [p \in Person |-> [e \in Exchange |-> 0]]
  /\ stored = [p \in Person |-> {}]

\* An exchange has one proposer.
Propose(p, e) ==
  /\ \A q \in Person : e \notin proposed[q]
  /\ proposed' = [proposed EXCEPT ![p] = @ \cup {e}]
  /\ UNCHANGED <<accepted, cards, stored>>

\* One accepts what the other proposed.
Accept(p, e) ==
  /\ \E q \in Person \ {p} : e \in proposed[q]
  /\ accepted' = [accepted EXCEPT ![p] = @ \cup {e}]
  /\ UNCHANGED <<proposed, cards, stored>>

\* One credential each, once there is consent.
Issue(p, e) ==
  /\ \E q \in Person : e \in accepted[q]
  /\ cards[p][e] = 0
  /\ cards' = [cards EXCEPT ![p][e] = 1]
  /\ UNCHANGED <<proposed, accepted, stored>>

\* What is stored was made by the other.
Store(p, e) ==
  /\ \E q \in Person \ {p} : cards[q][e] = 1
  /\ stored' = [stored EXCEPT ![p] = @ \cup {e}]
  /\ UNCHANGED <<proposed, accepted, cards>>

Next == \E p \in Person, e \in Exchange : Propose(p, e) \/ Accept(p, e) \/ Issue(p, e) \/ Store(p, e)

Spec == Init /\ [][Next]_swap
=============================================================================
