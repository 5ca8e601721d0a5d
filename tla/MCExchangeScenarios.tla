------------------------- MODULE MCExchangeScenarios --------------------------
(***************************************************************************)
(* Three kinds of behaviour of RelationshipExchange in one instance: late  *)
(* steps with every mishap, kills with two exchanges, and upgrades.  All   *)
(* of it at once is too many states.                                       *)
(***************************************************************************)
EXTENDS MCRelationshipExchange

NothingHeld == \A w \in Wallet : ~holding[w]
NothingStopped == \A w \in Wallet : doc("stop", NoExchange, w) \notin sending[w]

\* One exchange; steps are late, stopped, and one thing is killed or fails.
LateScenario == crashes + failures <= 1 /\ \E e \in Exchange : Fresh(e)

\* Before the first acceptance is back, Low is killed: its sweep and an answer may each open.
RestartScenario ==
    /\ crashes <= 1 /\ failures = 0
    /\ up[High] /\ NothingHeld /\ NothingStopped /\ ~IsUpgrade(Low, NoExchange)

\* High is killed as well, until an answer of it arrives.
AskScenario ==
    /\ failures = 0 /\ NothingHeld /\ NothingStopped
    /\ \A i \in 1..Len(inbox[Low]) : inbox[Low][i].kind \notin {"accept", "declined"}
    /\ ~IsUpgrade(Low, NoExchange)

\* Messages on the way to one phone, where an upgrade follows.
MaxWaiting == 2

\* An upgrade after the first exchange, withdrawn perhaps; deliveries are late.
UpgradeScenario ==
    /\ crashes = 0 /\ failures = 0 /\ NothingStopped
    /\ \A w \in Wallet : Len(inbox[w]) <= MaxWaiting
    /\ \A w \in Wallet : task("announce", "release", NoExchange) \notin deferred[w]

InScenario == LateScenario \/ RestartScenario \/ AskScenario \/ UpgradeScenario
=============================================================================
