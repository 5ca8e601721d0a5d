------------------------------ MODULE MCLateStep ------------------------------
(* Two instances of LateStep in one run: the phones whose app may be killed *)
(* and whose people stop and ask again (EXTENDS), and two phones that both  *)
(* ask, where what runs gets on (Both).                                     *)
EXTENDS LateStep, TLC
VARIABLE part

Both == INSTANCE LateStep WITH Exchange <- {}, Askers <- {Low, High}, Killed <- {},
  MaxChecks <- 1, MaxStops <- 0, MaxCrashes <- 0, MaxDuplicates <- 0

LateInit == part \in {"safe", "both"} /\ (IF part = "safe" THEN Init ELSE Both!Init)
LateNext ==
  /\ UNCHANGED part
  /\ \/ part = "safe" /\ Next
     \/ part = "both" /\ Both!Next
LateSpec == LateInit /\ [][LateNext]_<<vars, part>>
LateFair == LateSpec /\ \A p \in Phone : WF_vars(part = "both" /\ Both!System(p))

\* A person asks a second time where no send failed and nobody stopped the exchange.
FewChecks == part = "safe" /\ (\E p \in Phone : Len(askedAt[p]) > 1) => failures + stops = 0

\* Where both ask and programs get on: LateStep's AnswerEndsAsking.
AnswerEndsAskingThere == part = "both" => Both!AnswerEndsAsking
=============================================================================
