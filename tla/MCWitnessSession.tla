--------------------------- MODULE MCWitnessSession ---------------------------
(* The instances of WitnessSession that TLC checks. *)
EXTENDS WitnessSession, TLC

CONSTANT First  \* the session that is opened first

\* One other session at most joins the first, where nothing goes wrong.
FewSessions ==
    \A s \in Session \ {First} : stage[s] # "idle" =>
        /\ stage[First] # "idle" /\ duplicates + failures + crashes = 0
        /\ \A other \in Session \ {First, s} : stage[other] = "idle"
=============================================================================
