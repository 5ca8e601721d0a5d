---------------------------- MODULE MCCredentials ----------------------------
(* Two small models of one wallet side by side: the profile card sent on a  *)
(* connection, and the refresh of OpenID credentials.  They share nothing   *)
(* in the code either; one of them runs in a behaviour, the other stays     *)
(* where it begins, and nothing has to happen there.                        *)
EXTENDS ProfileCard, CredentialRefresh
CONSTANTS a1, a2, b1, p1, p2, c1, c2, n1, n2, t1, t2
VARIABLE part

\* A credential and its replacements in two runs; one that has a refresh token and one
\* that has none, with a lock or a kill.
May(asked, taps, flips, locked, killed) ==
  [runs |-> asked, taps |-> taps, flips |-> flips, faults |-> 1, locks |-> locked, kills |-> killed]
TheStarts ==
  {[holds |-> {c1}, may |-> May(1, 2, 2, 0, 0)],
   [holds |-> {c1, c2}, may |-> May(0, 1, 1, 1, 0)],
   [holds |-> {c1, c2}, may |-> May(0, 1, 1, 0, 1)]}

BothInit ==
  /\ part \in {"card", "refresh"} /\ CardInit /\ RefreshInit
  /\ part = "card" => stored = {c1} /\ spent.runs = 1
  /\ part = "refresh" => peer = "none" /\ active = {}

BothNext ==
  /\ UNCHANGED part
  /\ \/ part = "card" /\ CardNext /\ UNCHANGED refreshVars
     \/ part = "refresh" /\ RefreshNext /\ UNCHANGED cardVars

BothSpec == BothInit /\ [][BothNext]_<<cardVars, refreshVars, part>>
BothFair == BothSpec /\ CardFairness /\ RefreshFairness
=============================================================================
