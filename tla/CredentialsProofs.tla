-------------------------- MODULE CredentialsProofs --------------------------
(***************************************************************************)
(* Proofs about the credentials a wallet gives and keeps.  ProfileCard, for *)
(* any number of triggers and profiles: the lock in memory lets one card   *)
(* out while the app runs, and is never left taken by a run that gave up.  *)
(* CredentialRefresh, for any credentials, taps, faults, locks and kills:  *)
(* its types; that a credential is replaced once; that a family keeps one  *)
(* through swaps that overlap; that a swap is settled whole; and that the  *)
(* token a run presents is the issuer's.                                   *)
(***************************************************************************)
EXTENDS ProfileCard, CredentialRefresh, TLAPS

-----------------------------------------------------------------------------
(* The profile card: types.                                                *)

Stages == {"ready", "ownDid", "issue", "gate", "credential", "card", "speaks",
           "build", "offer", "record", "done"}
Locks == {"free", "pending", "offered", "failed"}

\* The part of the types the argument needs: the locks and where the triggers stand.
Shape == cardLock \in Locks /\ stage \in [Trigger -> Stages] /\ cards \in Nat

\* A run between taking the lock of the card and its offer.
InCard(t) == stage[t] \in {"speaks", "build", "offer"}

\* The lock is pending exactly while one run is there, and offered once a card went out.
LockInv ==
  /\ Shape
  /\ \A t \in Trigger : InCard(t) => cardLock = "pending"
  /\ \A t, u \in Trigger : InCard(t) /\ InCard(u) => t = u
  /\ cardLock = "pending" => \E t \in Trigger : InCard(t)
  /\ cards > 0 => cards = 1 /\ cardLock = "offered"

\* An app that just started holds no lock.
LEMMA LockInit == CardInit => LockInv
  BY DEF CardInit, LockInv, Shape, Stages, Locks, InCard

\* Where a trigger goes moves no other one.
LEMMA Moves ==
  ASSUME NEW t \in Trigger, NEW s \in Stages, Shape, Go(t, s)
  PROVE  /\ stage' \in [Trigger -> Stages] /\ stage'[t] = s
         /\ \A u \in Trigger : u # t => stage'[u] = stage[u]
  BY DEF Shape, Go

\* A step outside of issueRCardCredential leaves its lock and its runs alone.
LEMMA LockElsewhere ==
  ASSUME LockInv, UNCHANGED <<cardLock, cards>>,
         stage' \in [Trigger -> Stages],
         \A u \in Trigger : stage'[u] # stage[u] => ~InCard(u) /\ ~InCard(u)'
  PROVE  LockInv'
  BY DEF LockInv, Shape, InCard

\* The steps before the card.
LEMMA LockBefore ==
  ASSUME LockInv, NEW t \in Trigger,
         Announced(t) \/ Accepted(t) \/ PollsOwnDid(t) \/ IssueVrc(t) \/ Gate(t) \/ OfferVrc(t)
  PROVE  LockInv'
<1>1. PICK s \in {"ownDid", "issue", "gate", "credential", "card", "done"} : Go(t, s)
  BY DEF Announced, Accepted, PollsOwnDid, IssueVrc, Gate, OfferVrc
<1>2. stage[t] \in {"ready", "ownDid", "issue", "gate", "credential"} /\ UNCHANGED <<cardLock, cards>>
  BY DEF Announced, Accepted, PollsOwnDid, IssueVrc, Gate, OfferVrc, locks, sharing
<1>3. /\ stage' \in [Trigger -> Stages] /\ stage'[t] = s
      /\ \A u \in Trigger : u # t => stage'[u] = stage[u]
  BY <1>1, Moves DEF LockInv, Stages
<1> QED BY <1>1, <1>2, <1>3, LockElsewhere DEF InCard

\* issueRCardCredential: taking the lock, moving on with it, and giving it up.
LEMMA LockInCard ==
  ASSUME LockInv, NEW t \in Trigger,
         IssueCard(t) \/ Speaks(t) \/ Build(t) \/ OfferCard(t) \/ RecordShare(t)
  PROVE  LockInv'
<1>1. ASSUME NEW s \in Stages, Go(t, s)
      PROVE  /\ stage' \in [Trigger -> Stages] /\ stage'[t] = s
             /\ \A u \in Trigger : u # t => stage'[u] = stage[u]
  BY <1>1, Moves DEF LockInv
<1>2. ASSUME InCard(t) PROVE \A u \in Trigger : u # t => ~InCard(u)
  BY <1>2 DEF LockInv
<1>3. CASE IssueCard(t)
  <2>1. CASE cardLock \in Busy
    BY <1>1, <1>3, <2>1, LockElsewhere DEF IssueCard, Stages, InCard, sharing
  <2>2. CASE cardLock \notin Busy
    <3>1. \A u \in Trigger : ~InCard(u)
      BY <2>2 DEF LockInv, Busy
    <3>2. cardLock' = "pending" /\ Go(t, "speaks") /\ UNCHANGED cards
      BY <1>3, <2>2 DEF IssueCard, sharing
    <3>3. /\ stage' \in [Trigger -> Stages] /\ stage'[t] = "speaks"
          /\ \A u \in Trigger : u # t => stage'[u] = stage[u]
      BY <1>1, <3>2 DEF Stages
    <3> QED BY <2>2, <3>1, <3>2, <3>3 DEF LockInv, Shape, Locks, InCard, Busy
  <2> QED BY <2>1, <2>2
<1>4. ASSUME stage[t] \in {"speaks", "build"}, Go(t, "build") \/ Go(t, "offer"), UNCHANGED <<cardLock, cards>>
      PROVE  LockInv'
  <2>1. stage' \in [Trigger -> Stages] /\ InCard(t)'
        /\ \A u \in Trigger : u # t => stage'[u] = stage[u]
    BY <1>1, <1>4 DEF Stages, InCard
  <2> QED BY <1>2, <1>4, <2>1 DEF LockInv, Shape, InCard
<1>5. ASSUME InCard(t), Go(t, "record") \/ Go(t, "done"), cardLock' \in Locks \ {"pending"}, cards' \in Nat,
             cards' > 0 => cards' = 1 /\ cardLock' = "offered"
      PROVE  LockInv'
  <2>1. stage' \in [Trigger -> Stages] /\ ~InCard(t)'
        /\ \A u \in Trigger : u # t => stage'[u] = stage[u]
    BY <1>1, <1>5 DEF Stages, InCard
  <2>2. \A u \in Trigger : ~InCard(u)'
    BY <1>2, <1>5, <2>1 DEF InCard
  <2> QED BY <1>5, <2>1, <2>2 DEF LockInv, Shape
<1>6. ASSUME InCard(t) PROVE cards = 0
  BY <1>6 DEF LockInv, Shape
<1>7. CASE Speaks(t)
  BY <1>4, <1>5, <1>6, <1>7 DEF Speaks, InCard, Locks, sharing
<1>8. CASE Build(t)
  BY <1>4, <1>5, <1>6, <1>8 DEF Build, InCard, Locks, sharing
<1>9. CASE OfferCard(t)
  BY <1>5, <1>6, <1>9 DEF OfferCard, InCard, Locks
<1>10. CASE RecordShare(t)
  BY <1>1, <1>10, LockElsewhere DEF RecordShare, Stages, InCard, locks
<1> QED BY <1>3, <1>7, <1>8, <1>9, <1>10

\* Every step keeps the lock with its run.
LEMMA LockStep == LockInv /\ [CardNext]_cardVars => LockInv'
<1> SUFFICES ASSUME LockInv, [CardNext]_cardVars PROVE LockInv'
  OBVIOUS
<1>1. CASE OwnDid \/ WriteFails \/ (\E p \in Profile : Switch(p) \/ WriteTag(p)) \/ UNCHANGED cardVars
  <2>1. UNCHANGED <<cardLock, cards, stage>>
    BY <1>1 DEF OwnDid, WriteFails, Switch, WriteTag, cardVars, locks, sharing
  <2> QED BY <2>1 DEF LockInv, Shape, InCard
<1>2. CASE Restart
  <2>1. cardLock' = "free" /\ cards' = 0 /\ stage' \in [Trigger -> Stages]
    BY <1>2 DEF Restart, Stages
  <2>2. \A u \in Trigger : ~InCard(u)'
    BY <1>2 DEF Restart, InCard
  <2> QED BY <2>1, <2>2 DEF LockInv, Shape, Locks
<1> QED BY <1>1, <1>2, LockBefore, LockInCard DEF CardNext, Runs

\* In every behaviour the invariant holds.
LEMMA AlwaysLocked == CardSpec => []LockInv
  BY LockInit, LockStep, PTL DEF CardSpec

-----------------------------------------------------------------------------
\* However many triggers race, fail and are killed, at most one card goes out while the app
\* runs (issueRCardCredential's per-connection lock).
THEOREM OneCardGoesOut == CardSpec => []OneCardPerRun
<1>1. LockInv => OneCardPerRun
  BY DEF LockInv, Shape, OneCardPerRun
<1> QED BY <1>1, AlwaysLocked, PTL

\* The card's lock is never left taken: while it is pending, a run is on its way to the
\* offer and will give the lock up or mark it offered.
THEOREM NoLockIsLeftTaken ==
  CardSpec => [](cardLock = "pending" => \E t \in Trigger : stage[t] \in {"speaks", "build", "offer"})
<1>1. LockInv => (cardLock = "pending" => \E t \in Trigger : stage[t] \in {"speaks", "build", "offer"})
  BY DEF LockInv, InCard
<1> QED BY <1>1, AlwaysLocked, PTL

\* Every step keeps the types of the card.
LEMMA CardKeepsTypes == CardTypeOK /\ [CardNext]_cardVars => CardTypeOK'
<1> SUFFICES ASSUME CardTypeOK, [CardNext]_cardVars PROVE CardTypeOK'
  OBVIOUS
<1> USE DEF CardTypeOK, locks, profiles, sharing
<1>1. ASSUME NEW t \in Trigger, NEW s \in Stages, Go(t, s) PROVE stage' \in [Trigger -> Stages]
  BY <1>1 DEF Go, Stages
<1>2. ASSUME Fails PROVE faults' \in 0..MaxFaults
  BY <1>2, CardOK DEF Fails
<1>3. CASE OwnDid  BY <1>3 DEF OwnDid
<1>4. CASE WriteFails  BY <1>2, <1>4 DEF WriteFails, NoSwitch
<1>5. CASE Restart  BY <1>2, <1>5 DEF Restart, NoSwitch
<1>6. ASSUME NEW p \in Profile, Switch(p) PROVE CardTypeOK'
  BY <1>6, CardOK DEF Switch
<1>7. ASSUME NEW p \in Profile, WriteTag(p) PROVE CardTypeOK'
  BY <1>7 DEF WriteTag, NoSwitch
<1>8. ASSUME NEW t \in Trigger, Announced(t) \/ Accepted(t) PROVE CardTypeOK'
  <2>1. stage' \in [Trigger -> Stages]  BY <1>1, <1>8 DEF Announced, Accepted, Stages
  <2>2. known' \in BOOLEAN  BY <1>8 DEF Announced, Accepted
  <2> QED BY <1>8, <2>1, <2>2 DEF Announced, Accepted, Stages
<1>9. ASSUME NEW t \in Trigger, PollsOwnDid(t) \/ IssueVrc(t) \/ Gate(t) \/ OfferVrc(t)
      PROVE  CardTypeOK'
  <2>1. stage' \in [Trigger -> Stages]
    BY <1>1, <1>9 DEF PollsOwnDid, IssueVrc, Gate, OfferVrc, Stages
  <2> QED BY <1>2, <1>9, <2>1 DEF PollsOwnDid, IssueVrc, Gate, OfferVrc, Stages
<1>10. ASSUME NEW t \in Trigger,
              IssueCard(t) \/ Speaks(t) \/ Build(t) \/ OfferCard(t) \/ RecordShare(t)
       PROVE  CardTypeOK'
  <2>1. stage' \in [Trigger -> Stages]
    BY <1>1, <1>10 DEF IssueCard, Speaks, Build, OfferCard, RecordShare, Stages
  <2>2. CASE IssueCard(t) \/ Speaks(t)  BY <1>2, <2>1, <2>2 DEF IssueCard, Speaks, Stages
  <2>3. CASE Build(t)  BY <1>2, <2>1, <2>3 DEF Build, Stages
  <2>4. CASE OfferCard(t)  BY <1>2, <2>1, <2>4 DEF OfferCard, Stages
  <2>5. CASE RecordShare(t)  BY <1>2, <2>1, <2>5 DEF RecordShare, Stages
  <2> QED BY <1>10, <2>2, <2>3, <2>4, <2>5
<1>11. CASE UNCHANGED cardVars  BY <1>11 DEF cardVars
<1> QED BY <1>3, <1>4, <1>5, <1>6, <1>7, <1>8, <1>9, <1>10, <1>11 DEF CardNext, Runs

-----------------------------------------------------------------------------
\* The types of the card hold for any number of triggers, faults and profiles: what is built,
\* offered and recorded is a profile of this wallet (vrc-manager.ts, rCardCredential.ts).
THEOREM CardTypeCorrect == CardSpec => []CardTypeOK
<1>1. ASSUME CardInit PROVE CardTypeOK
  <2>1. active \subseteq Profile  BY <1>1 DEF CardInit
  <2>2. stage \in [Trigger -> Stages] /\ built \in [Trigger -> Profile \cup {NoProfile}]
    BY <1>1 DEF CardInit, Stages
  <2>3. switching \in [to : Profile \cup {NoProfile}, todo : SUBSET Profile]
    BY <1>1 DEF CardInit, NoSwitch
  <2>4. switches \in 0..MaxSwitches /\ faults \in 0..MaxFaults  BY <1>1, CardOK DEF CardInit
  <2> QED BY <1>1, <2>1, <2>2, <2>3, <2>4 DEF CardInit, CardTypeOK, Stages
<1> QED BY <1>1, CardKeepsTypes, PTL DEF CardSpec

-----------------------------------------------------------------------------
(* The refresh: types.                                                     *)

RegShape ==
  [refreshing : SUBSET Cred, expired : SUBSET Cred, checked : SUBSET Cred,
   blocked : SUBSET Cred, closed : SUBSET Cred, replacement : [Cred -> Fresh \cup {NoCred}]]

\* What the registry's operations give.
LEMMA RegistryShape ==
  ASSUME NEW g \in RegShape, NEW c \in Cred
  PROVE  /\ MarkInvalid(g, c) \in RegShape /\ ClearRefreshing(g, c) \in RegShape
         /\ \A n \in Fresh : MarkReplaced(g, c, n) \in RegShape
         /\ AcceptReplacement(g, c) \in RegShape
         /\ Decline(g, c) \in RegShape /\ RemoveFrom(g, c) \in RegShape
<1>1. MarkInvalid(g, c) \in RegShape  BY DEF RegShape, MarkInvalid
<1>2. ClearRefreshing(g, c) \in RegShape  BY DEF RegShape, ClearRefreshing
<1>3. \A n \in Fresh : MarkReplaced(g, c, n) \in RegShape  BY <1>1 DEF RegShape, MarkReplaced
<1>4. AcceptReplacement(g, c) \in RegShape  BY DEF RegShape, AcceptReplacement
<1>5. Decline(g, c) \in RegShape  BY DEF RegShape, Decline
<1>6. RemoveFrom(g, c) \in RegShape  BY DEF RegShape, RemoveFrom
<1> QED BY <1>1, <1>2, <1>3, <1>4, <1>5, <1>6

\* An app that starts.
LEMMA RefreshStarts == RefreshInit => RefreshTypeOK
<1> SUFFICES ASSUME RefreshInit PROVE RefreshTypeOK
  OBVIOUS
<1>1. RunTypeOK  BY DEF RefreshInit, RunTypeOK, NoRun
<1>2. AcceptsTypeOK  BY DEF RefreshInit, AcceptsTypeOK, NoAccepts, NoAccept
<1>3. RegTypeOK  BY DEF RefreshInit, RegTypeOK
<1>4. RecordsTypeOK
  BY RefreshOK DEF RefreshInit, RecordsTypeOK, Nothing, Cred
<1>5. HistoryTypeOK
  <2> PICK s \in Starts : stored = s.holds /\ removed = Roots \ s.holds /\ spent = s.may
    BY DEF RefreshInit
  <2> QED BY RefreshOK DEF RefreshInit, HistoryTypeOK, Cred
<1> QED BY <1>1, <1>2, <1>3, <1>4, <1>5 DEF RefreshInit, RefreshTypeOK

\* A bound is used up by one.
LEMMA SpendShape ==
  ASSUME spent \in [Limits -> Nat], NEW what \in Limits, Spend(what)
  PROVE  spent' \in [Limits -> Nat]
  BY DEF Spend

\* A run is done with a credential.
LEMMA DoneShape ==
  ASSUME RunTypeOK, NEW g \in RegShape, run.cur \in Cred, Done(g)
  PROVE  RegTypeOK' /\ RunTypeOK' /\ run'.cur = NoCred
  BY DEF RunTypeOK, RegTypeOK, Done, ClearRefreshing, RegShape

LEMMA ThrowsShape ==
  ASSUME RunTypeOK, RegTypeOK, run.cur \in Cred, Throws
  PROVE  RegTypeOK' /\ RunTypeOK' /\ run'.cur = NoCred
<1>1. MarkInvalid(reg, run.cur) \in RegShape
  BY RegistryShape DEF RegTypeOK, RegShape
<1> QED BY <1>1, DoneShape DEF Throws

\* A run stands at a credential from its status to its replacement.
LEMMA AtOne ==
  ASSUME RunTypeOK,
         run.at \in {"checking", "marking", "deferring", "refreshing", "saving", "asking"}
  PROVE  run.cur \in Cred
  BY DEF RunTypeOK

\* The steps of a run.
LEMMA RunTypes == ASSUME RefreshTypeOK, RunStep PROVE RefreshTypeOK'
<1> DEFINE Rest == RegTypeOK' /\ RecordsTypeOK' /\ HistoryTypeOK'
<1> USE DEF RefreshTypeOK
<1>k. KeepBesidesRun
  BY DEF RunStep, Listed, RunEnds, Skip, TakeUp, Verdict, Marked, Rotated, TokenFails,
         TokenSaved, ReissueFails, Reissued
<1>a. AcceptsTypeOK' /\ agent' = agent /\ started' = started /\ removing' = removing
  BY <1>k DEF KeepBesidesRun, AcceptsTypeOK
<1> SUFFICES RunTypeOK' /\ Rest
  BY <1>a
<1>1. CASE Listed
  BY <1>1, <1>a DEF Listed, RunAt, NoRun, RunTypeOK, RegTypeOK, RecordsTypeOK, HistoryTypeOK,
         records, issuers, history
<1>2. CASE RunEnds
  BY <1>2, <1>a DEF RunEnds, NoRun, RunTypeOK, RegTypeOK, RecordsTypeOK, HistoryTypeOK,
         records, issuers, history
<1>3. ASSUME NEW c \in Cred, Skip(c) PROVE RunTypeOK' /\ Rest
  BY <1>3, <1>a DEF Skip, RunAt, RunTypeOK, RegTypeOK, RecordsTypeOK, HistoryTypeOK,
         records, issuers, history
<1>4. ASSUME NEW c \in Cred, TakeUp(c) PROVE RunTypeOK' /\ Rest
  <2>1. RunTypeOK'  BY <1>4, RefreshOK DEF TakeUp, RunTypeOK
  <2>2. RegTypeOK'  BY <1>4 DEF TakeUp, RegTypeOK
  <2>3. RecordsTypeOK' /\ HistoryTypeOK'
    BY <1>4, <1>a DEF TakeUp, RecordsTypeOK, HistoryTypeOK, records, issuers, history
  <2> QED BY <2>1, <2>2, <2>3
<1>5. ASSUME NEW v \in {"valid", "invalid", "error"}, Verdict(v) PROVE RunTypeOK' /\ Rest
  <2>1. run.cur \in Cred  BY <1>5, AtOne DEF Verdict, RunAt
  <2>2. RecordsTypeOK'  BY <1>5, <1>a DEF Verdict, RecordsTypeOK, records, issuers
  <2>3. HistoryTypeOK'
    BY <1>5, SpendShape DEF Verdict, HistoryTypeOK, issuers, history, Limits
  <2>4. RunTypeOK' /\ RegTypeOK'
    <3>1. CASE Done([reg EXCEPT !.expired = @ \ {run.cur}])
      <4>1. [reg EXCEPT !.expired = @ \ {run.cur}] \in RegShape  BY DEF RegTypeOK, RegShape
      <4> QED BY <2>1, <3>1, <4>1, DoneShape
    <3>2. CASE Throws  BY <2>1, <3>2, ThrowsShape
    <3>3. CASE /\ run' = [run EXCEPT !.at = IF v = "error" THEN "deferring" ELSE "marking"]
               /\ UNCHANGED reg
      BY <2>1, <3>3, RefreshOK DEF RunTypeOK, RegTypeOK
    <3> QED BY <1>5, <3>1, <3>2, <3>3 DEF Verdict
  <2> QED BY <2>2, <2>3, <2>4
<1>6. CASE Marked
  <2>1. run.cur \in Cred  BY <1>6, AtOne DEF Marked, RunAt
  <2>2. RecordsTypeOK' /\ HistoryTypeOK'
    BY <1>6, <1>a, <2>1 DEF Marked, RunTypeOK, RecordsTypeOK, HistoryTypeOK, issuers, history
  <2>3. RunTypeOK' /\ RegTypeOK'
    <3>1. CASE Done(reg)  BY <2>1, <3>1, DoneShape DEF RegTypeOK, RegShape
    <3>2. CASE Throws  BY <2>1, <3>2, ThrowsShape
    <3>3. CASE run' = [run EXCEPT !.at = "refreshing"] /\ UNCHANGED reg
      BY <2>1, <3>3, RefreshOK DEF RunTypeOK, RegTypeOK
    <3> QED BY <1>6, <3>1, <3>2, <3>3 DEF Marked
  <2> QED BY <2>2, <2>3
<1>7. CASE Rotated
  <2>1. run.cur \in Cred  BY <1>7, AtOne DEF Rotated, RunAt
  <2> DEFINE next == honoured[family[run.cur]] + 1
  <2>2. next \in Nat
    <3>1. run.seen[run.cur] \in Nat  BY <2>1 DEF RunTypeOK
    <3> QED BY <1>7, <3>1 DEF Rotated
  <2>3. RunTypeOK'
    <3>1. run' = [run EXCEPT !.at = "saving", !.token = next]  BY <1>7 DEF Rotated
    <3> HIDE DEF next
    <3> QED BY <2>1, <2>2, <3>1, RefreshOK DEF RunTypeOK
  <2>4. RegTypeOK' /\ RecordsTypeOK'
    BY <1>7, <1>a DEF Rotated, RegTypeOK, RecordsTypeOK, records
  <2>5. honoured' \in [Roots -> Nat]
    <3>1. honoured' = [honoured EXCEPT ![family[run.cur]] = next]  BY <1>7 DEF Rotated
    <3> HIDE DEF next
    <3> QED BY <2>2, <3>1 DEF HistoryTypeOK
  <2>6. HistoryTypeOK'  BY <1>7, <2>5 DEF Rotated, HistoryTypeOK, history
  <2> QED BY <2>3, <2>4, <2>6
<1>8. CASE TokenFails
  <2>1. run.cur \in Cred  BY <1>8, AtOne DEF TokenFails, RunAt
  <2>2. RunTypeOK' /\ RegTypeOK'  BY <1>8, <2>1, ThrowsShape DEF TokenFails
  <2>3. RecordsTypeOK'  BY <1>8, <1>a DEF TokenFails, RecordsTypeOK, records
  <2>4. spent' \in [Limits -> Nat]
    BY <1>8, SpendShape DEF TokenFails, HistoryTypeOK, Limits
  <2>5. family[run.cur] \in Roots \cup {NoCred}  BY <2>1 DEF HistoryTypeOK
  <2>6. honoured' \in [Roots -> Nat]
    BY <1>8, <2>5 DEF TokenFails, HistoryTypeOK, RunTypeOK
  <2>7. adrift' \subseteq Roots \cup {NoCred}
    BY <1>8, <2>5 DEF TokenFails, HistoryTypeOK
  <2> QED BY <1>8, <2>2, <2>3, <2>4, <2>6, <2>7 DEF TokenFails, HistoryTypeOK
<1>9. CASE TokenSaved
  <2>1. run.cur \in Cred  BY <1>9, AtOne DEF TokenSaved, RunAt
  <2>2. RecordsTypeOK'  BY <1>9, <1>a, <2>1 DEF TokenSaved, RunTypeOK, RecordsTypeOK, issuers
  <2>3. HistoryTypeOK'  BY <1>9, <2>1 DEF TokenSaved, HistoryTypeOK, issuers
  <2>4. RunTypeOK' /\ RegTypeOK'
    <3>1. CASE Throws  BY <2>1, <3>1, ThrowsShape
    <3>2. CASE run' = [run EXCEPT !.at = "asking"] /\ UNCHANGED reg
      BY <2>1, <3>2, RefreshOK DEF RunTypeOK, RegTypeOK
    <3> QED BY <1>9, <3>1, <3>2 DEF TokenSaved
  <2> QED BY <2>2, <2>3, <2>4
<1>10. CASE ReissueFails
  <2>1. run.cur \in Cred  BY <1>10, AtOne DEF ReissueFails, RunAt
  <2>2. RunTypeOK' /\ RegTypeOK'  BY <1>10, <2>1, ThrowsShape DEF ReissueFails
  <2>3. RecordsTypeOK'  BY <1>10, <1>a DEF ReissueFails, RecordsTypeOK, records, issuers
  <2>4. HistoryTypeOK'
    BY <1>10, SpendShape DEF ReissueFails, HistoryTypeOK, issuers, history, Limits
  <2> QED BY <2>2, <2>3, <2>4
<1>11. ASSUME NEW n \in Fresh, Reissued(n) PROVE RunTypeOK' /\ Rest
  <2>1. run.cur \in Cred  BY <1>11, AtOne DEF Reissued, RunAt
  <2>2. MarkReplaced(reg, run.cur, n) \in RegShape
    BY <2>1, RegistryShape DEF RegTypeOK, RegShape
  <2>3. RunTypeOK' /\ RegTypeOK'  BY <1>11, <2>1, <2>2, DoneShape DEF Reissued
  <2>4. RecordsTypeOK'
    BY <1>11, <1>a DEF Reissued, RunTypeOK, RecordsTypeOK, records, issuers
  <2>5. HistoryTypeOK'
    BY <1>11, <2>1 DEF Reissued, HistoryTypeOK, issuers, Cred
  <2> QED BY <2>3, <2>4, <2>5
<1> QED
  BY <1>1, <1>2, <1>3, <1>4, <1>5, <1>6, <1>7, <1>8, <1>9, <1>10, <1>11 DEF RunStep

\* An acceptance goes on, or ends.
LEMMA GoOnShape ==
  ASSUME AcceptsTypeOK, NEW t \in Taps, NEW at \in {"none", "finding", "deleting"},
         NEW c \in Cred \cup {NoCred}, at = "none" \/ c # NoCred, GoOn(t, at, c)
  PROVE  AcceptsTypeOK'
<1> DEFINE next == IF at = "none" THEN NoAccept ELSE [accepts[t] EXCEPT !.at = at, !.old = c]
<1>1. next \in [at : {"none", "storing", "finding", "deleting"},
                new : Fresh \cup {NoCred}, old : Cred \cup {NoCred}]
  BY DEF AcceptsTypeOK, NoAccept
<1>2. next.at \in {"none", "finding", "deleting"} /\ (next.at # "none" => next.old # NoCred)
  BY DEF AcceptsTypeOK, NoAccept
<1>3. accepts' = [accepts EXCEPT ![t] = next]
  BY DEF GoOn, AcceptsTypeOK
<1> QED BY <1>1, <1>2, <1>3 DEF AcceptsTypeOK

\* A tap on Accept, and what it starts.
LEMMA AcceptTypes ==
  ASSUME RefreshTypeOK, NEW t \in Taps, AcceptStep(t) \/ \E n \in Fresh : AcceptTouched(t, n)
  PROVE  RefreshTypeOK'
<1> USE DEF RefreshTypeOK
<1>1. ASSUME NEW n \in Fresh, AcceptTouched(t, n) PROVE RefreshTypeOK'
  <2>1. AcceptsTypeOK'  BY <1>1, RefreshOK DEF AcceptTouched, AcceptsTypeOK, Cred
  <2>2. HistoryTypeOK'
    BY <1>1, SpendShape DEF AcceptTouched, KeepBesidesAccepts, HistoryTypeOK, issuers, history,
           Limits
  <2> QED BY <1>1, <2>1, <2>2
    DEF AcceptTouched, KeepBesidesAccepts, RunTypeOK, RegTypeOK, RecordsTypeOK, records, issuers
<1>2. CASE Stored(t)
  <2> DEFINE n == accepts[t].new
  <2>1. n \in Fresh  BY <1>2 DEF Stored, AcceptsTypeOK
  <2>2. AcceptsTypeOK'
    <3>1. CASE GoOn(t, "none", NoCred)  BY <3>1, GoOnShape
    <3>2. ASSUME NEW c \in OldOf(n), GoOn(t, "finding", c) PROVE AcceptsTypeOK'
      BY <3>2, GoOnShape, RefreshOK DEF OldOf
    <3> QED BY <1>2, <3>1, <3>2 DEF Stored
  <2>3. RecordsTypeOK'
    BY <1>2, <2>1 DEF Stored, KeepBesidesAccepts, RecordsTypeOK, records, issuers, Cred
  <2> QED BY <1>2, <2>2, <2>3
    DEF Stored, KeepBesidesAccepts, RunTypeOK, RegTypeOK, HistoryTypeOK, issuers, history
<1>3. CASE Found(t)
  <2> DEFINE c == accepts[t].old
  <2>1. c \in Cred  BY <1>3 DEF Found, AcceptsTypeOK
  <2>2. AcceptsTypeOK'  BY <1>3, <2>1, GoOnShape, RefreshOK DEF Found
  <2>3. AcceptReplacement(reg, c) \in RegShape  BY <2>1, RegistryShape DEF RegTypeOK, RegShape
  <2>4. RegTypeOK'  BY <1>3, <2>3 DEF Found, RegTypeOK, RegShape
  <2> QED BY <1>3, <2>2, <2>4
    DEF Found, KeepBesidesAccepts, RunTypeOK, RecordsTypeOK, HistoryTypeOK, records, issuers,
        history
<1>4. CASE Deleted(t)
  <2> DEFINE c == accepts[t].old
  <2>1. c \in Cred  BY <1>4 DEF Deleted, AcceptsTypeOK
  <2>2. AcceptsTypeOK'  BY <1>4, GoOnShape DEF Deleted
  <2>3. AcceptReplacement(reg, c) \in RegShape  BY <2>1, RegistryShape DEF RegTypeOK, RegShape
  <2>4. RegTypeOK'  BY <1>4, <2>3 DEF Deleted, RegTypeOK, RegShape
  <2>5. RecordsTypeOK'  BY <1>4 DEF Deleted, KeepBesidesAccepts, RecordsTypeOK, issuers
  <2> QED BY <1>4, <2>2, <2>4, <2>5
    DEF Deleted, KeepBesidesAccepts, RunTypeOK, HistoryTypeOK, issuers, history
<1> QED BY <1>1, <1>2, <1>3, <1>4 DEF AcceptStep

\* What else the person does with an offer and a card.
LEMMA PersonTypes ==
  ASSUME RefreshTypeOK,
         \/ \E n \in Fresh : DeclineOffer(n)
         \/ \E c \in Cred : CloseExpired(c) \/ Remove(c) \/ RemovalEnds(c)
  PROVE  RefreshTypeOK'
<1> USE DEF RefreshTypeOK
<1>5. ASSUME NEW n \in Fresh, DeclineOffer(n) PROVE RefreshTypeOK'
  <2> PICK c \in Cred : reg' = Decline(reg, c)  BY <1>5 DEF DeclineOffer, OldOf
  <2>1. RegTypeOK'  BY RegistryShape DEF RegTypeOK, RegShape
  <2> QED BY <1>5, <2>1
    DEF DeclineOffer, volatile, RunTypeOK, AcceptsTypeOK, RecordsTypeOK, HistoryTypeOK, records,
        issuers, history
<1>6. ASSUME NEW c \in Cred, CloseExpired(c) PROVE RefreshTypeOK'
  <2>1. [reg EXCEPT !.closed = @ \cup {c}] \in RegShape  BY DEF RegTypeOK, RegShape
  <2>2. RegTypeOK'  BY <1>6, <2>1, RegistryShape DEF CloseExpired, RegTypeOK, RegShape
  <2> QED BY <1>6, <2>2
    DEF CloseExpired, volatile, RunTypeOK, AcceptsTypeOK, RecordsTypeOK, HistoryTypeOK, records,
        issuers, history
<1>7. ASSUME NEW c \in Cred, Remove(c) PROVE RefreshTypeOK'
  <2>1. RegTypeOK'  BY <1>7, RegistryShape DEF Remove, RegTypeOK, RegShape
  <2> QED BY <1>7, <2>1
    DEF Remove, KeepBesidesRemoval, RunTypeOK, AcceptsTypeOK, RecordsTypeOK, HistoryTypeOK,
        issuers, history
<1>8. ASSUME NEW c \in Cred, RemovalEnds(c) PROVE RefreshTypeOK'
  <2>1. RecordsTypeOK'  BY <1>8 DEF RemovalEnds, KeepBesidesRemoval, RecordsTypeOK, issuers
  <2>2. HistoryTypeOK'  BY <1>8 DEF RemovalEnds, KeepBesidesRemoval, HistoryTypeOK, issuers
  <2> QED BY <1>8, <2>1, <2>2
    DEF RemovalEnds, KeepBesidesRemoval, RunTypeOK, AcceptsTypeOK, RegTypeOK
<1> QED BY <1>5, <1>6, <1>7, <1>8

\* What needs no run, acceptance or registry: the issuers, locks, kills, and a run that starts.
LEMMA RunOnceShape == ASSUME RunTypeOK, RunOnce PROVE RunTypeOK'
  BY DEF RunTypeOK, RunOnce, NoRun

LEMMA AppTypes ==
  ASSUME RefreshTypeOK,
         \/ ManualRun \/ Unlock \/ Lock \/ ClearAgent \/ Kill \/ \E c \in Cred : Flip(c)
  PROVE  RefreshTypeOK'
<1> USE DEF RefreshTypeOK
<1>1. CASE ManualRun
  <2>1. HistoryTypeOK'  BY <1>1, SpendShape DEF ManualRun, HistoryTypeOK, issuers, history, Limits
  <2> QED BY <1>1, <2>1, RunOnceShape
    DEF ManualRun, AcceptsTypeOK, RegTypeOK, RecordsTypeOK, records, issuers
<1>2. CASE Unlock
  <2>1. RunTypeOK'  BY <1>2, RunOnceShape DEF Unlock, RunTypeOK
  <2> QED BY <1>2, <2>1
    DEF Unlock, AcceptsTypeOK, RegTypeOK, RecordsTypeOK, HistoryTypeOK, records, issuers, history
<1>3. CASE Lock
  <2>1. HistoryTypeOK'  BY <1>3, SpendShape DEF Lock, HistoryTypeOK, issuers, history, Limits
  <2> QED BY <1>3, <2>1
    DEF Lock, RunTypeOK, AcceptsTypeOK, RegTypeOK, RecordsTypeOK, records, issuers
<1>4. CASE ClearAgent
  BY <1>4 DEF ClearAgent, RunTypeOK, AcceptsTypeOK, RegTypeOK, RecordsTypeOK, HistoryTypeOK,
         records, issuers, history
<1>5. CASE Kill
  <2>1. RunTypeOK'  BY <1>5 DEF Kill, NoRun, RunTypeOK
  <2>2. AcceptsTypeOK'  BY <1>5 DEF Kill, NoAccepts, NoAccept, AcceptsTypeOK
  <2>3. RecordsTypeOK'  BY <1>5 DEF Kill, Nothing, RecordsTypeOK, records
  <2>4. spent' \in [Limits -> Nat]  BY <1>5, SpendShape DEF Kill, HistoryTypeOK, Limits
  <2>5. honoured' \in [Roots -> Nat] /\ adrift' \subseteq Roots \cup {NoCred}
    <3>1. CASE run.at \in {"saving", "refreshing"}
      <4>1. run.cur \in Cred  BY <3>1, AtOne
      <4>2. family[run.cur] \in Roots \cup {NoCred}  BY <4>1 DEF HistoryTypeOK
      <4>3. adrift' \subseteq Roots \cup {NoCred}  BY <1>5, <4>2 DEF Kill, HistoryTypeOK
      <4>4. honoured' \in [Roots -> Nat]  BY <1>5, <4>2 DEF Kill, HistoryTypeOK
      <4> QED BY <4>3, <4>4
    <3>2. CASE run.at \notin {"saving", "refreshing"}
      BY <1>5, <3>2 DEF Kill, HistoryTypeOK
    <3> QED BY <3>1, <3>2
  <2>6. HistoryTypeOK'  BY <1>5, <2>4, <2>5 DEF Kill, HistoryTypeOK
  <2> QED BY <1>5, <2>1, <2>2, <2>3, <2>6 DEF Kill, RegTypeOK
<1>6. ASSUME NEW c \in Cred, Flip(c) PROVE RefreshTypeOK'
  <2>1. HistoryTypeOK'  BY <1>6, SpendShape DEF Flip, HistoryTypeOK, history, Limits
  <2>2. RecordsTypeOK'  BY <1>6 DEF Flip, RecordsTypeOK, volatile, records
  <2> QED BY <1>6, <2>1, <2>2 DEF Flip, volatile, RunTypeOK, AcceptsTypeOK, RegTypeOK
<1> QED BY <1>1, <1>2, <1>3, <1>4, <1>5, <1>6

\* Every step keeps the types.
LEMMA RefreshKeepsTypes == RefreshTypeOK /\ [RefreshNext]_refreshVars => RefreshTypeOK'
<1> SUFFICES ASSUME RefreshTypeOK, [RefreshNext]_refreshVars PROVE RefreshTypeOK'
  OBVIOUS
<1>1. CASE RunStep  BY <1>1, RunTypes
<1>2. CASE ManualRun \/ Unlock \/ Lock \/ ClearAgent \/ Kill \/ \E c \in Cred : Flip(c)
  BY <1>2, AppTypes
<1>3. ASSUME NEW t \in Taps, AcceptStep(t) \/ \E n \in Fresh : AcceptTouched(t, n)
      PROVE  RefreshTypeOK'
  BY <1>3, AcceptTypes
<1>4. CASE \/ \E n \in Fresh : DeclineOffer(n)
           \/ \E c \in Cred : CloseExpired(c) \/ Remove(c) \/ RemovalEnds(c)
  BY <1>4, PersonTypes
<1>5. CASE UNCHANGED refreshVars
  BY <1>5 DEF refreshVars, volatile, records, issuers, history, RefreshTypeOK, RunTypeOK,
         AcceptsTypeOK, RegTypeOK, RecordsTypeOK, HistoryTypeOK
<1> QED BY <1>1, <1>2, <1>3, <1>4, <1>5 DEF RefreshNext

-----------------------------------------------------------------------------
\* The types hold for any credentials, taps, faults, locks and kills: a run past its listing
\* stands at one credential, and an acceptance knows what it stores and what it replaces
\* (refreshOrchestrator.ts, useAcceptReplacement.ts).
THEOREM RefreshTypeCorrect == RefreshSpec => []RefreshTypeOK
  BY RefreshStarts, RefreshKeepsTypes, PTL DEF RefreshSpec

-----------------------------------------------------------------------------
(* The refresh: one replacement each.                                      *)

\* What was replaced is blocked; what a run stands at was not replaced yet.
ReplacedInv ==
  /\ RefreshTypeOK
  /\ \A c \in Cred : given[c] <= 1 /\ (given[c] > 0 => c \in reg.blocked)
  /\ run.cur \in Cred => given[run.cur] = 0

\* No operation of the registry unblocks a credential.
LEMMA StaysBlocked ==
  ASSUME NEW g \in RegShape, NEW c \in Cred
  PROVE  /\ g.blocked \subseteq MarkInvalid(g, c).blocked
         /\ g.blocked \subseteq ClearRefreshing(g, c).blocked
         /\ g.blocked \subseteq AcceptReplacement(g, c).blocked
         /\ g.blocked \subseteq Decline(g, c).blocked
         /\ g.blocked \subseteq RemoveFrom(g, c).blocked
         /\ \A n \in Fresh : g.blocked \cup {c} \subseteq MarkReplaced(g, c, n).blocked
<1> USE DEF RegShape
<1>1. g.blocked \subseteq MarkInvalid(g, c).blocked  BY DEF MarkInvalid
<1>2. g.blocked \subseteq ClearRefreshing(g, c).blocked  BY DEF ClearRefreshing
<1>3. g.blocked \subseteq AcceptReplacement(g, c).blocked  BY DEF AcceptReplacement
<1>4. g.blocked \subseteq Decline(g, c).blocked  BY DEF Decline
<1>5. g.blocked \subseteq RemoveFrom(g, c).blocked  BY DEF RemoveFrom
<1>6. \A n \in Fresh : g.blocked \cup {c} \subseteq MarkReplaced(g, c, n).blocked
  BY DEF MarkReplaced, MarkInvalid
<1> QED BY <1>1, <1>2, <1>3, <1>4, <1>5, <1>6

\* A step that fetches no replacement keeps the invariant when it unblocks nothing and a run
\* stays where it is or stands nowhere.
LEMMA ReplacedElsewhere ==
  ASSUME ReplacedInv, RefreshTypeOK', given' = given, reg.blocked \subseteq reg'.blocked,
         run'.cur \in {run.cur, NoCred}
  PROVE  ReplacedInv'
  BY RefreshOK DEF ReplacedInv

\* A run that is done with a credential, or throws.
LEMMA DoneBlocks ==
  ASSUME NEW g \in RegShape, run.cur \in Cred, Done(g)
  PROVE  g.blocked \subseteq reg'.blocked
  BY StaysBlocked DEF Done

LEMMA ThrowsBlocks ==
  ASSUME RegTypeOK, run.cur \in Cred, Throws
  PROVE  reg.blocked \subseteq reg'.blocked
<1>1. reg \in RegShape  BY DEF RegTypeOK, RegShape
<1>2. /\ MarkInvalid(reg, run.cur) \in RegShape
      /\ reg.blocked \subseteq MarkInvalid(reg, run.cur).blocked
  BY <1>1, RegistryShape, StaysBlocked
<1> QED BY <1>2, DoneBlocks DEF Throws

\* The steps of a run.
LEMMA RunReplaces == ASSUME ReplacedInv, RefreshTypeOK', RunStep PROVE ReplacedInv'
<1>1. RunTypeOK /\ RegTypeOK /\ reg \in RegShape
  BY DEF ReplacedInv, RefreshTypeOK, RegTypeOK, RegShape
<1>2. CASE Listed \/ RunEnds \/ Rotated \/ \E c \in Cred : Skip(c)
  <2>1. given' = given /\ reg' = reg
    BY <1>2 DEF Listed, RunEnds, Rotated, Skip, history
  <2>2. CASE Listed \/ RunEnds
    <3>1. ASSUME run' = [run EXCEPT !.at = "next", !.todo = stored, !.seen = tokens]
          PROVE  run'.cur = run.cur
      BY <1>1, <3>1 DEF RunTypeOK
    <3>2. ASSUME run' = NoRun PROVE run'.cur = NoCred
      BY <3>2 DEF NoRun
    <3>3. run'.cur \in {run.cur, NoCred}  BY <2>2, <3>1, <3>2 DEF Listed, RunEnds
    <3> QED BY <2>1, <3>3, ReplacedElsewhere
  <2>3. CASE Rotated
    <3> DEFINE k == honoured[family[run.cur]] + 1
    <3>1. run' = [run EXCEPT !.at = "saving", !.token = k]  BY <2>3 DEF Rotated
    <3> HIDE DEF k
    <3>2. run'.cur = run.cur  BY <1>1, <3>1 DEF RunTypeOK
    <3> QED BY <2>1, <3>2, ReplacedElsewhere
  <2>4. CASE \E c \in Cred : Skip(c)
    <3>1. run'.cur = run.cur  BY <1>1, <2>4 DEF Skip, RunTypeOK
    <3> QED BY <2>1, <3>1, ReplacedElsewhere
  <2> QED BY <1>2, <2>2, <2>3, <2>4
<1>3. ASSUME NEW c \in Cred, TakeUp(c) PROVE ReplacedInv'
  <2>1. c \notin reg.blocked  BY <1>3 DEF TakeUp, ShouldSkip
  <2>2. given[c] = 0
    BY <2>1 DEF ReplacedInv, RefreshTypeOK, HistoryTypeOK
  <2>3. run'.cur = c /\ given' = given /\ reg'.blocked = reg.blocked
    BY <1>1, <1>3 DEF TakeUp, history, RunTypeOK, RegTypeOK
  <2> QED BY <2>2, <2>3 DEF ReplacedInv
<1>4. ASSUME given' = given, run.cur \in Cred, Throws \/ Done(reg) PROVE ReplacedInv'
  <2>1. reg.blocked \subseteq reg'.blocked  BY <1>1, <1>4, ThrowsBlocks, DoneBlocks
  <2>2. run'.cur = NoCred  BY <1>1, <1>4, ThrowsShape, DoneShape
  <2> QED BY <1>4, <2>1, <2>2, ReplacedElsewhere
<1>5. ASSUME given' = given, UNCHANGED reg, run'.cur = run.cur PROVE ReplacedInv'
  BY <1>5, ReplacedElsewhere
<1>6. ASSUME NEW v \in {"valid", "invalid", "error"}, Verdict(v) PROVE ReplacedInv'
  <2>1. run.cur \in Cred /\ given' = given
    BY <1>1, <1>6, AtOne DEF Verdict, RunAt, history
  <2>2. CASE Throws  BY <1>4, <2>1, <2>2
  <2>3. CASE Done([reg EXCEPT !.expired = @ \ {run.cur}])
    <3> DEFINE g == [reg EXCEPT !.expired = @ \ {run.cur}]
    <3>1. g \in RegShape /\ g.blocked = reg.blocked  BY <1>1 DEF RegShape
    <3>2. reg.blocked \subseteq reg'.blocked  BY <2>1, <2>3, <3>1, DoneBlocks
    <3>3. run'.cur = NoCred  BY <1>1, <2>1, <2>3, <3>1, DoneShape
    <3> QED BY <2>1, <3>2, <3>3, ReplacedElsewhere
  <2>4. CASE /\ run' = [run EXCEPT !.at = IF v = "error" THEN "deferring" ELSE "marking"]
             /\ UNCHANGED reg
    BY <1>1, <1>5, <2>1, <2>4 DEF RunTypeOK
  <2> QED BY <1>6, <2>2, <2>3, <2>4 DEF Verdict
<1>7. CASE Marked
  <2>1. run.cur \in Cred /\ given' = given  BY <1>1, <1>7, AtOne DEF Marked, RunAt, history
  <2>2. CASE run' = [run EXCEPT !.at = "refreshing"] /\ UNCHANGED reg
    BY <1>1, <1>5, <2>1, <2>2 DEF RunTypeOK
  <2> QED BY <1>4, <1>7, <2>1, <2>2 DEF Marked
<1>8. CASE TokenFails \/ ReissueFails
  <2>1. run.cur \in Cred /\ given' = given /\ Throws
    BY <1>1, <1>8, AtOne DEF TokenFails, ReissueFails, RunAt, history
  <2> QED BY <1>4, <2>1
<1>9. CASE TokenSaved
  <2>1. run.cur \in Cred /\ given' = given  BY <1>1, <1>9, AtOne DEF TokenSaved, RunAt
  <2>2. CASE run' = [run EXCEPT !.at = "asking"] /\ UNCHANGED reg
    BY <1>1, <1>5, <2>1, <2>2 DEF RunTypeOK
  <2> QED BY <1>4, <1>9, <2>1, <2>2 DEF TokenSaved
<1>10. ASSUME NEW n \in Fresh, Reissued(n) PROVE ReplacedInv'
  <2> DEFINE c == run.cur
  <2>1. c \in Cred  BY <1>1, <1>10, AtOne DEF Reissued, RunAt
  <2>2. given[c] = 0 /\ given' = [given EXCEPT ![c] = @ + 1]
    BY <1>10, <2>1 DEF ReplacedInv, Reissued
  <2>3. MarkReplaced(reg, c, n) \in RegShape  BY <1>1, <2>1, RegistryShape
  <2>4. reg.blocked \cup {c} \subseteq MarkReplaced(reg, c, n).blocked
    BY <1>1, <2>1, StaysBlocked
  <2>5. Done(MarkReplaced(reg, c, n))  BY <1>10 DEF Reissued
  <2>6. MarkReplaced(reg, c, n).blocked \subseteq reg'.blocked
    BY <2>1, <2>3, <2>5, DoneBlocks
  <2>7. run'.cur = NoCred  BY <1>1, <2>1, <2>3, <2>5, DoneShape
  <2>8. given \in [Cred -> Nat]  BY DEF ReplacedInv, RefreshTypeOK, HistoryTypeOK
  <2>9. \A d \in Cred : given'[d] <= 1 /\ (given'[d] > 0 => d \in reg'.blocked)
    <3> HIDE DEF c
    <3> QED BY <2>1, <2>2, <2>4, <2>6, <2>8 DEF ReplacedInv
  <2> QED BY <2>7, <2>9, RefreshOK DEF ReplacedInv
<1> QED BY <1>2, <1>3, <1>6, <1>7, <1>8, <1>9, <1>10 DEF RunStep

\* Every step keeps one replacement each.
LEMMA ReplacedStep == ReplacedInv /\ [RefreshNext]_refreshVars => ReplacedInv'
<1> SUFFICES ASSUME ReplacedInv, [RefreshNext]_refreshVars PROVE ReplacedInv'
  OBVIOUS
<1>1. RefreshTypeOK /\ RefreshTypeOK'  BY RefreshKeepsTypes DEF ReplacedInv
<1>2. reg \in RegShape  BY <1>1 DEF RefreshTypeOK, RegTypeOK, RegShape
<1>3. CASE RunStep  BY <1>1, <1>3, RunReplaces
<1>4. ASSUME given' = given, reg.blocked \subseteq reg'.blocked, run'.cur \in {run.cur, NoCred}
      PROVE  ReplacedInv'
  BY <1>1, <1>4, ReplacedElsewhere
<1>5. CASE Lock \/ ClearAgent \/ \E c \in Cred : Flip(c)
  BY <1>4, <1>5 DEF Lock, ClearAgent, Flip, volatile, history
<1>6. CASE ManualRun \/ Unlock
  <2>1. run'.cur \in {run.cur, NoCred}  BY <1>6 DEF ManualRun, Unlock, RunOnce, NoRun
  <2>2. given' = given /\ reg' = reg  BY <1>6 DEF ManualRun, Unlock, history
  <2> QED BY <1>4, <2>1, <2>2
<1>7. CASE Kill  BY <1>4, <1>7 DEF Kill, NoRun
<1>8. ASSUME NEW t \in Taps, AcceptStep(t) \/ \E n \in Fresh : AcceptTouched(t, n)
      PROVE  ReplacedInv'
  <2>1. run' = run /\ given' = given
    BY <1>8 DEF AcceptStep, Stored, Found, Deleted, AcceptTouched, KeepBesidesAccepts, history
  <2>2. reg' = reg \/ \E c \in Cred : reg' = AcceptReplacement(reg, c)
    BY <1>1, <1>8
    DEF AcceptStep, Stored, Found, Deleted, AcceptTouched, RefreshTypeOK, AcceptsTypeOK
  <2>3. reg.blocked \subseteq reg'.blocked  BY <1>2, <2>2, StaysBlocked
  <2> QED BY <1>4, <2>1, <2>3
<1>9. ASSUME NEW n \in Fresh, DeclineOffer(n) PROVE ReplacedInv'
  <2>1. PICK c \in Cred : reg' = Decline(reg, c)  BY <1>9 DEF DeclineOffer, OldOf
  <2>2. reg.blocked \subseteq reg'.blocked  BY <1>2, <2>1, StaysBlocked
  <2> QED BY <1>4, <1>9, <2>2 DEF DeclineOffer, volatile, history
<1>10. ASSUME NEW c \in Cred, CloseExpired(c) PROVE ReplacedInv'
  <2> DEFINE g == [reg EXCEPT !.closed = @ \cup {c}]
  <2>1. g \in RegShape /\ g.blocked = reg.blocked  BY <1>2 DEF RegShape
  <2>2. reg' = Decline(g, c)  BY <1>10 DEF CloseExpired
  <2> HIDE DEF g
  <2>3. reg.blocked \subseteq reg'.blocked  BY <2>1, <2>2, StaysBlocked
  <2> QED BY <1>4, <1>10, <2>3 DEF CloseExpired, volatile, history
<1>11. ASSUME NEW c \in Cred, Remove(c) \/ RemovalEnds(c) PROVE ReplacedInv'
  <2>1. reg' = reg \/ reg' = RemoveFrom(reg, c)  BY <1>11 DEF Remove, RemovalEnds
  <2>2. reg.blocked \subseteq reg'.blocked  BY <1>2, <2>1, StaysBlocked
  <2> QED BY <1>4, <1>11, <2>2 DEF Remove, RemovalEnds, KeepBesidesRemoval, history
<1>12. CASE UNCHANGED refreshVars
  BY <1>4, <1>12 DEF refreshVars, volatile, history
<1> QED BY <1>3, <1>5, <1>6, <1>7, <1>8, <1>9, <1>10, <1>11, <1>12 DEF RefreshNext

\* A credential is replaced once, whatever is killed, locked, declined or tapped twice: the
\* block a replacement leaves is never lifted (registry.ts' blocked ids).
THEOREM ReplacedOnce == RefreshSpec => []OneReplacementEach
<1>1. RefreshInit => ReplacedInv
  BY RefreshStarts, RefreshOK DEF RefreshInit, ReplacedInv, NoRun
<1>2. ReplacedInv => OneReplacementEach
  BY DEF ReplacedInv, OneReplacementEach
<1> QED BY <1>1, <1>2, ReplacedStep, PTL DEF RefreshSpec

-----------------------------------------------------------------------------
(* The refresh: where credentials come from.                               *)

\* An acceptance that stored the replacement and has the old record to remove.
Midway(t) == accepts[t].at \in {"finding", "deleting"}

\* Every credential held, or that a run or an acceptance knows of, is of a family; what is
\* queued or being swapped was replaced; one member of a family was not replaced yet.
KnownInv ==
  /\ ReplacedInv
  /\ \A c \in stored \cup run.todo : family[c] \in Roots
  /\ run.cur \in Cred => family[run.cur] \in Roots /\ run.cur \notin run.todo
  /\ \A c \in Cred : given[c] > 0 => family[c] \in Roots
  /\ \A c \in Cred : reg.replacement[c] # NoCred =>
       given[c] > 0 /\ family[c] \in Roots /\ family[reg.replacement[c]] = family[c]
  /\ \A t \in Taps : accepts[t].at # "none" =>
       accepts[t].new \in Fresh /\ family[accepts[t].new] \in Roots
  /\ \A t \in Taps : Midway(t) => given[accepts[t].old] > 0
  /\ \A c, d \in Cred :
       given[c] = 0 /\ given[d] = 0 /\ family[c] \in Roots /\ family[c] = family[d] => c = d

\* What the registry's operations do to the replacements.
LEMMA ReplacementAfter ==
  ASSUME NEW g \in RegShape, NEW c \in Cred
  PROVE  /\ MarkInvalid(g, c).replacement = g.replacement
         /\ ClearRefreshing(g, c).replacement = g.replacement
         /\ RemoveFrom(g, c).replacement = g.replacement
         /\ \A d \in Cred : AcceptReplacement(g, c).replacement[d] \in {g.replacement[d], NoCred}
         /\ \A d \in Cred : Decline(g, c).replacement[d] \in {g.replacement[d], NoCred}
         /\ \A n \in Fresh :
              MarkReplaced(g, c, n).replacement = [g.replacement EXCEPT ![c] = n]
<1> USE DEF RegShape
<1>1. MarkInvalid(g, c).replacement = g.replacement  BY DEF MarkInvalid
<1>2. ClearRefreshing(g, c).replacement = g.replacement  BY DEF ClearRefreshing
<1>3. RemoveFrom(g, c).replacement = g.replacement  BY DEF RemoveFrom
<1>4. \A d \in Cred : AcceptReplacement(g, c).replacement[d] \in {g.replacement[d], NoCred}
  BY DEF AcceptReplacement
<1>5. \A d \in Cred : Decline(g, c).replacement[d] \in {g.replacement[d], NoCred}
  BY DEF Decline
<1>6. \A n \in Fresh : MarkReplaced(g, c, n).replacement = [g.replacement EXCEPT ![c] = n]
  BY DEF MarkReplaced, MarkInvalid
<1> QED BY <1>1, <1>2, <1>3, <1>4, <1>5, <1>6

\* A run is done with a credential, or throws: where it goes, and what the registry queues.
LEMMA DoneEffect ==
  ASSUME RunTypeOK, NEW g \in RegShape, run.cur \in Cred, Done(g)
  PROVE  /\ reg'.replacement = g.replacement
         /\ run' = [run EXCEPT !.at = "next", !.cur = NoCred, !.token = 0]
<1>1. reg' = ClearRefreshing(g, run.cur) /\ run' = [run EXCEPT !.at = "next", !.cur = NoCred, !.token = 0]
  BY DEF Done
<1> QED BY <1>1, ReplacementAfter

LEMMA ThrowsEffect ==
  ASSUME RunTypeOK, RegTypeOK, run.cur \in Cred, Throws
  PROVE  /\ reg'.replacement = reg.replacement
         /\ run' = [run EXCEPT !.at = "next", !.cur = NoCred, !.token = 0]
<1>1. reg \in RegShape  BY DEF RegTypeOK, RegShape
<1>2. /\ MarkInvalid(reg, run.cur) \in RegShape
      /\ MarkInvalid(reg, run.cur).replacement = reg.replacement
  BY <1>1, RegistryShape, ReplacementAfter
<1> QED BY <1>2, DoneEffect DEF Throws

\* A step of a run that fetches no replacement: what it leaves alone, and what it goes on with.
RunGoesOn ==
  /\ UNCHANGED <<stored, issued, accepts, family, given, removed>>
  /\ reg'.replacement = reg.replacement
  /\ \/ run'.cur = run.cur /\ run'.todo \subseteq run.todo
     \/ run'.cur = NoCred /\ run'.todo = run.todo
     \/ run'.cur = NoCred /\ run'.todo \subseteq stored
     \/ run'.cur \in run.todo /\ run'.todo = run.todo \ {run'.cur}

LEMMA RunEffect ==
  ASSUME RefreshTypeOK, RunStep, \A n \in Fresh : ~Reissued(n)
  PROVE  RunGoesOn
<1>1. RunTypeOK /\ RegTypeOK /\ reg \in RegShape
  BY DEF RefreshTypeOK, RegTypeOK, RegShape
<1>2. UNCHANGED <<stored, issued, accepts, family, given, removed>>
  BY DEF RunStep, Listed, RunEnds, Skip, TakeUp, Verdict, Marked, Rotated, TokenFails,
         TokenSaved, ReissueFails, KeepBesidesRun, records, history
<1>3. ASSUME run.cur \in Cred, Throws \/ Done(reg) PROVE RunGoesOn
  <2>1. /\ reg'.replacement = reg.replacement
        /\ run' = [run EXCEPT !.at = "next", !.cur = NoCred, !.token = 0]
    BY <1>1, <1>3, DoneEffect, ThrowsEffect
  <2>2. run'.cur = NoCred /\ run'.todo = run.todo  BY <1>1, <2>1 DEF RunTypeOK
  <2> QED BY <1>2, <2>1, <2>2 DEF RunGoesOn
<1>4. ASSUME NEW at, run' = [run EXCEPT !.at = at], UNCHANGED reg PROVE RunGoesOn
  <2>1. run'.cur = run.cur /\ run'.todo = run.todo  BY <1>1, <1>4 DEF RunTypeOK
  <2> QED BY <1>2, <1>4, <2>1 DEF RunGoesOn
<1>5. CASE Listed
  <2>1. CASE run' = [run EXCEPT !.at = "next", !.todo = stored, !.seen = tokens]
    <3>1. run'.todo = stored /\ run'.cur = run.cur  BY <1>1, <2>1 DEF RunTypeOK
    <3>2. run.cur = NoCred  BY <1>1, <1>5 DEF RunTypeOK, Listed, RunAt
    <3> QED BY <1>2, <1>5, <3>1, <3>2 DEF RunGoesOn, Listed
  <2>2. CASE run' = NoRun
    <3>1. run'.todo = {} /\ run'.cur = NoCred  BY <2>2 DEF NoRun
    <3> QED BY <1>2, <1>5, <3>1 DEF RunGoesOn, Listed
  <2> QED BY <1>5, <2>1, <2>2 DEF Listed
<1>6. CASE RunEnds
  <2>1. run'.todo = {} /\ run'.cur = NoCred  BY <1>6 DEF NoRun, RunEnds
  <2> QED BY <1>2, <1>6, <2>1 DEF RunGoesOn, RunEnds
<1>7. ASSUME NEW c \in Cred, Skip(c) PROVE RunGoesOn
  <2>1. run'.cur = run.cur /\ run'.todo = run.todo \ {c}  BY <1>1, <1>7 DEF RunTypeOK, Skip
  <2> QED BY <1>2, <1>7, <2>1 DEF RunGoesOn, Skip
<1>8. ASSUME NEW c \in Cred, TakeUp(c) PROVE RunGoesOn
  <2>1. run'.cur = c /\ run'.todo = run.todo \ {c} /\ c \in run.todo
    BY <1>1, <1>8 DEF RunTypeOK, TakeUp
  <2>2. reg'.replacement = reg.replacement  BY <1>1, <1>8 DEF RegShape, TakeUp
  <2> QED BY <1>2, <2>1, <2>2 DEF RunGoesOn
<1>9. ASSUME NEW v \in {"valid", "invalid", "error"}, Verdict(v) PROVE RunGoesOn
  <2>1. run.cur \in Cred  BY <1>1, <1>9, AtOne DEF Verdict, RunAt
  <2>2. CASE Throws  BY <1>3, <2>1, <2>2
  <2>3. CASE Done([reg EXCEPT !.expired = @ \ {run.cur}])
    <3> DEFINE g == [reg EXCEPT !.expired = @ \ {run.cur}]
    <3>1. g \in RegShape /\ g.replacement = reg.replacement  BY <1>1 DEF RegShape
    <3>2. /\ reg'.replacement = reg.replacement
          /\ run' = [run EXCEPT !.at = "next", !.cur = NoCred, !.token = 0]
      BY <1>1, <2>1, <2>3, <3>1, DoneEffect
    <3>3. run'.cur = NoCred /\ run'.todo = run.todo  BY <1>1, <3>2 DEF RunTypeOK
    <3> QED BY <1>2, <3>2, <3>3 DEF RunGoesOn
  <2>4. CASE /\ run' = [run EXCEPT !.at = IF v = "error" THEN "deferring" ELSE "marking"]
             /\ UNCHANGED reg
    BY <1>4, <2>4
  <2> QED BY <1>9, <2>2, <2>3, <2>4 DEF Verdict
<1>10. CASE Marked
  <2>1. run.cur \in Cred  BY <1>1, <1>10, AtOne DEF Marked, RunAt
  <2>2. CASE run' = [run EXCEPT !.at = "refreshing"] /\ UNCHANGED reg  BY <1>4, <2>2
  <2> QED BY <1>3, <1>10, <2>1, <2>2 DEF Marked
<1>11. CASE Rotated
  <2> DEFINE k == honoured[family[run.cur]] + 1
  <2>1. run' = [run EXCEPT !.at = "saving", !.token = k]  BY <1>11 DEF Rotated
  <2> HIDE DEF k
  <2>2. run'.cur = run.cur /\ run'.todo = run.todo  BY <1>1, <2>1 DEF RunTypeOK
  <2> QED BY <1>2, <1>11, <2>2 DEF RunGoesOn, Rotated
<1>12. CASE TokenFails \/ ReissueFails
  <2>1. run.cur \in Cred /\ Throws
    BY <1>1, <1>12, AtOne DEF TokenFails, ReissueFails, RunAt
  <2> QED BY <1>3, <2>1
<1>13. CASE TokenSaved
  <2>1. run.cur \in Cred  BY <1>1, <1>13, AtOne DEF TokenSaved, RunAt
  <2>2. CASE run' = [run EXCEPT !.at = "asking"] /\ UNCHANGED reg  BY <1>4, <2>2
  <2> QED BY <1>3, <1>13, <2>1, <2>2 DEF TokenSaved
<1> QED BY <1>5, <1>6, <1>7, <1>8, <1>9, <1>10, <1>11, <1>12, <1>13 DEF RunStep

\* A step that fetches no replacement keeps what is known, when what it starts to hold, to go
\* through or to swap was known or replaced before.
LEMMA KnownElsewhere ==
  ASSUME KnownInv, ReplacedInv', UNCHANGED <<family, given>>,
         \A c \in Cred : reg'.replacement[c] \in {reg.replacement[c], NoCred},
         \A c \in stored' : c \in stored \/ family[c] \in Roots,
         \A c \in run'.todo : c \in run.todo \cup stored,
         run'.cur \in Cred => run'.cur \in {run.cur} \cup run.todo /\ run'.cur \notin run'.todo,
         \A t \in Taps : accepts'[t].at # "none" =>
           accepts'[t].new \in Fresh /\ family[accepts'[t].new] \in Roots,
         \A t \in Taps : Midway(t)' => given[accepts'[t].old] > 0
  PROVE  KnownInv'
<1>1. \A c \in stored' \cup run'.todo : family[c] \in Roots  BY DEF KnownInv
<1>2. run'.cur \in Cred => family[run'.cur] \in Roots /\ run'.cur \notin run'.todo
  BY DEF KnownInv
<1>3. \A c \in Cred : reg'.replacement[c] # NoCred =>
        given[c] > 0 /\ family[c] \in Roots /\ family[reg'.replacement[c]] = family[c]
  BY DEF KnownInv
<1> QED BY <1>1, <1>2, <1>3 DEF KnownInv, Midway

\* A step of a run that fetches no replacement.
LEMMA KnownGoesOn == ASSUME KnownInv, ReplacedInv', RunGoesOn PROVE KnownInv'
<1>1. UNCHANGED <<stored, accepts, family, given>> /\ reg'.replacement = reg.replacement
  BY DEF RunGoesOn
<1>2. \A c \in run'.todo : c \in run.todo \cup stored  BY DEF RunGoesOn
<1>3. run'.cur \in Cred => run'.cur \in {run.cur} \cup run.todo /\ run'.cur \notin run'.todo
  BY RefreshOK DEF RunGoesOn, KnownInv
<1>4. \A t \in Taps : /\ accepts'[t].at # "none" =>
                           accepts'[t].new \in Fresh /\ family[accepts'[t].new] \in Roots
                      /\ Midway(t)' => given[accepts'[t].old] > 0
  BY <1>1 DEF KnownInv, Midway
<1> QED BY <1>1, <1>2, <1>3, <1>4, KnownElsewhere

\* What a replacement that is fetched changes: the first one of a credential that is not
\* known anywhere becomes the one of its family that was not replaced.
LEMMA ReissueEffect ==
  ASSUME KnownInv, NEW n \in Fresh, Reissued(n)
  PROVE  LET c == run.cur IN
         /\ c \in Cred /\ n \in Cred /\ n # c /\ given[c] = 0 /\ family[c] \in Roots
         /\ family[n] = NoCred /\ NoCred \notin Roots
         /\ given' = [given EXCEPT ![c] = 1] /\ family' = [family EXCEPT ![n] = family[c]]
         /\ reg'.replacement = [reg.replacement EXCEPT ![c] = n]
         /\ run' = [run EXCEPT !.at = "next", !.cur = NoCred, !.token = 0]
         /\ issued' = [issued EXCEPT ![n] = run.token]
         /\ UNCHANGED <<stored, tokens, accepts, honoured, adrift, removed>>
<1> DEFINE c == run.cur
<1>1. RunTypeOK /\ RegTypeOK /\ reg \in RegShape /\ given \in [Cred -> Nat]
  BY DEF KnownInv, ReplacedInv, RefreshTypeOK, RegTypeOK, RegShape, HistoryTypeOK
<1>2. c \in Cred /\ n \in Cred  BY <1>1, AtOne DEF Reissued, RunAt, Cred
<1>3. given[c] = 0 /\ family[c] \in Roots  BY <1>2 DEF KnownInv, ReplacedInv
<1>4. NoCred \notin Roots  BY RefreshOK DEF Cred
<1>5. family[n] = NoCred
  <2>1. n \in Unused  BY DEF Reissued, NewId
  <2> QED BY <2>1 DEF Unused
<1>6. given' = [given EXCEPT ![c] = 1]
  BY <1>1, <1>2, <1>3 DEF Reissued
<1>7. reg'.replacement = [reg.replacement EXCEPT ![c] = n]
      /\ run' = [run EXCEPT !.at = "next", !.cur = NoCred, !.token = 0]
  <2>1. MarkReplaced(reg, c, n) \in RegShape
    BY <1>1, <1>2, RegistryShape
  <2>2. MarkReplaced(reg, c, n).replacement = [reg.replacement EXCEPT ![c] = n]
    BY <1>1, <1>2, ReplacementAfter
  <2>3. Done(MarkReplaced(reg, c, n))  BY DEF Reissued
  <2> QED BY <1>1, <1>2, <2>1, <2>2, <2>3, DoneEffect
<1>8. /\ issued' = [issued EXCEPT ![n] = run.token] /\ family' = [family EXCEPT ![n] = family[c]]
      /\ UNCHANGED <<stored, tokens, accepts, honoured, adrift, removed>>
  BY DEF Reissued, KeepBesidesRun, records, issuers
<1> QED BY <1>2, <1>3, <1>4, <1>5, <1>6, <1>7, <1>8

LEMMA KnownMints ==
  ASSUME KnownInv, ReplacedInv', NEW n \in Fresh, Reissued(n)
  PROVE  KnownInv'
<1> DEFINE c == run.cur
<1>1. /\ c \in Cred /\ n \in Cred /\ n # c /\ given[c] = 0 /\ family[c] \in Roots
      /\ family[n] = NoCred /\ NoCred \notin Roots
      /\ given' = [given EXCEPT ![c] = 1] /\ family' = [family EXCEPT ![n] = family[c]]
      /\ reg'.replacement = [reg.replacement EXCEPT ![c] = n]
      /\ run' = [run EXCEPT !.at = "next", !.cur = NoCred, !.token = 0]
      /\ UNCHANGED <<stored, accepts>>
  BY ReissueEffect
<1> HIDE DEF c
<1>2. /\ run \in [at : {"idle", "listing", "next", "checking", "marking", "deferring",
                   "refreshing", "saving", "asking"},
              cur : Cred \cup {NoCred}, todo : SUBSET Cred, seen : [Cred -> Nat], token : Nat]
      /\ given \in [Cred -> Nat] /\ family \in [Cred -> Roots \cup {NoCred}]
      /\ reg.replacement \in [Cred -> Fresh \cup {NoCred}]
  BY DEF KnownInv, ReplacedInv, RefreshTypeOK, RunTypeOK, HistoryTypeOK, RegTypeOK
<1>3. run'.cur = NoCred /\ run'.todo = run.todo  BY <1>1, <1>2
<1>4. \A d \in Cred : family[d] \in Roots => family'[d] = family[d]  BY <1>1, <1>2
<1>5. \A d \in Cred : given[d] > 0 => given'[d] > 0  BY <1>1, <1>2
<1>6. \A d \in stored' \cup run'.todo : family'[d] \in Roots
  <2>1. stored \cup run.todo \subseteq Cred
    BY DEF KnownInv, ReplacedInv, RefreshTypeOK, RunTypeOK, RecordsTypeOK
  <2> QED BY <1>1, <1>3, <1>4, <2>1 DEF KnownInv
<1>7. \A d \in Cred : reg'.replacement[d] # NoCred =>
        given'[d] > 0 /\ family'[d] \in Roots /\ family'[reg'.replacement[d]] = family'[d]
  <2> TAKE d \in Cred
  <2>1. CASE d = c
    BY <1>1, <1>2, <2>1
  <2>2. CASE d # c
    <3>1. reg'.replacement[d] = reg.replacement[d]  BY <1>1, <1>2, <2>2
    <3>2. reg.replacement[d] # NoCred =>
            given[d] > 0 /\ family[d] \in Roots /\ family[reg.replacement[d]] = family[d]
      BY DEF KnownInv
    <3>3. reg.replacement[d] # NoCred => reg.replacement[d] \in Cred  BY <1>2 DEF Cred
    <3> QED BY <1>4, <1>5, <3>1, <3>2, <3>3
  <2> QED BY <2>1, <2>2
<1>8. \A t \in Taps : accepts'[t].at # "none" =>
        accepts'[t].new \in Fresh /\ family'[accepts'[t].new] \in Roots
  BY <1>1, <1>4 DEF KnownInv, Cred
<1>9. \A t \in Taps : Midway(t)' => given'[accepts'[t].old] > 0
  <2> TAKE t \in Taps
  <2>1. Midway(t) => accepts[t].old \in Cred
    BY DEF KnownInv, ReplacedInv, RefreshTypeOK, AcceptsTypeOK, Midway
  <2> QED BY <1>1, <1>5, <2>1 DEF KnownInv, Midway
<1>10. \A d, e \in Cred :
         given'[d] = 0 /\ given'[e] = 0 /\ family'[d] \in Roots /\ family'[d] = family'[e] => d = e
  <2> SUFFICES ASSUME NEW d \in Cred, NEW e \in Cred, given'[d] = 0, given'[e] = 0,
                      family'[d] \in Roots, family'[d] = family'[e]
               PROVE  d = e
    OBVIOUS
  <2>1. \A x, y \in Cred :
          given[x] = 0 /\ given[y] = 0 /\ family[x] \in Roots /\ family[x] = family[y] => x = y
    BY DEF KnownInv
  <2>2. d # c /\ e # c /\ given[d] = 0 /\ given[e] = 0  BY <1>1, <1>2
  <2>3. (d # n => family'[d] = family[d]) /\ (e # n => family'[e] = family[e])
        /\ family'[n] = family[c]
    BY <1>1, <1>2
  <2> QED BY <1>1, <2>1, <2>2, <2>3
<1>11. \A d \in Cred : given'[d] > 0 => family'[d] \in Roots
  BY <1>1, <1>2 DEF KnownInv
<1> QED BY <1>1, <1>3, <1>6, <1>7, <1>8, <1>9, <1>10, <1>11, RefreshOK DEF KnownInv

\* A tap on Accept, or a step of an acceptance: what it begins to swap was queued for a record
\* it holds by then, what it stores was fetched, and what leaves the wallet was being swapped.
SwapGoesOn ==
  /\ UNCHANGED <<run, issued, family, given, honoured, adrift, removed>>
  /\ \A c \in Cred : reg'.replacement[c] \in {reg.replacement[c], NoCred}
  /\ \A u \in Taps : accepts'[u].at # "none" =>
       accepts'[u].new \in Fresh /\ family[accepts'[u].new] \in Roots
  /\ \A u \in Taps : Midway(u)' =>
       \/ Midway(u) /\ accepts'[u].old = accepts[u].old
       \/ accepts'[u].old \in Cred /\ reg.replacement[accepts'[u].old] \in Fresh \cap stored'
  /\ \A u \in Taps : accepts'[u].at = "storing" =>
       issued[accepts'[u].new] > 0 \/ accepts'[u] = accepts[u]
  /\ \A c \in stored' \ stored : \E u \in Taps :
       accepts[u].at = "storing" /\ c = accepts[u].new /\ tokens'[c] = issued[c]
  /\ \A c \in stored \ stored' : \E u \in Taps : Midway(u) /\ c = accepts[u].old
  /\ \A c \in stored : tokens'[c] = tokens[c]

\* Where an acceptance goes moves no other one.
LEMMA GoOnEffect ==
  ASSUME AcceptsTypeOK, NEW t \in Taps, NEW at \in {"none", "finding", "deleting"},
         NEW c \in Cred \cup {NoCred}, GoOn(t, at, c)
  PROVE  /\ \A u \in Taps : u # t => accepts'[u] = accepts[u]
         /\ accepts'[t].at = at
         /\ at # "none" => accepts'[t].new = accepts[t].new /\ accepts'[t].old = c
<1>1. CASE at = "none"
  <2>1. accepts' = [accepts EXCEPT ![t] = NoAccept]  BY <1>1 DEF GoOn
  <2> QED BY <1>1, <2>1 DEF AcceptsTypeOK, NoAccept
<1>2. CASE at # "none"
  <2>1. accepts' = [accepts EXCEPT ![t] = [accepts[t] EXCEPT !.at = at, !.old = c]]
    BY <1>2 DEF GoOn, AcceptsTypeOK
  <2> QED BY <1>2, <2>1 DEF AcceptsTypeOK
<1> QED BY <1>1, <1>2

LEMMA SwapEffect ==
  ASSUME KnownInv, NEW t \in Taps, AcceptStep(t) \/ \E n \in Fresh : AcceptTouched(t, n)
  PROVE  SwapGoesOn
<1>1. AcceptsTypeOK /\ reg \in RegShape /\ reg.replacement \in [Cred -> Fresh \cup {NoCred}]
      /\ stored \subseteq Cred /\ tokens \in [Cred -> Nat]
  BY DEF KnownInv, ReplacedInv, RefreshTypeOK, RecordsTypeOK, RegTypeOK, RegShape
<1>2. UNCHANGED <<run, issued, family, given, honoured, adrift, removed>>
  BY DEF AcceptStep, Stored, Found, Deleted, AcceptTouched, KeepBesidesAccepts, history, issuers
<1>3. \A u \in Taps : accepts[u].at # "none" => accepts[u].new \in Fresh /\ family[accepts[u].new] \in Roots
  BY DEF KnownInv
<1>4. Fresh \subseteq Cred /\ NoCred \notin Fresh
  BY RefreshOK DEF Cred
<1>5. ASSUME NEW n \in Fresh, AcceptTouched(t, n) PROVE SwapGoesOn
  <2>1. /\ accepts' = [accepts EXCEPT ![t] = [at |-> "storing", new |-> n, old |-> NoCred]]
        /\ UNCHANGED <<stored, tokens, reg>> /\ issued[n] > 0
    BY <1>5 DEF AcceptTouched, CanOpen, records
  <2>2. family[n] \in Roots
    <3> PICK c \in Cred : reg.replacement[c] = n  BY <1>5 DEF AcceptTouched, CanOpen
    <3> QED BY <1>4 DEF KnownInv
  <2>3. \A u \in Taps : u # t => accepts'[u] = accepts[u]  BY <1>1, <2>1 DEF AcceptsTypeOK
  <2>4. accepts'[t].at = "storing" /\ accepts'[t].new = n  BY <1>1, <2>1 DEF AcceptsTypeOK
  <2> QED BY <1>2, <1>3, <2>1, <2>2, <2>3, <2>4 DEF SwapGoesOn, Midway
<1>6. CASE Stored(t)
  <2> DEFINE n == accepts[t].new
  <2>1. n \in Fresh /\ family[n] \in Roots /\ accepts[t].at = "storing" /\ UNCHANGED reg
    BY <1>3, <1>6 DEF Stored
  <2>2. CASE GoOn(t, "none", NoCred) /\ UNCHANGED records
    <3>1. /\ \A u \in Taps : u # t => accepts'[u] = accepts[u]
          /\ accepts'[t].at = "none" /\ UNCHANGED <<stored, tokens>>
      BY <1>1, <2>2, GoOnEffect DEF records
    <3> QED BY <1>2, <1>3, <2>1, <3>1 DEF SwapGoesOn, Midway
  <2>3. CASE n \notin stored /\ stored' = stored \cup {n} /\ tokens' = [tokens EXCEPT ![n] = issued[n]]
    <3>1. n \in Cred /\ n \in stored' /\ tokens'[n] = issued[n]
          /\ \A c \in stored : tokens'[c] = tokens[c]
      BY <1>1, <1>4, <2>1, <2>3
    <3>2. \A c \in stored' \ stored : \E u \in Taps :
            accepts[u].at = "storing" /\ c = accepts[u].new /\ tokens'[c] = issued[c]
      BY <2>1, <2>3, <3>1
    <3>3. stored \subseteq stored'  BY <2>3
    <3>4. CASE GoOn(t, "none", NoCred)
      <4>1. /\ \A u \in Taps : u # t => accepts'[u] = accepts[u]
            /\ accepts'[t].at = "none"
        BY <1>1, <3>4, GoOnEffect
      <4> HIDE DEF n
      <4> QED BY <1>2, <1>3, <2>1, <3>1, <3>2, <3>3, <4>1 DEF SwapGoesOn, Midway
    <3>5. ASSUME NEW c \in OldOf(n), GoOn(t, "finding", c) PROVE SwapGoesOn
      <4>1. c \in Cred /\ reg.replacement[c] = n  BY <3>5 DEF OldOf
      <4>2. /\ \A u \in Taps : u # t => accepts'[u] = accepts[u]
            /\ accepts'[t].at = "finding" /\ accepts'[t].new = n /\ accepts'[t].old = c
        BY <1>1, <3>5, <4>1, GoOnEffect
      <4> HIDE DEF n
      <4> QED BY <1>2, <1>3, <2>1, <3>1, <3>2, <3>3, <4>1, <4>2 DEF SwapGoesOn, Midway
    <3> QED BY <1>6, <2>3, <3>4, <3>5 DEF Stored
  <2> QED BY <1>6, <2>2, <2>3 DEF Stored
<1>7. CASE Found(t)
  <2> DEFINE c == accepts[t].old
  <2>1. c \in Cred /\ Midway(t) /\ UNCHANGED <<stored, tokens>>
    BY <1>1, <1>7 DEF Found, AcceptsTypeOK, Midway, records
  <2>2. \A d \in Cred : reg'.replacement[d] \in {reg.replacement[d], NoCred}
    <3>1. reg' = reg \/ reg' = AcceptReplacement(reg, c)  BY <1>7 DEF Found
    <3> QED BY <1>1, <2>1, <3>1, ReplacementAfter
  <2>3. GoOn(t, "deleting", c) \/ GoOn(t, "none", NoCred)  BY <1>7 DEF Found
  <2>4. /\ \A u \in Taps : u # t => accepts'[u] = accepts[u]
        /\ \/ accepts'[t].at = "none"
           \/ accepts'[t].at = "deleting" /\ accepts'[t].new = accepts[t].new /\ accepts'[t].old = c
    BY <1>1, <2>1, <2>3, GoOnEffect
  <2> QED BY <1>2, <1>3, <2>1, <2>2, <2>4 DEF SwapGoesOn, Midway
<1>8. CASE Deleted(t)
  <2> DEFINE c == accepts[t].old
  <2>1. c \in Cred /\ Midway(t) /\ UNCHANGED tokens /\ stored' \in {stored, stored \ {c}}
    BY <1>1, <1>8 DEF Deleted, AcceptsTypeOK, Midway
  <2>2. \A d \in Cred : reg'.replacement[d] \in {reg.replacement[d], NoCred}
    <3>1. reg' = reg \/ reg' = AcceptReplacement(reg, c)  BY <1>8 DEF Deleted
    <3> QED BY <1>1, <2>1, <3>1, ReplacementAfter
  <2>3. (\A u \in Taps : u # t => accepts'[u] = accepts[u]) /\ accepts'[t].at = "none"
    BY <1>1, <1>8, GoOnEffect DEF Deleted
  <2>4. \A d \in stored \ stored' : \E u \in Taps : Midway(u) /\ d = accepts[u].old
    BY <2>1
  <2> HIDE DEF c
  <2> QED BY <1>2, <1>3, <2>1, <2>2, <2>3, <2>4 DEF SwapGoesOn, Midway
<1> QED BY <1>5, <1>6, <1>7, <1>8 DEF AcceptStep

\* An acceptance keeps what is known.
LEMMA KnownSwaps == ASSUME KnownInv, ReplacedInv', SwapGoesOn PROVE KnownInv'
<1>1. UNCHANGED <<family, given>> /\ \A c \in Cred : reg'.replacement[c] \in {reg.replacement[c], NoCred}
  BY DEF SwapGoesOn
<1>2. \A c \in stored' : c \in stored \/ family[c] \in Roots
  BY DEF SwapGoesOn, KnownInv
<1>3. \A u \in Taps : Midway(u)' => given[accepts'[u].old] > 0
  BY RefreshOK DEF SwapGoesOn, KnownInv, Cred
<1>4. \A u \in Taps : accepts'[u].at # "none" =>
        accepts'[u].new \in Fresh /\ family[accepts'[u].new] \in Roots
  BY DEF SwapGoesOn
<1>5. run' = run  BY DEF SwapGoesOn
<1>6. \A c \in run'.todo : c \in run.todo \cup stored  BY <1>5
<1>7. run'.cur \in Cred => run'.cur \in {run.cur} \cup run.todo /\ run'.cur \notin run'.todo
  BY <1>5 DEF KnownInv
<1> QED BY <1>1, <1>2, <1>3, <1>4, <1>6, <1>7, KnownElsewhere

\* What neither a run nor an acceptance does: the person declines, closes or removes, the app
\* is locked or killed, an issuer changes its list, a run is asked for.
Aside ==
  \/ ManualRun \/ Unlock \/ Lock \/ ClearAgent \/ Kill
  \/ \E n \in Fresh : DeclineOffer(n)
  \/ \E c \in Cred : CloseExpired(c) \/ Remove(c) \/ RemovalEnds(c) \/ Flip(c)
  \/ UNCHANGED refreshVars

\* It fetches and stores nothing: what goes is of a family that counts as removed, a run that
\* stops while it has a token to save is recorded, and so is a token that was lost.
AsideGoesOn ==
  /\ UNCHANGED <<family, given, tokens>>
  /\ \A c \in Cred : reg'.replacement[c] \in {reg.replacement[c], NoCred}
  /\ stored' \subseteq stored /\ \A c \in stored \ stored' : family[c] \in removed'
  /\ removed \subseteq removed' /\ adrift \subseteq adrift'
  /\ \A f \in Roots : honoured'[f] = honoured[f] \/ f \in adrift'
  /\ \/ run' = run
     \/ /\ run'.cur = NoCred /\ run'.todo = {} /\ run'.at \in {"idle", "listing"}
        /\ run.at = "saving" => family[run.cur] \in adrift'
  /\ \/ UNCHANGED <<accepts, issued>>
     \/ (\A t \in Taps : accepts'[t].at = "none") /\ \A n \in Fresh : issued'[n] = 0

LEMMA AsideEffect == ASSUME RefreshTypeOK, Aside PROVE AsideGoesOn
<1>1. reg \in RegShape /\ RunTypeOK /\ honoured \in [Roots -> Nat]
  BY DEF RefreshTypeOK, RegTypeOK, RegShape, HistoryTypeOK
<1>2. CASE ManualRun \/ Unlock \/ Lock \/ ClearAgent
  <2>1. UNCHANGED <<stored, tokens, reg, honoured, family, adrift, removed, given, accepts, issued>>
    BY <1>2 DEF ManualRun, Unlock, Lock, ClearAgent, records, issuers, history
  <2>2. \/ run' = run
        \/ run.at = "idle" /\ run' = [NoRun EXCEPT !.at = "listing"]
    BY <1>2 DEF ManualRun, Unlock, Lock, ClearAgent, RunOnce
  <2>3. CASE run' = run  BY <2>1, <2>3 DEF AsideGoesOn
  <2>4. CASE run.at = "idle" /\ run' = [NoRun EXCEPT !.at = "listing"]
    <3>1. run'.cur = NoCred /\ run'.todo = {} /\ run'.at = "listing"  BY <2>4 DEF NoRun
    <3> QED BY <2>1, <2>4, <3>1 DEF AsideGoesOn
  <2> QED BY <2>2, <2>3, <2>4
<1>3. CASE Kill
  <2>1. UNCHANGED <<stored, tokens, reg, family, removed, given>> /\ run' = NoRun
        /\ accepts' = NoAccepts /\ issued' = Nothing
    BY <1>3 DEF Kill, records
  <2>2. run'.cur = NoCred /\ run'.todo = {} /\ run'.at = "idle"  BY <2>1 DEF NoRun
  <2>3. (\A t \in Taps : accepts'[t].at = "none") /\ \A n \in Fresh : issued'[n] = 0
    BY <2>1 DEF NoAccepts, NoAccept, Nothing
  <2>4. adrift \subseteq adrift' /\ (run.at = "saving" => family[run.cur] \in adrift')
    BY <1>3 DEF Kill
  <2>5. \A f \in Roots : honoured'[f] = honoured[f] \/ f \in adrift'
    BY <1>1, <1>3 DEF Kill
  <2> QED BY <2>1, <2>2, <2>3, <2>4, <2>5 DEF AsideGoesOn
<1>4. ASSUME UNCHANGED <<stored, tokens, honoured, family, adrift, removed, given, run, accepts, issued>>,
             \A c \in Cred : reg'.replacement[c] \in {reg.replacement[c], NoCred}
      PROVE  AsideGoesOn
  BY <1>4 DEF AsideGoesOn
<1>5. ASSUME NEW n \in Fresh, DeclineOffer(n) PROVE AsideGoesOn
  <2>1. PICK c \in Cred : reg' = Decline(reg, c)  BY <1>5 DEF DeclineOffer, OldOf
  <2>2. \A d \in Cred : reg'.replacement[d] \in {reg.replacement[d], NoCred}
    BY <1>1, <2>1, ReplacementAfter
  <2> QED BY <1>4, <1>5, <2>2 DEF DeclineOffer, volatile, records, issuers, history
<1>6. ASSUME NEW c \in Cred, CloseExpired(c) PROVE AsideGoesOn
  <2> DEFINE g == [reg EXCEPT !.closed = @ \cup {c}]
  <2>1. g \in RegShape /\ g.replacement = reg.replacement  BY <1>1 DEF RegShape
  <2>2. reg' = Decline(g, c)  BY <1>6 DEF CloseExpired
  <2> HIDE DEF g
  <2>3. \A d \in Cred : reg'.replacement[d] \in {reg.replacement[d], NoCred}
    BY <2>1, <2>2, ReplacementAfter
  <2> QED BY <1>4, <1>6, <2>3 DEF CloseExpired, volatile, records, issuers, history
<1>7. ASSUME NEW c \in Cred, Remove(c) PROVE AsideGoesOn
  <2>1. reg'.replacement = reg.replacement  BY <1>1, <1>7, ReplacementAfter DEF Remove
  <2> QED BY <1>4, <1>7, <2>1 DEF Remove, KeepBesidesRemoval, issuers, history
<1>8. ASSUME NEW c \in Cred, RemovalEnds(c) PROVE AsideGoesOn
  <2>1. UNCHANGED <<tokens, reg, honoured, family, adrift, given, run, accepts, issued>>
    BY <1>8 DEF RemovalEnds, KeepBesidesRemoval, issuers
  <2>2. \/ UNCHANGED <<stored, removed>>
        \/ stored' = stored \ {c} /\ removed' = removed \cup {family[c]}
    BY <1>8 DEF RemovalEnds
  <2>3. stored' \subseteq stored /\ removed \subseteq removed'
        /\ \A d \in stored \ stored' : family[d] \in removed'
    BY <2>2
  <2> QED BY <2>1, <2>3 DEF AsideGoesOn
<1>9. CASE \E c \in Cred : Flip(c)
  BY <1>4, <1>9 DEF Flip, volatile, records, history
<1>10. CASE UNCHANGED refreshVars
  BY <1>4, <1>10 DEF refreshVars, volatile, records, issuers, history
<1> QED BY <1>2, <1>3, <1>5, <1>6, <1>7, <1>8, <1>9, <1>10 DEF Aside

\* It keeps what is known.
LEMMA KnownAside == ASSUME KnownInv, ReplacedInv', AsideGoesOn PROVE KnownInv'
<1>1. UNCHANGED <<family, given>> /\ \A c \in Cred : reg'.replacement[c] \in {reg.replacement[c], NoCred}
  BY DEF AsideGoesOn
<1>2. \A c \in stored' : c \in stored \/ family[c] \in Roots
  BY DEF AsideGoesOn
<1>3. \A c \in run'.todo : c \in run.todo \cup stored  BY DEF AsideGoesOn
<1>4. run'.cur \in Cred => run'.cur \in {run.cur} \cup run.todo /\ run'.cur \notin run'.todo
  BY RefreshOK DEF AsideGoesOn, KnownInv
<1>5. \A u \in Taps : accepts'[u].at # "none" => accepts'[u] = accepts[u]
  BY DEF AsideGoesOn
<1>6. \A u \in Taps : accepts'[u].at # "none" =>
        accepts'[u].new \in Fresh /\ family[accepts'[u].new] \in Roots
  BY <1>5 DEF KnownInv
<1>7. \A u \in Taps : Midway(u)' => given[accepts'[u].old] > 0
  BY <1>5 DEF KnownInv, Midway
<1> QED BY <1>1, <1>2, <1>3, <1>4, <1>6, <1>7, KnownElsewhere

\* A step of the refresh is one of four: a run fetches a replacement or does without, an
\* acceptance moves, or neither is concerned.
LEMMA FourSteps ==
  ASSUME KnownInv, [RefreshNext]_refreshVars
  PROVE  (RunStep /\ RunGoesOn) \/ SwapGoesOn \/ AsideGoesOn \/ \E n \in Fresh : Reissued(n)
<1>1. RefreshTypeOK  BY DEF KnownInv, ReplacedInv
<1>2. CASE RunStep  BY <1>1, <1>2, RunEffect
<1>3. ASSUME NEW t \in Taps, AcceptStep(t) \/ \E n \in Fresh : AcceptTouched(t, n)
      PROVE  SwapGoesOn
  BY <1>3, SwapEffect
<1>4. CASE Aside  BY <1>1, <1>4, AsideEffect
<1> QED BY <1>2, <1>3, <1>4 DEF RefreshNext, Aside

\* Every step keeps what is known.
LEMMA KnownStep == KnownInv /\ [RefreshNext]_refreshVars => KnownInv'
<1> SUFFICES ASSUME KnownInv, [RefreshNext]_refreshVars PROVE KnownInv'
  OBVIOUS
<1>1. ReplacedInv'  BY ReplacedStep DEF KnownInv
<1> QED BY <1>1, FourSteps, KnownGoesOn, KnownMints, KnownSwaps, KnownAside

LEMMA KnownInit == RefreshInit => KnownInv
<1> SUFFICES ASSUME RefreshInit PROVE KnownInv
  OBVIOUS
<1>1. ReplacedInv  BY RefreshStarts, RefreshOK DEF RefreshInit, ReplacedInv, NoRun
<1>2. PICK s \in Starts : stored = s.holds  BY DEF RefreshInit
<1>3. stored \subseteq Roots /\ NoCred \notin Roots /\ NoCred \notin Cred
  BY <1>2, RefreshOK DEF Cred
<1>4. run.todo = {} /\ run.cur = NoCred  BY DEF RefreshInit, NoRun
<1>5. \A t \in Taps : accepts[t].at = "none"  BY DEF RefreshInit, NoAccepts, NoAccept
<1>6. \A c \in Cred : reg.replacement[c] = NoCred /\ family[c] = IF c \in Roots THEN c ELSE NoCred
  BY DEF RefreshInit
<1>7. \A c \in Cred : given[c] = 0  BY DEF RefreshInit
<1> QED BY <1>1, <1>3, <1>4, <1>5, <1>6, <1>7 DEF KnownInv, Midway, Cred

-----------------------------------------------------------------------------
(* The refresh: a family keeps a credential.                               *)

\* The credential is held, or one it stands for is, which no acceptance is about to remove.
Safe(c) ==
  \/ c \in stored
  \/ \E p \in stored : /\ family[p] = family[c] /\ reg.replacement[p] \in {c, NoCred}
                       /\ \A t \in Taps : Midway(t) => accepts[t].old # p

\* The member of a family that was not replaced yet is held when a run comes to it, and safe
\* in any case, unless the person removed one of the family.
KeptInv ==
  /\ KnownInv
  /\ \A c \in Cred : given[c] = 0 /\ (c = run.cur \/ c \in run.todo) =>
       c \in stored \/ family[c] \in removed
  /\ \A r \in Roots \ removed : \E c \in Cred : family[c] = r /\ given[c] = 0 /\ Safe(c)

\* A step of a run that fetches no replacement.
LEMMA KeptGoesOn == ASSUME KeptInv, KnownInv', RunGoesOn PROVE KeptInv'
<1>1. UNCHANGED <<stored, accepts, family, given, removed>> /\ reg'.replacement = reg.replacement
  BY DEF RunGoesOn
<1>2. \A c \in Cred : c = run'.cur \/ c \in run'.todo => c = run.cur \/ c \in run.todo \/ c \in stored
  BY RefreshOK DEF RunGoesOn
<1>3. \A c \in Cred : given[c] = 0 /\ (c = run'.cur \/ c \in run'.todo) =>
        c \in stored \/ family[c] \in removed
  BY <1>2 DEF KeptInv
<1>4. \A c \in Cred : Safe(c) => Safe(c)'
  BY <1>1 DEF Safe, Midway
<1> QED BY <1>1, <1>3, <1>4 DEF KeptInv

\* A replacement: what it replaces is held, and no acceptance is about to remove that.
LEMMA KeptMints ==
  ASSUME KeptInv, KnownInv', NEW n \in Fresh, Reissued(n)
  PROVE  KeptInv'
<1> DEFINE k == run.cur
<1>1. /\ k \in Cred /\ n \in Cred /\ n # k /\ given[k] = 0 /\ family[k] \in Roots
      /\ family[n] = NoCred /\ NoCred \notin Roots
      /\ given' = [given EXCEPT ![k] = 1] /\ family' = [family EXCEPT ![n] = family[k]]
      /\ reg'.replacement = [reg.replacement EXCEPT ![k] = n]
      /\ run' = [run EXCEPT !.at = "next", !.cur = NoCred, !.token = 0]
      /\ UNCHANGED <<stored, accepts, removed>>
  BY ReissueEffect DEF KeptInv
<1>2. k \in stored \/ family[k] \in removed
  BY <1>1 DEF KeptInv
<1> HIDE DEF k
<1>3. /\ run \in [at : {"idle", "listing", "next", "checking", "marking", "deferring",
                   "refreshing", "saving", "asking"},
              cur : Cred \cup {NoCred}, todo : SUBSET Cred, seen : [Cred -> Nat], token : Nat]
      /\ given \in [Cred -> Nat] /\ family \in [Cred -> Roots \cup {NoCred}]
      /\ reg.replacement \in [Cred -> Fresh \cup {NoCred}] /\ stored \subseteq Cred
  BY DEF KeptInv, KnownInv, ReplacedInv, RefreshTypeOK, RunTypeOK, HistoryTypeOK, RegTypeOK,
         RecordsTypeOK
<1>4. run'.cur = NoCred /\ run'.todo = run.todo  BY <1>1, <1>3
<1>5. \A d \in stored \cup run.todo : family[d] \in Roots  BY DEF KeptInv, KnownInv
<1>6. \A d \in stored \cup run.todo : d \in Cred /\ d # n /\ family'[d] = family[d]
  BY <1>1, <1>3, <1>5
<1>7. \A d \in Cred : given'[d] = 0 /\ (d = run'.cur \/ d \in run'.todo) =>
        d \in stored \/ family'[d] \in removed
  <2> SUFFICES ASSUME NEW d \in Cred, given'[d] = 0, d = run'.cur \/ d \in run'.todo
               PROVE  d \in stored \/ family'[d] \in removed
    OBVIOUS
  <2>1. d \in run.todo  BY <1>4, RefreshOK
  <2>2. given[d] = 0  BY <1>1, <1>3
  <2> QED BY <1>6, <2>1, <2>2 DEF KeptInv
<1>8. \A t \in Taps : Midway(t) => accepts[t].old # k
  BY <1>1 DEF KeptInv, KnownInv
<1>9. \A r \in Roots \ removed : \E c \in Cred : family'[c] = r /\ given'[c] = 0 /\ Safe(c)'
  <2> TAKE r \in Roots \ removed
  <2>1. CASE r = family[k]
    <3>1. k \in stored /\ family'[k] = r /\ family'[n] = r /\ reg'.replacement[k] = n
      BY <1>1, <1>2, <1>3, <2>1
    <3>2. Safe(n)'  BY <1>1, <1>8, <3>1 DEF Safe, Midway
    <3>3. given'[n] = 0
      <4>1. given[n] = 0
        <5>1. given[n] \in Nat /\ ~(given[n] > 0)  BY <1>1, <1>3 DEF KeptInv, KnownInv
        <5> QED BY <5>1
      <4> QED BY <1>1, <1>3, <4>1
    <3> QED BY <1>1, <3>1, <3>2, <3>3
  <2>2. CASE r # family[k]
    <3>1. PICK c \in Cred : family[c] = r /\ given[c] = 0 /\ Safe(c)  BY DEF KeptInv
    <3>2. c # k /\ c # n /\ family'[c] = r /\ given'[c] = 0  BY <1>1, <1>3, <2>2, <3>1
    <3>3. Safe(c)'
      <4>1. CASE c \in stored  BY <1>1, <4>1 DEF Safe
      <4>2. ASSUME NEW p \in stored, family[p] = family[c], reg.replacement[p] \in {c, NoCred},
                   \A t \in Taps : Midway(t) => accepts[t].old # p
            PROVE  Safe(c)'
        <5>1. p # k /\ p \in Cred /\ family'[p] = family[p] /\ reg'.replacement[p] = reg.replacement[p]
          BY <1>1, <1>3, <1>6, <2>2, <3>1, <4>2
        <5> QED BY <1>1, <3>1, <3>2, <4>2, <5>1 DEF Safe, Midway
      <4> QED BY <3>1, <4>1, <4>2 DEF Safe
    <3> QED BY <3>2, <3>3
  <2> QED BY <2>1, <2>2
<1> QED BY <1>1, <1>7, <1>9 DEF KeptInv

\* An acceptance: what it stores is what the family stood for, when it goes on to remove
\* the record that stood for it.
LEMMA KeptSwaps == ASSUME KeptInv, KnownInv', SwapGoesOn PROVE KeptInv'
<1>1. /\ UNCHANGED <<run, family, given, removed>>
      /\ \A c \in Cred : reg'.replacement[c] \in {reg.replacement[c], NoCred}
  BY DEF SwapGoesOn
<1>2. stored \subseteq Cred /\ NoCred \notin Fresh
      /\ \A t \in Taps : Midway(t) => given[accepts[t].old] > 0
  BY RefreshOK DEF KeptInv, KnownInv, ReplacedInv, RefreshTypeOK, RecordsTypeOK, Cred
<1>3. \A c \in stored \ stored' : \E u \in Taps : Midway(u) /\ c = accepts[u].old
  BY DEF SwapGoesOn
<1>4. \A c \in Cred : c \in stored /\ given[c] = 0 => c \in stored'
  BY <1>2, <1>3
<1>5. \A c \in Cred : given[c] = 0 /\ (c = run.cur \/ c \in run.todo) =>
        c \in stored' \/ family[c] \in removed
  BY <1>4 DEF KeptInv
<1>6. ASSUME NEW c \in Cred, given[c] = 0, Safe(c) PROVE Safe(c)'
  <2>1. CASE c \in stored  BY <1>4, <1>6, <2>1 DEF Safe
  <2>2. ASSUME NEW p \in stored, family[p] = family[c], reg.replacement[p] \in {c, NoCred},
               \A t \in Taps : Midway(t) => accepts[t].old # p
        PROVE  Safe(c)'
    <3>1. p \in stored' /\ p \in Cred  BY <1>2, <1>3, <2>2
    <3>2. CASE c \in stored'  BY <3>2 DEF Safe
    <3>3. CASE c \notin stored'
      <4>1. \A t \in Taps : Midway(t)' =>
              \/ Midway(t) /\ accepts'[t].old = accepts[t].old
              \/ accepts'[t].old \in Cred /\ reg.replacement[accepts'[t].old] \in Fresh \cap stored'
        BY DEF SwapGoesOn
      <4>2. \A t \in Taps : Midway(t)' => accepts'[t].old # p
        BY <1>2, <2>2, <3>3, <4>1
      <4>3. reg'.replacement[p] \in {c, NoCred}  BY <1>1, <2>2, <3>1
      <4> QED BY <1>1, <2>2, <3>1, <4>2, <4>3 DEF Safe
    <3> QED BY <3>2, <3>3
  <2> QED BY <1>6, <2>1, <2>2 DEF Safe
<1> QED BY <1>1, <1>5, <1>6 DEF KeptInv

\* Neither a run nor an acceptance.
LEMMA KeptAside == ASSUME KeptInv, KnownInv', AsideGoesOn PROVE KeptInv'
<1>1. /\ UNCHANGED <<family, given>>
      /\ \A c \in Cred : reg'.replacement[c] \in {reg.replacement[c], NoCred}
      /\ stored' \subseteq stored /\ removed \subseteq removed'
      /\ \A c \in stored \ stored' : family[c] \in removed'
  BY DEF AsideGoesOn
<1>2. \A c \in Cred : c = run'.cur \/ c \in run'.todo => c = run.cur \/ c \in run.todo
  BY RefreshOK DEF AsideGoesOn
<1>3. \A c \in Cred : given[c] = 0 /\ (c = run'.cur \/ c \in run'.todo) =>
        c \in stored' \/ family[c] \in removed'
  BY <1>1, <1>2 DEF KeptInv
<1>4. \A u \in Taps : Midway(u)' => Midway(u) /\ accepts'[u].old = accepts[u].old
  BY DEF AsideGoesOn, Midway
<1>5. stored \subseteq Cred
  BY DEF KeptInv, KnownInv, ReplacedInv, RefreshTypeOK, RecordsTypeOK
<1>6. ASSUME NEW c \in Cred, family[c] \notin removed', Safe(c) PROVE Safe(c)'
  <2>1. CASE c \in stored  BY <1>1, <1>6, <2>1 DEF Safe
  <2>2. ASSUME NEW p \in stored, family[p] = family[c], reg.replacement[p] \in {c, NoCred},
               \A t \in Taps : Midway(t) => accepts[t].old # p
        PROVE  Safe(c)'
    <3>1. p \in stored' /\ reg'.replacement[p] \in {c, NoCred}  BY <1>1, <1>5, <1>6, <2>2
    <3>2. \A t \in Taps : Midway(t)' => accepts'[t].old # p  BY <1>4, <2>2
    <3> QED BY <1>1, <2>2, <3>1, <3>2 DEF Safe
  <2> QED BY <1>6, <2>1, <2>2 DEF Safe
<1> QED BY <1>1, <1>3, <1>6 DEF KeptInv

\* Every step keeps a credential of each family.
LEMMA KeptStep == KeptInv /\ [RefreshNext]_refreshVars => KeptInv'
<1> SUFFICES ASSUME KeptInv, [RefreshNext]_refreshVars PROVE KeptInv'
  OBVIOUS
<1>1. KnownInv /\ KnownInv'  BY KnownStep DEF KeptInv
<1> QED BY <1>1, FourSteps, KeptGoesOn, KeptMints, KeptSwaps, KeptAside

LEMMA KeptInit == RefreshInit => KeptInv
<1> SUFFICES ASSUME RefreshInit PROVE KeptInv
  OBVIOUS
<1>1. PICK s \in Starts : stored = s.holds /\ removed = Roots \ s.holds  BY DEF RefreshInit
<1>2. stored \subseteq Roots /\ removed = Roots \ stored  BY <1>1, RefreshOK
<1>3. run.todo = {} /\ run.cur = NoCred  BY DEF RefreshInit, NoRun
<1>4. \A r \in Roots : r \in Cred /\ family[r] = r /\ given[r] = 0  BY DEF RefreshInit, Cred
<1>5. \A r \in Roots \ removed : \E c \in Cred : family[c] = r /\ given[c] = 0 /\ Safe(c)
  BY <1>2, <1>4 DEF Safe
<1> QED BY <1>3, <1>5, KnownInit, RefreshOK DEF KeptInv

-----------------------------------------------------------------------------
\* Whatever is killed, locked, tapped twice or declined, and in whatever order several
\* acceptances of one family end, a family the person removed nothing of keeps a credential:
\* the replacement is stored before the old record goes (useAcceptReplacement.ts).
THEOREM NeverLeftWithout == RefreshSpec => []NeverWithout
<1>1. RefreshInit => KeptInv
  BY KeptInit
<1>2. KeptInv => NeverWithout
  BY DEF KeptInv, NeverWithout, Safe
<1> QED BY <1>1, <1>2, KeptStep, PTL DEF RefreshSpec

\* What settles a queued swap in the registry while the agent lives is an acceptance that finds
\* the old record gone, or removes it; a refusal leaves the credential expired.
LEMMA SettledWhole ==
  ASSUME KnownInv, [RefreshNext]_refreshVars, NEW c \in Cred, Live, Offered(c),
         c \notin reg'.expired, reg'.replacement[c] = NoCred
  PROVE  c \notin stored'
<1>1. RefreshTypeOK /\ reg \in RegShape /\ AcceptsTypeOK
  BY DEF KnownInv, ReplacedInv, RefreshTypeOK, RegTypeOK, RegShape
<1>2. reg.replacement[c] \in Fresh /\ c \in reg.expired /\ NoCred \notin Fresh
  BY <1>1, RefreshOK DEF RegShape, Offered, Queued, Cred
<1>3. ASSUME reg'.replacement = reg.replacement PROVE FALSE
  BY <1>2, <1>3
<1>4. ASSUME reg' = reg PROVE FALSE
  BY <1>2, <1>4
<1>5. CASE RunStep
  <2>1. CASE \A n \in Fresh : ~Reissued(n)
    BY <1>1, <1>3, <1>5, <2>1, RunEffect DEF RunGoesOn
  <2>2. ASSUME NEW n \in Fresh, Reissued(n) PROVE FALSE
    <3>1. run.cur \in Cred /\ reg'.replacement = [reg.replacement EXCEPT ![run.cur] = n]
      BY <2>2, ReissueEffect
    <3> QED BY <1>1, <1>2, <3>1 DEF RegShape
  <2> QED BY <2>1, <2>2
<1>6. CASE ManualRun \/ Unlock \/ Lock \/ ClearAgent \/ Kill \/ (\E d \in Cred : Flip(d))
  BY <1>4, <1>6 DEF ManualRun, Unlock, Lock, ClearAgent, Kill, Flip
<1>7. ASSUME NEW g \in RegShape, NEW d \in Cred, g.expired = reg.expired, reg' = Decline(g, d)
      PROVE  FALSE
  BY <1>2, <1>7 DEF Decline, RegShape
<1>8. ASSUME NEW n \in Fresh, DeclineOffer(n) PROVE FALSE
  <2> PICK d \in Cred : reg' = Decline(reg, d)  BY <1>8 DEF DeclineOffer, OldOf
  <2> QED BY <1>1, <1>7
<1>9. ASSUME NEW d \in Cred, CloseExpired(d) PROVE FALSE
  <2> DEFINE g == [reg EXCEPT !.closed = @ \cup {d}]
  <2>1. g \in RegShape /\ g.expired = reg.expired  BY <1>1 DEF RegShape
  <2>2. reg' = Decline(g, d)  BY <1>9 DEF CloseExpired
  <2> HIDE DEF g
  <2> QED BY <1>7, <2>1, <2>2
<1>10. ASSUME NEW d \in Cred, Remove(d) \/ RemovalEnds(d) PROVE FALSE
  <2>1. reg'.replacement = reg.replacement
    BY <1>1, <1>10, ReplacementAfter DEF Remove, RemovalEnds
  <2> QED BY <1>3, <2>1
<1>11. ASSUME NEW d \in Cred, reg' = AcceptReplacement(reg, d) PROVE d = c
  <2>1. CASE d # c
    <3>1. reg'.replacement[c] = reg.replacement[c]
      BY <1>1, <1>11, <2>1 DEF AcceptReplacement, RegShape
    <3> QED BY <1>2, <3>1
  <2> QED BY <2>1
<1>12. ASSUME NEW t \in Taps, AcceptStep(t) PROVE c \notin stored'
  <2>1. CASE Stored(t)  BY <1>4, <2>1 DEF Stored
  <2>2. CASE Found(t)
    <3>1. accepts[t].old \in Cred  BY <1>1, <2>2 DEF Found, AcceptsTypeOK
    <3>2. CASE Live /\ accepts[t].old \in stored  BY <1>4, <2>2, <3>2 DEF Found
    <3>3. CASE accepts[t].old \notin stored
      <4>1. reg' = AcceptReplacement(reg, accepts[t].old) /\ stored' = stored
        BY <2>2, <3>3 DEF Found, records
      <4> QED BY <1>11, <3>1, <3>3, <4>1
    <3> QED BY <3>2, <3>3
  <2>3. CASE Deleted(t)
    <3>1. accepts[t].old \in Cred  BY <1>1, <2>3 DEF Deleted, AcceptsTypeOK
    <3>2. \/ reg' = reg
          \/ stored' = stored \ {accepts[t].old} /\ reg' = AcceptReplacement(reg, accepts[t].old)
      BY <2>3 DEF Deleted
    <3> QED BY <1>4, <1>11, <3>1, <3>2
  <2> QED BY <1>12, <2>1, <2>2, <2>3 DEF AcceptStep
<1>13. ASSUME NEW t \in Taps, NEW n \in Fresh, AcceptTouched(t, n) PROVE FALSE
  BY <1>4, <1>13 DEF AcceptTouched
<1>14. CASE UNCHANGED refreshVars  BY <1>4, <1>14 DEF refreshVars
<1> QED BY <1>5, <1>6, <1>8, <1>9, <1>10, <1>12, <1>13, <1>14 DEF RefreshNext

\* An acceptance that settles a swap while the agent lives has removed the old record: no run,
\* refusal, removal or other acceptance settles it before that (useAcceptReplacement.ts).
THEOREM SwapSettlesWhole == RefreshSpec => SwapIsWhole
<1> DEFINE Whole == \A c \in Cred :
             Live /\ Offered(c) /\ c \notin reg'.expired /\ reg'.replacement[c] = NoCred
               => c \notin stored'
<1>1. KnownInv /\ [RefreshNext]_refreshVars => [Whole]_refreshVars
  BY SettledWhole
<1>2. RefreshSpec => []KnownInv
  BY KnownInit, KnownStep, PTL DEF RefreshSpec
<1> QED BY <1>1, <1>2, PTL DEF RefreshSpec, SwapIsWhole

-----------------------------------------------------------------------------
(* The refresh: the token a run presents.                                  *)

\* The tokens of a credential that was not replaced, wherever they are read: on the record, on
\* the copy in memory until it is stored, in what the run read when it began, and in hand.
TokenKnown(c) ==
  LET h == honoured[family[c]] IN
  /\ c \in stored /\ (run.at = "saving" => run.cur # c) => tokens[c] = h
  /\ c \in Fresh \ stored => issued[c] \in {0, h}
  /\ c \in run.todo => run.seen[c] = h
  /\ run.cur = c /\ run.at \in {"saving", "asking"} => run.token = h
  /\ run.cur = c /\ run.at \notin {"saving", "asking"} => run.seen[c] = h

\* Its family has tokens, none was lost, and the person removed none of its credentials.
Current(c) == given[c] = 0 /\ family[c] \in Refreshable /\ family[c] \notin adrift \cup removed

TokenInv ==
  /\ KeptInv
  /\ run.at \in {"marking", "deferring", "refreshing", "saving", "asking"} =>
       family[run.cur] \in Refreshable
  /\ \A t \in Taps : accepts[t].at = "storing" => issued[accepts[t].new] > 0
  /\ \A c \in Cred : Current(c) => TokenKnown(c)

\* Neither a run nor an acceptance.
LEMMA TokenAside == ASSUME TokenInv, KeptInv', AsideGoesOn PROVE TokenInv'
<1>1. /\ UNCHANGED <<family, given, tokens>>
      /\ stored' \subseteq stored /\ removed \subseteq removed' /\ adrift \subseteq adrift'
      /\ \A c \in stored \ stored' : family[c] \in removed'
      /\ \A f \in Roots : honoured'[f] = honoured[f] \/ f \in adrift'
  BY DEF AsideGoesOn
<1>2. \/ run' = run
      \/ /\ run'.cur = NoCred /\ run'.todo = {} /\ run'.at \in {"idle", "listing"}
         /\ run.at = "saving" => family[run.cur] \in adrift'
  BY DEF AsideGoesOn
<1>3. \/ UNCHANGED <<accepts, issued>>
      \/ (\A t \in Taps : accepts'[t].at = "none") /\ \A n \in Fresh : issued'[n] = 0
  BY DEF AsideGoesOn
<1>4. run'.at \in {"marking", "deferring", "refreshing", "saving", "asking"} =>
        family'[run'.cur] \in Refreshable
  BY <1>1, <1>2 DEF TokenInv
<1>5. \A t \in Taps : accepts'[t].at = "storing" => issued'[accepts'[t].new] > 0
  BY <1>3 DEF TokenInv
<1>6. ASSUME NEW c \in Cred, Current(c)' PROVE TokenKnown(c)'
  <2>1. Current(c) /\ family[c] \notin adrift' \cup removed'  BY <1>1, <1>6 DEF Current
  <2>2. TokenKnown(c)  BY <2>1 DEF TokenInv
  <2>3. honoured'[family'[c]] = honoured[family[c]]
    BY <1>1, <2>1, RefreshOK DEF Current
  <2>4. c \in stored <=> c \in stored'  BY <1>1, <2>1
  <2>5. c \in Fresh => issued'[c] = issued[c] \/ issued'[c] = 0  BY <1>3
  <2>6. CASE run' = run  BY <1>1, <2>2, <2>3, <2>4, <2>5, <2>6 DEF TokenKnown
  <2>7. CASE run' # run
    <3>1. run'.cur # c /\ c \notin run'.todo  BY <1>2, <2>7, RefreshOK
    <3>2. run.at = "saving" => run.cur # c  BY <1>2, <2>1, <2>7
    <3> QED BY <1>1, <2>2, <2>3, <2>4, <2>5, <3>1, <3>2 DEF TokenKnown
  <2> QED BY <2>6, <2>7
<1> QED BY <1>4, <1>5, <1>6 DEF TokenInv

\* An acceptance.
LEMMA TokenSwaps == ASSUME TokenInv, KeptInv', SwapGoesOn PROVE TokenInv'
<1>1. UNCHANGED <<run, issued, family, given, honoured, adrift, removed>>
  BY DEF SwapGoesOn
<1>2. \A u \in Taps : accepts'[u].at = "storing" => issued'[accepts'[u].new] > 0
  BY <1>1 DEF SwapGoesOn, TokenInv
<1>3. ASSUME NEW c \in Cred, Current(c)' PROVE TokenKnown(c)'
  <2>1. Current(c)  BY <1>1, <1>3 DEF Current
  <2>2. TokenKnown(c)  BY <2>1 DEF TokenInv
  <2>3. \A d \in stored \ stored' : given[d] > 0
    BY DEF SwapGoesOn, TokenInv, KeptInv, KnownInv
  <2>4. c \in stored => c \in stored' /\ tokens'[c] = tokens[c]
    BY <2>1, <2>3 DEF Current, SwapGoesOn
  <2>5. CASE c \in stored \/ c \notin stored'
    BY <1>1, <2>2, <2>4, <2>5 DEF TokenKnown
  <2>6. CASE c \in stored' \ stored
    <3>1. PICK u \in Taps : accepts[u].at = "storing" /\ c = accepts[u].new /\ tokens'[c] = issued[c]
      BY <2>6 DEF SwapGoesOn
    <3>2. c \in Fresh /\ issued[c] > 0 /\ issued[c] \in Nat
      BY <3>1 DEF TokenInv, KeptInv, KnownInv, ReplacedInv, RefreshTypeOK, RecordsTypeOK
    <3>3. tokens'[c] = honoured[family[c]]
      BY <2>2, <2>6, <3>1, <3>2 DEF TokenKnown
    <3> QED BY <1>1, <2>2, <2>6, <3>3 DEF TokenKnown
  <2> QED BY <2>5, <2>6
<1>4. run'.at \in {"marking", "deferring", "refreshing", "saving", "asking"} =>
        family'[run'.cur] \in Refreshable
  BY <1>1 DEF TokenInv
<1> QED BY <1>2, <1>3, <1>4 DEF TokenInv

\* A replacement comes with the token in hand.
LEMMA TokenMints ==
  ASSUME TokenInv, KeptInv', NEW n \in Fresh, Reissued(n)
  PROVE  TokenInv'
<1> DEFINE k == run.cur
<1>1. /\ k \in Cred /\ n \in Cred /\ n # k /\ given[k] = 0 /\ family[k] \in Roots
      /\ family[n] = NoCred /\ NoCred \notin Roots
      /\ given' = [given EXCEPT ![k] = 1] /\ family' = [family EXCEPT ![n] = family[k]]
      /\ run' = [run EXCEPT !.at = "next", !.cur = NoCred, !.token = 0]
      /\ issued' = [issued EXCEPT ![n] = run.token]
      /\ UNCHANGED <<stored, tokens, accepts, honoured, adrift, removed>>
  BY ReissueEffect DEF TokenInv, KeptInv
<1>2. run.at = "asking" /\ run.token \in Nat
  BY DEF Reissued, RunAt, TokenInv, KeptInv, KnownInv, ReplacedInv, RefreshTypeOK, RunTypeOK
<1>3. Current(k) => run.token = honoured[family[k]]
  BY <1>1, <1>2 DEF TokenInv, TokenKnown
<1> HIDE DEF k
<1>4. /\ run \in [at : {"idle", "listing", "next", "checking", "marking", "deferring",
                   "refreshing", "saving", "asking"},
              cur : Cred \cup {NoCred}, todo : SUBSET Cred, seen : [Cred -> Nat], token : Nat]
      /\ given \in [Cred -> Nat] /\ family \in [Cred -> Roots \cup {NoCred}]
      /\ issued \in [Fresh -> Nat] /\ stored \subseteq Cred
  BY DEF TokenInv, KeptInv, KnownInv, ReplacedInv, RefreshTypeOK, RunTypeOK, HistoryTypeOK,
         RecordsTypeOK
<1>5. run'.at = "next" /\ run'.cur = NoCred /\ run'.todo = run.todo /\ run'.seen = run.seen
  BY <1>1, <1>4
<1>6. n \notin stored \cup run.todo  BY <1>1 DEF TokenInv, KeptInv, KnownInv
<1>7. ASSUME NEW c \in Cred, Current(c)' PROVE TokenKnown(c)'
  <2>1. CASE c = n
    <3>1. family'[n] = family[k] /\ issued'[n] = run.token  BY <1>1, <1>4
    <3>2. Current(k)  BY <1>1, <1>7, <2>1, <3>1 DEF Current
    <3> QED BY <1>1, <1>3, <1>5, <1>6, <2>1, <3>1, <3>2, RefreshOK DEF TokenKnown
  <2>2. CASE c # n
    <3>1. c # k /\ given[c] = 0 /\ family'[c] = family[c]
      BY <1>1, <1>4, <1>7, <2>2 DEF Current
    <3>2. TokenKnown(c)  BY <1>1, <1>7, <3>1 DEF Current, TokenInv
    <3>3. c \in Fresh => issued'[c] = issued[c]  BY <1>1, <1>4, <2>2
    <3> QED BY <1>1, <1>2, <1>5, <3>1, <3>2, <3>3, RefreshOK DEF TokenKnown
  <2> QED BY <2>1, <2>2
<1>8. \A t \in Taps : accepts'[t].at = "storing" => issued'[accepts'[t].new] > 0
  <2> SUFFICES ASSUME NEW t \in Taps, accepts[t].at = "storing"
               PROVE  issued'[accepts[t].new] > 0
    BY <1>1
  <2>1. accepts[t].new \in Fresh /\ family[accepts[t].new] \in Roots /\ issued[accepts[t].new] > 0
    BY DEF TokenInv, KeptInv, KnownInv
  <2> QED BY <1>1, <1>4, <2>1
<1> QED BY <1>5, <1>7, <1>8 DEF TokenInv

\* A run that stands nowhere after a step that changes no token: a credential is done with, or
\* the run ends.
LEMMA TokenRests ==
  ASSUME TokenInv, KeptInv',
         UNCHANGED <<stored, tokens, issued, accepts, family, given, removed>>,
         adrift \subseteq adrift', \A f \in Roots : honoured'[f] = honoured[f] \/ f \in adrift',
         run.at = "saving" => family[run.cur] \in adrift',
         run'.cur = NoCred, run'.at \in {"idle", "next"},
         run'.todo \subseteq run.todo, run'.seen = run.seen \/ run'.todo = {}
  PROVE  TokenInv'
<1>1. ASSUME NEW c \in Cred, Current(c)' PROVE TokenKnown(c)'
  <2>1. Current(c) /\ family[c] \notin adrift' /\ family[c] \in Roots
    BY <1>1, RefreshOK DEF Current
  <2>2. TokenKnown(c)  BY <2>1 DEF TokenInv
  <2>3. run.at = "saving" => run.cur # c  BY <2>1
  <2> QED BY <2>1, <2>2, <2>3, RefreshOK DEF TokenKnown
<1> QED BY <1>1 DEF TokenInv

\* A step of a run that fetches no replacement.
LEMMA TokenRuns ==
  ASSUME TokenInv, KeptInv', RunGoesOn, RunStep, \A n \in Fresh : ~Reissued(n)
  PROVE  TokenInv'
<1>1. UNCHANGED <<stored, issued, accepts, family, given, removed>>
  BY DEF RunGoesOn
<1>2. /\ RunTypeOK /\ RegTypeOK /\ reg \in RegShape /\ stored \subseteq Cred
      /\ tokens \in [Cred -> Nat] /\ honoured \in [Roots -> Nat]
  BY DEF TokenInv, KeptInv, KnownInv, ReplacedInv, RefreshTypeOK, RegTypeOK, RegShape,
         RecordsTypeOK, HistoryTypeOK
<1>3. \A t \in Taps : accepts'[t].at = "storing" => issued'[accepts'[t].new] > 0
  BY <1>1 DEF TokenInv
<1>4. ASSUME run.cur \in Cred PROVE family[run.cur] \in Roots /\ run.cur \notin run.todo
  BY <1>4 DEF TokenInv, KeptInv, KnownInv
\* The verdict, or any failure, ends the turn of a credential.
<1>5. ASSUME run.cur \in Cred, NEW g \in RegShape, Throws \/ Done(g), UNCHANGED tokens,
             adrift \subseteq adrift', \A f \in Roots : honoured'[f] = honoured[f] \/ f \in adrift',
             run.at = "saving" => family[run.cur] \in adrift'
      PROVE  TokenInv'
  <2>1. run' = [run EXCEPT !.at = "next", !.cur = NoCred, !.token = 0]
    BY <1>2, <1>5, DoneEffect, ThrowsEffect
  <2>2. run'.at = "next" /\ run'.cur = NoCred /\ run'.todo = run.todo /\ run'.seen = run.seen
    BY <1>2, <2>1 DEF RunTypeOK
  <2> QED BY <1>1, <1>5, <2>2, TokenRests
<1>6. CASE Listed
  <2>1. UNCHANGED <<tokens, honoured, adrift>> /\ run.at = "listing"
    BY <1>6 DEF Listed, RunAt, records, issuers, history
  <2>2. run.cur = NoCred  BY <1>2, <2>1 DEF RunTypeOK
  <2>3. CASE run' = NoRun
    <3>1. run'.at = "idle" /\ run'.cur = NoCred /\ run'.todo = {}  BY <2>3 DEF NoRun
    <3> QED BY <1>1, <2>1, <3>1, TokenRests
  <2>4. CASE run' = [run EXCEPT !.at = "next", !.todo = stored, !.seen = tokens]
    <3>1. run'.at = "next" /\ run'.cur = NoCred /\ run'.todo = stored /\ run'.seen = tokens
      BY <1>2, <2>2, <2>4 DEF RunTypeOK
    <3>2. ASSUME NEW c \in Cred, Current(c)' PROVE TokenKnown(c)'
      <4>1. TokenKnown(c)  BY <1>1, <2>1, <3>2 DEF Current, TokenInv
      <4> QED BY <1>1, <2>1, <3>1, <4>1, RefreshOK DEF TokenKnown
    <3> QED BY <1>3, <3>1, <3>2 DEF TokenInv
  <2> QED BY <1>6, <2>3, <2>4 DEF Listed
<1>7. CASE RunEnds
  <2>1. run'.at = "idle" /\ run'.cur = NoCred /\ run'.todo = {} /\ run.at = "next"
    BY <1>7 DEF RunEnds, NoRun, RunAt
  <2> QED BY <1>1, <1>7, <2>1, TokenRests DEF RunEnds, records, issuers, history
<1>8. ASSUME NEW d \in Cred, Skip(d) PROVE TokenInv'
  <2>1. run.at = "next" /\ run' = [run EXCEPT !.todo = @ \ {d}] /\ UNCHANGED <<tokens, honoured, adrift>>
    BY <1>8 DEF Skip, RunAt, records, issuers, history
  <2>2. run.cur = NoCred  BY <1>2, <2>1 DEF RunTypeOK
  <2>3. run'.at = "next" /\ run'.cur = NoCred /\ run'.todo \subseteq run.todo /\ run'.seen = run.seen
    BY <1>2, <2>1, <2>2 DEF RunTypeOK
  <2> QED BY <1>1, <2>1, <2>3, TokenRests
<1>9. ASSUME NEW d \in Cred, TakeUp(d) PROVE TokenInv'
  <2>1. /\ run.at = "next" /\ d \in run.todo /\ UNCHANGED <<tokens, honoured, adrift>>
        /\ run' = [run EXCEPT !.at = "checking", !.cur = d, !.todo = @ \ {d}]
    BY <1>9 DEF TakeUp, RunAt, records, issuers, history
  <2>2. run'.at = "checking" /\ run'.cur = d /\ run'.todo \subseteq run.todo /\ run'.seen = run.seen
    BY <1>2, <2>1 DEF RunTypeOK
  <2>3. ASSUME NEW c \in Cred, Current(c)' PROVE TokenKnown(c)'
    <3>1. TokenKnown(c)  BY <1>1, <2>1, <2>3 DEF Current, TokenInv
    <3> QED BY <1>1, <2>1, <2>2, <3>1 DEF TokenKnown
  <2> QED BY <1>3, <2>2, <2>3 DEF TokenInv
\* A step of a run at one credential that stays with it, and leaves the tokens as they are.
<1>10. ASSUME NEW at \in {"marking", "deferring", "refreshing"}, run' = [run EXCEPT !.at = at],
              run.at \in {"checking", "marking", "deferring"}, run.cur \in Cred,
              family[run.cur] \in Refreshable, UNCHANGED <<honoured, adrift>>,
              tokens' = tokens \/ tokens' = [tokens EXCEPT ![run.cur] = run.seen[run.cur]]
       PROVE  TokenInv'
  <2>1. run'.at = at /\ run'.cur = run.cur /\ run'.todo = run.todo /\ run'.seen = run.seen
    BY <1>2, <1>10 DEF RunTypeOK
  <2>2. ASSUME NEW c \in Cred, Current(c)' PROVE TokenKnown(c)'
    <3>1. TokenKnown(c)  BY <1>1, <1>10, <2>2 DEF Current, TokenInv
    <3>2. CASE tokens' = tokens  BY <1>1, <1>10, <2>1, <3>1, <3>2 DEF TokenKnown
    <3>3. CASE tokens' = [tokens EXCEPT ![run.cur] = run.seen[run.cur]]
      <4>1. c # run.cur => tokens'[c] = tokens[c]  BY <1>2, <3>3
      <4>2. c = run.cur => tokens'[c] = run.seen[c]  BY <1>2, <3>3
      <4>3. c = run.cur => run.seen[c] = honoured[family[c]]  BY <1>10, <3>1 DEF TokenKnown
      <4> QED BY <1>1, <1>10, <2>1, <3>1, <4>1, <4>2, <4>3 DEF TokenKnown
    <3> QED BY <1>10, <3>2, <3>3
  <2> QED BY <1>1, <1>3, <1>10, <2>1, <2>2 DEF TokenInv
<1>11. ASSUME NEW v \in {"valid", "invalid", "error"}, Verdict(v) PROVE TokenInv'
  <2>1. run.cur \in Cred /\ run.at = "checking" /\ UNCHANGED <<tokens, honoured, adrift>>
    BY <1>2, <1>11, AtOne DEF Verdict, RunAt, records, issuers, history
  <2>2. CASE Throws  BY <1>2, <1>5, <2>1, <2>2
  <2>3. CASE Done([reg EXCEPT !.expired = @ \ {run.cur}])
    <3>1. [reg EXCEPT !.expired = @ \ {run.cur}] \in RegShape  BY <1>2 DEF RegShape
    <3> QED BY <1>5, <2>1, <2>3, <3>1
  <2>4. CASE HasToken(run.cur) /\ run' = [run EXCEPT !.at = IF v = "error" THEN "deferring" ELSE "marking"]
    <3>1. family[run.cur] \in Refreshable  BY <2>4 DEF HasToken
    <3> QED BY <1>10, <2>1, <2>4, <3>1
  <2> QED BY <1>11, <2>2, <2>3, <2>4 DEF Verdict
<1>12. CASE Marked
  <2>1. /\ run.cur \in Cred /\ run.at \in {"marking", "deferring"} /\ UNCHANGED <<honoured, adrift>>
        /\ family[run.cur] \in Refreshable
    BY <1>2, <1>12, AtOne DEF Marked, RunAt, issuers, history, TokenInv
  <2>2. CASE UNCHANGED tokens /\ Throws  BY <1>2, <1>5, <2>1, <2>2
  <2>3. CASE tokens' = [tokens EXCEPT ![run.cur] = run.seen[run.cur]]
    <3>1. CASE run' = [run EXCEPT !.at = "refreshing"]  BY <1>10, <2>1, <2>3, <3>1
    <3>2. CASE Done(reg)
      <4>1. run' = [run EXCEPT !.at = "next", !.cur = NoCred, !.token = 0]
        BY <1>2, <2>1, <3>2, DoneEffect
      <4>2. run'.at = "next" /\ run'.cur = NoCred /\ run'.todo = run.todo /\ run'.seen = run.seen
        BY <1>2, <4>1 DEF RunTypeOK
      <4>3. ASSUME NEW c \in Cred, Current(c)' PROVE TokenKnown(c)'
        <5>1. TokenKnown(c)  BY <1>1, <2>1, <4>3 DEF Current, TokenInv
        <5>2. c # run.cur => tokens'[c] = tokens[c]  BY <1>2, <2>3
        <5>3. c = run.cur => tokens'[c] = run.seen[c]  BY <1>2, <2>3
        <5> QED BY <1>1, <2>1, <4>2, <5>1, <5>2, <5>3, RefreshOK DEF TokenKnown
      <4> QED BY <1>3, <4>2, <4>3 DEF TokenInv
    <3> QED BY <1>12, <2>1, <2>3, <3>1, <3>2, <2>2 DEF Marked
  <2> QED BY <1>12, <2>2, <2>3 DEF Marked
<1>13. CASE Rotated
  <2> DEFINE f == family[run.cur]
             k == honoured[f] + 1
  <2>1. /\ run.cur \in Cred /\ f \in Roots /\ UNCHANGED <<tokens, adrift>>
        /\ run.at = "refreshing" /\ f \in Refreshable /\ run.cur \notin run.todo /\ given[run.cur] = 0
    BY <1>2, <1>4, <1>13, AtOne
    DEF Rotated, RunAt, records, history, TokenInv, KeptInv, KnownInv, ReplacedInv
  <2>2. honoured' = [honoured EXCEPT ![f] = k] /\ run' = [run EXCEPT !.at = "saving", !.token = k]
    BY <1>13 DEF Rotated
  <2> HIDE DEF k
  <2>3. /\ run'.at = "saving" /\ run'.token = k /\ run'.cur = run.cur
        /\ run'.todo = run.todo /\ run'.seen = run.seen
    BY <1>2, <2>2 DEF RunTypeOK
  <2>4. ASSUME NEW c \in Cred, Current(c)' PROVE TokenKnown(c)'
    <3>1. Current(c)  BY <1>1, <2>1, <2>4 DEF Current
    <3>2. TokenKnown(c)  BY <3>1 DEF TokenInv
    <3>3. CASE c = run.cur
      <4>1. c \in stored  BY <2>1, <3>1, <3>3 DEF TokenInv, KeptInv, Current
      <4>2. honoured'[f] = k  BY <1>2, <2>1, <2>2
      <4> QED BY <1>1, <2>1, <2>3, <3>3, <4>1, <4>2 DEF TokenKnown
    <3>4. CASE c # run.cur
      <4>1. family[c] # f
        BY <2>1, <3>1, <3>4 DEF TokenInv, KeptInv, KnownInv, Current
      <4>2. honoured'[family[c]] = honoured[family[c]]
        <5>1. family[c] \in Roots  BY <3>1, RefreshOK DEF Current
        <5> QED BY <1>2, <2>2, <4>1, <5>1
      <4> QED BY <1>1, <2>1, <2>3, <3>2, <3>4, <4>2 DEF TokenKnown
    <3> QED BY <3>3, <3>4
  <2> QED BY <1>1, <1>3, <2>1, <2>3, <2>4 DEF TokenInv
<1>14. CASE TokenFails
  <2>1. /\ run.cur \in Cred /\ run.at = "refreshing" /\ Throws /\ UNCHANGED tokens
        /\ adrift \subseteq adrift'
    BY <1>2, <1>14, AtOne DEF TokenFails, RunAt, records
  <2>2. \A f \in Roots : honoured'[f] = honoured[f] \/ f \in adrift'
    BY <1>2, <1>14 DEF TokenFails
  <2> QED BY <1>2, <1>5, <2>1, <2>2
<1>15. CASE ReissueFails
  <2>1. run.cur \in Cred /\ run.at = "asking" /\ Throws /\ UNCHANGED <<tokens, honoured, adrift>>
    BY <1>2, <1>15, AtOne DEF ReissueFails, RunAt, records, issuers, history
  <2> QED BY <1>2, <1>5, <2>1
<1>16. CASE TokenSaved
  <2>1. run.cur \in Cred /\ run.at = "saving" /\ UNCHANGED honoured /\ family[run.cur] \in Refreshable
    BY <1>2, <1>16, AtOne DEF TokenSaved, RunAt, issuers, TokenInv
  <2>2. CASE Throws /\ adrift' = adrift \cup {family[run.cur]} /\ UNCHANGED tokens
    BY <1>2, <1>5, <2>1, <2>2
  <2>3. CASE /\ tokens' = [tokens EXCEPT ![run.cur] = run.token]
             /\ run' = [run EXCEPT !.at = "asking"] /\ UNCHANGED adrift
    <3>1. /\ run'.at = "asking" /\ run'.token = run.token /\ run'.cur = run.cur
          /\ run'.todo = run.todo /\ run'.seen = run.seen
      BY <1>2, <2>3 DEF RunTypeOK
    <3>2. ASSUME NEW c \in Cred, Current(c)' PROVE TokenKnown(c)'
      <4>1. TokenKnown(c)  BY <1>1, <2>3, <3>2 DEF Current, TokenInv
      <4>2. c # run.cur => tokens'[c] = tokens[c]  BY <1>2, <2>3
      <4>3. c = run.cur => tokens'[c] = run.token  BY <1>2, <2>3
      <4> QED BY <1>1, <2>1, <3>1, <4>1, <4>2, <4>3 DEF TokenKnown
    <3> QED BY <1>1, <1>3, <2>1, <3>1, <3>2 DEF TokenInv
  <2> QED BY <1>16, <2>2, <2>3 DEF TokenSaved
<1> QED BY <1>6, <1>7, <1>8, <1>9, <1>11, <1>12, <1>13, <1>14, <1>15, <1>16 DEF RunStep

\* Every step keeps the tokens known.
LEMMA TokenStep == TokenInv /\ [RefreshNext]_refreshVars => TokenInv'
<1> SUFFICES ASSUME TokenInv, [RefreshNext]_refreshVars PROVE TokenInv'
  OBVIOUS
<1>1. KeptInv' /\ KnownInv  BY KeptStep DEF TokenInv, KeptInv
<1> QED BY <1>1, FourSteps, TokenRuns, TokenMints, TokenSwaps, TokenAside

-----------------------------------------------------------------------------
\* The token a run presents, from a record it read when it began, is the one the issuer takes
\* now: no other run, acceptance or kill in between made it stale, unless an answer was lost on
\* its way to the record or the person removed a credential of the family (refreshToken.ts).
THEOREM TokenStaysCurrent == RefreshSpec => []TokenIsCurrent
<1>1. RefreshInit => TokenInv
  <2> SUFFICES ASSUME RefreshInit PROVE TokenInv
    OBVIOUS
  <2>1. stored \subseteq Roots
    <3> PICK s \in Starts : stored = s.holds  BY DEF RefreshInit
    <3> QED BY RefreshOK
  <2>2. run.todo = {} /\ run.cur = NoCred /\ run.at = "idle"  BY DEF RefreshInit, NoRun
  <2>3. \A t \in Taps : accepts[t].at = "none"  BY DEF RefreshInit, NoAccepts, NoAccept
  <2>4. \A n \in Fresh : issued[n] = 0  BY DEF RefreshInit, Nothing
  <2>5. ASSUME NEW c \in Cred, Current(c) PROVE TokenKnown(c)
    <3>1. c \in stored => tokens[c] = honoured[family[c]]
      BY <2>1, <2>5, RefreshOK DEF RefreshInit, Current
    <3> QED BY <2>2, <2>4, <3>1, RefreshOK DEF TokenKnown
  <2> QED BY <2>2, <2>3, <2>5, KeptInit DEF TokenInv
<1>2. TokenInv => TokenIsCurrent
  <2> SUFFICES ASSUME TokenInv, run.at = "refreshing", family[run.cur] \notin adrift \cup removed
               PROVE  run.seen[run.cur] = honoured[family[run.cur]]
    BY DEF TokenIsCurrent
  <2>1. RunTypeOK  BY DEF TokenInv, KeptInv, KnownInv, ReplacedInv, RefreshTypeOK
  <2>2. run.cur \in Cred /\ given[run.cur] = 0
    BY <2>1, AtOne DEF TokenInv, KeptInv, KnownInv, ReplacedInv
  <2>3. Current(run.cur)  BY <2>2 DEF TokenInv, Current
  <2> QED BY <2>2, <2>3 DEF TokenInv, TokenKnown
<1> QED BY <1>1, <1>2, TokenStep, PTL DEF RefreshSpec
=============================================================================
