------------------------- MODULE WitnessSessionProofs -------------------------
(* Theorems about WitnessSession, for any number of sessions and any bounds. *)
EXTENDS WitnessSession, SequenceTheorems, TLAPS

-----------------------------------------------------------------------------
(* Values. *)

\* What each kind of reply carries.
LEMMA Replies ==
    /\ \A r \in ChallengeReply : r.kind = "challenge" /\ r.session \in Session /\ r.challenge \in Challenge
                                 /\ r.sensor \in BOOLEAN
    /\ \A r \in VwcReply : r.kind = "vwc" /\ r.session \in Session /\ r.challenge \in Challenge
                           /\ r.observation \in Observation
    /\ \A r \in Refusal : r.kind = "refusal" /\ r.session \in Session
    /\ None.kind = "none" /\ TimedOut.kind = "timedOut"
BY DEF ChallengeReply, VwcReply, Refusal, None, TimedOut

\* What each kind of request carries.
LEMMA Requests ==
    \A m \in Request :
        /\ m.session \in Session
        /\ m.kind = "session" => m = [kind |-> "session", session |-> m.session]
        /\ m.kind = "submit" =>
              /\ m.challenge \in Challenge
              /\ m = [kind |-> "submit", session |-> m.session, challenge |-> m.challenge]
BY DEF Request

-----------------------------------------------------------------------------
(* Type correctness needs to know that no more challenges are drawn, and no more submits    *)
(* begun, than requests are delivered.                                                      *)

\* The stages before the session request is sent, and after the submit is.
Before == {"idle", "opening"}
After == {"submitted", "stored", "shared", "failed", "killed"}

\* A session that has passed its challenge has one; one that was answered has retained it.
Reached ==
    \A s \in Session :
        /\ stage[s] \in {"radio", "presenting", "submitting", "submitted"} => mine[s] # 0
        /\ answer[s].kind \in {"challenge", "vwc"} \/ stage[s] = "stored" => retained[s] # <<>>

\* A request under way was sent by its session, and a submit is over the session's challenge.
Asked ==
    \A m \in toWitness :
        /\ m.kind = "session" => stage[m.session] \notin Before
        /\ m.kind = "submit" => stage[m.session] \in After /\ m.challenge = mine[m.session]

SessionToCome(s) == stage[s] \in Before \/ [kind |-> "session", session |-> s] \in toWitness
SubmitToCome(s) ==
    stage[s] \notin After \/ [kind |-> "submit", session |-> s, challenge |-> mine[s]] \in toWitness

\* Each duplicate allows one request more than each session sends.
Counted ==
    /\ duplicates <= MaxDuplicates
    /\ \A s \in Session :
          /\ drawn[s] <= duplicates + 1
          /\ SessionToCome(s) => drawn[s] <= duplicates
          /\ begun[s] <= duplicates + 1
          /\ SubmitToCome(s) => begun[s] <= duplicates

WellFormed == TypeOK /\ Reached /\ Asked /\ Counted

\* The first state is well formed.
LEMMA WellFormedInit == Init => WellFormed
BY TicksAreNat DEF Init, WellFormed, TypeOK, Reached, Asked, Counted, SessionToCome, SubmitToCome, Before,
   After, None, Challenge

-----------------------------------------------------------------------------
(* The wallet's steps. *)

\* A wait registered keeps the shape of the waiters, the timers and the answers.
LEMMA AwaitTyped ==
    ASSUME TypeOK, NEW s \in Session, NEW kind \in {"challenge", "vwc"}, Await(s, kind)
    PROVE  /\ waiter' \in [Session -> {"none", "challenge", "vwc"}]
           /\ timer' \in [Session -> 0..Wait]
           /\ answer' \in [Session -> ChallengeReply \cup VwcReply \cup {None, TimedOut}]
<1>1. Wait \in 0..Wait
  BY TicksAreNat
<1>2. timer' \in [Session -> 0..Wait]
  BY <1>1 DEF TypeOK, Await
<1>3. waiter' \in [Session -> {"none", "challenge", "vwc"}]
  BY DEF TypeOK, Await
<1>4. answer' \in [Session -> ChallengeReply \cup VwcReply \cup {None, TimedOut}]
  BY DEF TypeOK, Await
<1> QED BY <1>2, <1>3, <1>4

\* Opening a session keeps the shape.
LEMMA OpenWell ==
    ASSUME WellFormed, NEW s \in Session, Open(s) PROVE WellFormed'
<1> USE DEF WellFormed, Open, Await, witness, budget
<1>1. TypeOK'
  <2>1. stage' \in [Session -> {"idle", "opening", "opened", "radio", "presenting", "submitting",
                                "submitted", "stored", "shared", "failed", "killed"}]
    BY DEF TypeOK
  <2>2. Await(s, "challenge")
    BY DEF Open
  <2> QED BY <2>1, <2>2, AwaitTyped DEF TypeOK
<1>2. Reached'
  BY DEF TypeOK, Reached, None
<1>3. Asked'
  BY Requests DEF TypeOK, Asked, Before, After
<1>4. Counted'
  BY DEF TypeOK, Counted, SessionToCome, SubmitToCome, Before, After
<1> QED BY <1>1, <1>2, <1>3, <1>4

\* A request sent is one more to come less, and one more under way.
LEMMA SentWell ==
    ASSUME WellFormed, NEW s \in Session, Sent(s) PROVE WellFormed'
<1> USE DEF WellFormed, witness, budget
<1> DEFINE open == [kind |-> "session", session |-> s]
           submit == [kind |-> "submit", session |-> s, challenge |-> mine[s]]
<1>1. CASE stage[s] = "opening"
  <2>1. toWitness' = toWitness \cup {open} /\ open \in Request /\ stage' = [stage EXCEPT ![s] = "opened"]
    BY <1>1 DEF Sent, Request
  <2> HIDE DEF open
  <2>2. TypeOK'
    BY <2>1 DEF Sent, TypeOK
  <2>3. Reached'
    BY <2>1 DEF Sent, TypeOK, Reached
  <2>4. Asked'
    BY <1>1, <2>1, Requests DEF Sent, TypeOK, Asked, Before, After, open
  <2>5. Counted'
    BY <1>1, <2>1 DEF Sent, TypeOK, Counted, SessionToCome, SubmitToCome, Before, After, open
  <2> QED BY <2>2, <2>3, <2>4, <2>5
<1>2. CASE stage[s] = "submitting"
  <2>0. mine[s] \in Challenge
    BY <1>2 DEF TypeOK, Reached
  <2>1. toWitness' = toWitness \cup {submit} /\ submit \in Request /\ stage' = [stage EXCEPT ![s] = "submitted"]
    BY <1>2, <2>0 DEF Sent, Request
  <2> HIDE DEF submit
  <2>2. TypeOK'
    BY <2>1 DEF Sent, TypeOK
  <2>3. Reached'
    BY <1>2, <2>1 DEF Sent, TypeOK, Reached
  <2>4. Asked'
    BY <1>2, <2>1, Requests DEF Sent, TypeOK, Asked, Before, After, submit
  <2>5. Counted'
    BY <1>2, <2>1 DEF Sent, TypeOK, Counted, SessionToCome, SubmitToCome, Before, After, submit
  <2> QED BY <2>2, <2>3, <2>4, <2>5
<1> QED BY <1>1, <1>2 DEF Sent

\* The other steps of the wallet send nothing.
WalletOnly == UNCHANGED <<witness, toWitness, duplicates>>

\* A step that sends nothing leaves the requests, and their count, as they were.
LEMMA SilentCounted ==
    ASSUME TypeOK, Asked, Counted, WalletOnly, TypeOK',
           \A x \in Session :
              /\ stage'[x] \in Before => stage[x] \in Before
              /\ stage'[x] \notin After => stage[x] \notin After
              /\ stage[x] \notin Before \cup {"opened"} => mine'[x] = mine[x]
              /\ stage[x] \in After => stage'[x] \in After
    PROVE  Asked' /\ Counted'
<1>1. Asked'
  <2> SUFFICES ASSUME NEW m \in toWitness
               PROVE  /\ m.kind = "session" => stage'[m.session] \notin Before
                      /\ m.kind = "submit" => stage'[m.session] \in After /\ m.challenge = mine'[m.session]
    BY DEF Asked, WalletOnly
  <2>1. m.session \in Session
    BY Requests DEF TypeOK
  <2>2. After \cap (Before \cup {"opened"}) = {}
    BY DEF Before, After
  <2> QED BY <2>1, <2>2 DEF Asked
<1>2. Counted'
  BY DEF TypeOK, Counted, SessionToCome, SubmitToCome, Before, After, WalletOnly, witness
<1> QED BY <1>1, <1>2

\* A send that fails keeps the shape.
LEMMA ThrowsWell ==
    ASSUME WellFormed, NEW s \in Session, Throws(s) PROVE WellFormed'
<1> USE DEF WellFormed
<1>0. /\ stage' = [stage EXCEPT ![s] = "failed"] /\ stage[s] \in {"opening", "submitting", "radio"}
      /\ failures' = failures + 1
      /\ UNCHANGED <<waiter, timer, answer, mine, transcript, retained, vwc, terminal, refused, witness,
                     toWitness, toWallet, duplicates, crashes>>
  BY DEF Throws
<1>1. TypeOK'
  <2>1. failures' \in Nat
    BY <1>0 DEF TypeOK
  <2>2. stage' \in [Session -> {"idle", "opening", "opened", "radio", "presenting", "submitting",
                                "submitted", "stored", "shared", "failed", "killed"}]
    BY <1>0 DEF TypeOK
  <2> QED BY <1>0, <2>1, <2>2 DEF TypeOK, witness
<1>2. Reached'
  BY <1>0 DEF TypeOK, Reached
<1>3. \A x \in Session : x # s => stage'[x] = stage[x]
  BY <1>0 DEF TypeOK
<1>4. stage'[s] = "failed"
  BY <1>0 DEF TypeOK
<1>5. Asked' /\ Counted'
  BY <1>0, <1>1, <1>3, <1>4, SilentCounted DEF WalletOnly, Before, After
<1> QED BY <1>1, <1>2, <1>5

\* A challenge received is one; a timed-out wait reaches nothing.
LEMMA ChallengedWell ==
    ASSUME WellFormed, NEW s \in Session, Challenged(s) PROVE WellFormed'
<1> USE DEF WellFormed, witness, budget
<1>0. answer[s] \in ChallengeReply \cup VwcReply \cup {None, TimedOut}
  BY DEF TypeOK
<1>1. CASE answer[s] = TimedOut /\ stage' = [stage EXCEPT ![s] = "failed"] /\ UNCHANGED mine
  <2>1. TypeOK'
    BY <1>1 DEF TypeOK, Challenged
  <2>2. Reached'
    BY <1>1 DEF TypeOK, Reached, Challenged
  <2>3. Asked' /\ Counted'
    BY <1>1, <2>1, SilentCounted DEF TypeOK, Challenged, WalletOnly, Before, After
  <2> QED BY <2>1, <2>2, <2>3
<1>2. CASE /\ answer[s].kind = "challenge"
           /\ mine' = [mine EXCEPT ![s] = answer[s].challenge]
           /\ \E next \in {"presenting", "radio", "failed"} : stage' = [stage EXCEPT ![s] = next]
  <2>0. answer[s].challenge \in Challenge /\ answer[s].challenge # 0
    BY <1>0, <1>2, Replies DEF Challenge
  <2>1. TypeOK'
    BY <1>2, <2>0 DEF TypeOK, Challenged
  <2>2. Reached'
    BY <1>2, <2>0 DEF TypeOK, Reached, Challenged
  <2>3. PICK next \in {"presenting", "radio", "failed"} : stage' = [stage EXCEPT ![s] = next]
    BY <1>2
  <2>4. stage[s] = "opened"
    BY DEF Challenged
  <2>5. \A x \in Session : x # s => stage'[x] = stage[x] /\ mine'[x] = mine[x]
    BY <1>2, <2>3 DEF TypeOK
  <2>6. stage'[s] \in {"presenting", "radio", "failed"}
    BY <2>3 DEF TypeOK
  <2>7. WalletOnly
    BY DEF Challenged, WalletOnly
  <2>8. Asked' /\ Counted'
    BY <2>1, <2>4, <2>5, <2>6, <2>7, SilentCounted DEF Before, After
  <2> QED BY <2>1, <2>2, <2>8
<1> QED BY <1>1, <1>2 DEF Challenged

\* The radio phase keeps the shape.
LEMMA RadioEndsWell ==
    ASSUME WellFormed, NEW s \in Session, NEW produced \in BOOLEAN, RadioEnds(s, produced) PROVE WellFormed'
<1> USE DEF WellFormed, witness, budget
<1>1. TypeOK'
  BY DEF TypeOK, RadioEnds
<1>2. Reached'
  BY DEF TypeOK, Reached, RadioEnds
<1>3. Asked' /\ Counted'
  BY <1>1, SilentCounted DEF TypeOK, RadioEnds, WalletOnly, Before, After
<1> QED BY <1>1, <1>2, <1>3

\* Presenting keeps the shape.
LEMMA PresentWell ==
    ASSUME WellFormed, NEW s \in Session, Present(s) PROVE WellFormed'
<1> USE DEF WellFormed, witness, budget
<1>1. TypeOK'
  <2>1. stage' \in [Session -> {"idle", "opening", "opened", "radio", "presenting", "submitting",
                                "submitted", "stored", "shared", "failed", "killed"}]
    BY DEF TypeOK, Present
  <2>2. Await(s, "vwc")
    BY DEF Present
  <2> QED BY <2>1, <2>2, AwaitTyped DEF TypeOK, Present
<1>2. Reached'
  BY DEF TypeOK, Reached, Present, Await, None
<1>3. Asked' /\ Counted'
  BY <1>1, SilentCounted DEF TypeOK, Present, WalletOnly, Before, After
<1> QED BY <1>1, <1>2, <1>3

\* What is stored is a credential.
LEMMA ConcludedWell ==
    ASSUME WellFormed, NEW s \in Session, Concluded(s) PROVE WellFormed'
<1> USE DEF WellFormed, witness, budget
<1>0. answer[s] \in ChallengeReply \cup VwcReply \cup {None, TimedOut}
  BY DEF TypeOK
<1>1. CASE /\ answer[s].kind = "vwc"
           /\ stage' = [stage EXCEPT ![s] = "stored"]
           /\ vwc' = [vwc EXCEPT ![s] = answer[s]]
  <2>0. answer[s] \in VwcReply
    BY <1>0, <1>1, Replies
  <2>1. TypeOK'
    BY <1>1, <2>0 DEF TypeOK, Concluded
  <2>2. Reached'
    BY <1>1 DEF TypeOK, Reached, Concluded
  <2>3. Asked' /\ Counted'
    BY <1>1, <2>1, SilentCounted DEF TypeOK, Concluded, WalletOnly, Before, After
  <2> QED BY <2>1, <2>2, <2>3
<1>2. CASE stage' = [stage EXCEPT ![s] = "failed"] /\ UNCHANGED vwc
  <2>1. TypeOK'
    BY <1>2 DEF TypeOK, Concluded
  <2>2. Reached'
    BY <1>2 DEF TypeOK, Reached, Concluded
  <2>3. Asked' /\ Counted'
    BY <1>2, <2>1, SilentCounted DEF TypeOK, Concluded, WalletOnly, Before, After
  <2> QED BY <2>1, <2>2, <2>3
<1> QED BY <1>1, <1>2 DEF Concluded

\* A response is retained for every session that stored its credential.
LEMMA AssembleWell ==
    ASSUME WellFormed, NEW s \in Session, Assemble(s) PROVE WellFormed'
<1> USE DEF WellFormed, witness, budget
<1>0. retained[s][Len(retained[s])] \in ChallengeReply \cup VwcReply
  <2>1. retained[s] \in Seq(ChallengeReply \cup VwcReply) /\ retained[s] # <<>>
    BY DEF TypeOK, Reached, Assemble
  <2> QED BY <2>1
<1>1. TypeOK'
  BY <1>0 DEF TypeOK, Assemble
<1>2. Reached'
  BY DEF TypeOK, Reached, Assemble
<1>3. Asked' /\ Counted'
  BY <1>1, SilentCounted DEF TypeOK, Assemble, WalletOnly, Before, After
<1> QED BY <1>1, <1>2, <1>3

\* A timer that fires keeps the shape.
LEMMA TimerFiresWell ==
    ASSUME WellFormed, NEW s \in Session, TimerFires(s) PROVE WellFormed'
<1> USE DEF WellFormed, witness, budget
<1>1. TypeOK'
  BY DEF TypeOK, TimerFires
<1>2. Reached'
  BY DEF TypeOK, Reached, TimerFires, TimedOut
<1>3. Asked' /\ Counted'
  BY <1>1, SilentCounted DEF TypeOK, TimerFires, WalletOnly, Before, After
<1> QED BY <1>1, <1>2, <1>3

\* A kill keeps the shape.
LEMMA WalletKilledWell ==
    ASSUME WellFormed, WalletKilled PROVE WellFormed'
<1> USE DEF WellFormed, witness, budget
<1>1. TypeOK'
  BY DEF TypeOK, WalletKilled
<1>2. Reached'
  BY DEF TypeOK, Reached, WalletKilled, None
<1>3. Asked' /\ Counted'
  BY <1>1, SilentCounted DEF TypeOK, WalletKilled, WalletOnly, Before, After
<1> QED BY <1>1, <1>2, <1>3

\* Handling a reply keeps the wallet's shape, and sends nothing.
LEMMA HandleReplyTyped ==
    ASSUME TypeOK, Reached, NEW r \in Reply, HandleReply(r), UNCHANGED <<stage, mine>>
    PROVE  /\ waiter' \in [Session -> {"none", "challenge", "vwc"}]
           /\ answer' \in [Session -> ChallengeReply \cup VwcReply \cup {None, TimedOut}]
           /\ retained' \in [Session -> Seq(ChallengeReply \cup VwcReply)]
           /\ refused' \subseteq Session
           /\ Reached'
<1>0. r.session \in Session
  BY Replies DEF Reply
<1>1. CASE r.kind # "refusal"
  <2>1. r \in ChallengeReply \cup VwcReply
    BY <1>1, Replies DEF Reply
  <2>2. /\ retained' = [retained EXCEPT ![r.session] = Append(@, r)]
        /\ Resolve(r.session, r) /\ UNCHANGED refused
    BY <1>1 DEF HandleReply
  <2>3. retained' \in [Session -> Seq(ChallengeReply \cup VwcReply)]
    BY <2>1, <2>2, <1>0 DEF TypeOK
  <2>4. /\ waiter' \in [Session -> {"none", "challenge", "vwc"}]
        /\ answer' \in [Session -> ChallengeReply \cup VwcReply \cup {None, TimedOut}]
    <3>1. CASE waiter[r.session] = r.kind
      <4>1. waiter' = [waiter EXCEPT ![r.session] = "none"] /\ answer' = [answer EXCEPT ![r.session] = r]
        BY <3>1, <2>2 DEF Resolve
      <4>2. waiter' \in [Session -> {"none", "challenge", "vwc"}]
        BY <4>1, <1>0 DEF TypeOK
      <4>3. answer' \in [Session -> ChallengeReply \cup VwcReply \cup {None, TimedOut}]
        BY <4>1, <2>1, <1>0 DEF TypeOK
      <4> QED BY <4>2, <4>3
    <3>2. CASE waiter[r.session] # r.kind
      BY <3>2, <2>2 DEF TypeOK, Resolve
    <3> QED BY <3>1, <3>2
  <2>5. \A s \in Session : retained'[s] # <<>> \/ (s # r.session /\ retained'[s] = retained[s])
    <3>1. retained[r.session] \in Seq(ChallengeReply \cup VwcReply)
      BY <1>0 DEF TypeOK
    <3>2. Append(retained[r.session], r) # <<>>
      BY <2>1, <3>1, AppendProperties
    <3> QED BY <2>2, <3>2, <1>0 DEF TypeOK
  <2>6. \A s \in Session : s # r.session => answer'[s] = answer[s]
    BY <2>2, <1>0 DEF TypeOK, Resolve
  <2>7. Reached'
    BY <2>5, <2>6 DEF Reached
  <2> QED BY <2>2, <2>3, <2>4, <2>7 DEF TypeOK
<1>2. CASE r.kind = "refusal"
  BY <1>0, <1>2 DEF HandleReply, TypeOK, Reached
<1> QED BY <1>1, <1>2

\* Receiving keeps the shape.
LEMMA ReceiveWell ==
    ASSUME WellFormed, Receive \/ ReceiveTwice PROVE WellFormed'
<1> USE DEF WellFormed, witness
<1>0. toWallet \in Seq(Reply) /\ toWallet # <<>> /\ Head(toWallet) \in Reply /\ HandleReply(Head(toWallet))
      /\ UNCHANGED <<stage, mine>>
  BY DEF TypeOK, Receive, ReceiveTwice
<1>1. /\ waiter' \in [Session -> {"none", "challenge", "vwc"}]
      /\ answer' \in [Session -> ChallengeReply \cup VwcReply \cup {None, TimedOut}]
      /\ retained' \in [Session -> Seq(ChallengeReply \cup VwcReply)]
      /\ refused' \subseteq Session
      /\ Reached'
  BY <1>0, HandleReplyTyped
<1>2. toWallet' \in Seq(Reply)
  BY <1>0 DEF Receive, ReceiveTwice
<1>3. TypeOK'
  <2>1. CASE Receive
    BY <2>1, <1>1, <1>2 DEF TypeOK, Receive, budget
  <2>2. CASE ReceiveTwice
    <3>1. /\ duplicates' = duplicates + 1
          /\ UNCHANGED <<stage, timer, mine, transcript, vwc, terminal, sessions, old, drawn, window, seen,
                         submits, begun, issued, outgoing, toWitness, failures, crashes>>
      BY <2>2 DEF ReceiveTwice
    <3>2. duplicates' \in Nat
      BY <3>1 DEF TypeOK
    <3> QED BY <3>1, <3>2, <1>1, <1>2 DEF TypeOK
  <2> QED BY <2>1, <2>2
<1>4. Asked'
  <2>1. CASE Receive
    BY <2>1 DEF Asked, Receive
  <2>2. CASE ReceiveTwice
    BY <2>2 DEF Asked, ReceiveTwice
  <2> QED BY <2>1, <2>2
<1>5. Counted'
  <2>1. CASE Receive
    BY <2>1 DEF Counted, SessionToCome, SubmitToCome, Receive, budget
  <2>2. CASE ReceiveTwice
    BY <2>2, TicksAreNat DEF TypeOK, Counted, SessionToCome, SubmitToCome, ReceiveTwice
  <2> QED BY <2>1, <2>2
<1> QED BY <1>1, <1>3, <1>4, <1>5

-----------------------------------------------------------------------------
(* The witness's steps. *)

\* A request taken from the network leaves it well, and is counted.
LEMMA TakeAsked ==
    ASSUME WellFormed, NEW m \in Request, Take(m), UNCHANGED <<stage, mine>>
    PROVE  Asked' /\ toWitness' \subseteq toWitness
<1>1. toWitness' \subseteq toWitness
  BY DEF Take
<1> QED BY <1>1 DEF WellFormed, Asked

\* A challenge drawn is within the deliveries allowed.
LEMMA HandleSessionWell ==
    ASSUME WellFormed, NEW m \in toWitness, HandleSession(m) PROVE WellFormed'
<1> USE DEF WellFormed
<1> DEFINE s == m.session
           c == Fresh(s)
           observing == Policy # "off" /\ s \in Offers
           reply == [kind |-> "challenge", session |-> s, challenge |-> c, sensor |-> observing]
<1>0. /\ m \in Request /\ m.kind = "session" /\ s \in Session
      /\ m = [kind |-> "session", session |-> s] /\ Take(m) /\ stage[s] \notin Before
  BY Requests DEF TypeOK, HandleSession, Asked
<1>1. drawn[s] \in Nat /\ drawn[s] <= duplicates /\ duplicates <= MaxDuplicates /\ duplicates \in Nat
  BY <1>0 DEF TypeOK, Counted, SessionToCome
<1>2. c \in Challenge
  BY <1>1, TicksAreNat DEF Fresh, Challenge
<1>3. reply \in ChallengeReply /\ [challenge |-> c, observing |-> observing] \in TaskSession
  BY <1>0, <1>2 DEF ChallengeReply, TaskSession
<1>4. /\ drawn' = [drawn EXCEPT ![s] = @ + 1]
      /\ window' = IF observing THEN [window EXCEPT ![s][c] = ObserveWindow] ELSE window
      /\ sessions' = [x \in Session |->
                          IF x = s THEN [challenge |-> c, observing |-> observing]
                          ELSE IF x \in old THEN NoSession ELSE sessions[x]]
      /\ old' = {}
      /\ outgoing' = outgoing \cup {reply}
      /\ UNCHANGED <<wallet, seen, submits, begun, issued, toWallet, failures, crashes>>
  BY DEF HandleSession
<1> HIDE DEF c, observing, reply, s
<1>5. TypeOK'
  <2>1. duplicates' \in Nat /\ toWitness' \subseteq Request
    BY <1>0, <1>1 DEF Take, TypeOK
  <2>2. window' \in [Session -> [Challenge -> 0..ObserveWindow]]
    <3>1. ObserveWindow \in 0..ObserveWindow
      BY TicksAreNat
    <3> QED BY <1>0, <1>2, <1>4, <3>1 DEF TypeOK
  <2>3. sessions' \in [Session -> TaskSession \cup {NoSession}]
    BY <1>3, <1>4 DEF TypeOK
  <2>4. outgoing' \subseteq Reply
    BY <1>3, <1>4 DEF TypeOK, Reply
  <2>5. drawn' \in [Session -> Nat]
    BY <1>4, <1>0 DEF TypeOK
  <2> QED BY <1>4, <2>1, <2>2, <2>3, <2>4, <2>5 DEF TypeOK, wallet
<1>6. Reached'
  BY <1>4 DEF Reached, wallet
<1>7. Asked'
  BY <1>0, <1>4, TakeAsked DEF wallet
<1>8. Counted'
  <2>1. CASE toWitness' = toWitness \ {m} /\ UNCHANGED duplicates
    BY <2>1, <1>0, <1>1, <1>4 DEF TypeOK, Counted, SessionToCome, SubmitToCome, wallet
  <2>2. CASE duplicates < MaxDuplicates /\ duplicates' = duplicates + 1 /\ UNCHANGED toWitness
    <3>1. duplicates' <= MaxDuplicates
      BY <2>2, <1>1, TicksAreNat
    <3>2. ASSUME NEW x \in Session
          PROVE  /\ drawn'[x] <= duplicates' + 1
                 /\ SessionToCome(x)' => drawn'[x] <= duplicates'
      <4>1. drawn[x] \in Nat /\ drawn[x] <= duplicates + 1 /\ (SessionToCome(x) => drawn[x] <= duplicates)
        BY DEF TypeOK, Counted
      <4>2. drawn'[x] = IF x = s THEN drawn[x] + 1 ELSE drawn[x]
        BY <1>4 DEF TypeOK
      <4> QED BY <4>1, <4>2, <2>2, <1>1
    <3>3. ASSUME NEW x \in Session
          PROVE  /\ begun'[x] <= duplicates' + 1
                 /\ SubmitToCome(x)' => begun'[x] <= duplicates'
      <4>1. begun[x] \in Nat /\ begun[x] <= duplicates + 1 /\ begun'[x] = begun[x]
        BY <1>4 DEF TypeOK, Counted
      <4> QED BY <4>1, <2>2, <1>1
    <3> QED BY <3>1, <3>2, <3>3 DEF Counted
  <2> QED BY <1>0, <2>1, <2>2 DEF Take
<1> QED BY <1>5, <1>6, <1>7, <1>8

\* Of the witness's other steps, each leaves the wallet and the requests alone.
LEMMA WitnessOnlyWell ==
    ASSUME WellFormed, TypeOK', UNCHANGED <<wallet, toWitness, duplicates, drawn, begun>>
    PROVE  WellFormed'
BY DEF WellFormed, Reached, Asked, Counted, SessionToCome, SubmitToCome, wallet

\* So is the number of a submit begun.
LEMMA BeginSubmitWell ==
    ASSUME WellFormed, NEW m \in toWitness, BeginSubmit(m) PROVE WellFormed'
<1> USE DEF WellFormed
<1> DEFINE s == m.session
           attempt == begun[s] + 1
           t == [session |-> s, attempt |-> attempt, presented |-> m.challenge,
                 at |-> "proof", observing |-> FALSE, observation |-> "absent"]
           refusal == [kind |-> "refusal", session |-> s, attempt |-> attempt]
<1>0. /\ m \in Request /\ m.kind = "submit" /\ s \in Session /\ m.challenge \in Challenge
      /\ m = [kind |-> "submit", session |-> s, challenge |-> mine[s]] /\ Take(m) /\ stage[s] \in After
  BY Requests DEF TypeOK, BeginSubmit, Asked
<1>1. begun[s] \in Nat /\ begun[s] <= duplicates /\ duplicates <= MaxDuplicates /\ duplicates \in Nat
  BY <1>0 DEF TypeOK, Counted, SubmitToCome
<1>2. attempt \in Attempt
  BY <1>1, TicksAreNat DEF Attempt
<1>3. t \in Submit /\ refusal \in Reply
  BY <1>0, <1>2 DEF Submit, Reply, Refusal, Observation
<1>4. /\ begun' = [begun EXCEPT ![s] = @ + 1]
      /\ submits' \in {submits, submits \cup {t}}
      /\ outgoing' \in {outgoing, outgoing \cup {refusal}}
      /\ UNCHANGED <<wallet, sessions, old, drawn, window, seen, issued, toWallet, failures, crashes>>
  BY DEF BeginSubmit, Refuse
<1> HIDE DEF s, attempt, t, refusal
<1>5. TypeOK'
  <2>1. duplicates' \in Nat /\ toWitness' \subseteq Request
    BY <1>0, <1>1 DEF Take, TypeOK
  <2>2. begun' \in [Session -> Nat]
    BY <1>4, <1>0 DEF TypeOK
  <2>3. submits' \subseteq Submit /\ outgoing' \subseteq Reply
    BY <1>3, <1>4 DEF TypeOK
  <2> QED BY <1>4, <2>1, <2>2, <2>3 DEF TypeOK, wallet
<1>6. Reached'
  BY <1>4 DEF Reached, wallet
<1>7. Asked'
  BY <1>0, <1>4, TakeAsked DEF wallet
<1>8. Counted'
  <2>1. CASE toWitness' = toWitness \ {m} /\ UNCHANGED duplicates
    BY <2>1, <1>0, <1>1, <1>4 DEF TypeOK, Counted, SessionToCome, SubmitToCome, wallet
  <2>2. CASE duplicates < MaxDuplicates /\ duplicates' = duplicates + 1 /\ UNCHANGED toWitness
    <3>1. duplicates' <= MaxDuplicates
      BY <2>2, <1>1, TicksAreNat
    <3>2. ASSUME NEW x \in Session
          PROVE  /\ begun'[x] <= duplicates' + 1
                 /\ SubmitToCome(x)' => begun'[x] <= duplicates'
      <4>1. begun[x] \in Nat /\ begun[x] <= duplicates + 1 /\ (SubmitToCome(x) => begun[x] <= duplicates)
        BY DEF TypeOK, Counted
      <4>2. begun'[x] = IF x = s THEN begun[x] + 1 ELSE begun[x]
        BY <1>4 DEF TypeOK
      <4> QED BY <4>1, <4>2, <2>2, <1>1
    <3>3. ASSUME NEW x \in Session
          PROVE  /\ drawn'[x] <= duplicates' + 1
                 /\ SessionToCome(x)' => drawn'[x] <= duplicates'
      <4>1. drawn[x] \in Nat /\ drawn[x] <= duplicates + 1 /\ drawn'[x] = drawn[x]
        BY <1>4 DEF TypeOK, Counted
      <4> QED BY <4>1, <2>2, <1>1
    <3> QED BY <3>1, <3>2, <3>3 DEF Counted
  <2> QED BY <1>0, <2>1, <2>2 DEF Take
<1> QED BY <1>5, <1>6, <1>7, <1>8

\* A verified submit is about a session that is there.
LEMMA VerifySubmitWell ==
    ASSUME WellFormed, NEW t \in submits, VerifySubmit(t) PROVE WellFormed'
<1> USE DEF WellFormed
<1> DEFINE session == sessions[t.session]
           verified == [t EXCEPT !.at = IF Policy = "off" THEN "signing" ELSE "observation",
                                 !.presented = session.challenge,
                                 !.observing = session.observing]
           refusal == [kind |-> "refusal", session |-> t.session, attempt |-> t.attempt]
<1>1. t \in Submit /\ t.session \in Session /\ t.attempt \in Attempt
  BY DEF TypeOK, Submit
<1>2. refusal \in Reply
  BY <1>1 DEF Reply, Refusal
<1>3. Bound(t.presented, session) => verified \in Submit
  <2>1. session \in TaskSession \cup {NoSession}
    BY <1>1 DEF TypeOK
  <2>2. session # NoSession => session.challenge \in Challenge /\ session.observing \in BOOLEAN
    BY <2>1 DEF TaskSession
  <2> HIDE DEF session
  <2> QED BY <1>1, <2>2 DEF Bound, Submit
<1>4. /\ submits' \subseteq submits \cup IF Bound(t.presented, session) THEN {verified} ELSE {}
      /\ outgoing' \subseteq outgoing \cup {refusal}
      /\ UNCHANGED <<wallet, sessions, old, drawn, window, seen, begun, issued, toWitness, toWallet, budget>>
  BY DEF VerifySubmit, Refuse
<1> HIDE DEF session, verified, refusal
<1>5. submits' \subseteq Submit /\ outgoing' \subseteq Reply
  BY <1>2, <1>3, <1>4 DEF TypeOK
<1>6. TypeOK'
  BY <1>4, <1>5 DEF TypeOK, wallet, budget
<1> QED BY <1>4, <1>6, WitnessOnlyWell DEF budget

\* An observed submit keeps the shape.
LEMMA ObserveSubmitWell ==
    ASSUME WellFormed, NEW t \in submits, NEW observation \in Observation, ObserveSubmit(t, observation)
    PROVE  WellFormed'
<1> USE DEF WellFormed
<1> DEFINE observed == [t EXCEPT !.at = "signing", !.observation = observation]
           refusal == [kind |-> "refusal", session |-> t.session, attempt |-> t.attempt]
<1>1. t \in Submit /\ t.session \in Session /\ t.attempt \in Attempt
  BY DEF TypeOK, Submit
<1>2. refusal \in Reply
  BY <1>1 DEF Reply, Refusal
<1>3. observed \in Submit
  BY <1>1 DEF Submit
<1>4. /\ submits' \subseteq submits \cup {observed}
      /\ outgoing' \subseteq outgoing \cup {refusal}
      /\ UNCHANGED <<wallet, sessions, old, drawn, window, seen, begun, issued, toWitness, toWallet, budget>>
  BY DEF ObserveSubmit, Refuse
<1> HIDE DEF observed, refusal
<1>5. submits' \subseteq Submit /\ outgoing' \subseteq Reply
  BY <1>2, <1>3, <1>4 DEF TypeOK
<1>6. TypeOK'
  BY <1>4, <1>5 DEF TypeOK, wallet, budget
<1> QED BY <1>4, <1>6, WitnessOnlyWell DEF budget

\* The credential that a handler signs.
Credential(t) == [kind |-> "vwc", session |-> t.session, challenge |-> t.presented,
                  attempt |-> t.attempt, observation |-> t.observation]

\* What is issued is a credential.
LEMMA IssueWell ==
    ASSUME WellFormed, NEW t \in submits, Issue(t) PROVE WellFormed'
<1> USE DEF WellFormed
<1>1. t \in Submit
  BY DEF TypeOK
<1>2. Credential(t) \in VwcReply
  BY <1>1 DEF Submit, VwcReply, Credential
<1>3. /\ submits' = submits \ {t}
      /\ sessions' = [sessions EXCEPT ![t.session] = NoSession]
      /\ old' = old \ {t.session}
      /\ issued' = issued \cup {Credential(t)} /\ outgoing' = outgoing \cup {Credential(t)}
      /\ UNCHANGED <<wallet, drawn, window, seen, begun, toWitness, toWallet, budget>>
  BY DEF Issue, Credential
<1>4. TypeOK'
  BY <1>2, <1>3 DEF TypeOK, wallet, budget, Reply
<1> QED BY <1>3, <1>4, WitnessOnlyWell DEF budget

\* A reply sent, or lost, keeps the shape.
LEMMA ReplyWell ==
    ASSUME WellFormed, NEW r \in outgoing, ReplySent(r) \/ ReplyFails(r) PROVE WellFormed'
<1> USE DEF WellFormed
<1>1. /\ outgoing' = outgoing \ {r} /\ toWallet' \in {toWallet, Append(toWallet, r)}
      /\ failures' \in {failures, failures + 1}
      /\ UNCHANGED <<wallet, sessions, old, drawn, window, seen, submits, begun, issued, toWitness,
                     duplicates, crashes>>
  BY DEF ReplySent, ReplyFails, budget
<1>2. toWallet' \in Seq(Reply) /\ failures' \in Nat
  <2>1. r \in Reply /\ toWallet \in Seq(Reply) /\ failures \in Nat
    BY DEF TypeOK
  <2>2. Append(toWallet, r) \in Seq(Reply)
    BY <2>1
  <2>3. failures' \in Nat
    BY <1>1, <2>1
  <2> QED BY <1>1, <2>1, <2>2, <2>3
<1>3. TypeOK'
  BY <1>1, <1>2 DEF TypeOK, wallet
<1> QED BY <1>1, <1>3, WitnessOnlyWell

\* The sensor reads a challenge, not the absence of one.
LEMMA SensorReadsWell ==
    ASSUME WellFormed, NEW s \in Session, SensorReads(s) PROVE WellFormed'
<1> USE DEF WellFormed, budget
<1>1. mine[s] \in Challenge
  BY DEF SensorReads, TypeOK, Reached
<1>2. seen' = seen \cup {<<s, mine[s]>>}
      /\ UNCHANGED <<wallet, sessions, old, drawn, window, submits, begun, issued, outgoing, toWitness,
                     toWallet, budget>>
  BY DEF SensorReads
<1>3. seen' \subseteq Session \X Challenge
  <2>1. <<s, mine[s]>> \in Session \X Challenge
    BY <1>1
  <2>2. seen \subseteq Session \X Challenge
    BY DEF TypeOK
  <2> QED BY <1>2, <2>1, <2>2
<1>4. TypeOK'
  BY <1>2, <1>3 DEF TypeOK, wallet
<1> QED BY <1>4, WitnessOnlyWell DEF SensorReads

\* Ageing keeps the shape.
LEMMA GrowOldWell ==
    ASSUME WellFormed, NEW s \in Session, GrowOld(s) PROVE WellFormed'
<1> USE DEF WellFormed, budget
<1>1. TypeOK'
  BY DEF GrowOld, TypeOK, wallet
<1> QED BY <1>1, WitnessOnlyWell DEF GrowOld

\* A restart of the witness keeps the shape.
LEMMA WitnessRestartsWell ==
    ASSUME WellFormed, WitnessRestarts PROVE WellFormed'
<1> USE DEF WellFormed
<1>0. /\ crashes' = crashes + 1
      /\ sessions' = [s \in Session |-> NoSession]
      /\ old' = {} /\ submits' = {} /\ outgoing' = {}
      /\ window' = [s \in Session |-> [c \in Challenge |-> 0]]
      /\ UNCHANGED <<wallet, drawn, seen, begun, issued, toWitness, toWallet, duplicates, failures>>
  BY DEF WitnessRestarts
<1>1. window' \in [Session -> [Challenge -> 0..ObserveWindow]]
  <2>1. 0 \in 0..ObserveWindow
    BY TicksAreNat
  <2> QED BY <1>0, <2>1
<1>2. sessions' \in [Session -> TaskSession \cup {NoSession}]
  BY <1>0
<1>3. TypeOK'
  BY <1>0, <1>1, <1>2 DEF TypeOK, wallet
<1> QED BY <1>0, <1>3, WitnessOnlyWell

\* A tick keeps the timers and the windows within their bounds.
LEMMA TickWell ==
    ASSUME WellFormed, Tick PROVE WellFormed'
<1> USE DEF WellFormed
<1>0. /\ timer' = [s \in Session |-> Less(timer[s])]
      /\ window' = [s \in Session |-> [c \in Challenge |-> Less(window[s][c])]]
      /\ UNCHANGED <<stage, waiter, answer, mine, transcript, retained, vwc, terminal, refused, sessions, old,
                     drawn, seen, submits, begun, issued, outgoing, toWitness, toWallet, budget>>
  BY DEF Tick
<1>1. \A bound \in Nat : \A n \in 0..bound : Less(n) \in 0..bound
  BY DEF Less
<1>2. timer' \in [Session -> 0..Wait]
  <2>1. \A s \in Session : timer[s] \in 0..Wait
    BY DEF TypeOK
  <2>2. \A s \in Session : Less(timer[s]) \in 0..Wait
    BY <1>1, <2>1, TicksAreNat
  <2> QED BY <1>0, <2>2
<1>3. window' \in [Session -> [Challenge -> 0..ObserveWindow]]
  <2>1. \A s \in Session, c \in Challenge : window[s][c] \in 0..ObserveWindow
    BY DEF TypeOK
  <2>2. \A s \in Session, c \in Challenge : Less(window[s][c]) \in 0..ObserveWindow
    BY <1>1, <2>1, TicksAreNat
  <2> QED BY <1>0, <2>2
<1>4. TypeOK'
  BY <1>0, <1>2, <1>3 DEF TypeOK, budget
<1>5. Reached' /\ Asked'
  BY <1>0 DEF Reached, Asked
<1>6. Counted'
  BY <1>0 DEF Counted, SessionToCome, SubmitToCome, budget
<1> QED BY <1>4, <1>5, <1>6

-----------------------------------------------------------------------------
\* Every step keeps the shape.
LEMMA WellFormedNext ==
    ASSUME WellFormed, [Next]_vars PROVE WellFormed'
<1>1. CASE System
  <2>1. CASE \E s \in Session :
          \/ Sent(s) \/ Challenged(s) \/ (\E produced \in BOOLEAN : RadioEnds(s, produced))
          \/ Present(s) \/ Concluded(s) \/ Assemble(s) \/ TimerFires(s)
    BY <2>1, SentWell, ChallengedWell, RadioEndsWell, PresentWell, ConcludedWell, AssembleWell, TimerFiresWell
  <2>2. CASE Receive
    BY <2>2, ReceiveWell
  <2>3. CASE \E m \in toWitness : HandleSession(m) \/ BeginSubmit(m)
    BY <2>3, HandleSessionWell, BeginSubmitWell
  <2>4. CASE \E t \in submits : VerifySubmit(t) \/ Issue(t) \/ \E o \in Observation : ObserveSubmit(t, o)
    BY <2>4, VerifySubmitWell, IssueWell, ObserveSubmitWell
  <2>5. CASE \E r \in outgoing : ReplySent(r)
    BY <2>5, ReplyWell
  <2> QED BY <1>1, <2>1, <2>2, <2>3, <2>4, <2>5 DEF System
<1>2. CASE Environment
  BY <1>2, ThrowsWell, SensorReadsWell, GrowOldWell, ReplyWell, ReceiveWell, WalletKilledWell,
     WitnessRestartsWell DEF Environment
<1>3. CASE Tick
  BY <1>3, TickWell
<1>4. CASE \E s \in Session : Open(s)
  BY <1>4, OpenWell
<1>5. CASE UNCHANGED vars
  BY <1>5 DEF vars, wallet, witness, budget, WellFormed, TypeOK, Reached, Asked, Counted, SessionToCome,
     SubmitToCome
<1> QED BY <1>1, <1>2, <1>3, <1>4, <1>5 DEF Next

\* Every variable keeps the shape the source gives it: no challenge and no attempt is out of the
\* range the deliveries allow, and what is assembled and presented is there.
THEOREM TypeCorrect == Spec => []TypeOK
<1>1. Spec => []WellFormed
  BY WellFormedInit, WellFormedNext, PTL DEF Spec
<1>2. WellFormed => TypeOK
  BY DEF WellFormed
<1> QED BY <1>1, <1>2, PTL

-----------------------------------------------------------------------------
(* What is stored was witnessed.  The shape says nothing of where a credential comes from: the *)
(* rest of the invariant follows it from the handler that signs it to the wallet that stores   *)
(* it.                                                                                         *)

\* A handler is about the challenge its session presented, and what it has to report is true.
Handled ==
    \A t \in submits :
        /\ t.presented = mine[t.session] /\ stage[t.session] \in After
        /\ t.at = "signing" /\ Policy = "required" => t.observation = "confirmed"
        /\ t.observation = "confirmed" => <<t.session, t.presented>> \in seen

\* So is every credential issued.
Vouched ==
    \A r \in issued :
        /\ r.challenge = mine[r.session] /\ stage[r.session] \in After
        /\ Policy = "required" => r.observation = "confirmed"
        /\ r.observation = "confirmed" => <<r.session, r.challenge>> \in seen

\* A credential under way was issued.
Genuine(r) == r.kind = "vwc" => r \in issued

Carried ==
    /\ \A r \in outgoing : Genuine(r)
    /\ \A i \in 1..Len(toWallet) : Genuine(toWallet[i])

\* A credential that ended a wait, or is stored, was issued for that session, and a stored one
\* passed the cross-check.
Held ==
    \A s \in Session :
        /\ answer[s].kind = "vwc" => answer[s] \in issued /\ answer[s].session = s
        /\ vwc[s] # None =>
              /\ vwc[s] \in issued /\ vwc[s].session = s /\ stage[s] \in {"stored", "shared", "killed"}
              /\ vwc[s].observation = "confirmed" => transcript[s] = vwc[s].challenge

Provenance == Handled /\ Vouched /\ Carried /\ Held

\* At first nothing is stored, issued or under way.
LEMMA ProvenanceInit == Init => Provenance
BY DEF Init, Provenance, Handled, Vouched, Carried, Held, None

\* No step of the wallet takes a session back from its submit, or changes its challenge after it.
Onward == \A s \in Session : stage[s] \in After => stage'[s] \in After /\ mine'[s] = mine[s]

\* A step of the wallet leaves what the witness knows as it was.
LEMMA WalletKeeps ==
    ASSUME TypeOK, Provenance, Onward, UNCHANGED witness
    PROVE  Handled' /\ Vouched'
<1>1. \A t \in submits : t \in Submit /\ t.session \in Session
  BY DEF TypeOK, Submit
<1>2. \A r \in issued : r \in VwcReply /\ r.session \in Session
  BY Replies DEF TypeOK
<1>3. Handled'
  BY <1>1 DEF Provenance, Handled, Onward, witness
<1>4. Vouched'
  BY <1>2 DEF Provenance, Vouched, Onward, witness
<1> QED BY <1>3, <1>4

\* A step of the witness leaves what the wallet holds as it was.
LEMMA WitnessKeeps ==
    ASSUME Provenance, UNCHANGED wallet, issued \subseteq issued'
    PROVE  Held'
BY DEF Provenance, Held, wallet

\* Of the wallet's steps on one session, those that neither settle a promise nor store.
LEMMA SessionStep ==
    ASSUME TypeOK, Provenance, UNCHANGED <<witness, toWallet, vwc>>, NEW s \in Session,
           NEW next \in {"opening", "opened", "radio", "presenting", "submitting", "submitted", "shared", "failed"},
           stage' = [stage EXCEPT ![s] = next],
           stage[s] \in After => next \in After /\ mine'[s] = mine[s],
           next = "shared" \/ stage[s] \notin {"stored", "shared", "killed"},
           transcript'[s] = transcript[s] \/ stage[s] \notin {"stored", "shared", "killed"},
           answer'[s] = answer[s] \/ answer'[s].kind # "vwc",
           \A x \in Session \ {s} : mine'[x] = mine[x] /\ transcript'[x] = transcript[x] /\ answer'[x] = answer[x]
    PROVE  Provenance'
<1>1. \A x \in Session \ {s} : stage'[x] = stage[x]
  BY DEF TypeOK
<1>2. stage'[s] = next
  BY DEF TypeOK
<1>3. Onward
  BY <1>1, <1>2 DEF Onward
<1>4. Handled' /\ Vouched'
  BY <1>3, WalletKeeps
<1>5. Carried'
  BY DEF Provenance, Carried, Genuine, witness
<1>6. ASSUME NEW x \in Session PROVE Held!(x)'
  <2>1. CASE x = s
    BY <2>1, <1>2 DEF Provenance, Held, witness
  <2>2. CASE x # s
    BY <2>2, <1>1 DEF Provenance, Held, witness
  <2> QED BY <2>1, <2>2
<1>7. Held'
  BY <1>6 DEF Held
<1> QED BY <1>4, <1>5, <1>7 DEF Provenance

\* Opening a session settles nothing.
LEMMA OpenKeeps ==
    ASSUME TypeOK, Provenance, NEW s \in Session, Open(s) PROVE Provenance'
<1>1. answer' = [answer EXCEPT ![s] = None]
  BY DEF Open, Await
<1>2. answer'[s].kind # "vwc" /\ \A x \in Session \ {s} : answer'[x] = answer[x]
  BY <1>1 DEF TypeOK, None
<1> QED BY <1>2, SessionStep DEF Open, After

\* A send settles nothing.
LEMMA SentKeeps ==
    ASSUME TypeOK, Provenance, NEW s \in Session, Sent(s) PROVE Provenance'
<1>1. CASE stage[s] = "opening"
  BY <1>1, SessionStep DEF Sent, After
<1>2. CASE stage[s] = "submitting"
  BY <1>2, SessionStep DEF Sent, After
<1> QED BY <1>1, <1>2 DEF Sent

\* A send that fails settles nothing.
LEMMA ThrowsKeeps ==
    ASSUME TypeOK, Provenance, NEW s \in Session, Throws(s) PROVE Provenance'
BY SessionStep DEF Throws, After

\* The challenge is taken over before anything is presented.
LEMMA ChallengedKeeps ==
    ASSUME TypeOK, Provenance, NEW s \in Session, Challenged(s) PROVE Provenance'
<1>1. PICK next \in {"presenting", "radio", "failed"} : stage' = [stage EXCEPT ![s] = next]
  BY DEF Challenged
<1>2. stage[s] = "opened" /\ UNCHANGED <<answer, transcript, witness, toWallet, vwc>>
  BY DEF Challenged
<1>3. \A x \in Session \ {s} : mine'[x] = mine[x]
  BY DEF Challenged, TypeOK
<1> QED BY <1>1, <1>2, <1>3, SessionStep DEF After

\* The transcript is produced before anything is stored.
LEMMA RadioEndsKeeps ==
    ASSUME TypeOK, Provenance, NEW s \in Session, NEW produced \in BOOLEAN, RadioEnds(s, produced)
    PROVE  Provenance'
<1>1. \A x \in Session \ {s} : transcript'[x] = transcript[x]
  BY DEF RadioEnds, TypeOK
<1> QED BY <1>1, SessionStep DEF RadioEnds, After

\* Presenting stores nothing.
LEMMA PresentKeeps ==
    ASSUME TypeOK, Provenance, NEW s \in Session, Present(s) PROVE Provenance'
<1>1. answer' = [answer EXCEPT ![s] = None]
  BY DEF Present, Await
<1>2. answer'[s].kind # "vwc" /\ \A x \in Session \ {s} : answer'[x] = answer[x]
  BY <1>1 DEF TypeOK, None
<1> QED BY <1>2, SessionStep DEF Present, After

\* Assembling leaves the stored credential as it is.
LEMMA AssembleKeeps ==
    ASSUME TypeOK, Provenance, NEW s \in Session, Assemble(s) PROVE Provenance'
BY SessionStep DEF Assemble, After

\* What is stored is the credential that settled the promise, and it passed the cross-check.
LEMMA ConcludedKeeps ==
    ASSUME TypeOK, Provenance, NEW s \in Session, Concluded(s) PROVE Provenance'
<1>1. CASE stage' = [stage EXCEPT ![s] = "failed"] /\ UNCHANGED vwc
  BY <1>1, SessionStep DEF Concluded, After
<1>2. CASE /\ answer[s].kind = "vwc" /\ Accepts(s, answer[s])
           /\ stage' = [stage EXCEPT ![s] = "stored"]
           /\ vwc' = [vwc EXCEPT ![s] = answer[s]]
  <2>1. UNCHANGED <<witness, toWallet, mine, transcript, answer>>
    BY DEF Concluded
  <2>2. stage'[s] = "stored" /\ \A x \in Session \ {s} : stage'[x] = stage[x] /\ vwc'[x] = vwc[x]
    BY <1>2 DEF TypeOK
  <2>3. vwc'[s] = answer[s]
    BY <1>2 DEF TypeOK
  <2>4. Onward
    BY <2>1, <2>2 DEF Onward, After
  <2>5. Handled' /\ Vouched'
    BY <2>1, <2>4, WalletKeeps
  <2>6. Carried'
    BY <2>1 DEF Provenance, Carried, Genuine, witness
  <2>7. ASSUME NEW x \in Session PROVE Held!(x)'
    <3>1. CASE x = s
      BY <1>2, <2>1, <2>2, <2>3, <3>1 DEF Provenance, Held, Accepts, witness
    <3>2. CASE x # s
      BY <2>1, <2>2, <3>2 DEF Provenance, Held, witness
    <3> QED BY <3>1, <3>2
  <2>8. Held'
    BY <2>7 DEF Held
  <2> QED BY <2>5, <2>6, <2>8 DEF Provenance
<1> QED BY <1>1, <1>2 DEF Concluded

\* A timer settles a promise with no credential.
LEMMA TimerFiresKeeps ==
    ASSUME TypeOK, Provenance, NEW s \in Session, TimerFires(s) PROVE Provenance'
<1>1. UNCHANGED <<stage, mine, transcript, vwc, witness, toWallet>>
  BY DEF TimerFires
<1>2. \A x \in Session : answer'[x] = answer[x] \/ answer'[x].kind # "vwc"
  BY DEF TimerFires, TypeOK, TimedOut
<1>3. Handled' /\ Vouched'
  BY <1>1, WalletKeeps DEF Onward
<1>4. Carried'
  BY <1>1 DEF Provenance, Carried, Genuine, witness
<1>5. Held'
  BY <1>1, <1>2 DEF Provenance, Held, witness
<1> QED BY <1>3, <1>4, <1>5 DEF Provenance

\* A kill leaves what is stored, and no promise.
LEMMA WalletKilledKeeps ==
    ASSUME TypeOK, Provenance, WalletKilled PROVE Provenance'
<1>1. UNCHANGED <<mine, transcript, vwc, witness, toWallet>>
  BY DEF WalletKilled
<1>2. \A x \in Session : answer'[x].kind # "vwc" /\ stage'[x] = IF stage[x] = "idle" THEN "idle" ELSE "killed"
  BY DEF WalletKilled, None
<1>3. Onward
  BY <1>1, <1>2 DEF Onward, After
<1>4. Handled' /\ Vouched'
  BY <1>1, <1>3, WalletKeeps
<1>5. Carried'
  BY <1>1 DEF Provenance, Carried, Genuine, witness
<1>6. Held'
  BY <1>1, <1>2 DEF Provenance, Held, witness
<1> QED BY <1>4, <1>5, <1>6 DEF Provenance

\* What comes in is what was under way; it settles its own session's promise or none.
LEMMA ReceiveKeeps ==
    ASSUME TypeOK, Provenance, Receive \/ ReceiveTwice PROVE Provenance'
<1> DEFINE r == Head(toWallet)
<1>1. /\ UNCHANGED <<stage, mine, transcript, vwc, witness>>
      /\ toWallet # <<>> /\ HandleReply(r) /\ toWallet' \in {Tail(toWallet), Append(Tail(toWallet), r)}
  BY DEF Receive, ReceiveTwice
<1>2. r = toWallet[1] /\ r \in Reply /\ Genuine(r) /\ toWallet \in Seq(Reply)
  BY <1>1 DEF TypeOK, Provenance, Carried
<1>3. r.session \in Session
  BY <1>2, Replies DEF Reply
<1> HIDE DEF r
<1>4. Handled' /\ Vouched'
  BY <1>1, WalletKeeps DEF Onward
<1>5. Carried'
  <2>1. \A i \in 1..Len(Tail(toWallet)) : Genuine(Tail(toWallet)[i])
    BY <1>1, <1>2 DEF Provenance, Carried
  <2>2. Tail(toWallet) \in Seq(Reply)
    BY <1>1, <1>2
  <2>3. \A i \in 1..Len(Append(Tail(toWallet), r)) : Genuine(Append(Tail(toWallet), r)[i])
    BY <1>2, <2>1, <2>2
  <2>4. \A i \in 1..Len(toWallet') : Genuine(toWallet'[i])
    BY <1>1, <2>1, <2>3
  <2>5. issued' = issued /\ outgoing' = outgoing
    BY <1>1 DEF witness
  <2> QED BY <2>4, <2>5 DEF Provenance, Carried, Genuine
<1>6. \A x \in Session : answer'[x] = answer[x] \/ (x = r.session /\ answer'[x] = r)
  <2>1. CASE answer' = answer
    BY <2>1
  <2>2. CASE answer' = [answer EXCEPT ![r.session] = r]
    BY <2>2, <1>3 DEF TypeOK
  <2> QED BY <1>1, <2>1, <2>2 DEF HandleReply, Resolve
<1>7. Held'
  BY <1>1, <1>2, <1>6 DEF Provenance, Held, Genuine, witness
<1> QED BY <1>4, <1>5, <1>7 DEF Provenance

\* Steps of the witness that issue nothing keep what is issued and what is under way.
LEMMA NothingIssued ==
    ASSUME Provenance, UNCHANGED <<wallet, issued, toWallet>>, seen \subseteq seen',
           \A r \in outgoing' : r \in outgoing \/ r.kind # "vwc"
    PROVE  Vouched' /\ Carried' /\ Held'
<1>1. Vouched'
  BY DEF Provenance, Vouched, wallet
<1>2. Carried'
  BY DEF Provenance, Carried, Genuine
<1>3. Held'
  BY WitnessKeeps
<1> QED BY <1>1, <1>2, <1>3

\* A session request, new or again, leaves the handlers and the credentials as they are.
LEMMA HandleSessionKeeps ==
    ASSUME WellFormed, Provenance, NEW m \in toWitness, HandleSession(m) PROVE Provenance'
<1>1. UNCHANGED <<wallet, seen, submits, issued, toWallet>>
      /\ \A r \in outgoing' : r \in outgoing \/ r.kind # "vwc"
  BY DEF HandleSession
<1>2. Handled'
  BY <1>1 DEF Provenance, Handled, wallet
<1> QED BY <1>1, <1>2, NothingIssued DEF Provenance

\* A submit that comes in is over the challenge of its session.
LEMMA BeginSubmitKeeps ==
    ASSUME WellFormed, Provenance, NEW m \in toWitness, BeginSubmit(m) PROVE Provenance'
<1>1. /\ UNCHANGED <<wallet, seen, issued, toWallet>>
      /\ \A r \in outgoing' : r \in outgoing \/ r.kind # "vwc"
  BY DEF BeginSubmit, Refuse
<1>2. m \in Request /\ m.challenge = mine[m.session] /\ stage[m.session] \in After
  BY DEF BeginSubmit, WellFormed, TypeOK, Asked
<1>3. \A t \in submits' :
         t \in submits \/ (t.session = m.session /\ t.presented = m.challenge /\ t.at = "proof" /\ t.observation = "absent")
  BY DEF BeginSubmit
<1>4. Handled'
  BY <1>1, <1>2, <1>3 DEF Provenance, Handled, wallet
<1> QED BY <1>1, <1>4, NothingIssued DEF Provenance

\* The presentation that is verified is the one that is bound to the challenge.
LEMMA VerifySubmitKeeps ==
    ASSUME WellFormed, Provenance, NEW t \in submits, VerifySubmit(t) PROVE Provenance'
<1> DEFINE session == sessions[t.session]
           verified == [t EXCEPT !.at = IF Policy = "off" THEN "signing" ELSE "observation",
                                 !.presented = session.challenge,
                                 !.observing = session.observing]
<1>1. /\ UNCHANGED <<wallet, seen, issued, toWallet>>
      /\ \A r \in outgoing' : r \in outgoing \/ r.kind # "vwc"
      /\ submits' \subseteq submits \cup IF Bound(t.presented, session) THEN {verified} ELSE {}
  BY DEF VerifySubmit, Refuse
<1>2. t \in Submit
  BY DEF WellFormed, TypeOK
<1>3. Bound(t.presented, session) =>
         /\ verified.session = t.session /\ verified.presented = t.presented
         /\ verified.observation = t.observation
         /\ verified.at = "signing" => Policy = "off"
  BY <1>2 DEF Bound, Submit
<1> HIDE DEF session, verified
<1>4. \A u \in submits' : u \in submits \/ (u = verified /\ Bound(t.presented, session))
  BY <1>1
<1>5. t.presented = mine[t.session] /\ stage[t.session] \in After
      /\ (t.observation = "confirmed" => <<t.session, t.presented>> \in seen)
  BY DEF Provenance, Handled
<1>6. Handled'
  <2> SUFFICES ASSUME NEW u \in submits' PROVE Handled!(u)'
    BY DEF Handled
  <2>1. CASE u \in submits
    BY <2>1, <1>1 DEF Provenance, Handled, wallet
  <2>2. CASE u = verified /\ Bound(t.presented, session)
    <3>1. Policy = "required" => u.at # "signing"
      BY <2>2, <1>3
    <3> QED BY <2>2, <3>1, <1>1, <1>3, <1>5 DEF wallet
  <2> QED BY <2>1, <2>2, <1>4
<1> QED BY <1>1, <1>6, NothingIssued DEF Provenance

\* What is reported as confirmed was read by the sensor.
LEMMA ObserveSubmitKeeps ==
    ASSUME WellFormed, Provenance, NEW t \in submits, NEW observation \in Observation,
           ObserveSubmit(t, observation)
    PROVE  Provenance'
<1> DEFINE observed == [t EXCEPT !.at = "signing", !.observation = observation]
<1>1. /\ UNCHANGED <<wallet, seen, issued, toWallet>>
      /\ \A r \in outgoing' : r \in outgoing \/ r.kind # "vwc"
      /\ submits' \subseteq submits \cup IF Refuses(observation) THEN {} ELSE {observed}
      /\ observation = "confirmed" => <<t.session, t.presented>> \in seen
  BY DEF ObserveSubmit, Refuse
<1>2. t \in Submit
  BY DEF WellFormed, TypeOK
<1>3. /\ observed.session = t.session /\ observed.presented = t.presented
      /\ observed.observation = observation
  BY <1>2 DEF Submit
<1> HIDE DEF observed
<1>4. \A u \in submits' : u \in submits \/ (u = observed /\ ~Refuses(observation))
  BY <1>1
<1>5. Handled'
  BY <1>1, <1>3, <1>4 DEF Provenance, Handled, Refuses, wallet
<1> QED BY <1>1, <1>5, NothingIssued DEF Provenance

\* What is issued reports what its handler observed.
LEMMA IssueKeeps ==
    ASSUME WellFormed, Provenance, NEW t \in submits, Issue(t) PROVE Provenance'
<1>1. /\ submits' = submits \ {t}
      /\ issued' = issued \cup {Credential(t)} /\ outgoing' = outgoing \cup {Credential(t)}
      /\ UNCHANGED <<wallet, seen, toWallet>>
  BY DEF Issue, Credential
<1>2. /\ Credential(t).session = t.session /\ Credential(t).challenge = t.presented
      /\ Credential(t).observation = t.observation /\ t.at = "signing"
  BY DEF Credential, Issue
<1>3. Handled'
  BY <1>1 DEF Provenance, Handled, wallet
<1>4. Vouched'
  BY <1>1, <1>2 DEF Provenance, Handled, Vouched, wallet
<1>5. Carried'
  BY <1>1 DEF Provenance, Carried, Genuine
<1>6. Held'
  BY <1>1, WitnessKeeps
<1> QED BY <1>3, <1>4, <1>5, <1>6 DEF Provenance

\* A reply that is sent carries what was issued.
LEMMA ReplyKeeps ==
    ASSUME WellFormed, Provenance, NEW r \in outgoing, ReplySent(r) \/ ReplyFails(r) PROVE Provenance'
<1>1. /\ outgoing' = outgoing \ {r} /\ toWallet' \in {toWallet, Append(toWallet, r)}
      /\ UNCHANGED <<wallet, seen, submits, issued>>
  BY DEF ReplySent, ReplyFails
<1>2. Handled' /\ Vouched'
  BY <1>1 DEF Provenance, Handled, Vouched, wallet
<1>3. Genuine(r) /\ toWallet \in Seq(Reply) /\ \A i \in 1..Len(toWallet) : Genuine(toWallet[i])
  BY DEF WellFormed, TypeOK, Provenance, Carried
<1>4. \A i \in 1..Len(toWallet') : Genuine(toWallet'[i])
  <2>1. CASE toWallet' = toWallet
    BY <2>1, <1>3
  <2>2. CASE toWallet' = Append(toWallet, r)
    BY <2>2, <1>3
  <2> QED BY <1>1, <2>1, <2>2
<1>5. Carried'
  BY <1>1, <1>4 DEF Provenance, Carried, Genuine
<1>6. Held'
  BY <1>1, WitnessKeeps
<1> QED BY <1>2, <1>5, <1>6 DEF Provenance

\* The steps of the witness that are left handle, issue and send nothing.
LEMMA OthersKeep ==
    ASSUME Provenance, UNCHANGED <<stage, answer, mine, transcript, vwc, issued, toWallet>>,
           seen \subseteq seen', submits' \subseteq submits, outgoing' \subseteq outgoing
    PROVE  Provenance'
<1>1. Handled' /\ Vouched'
  BY DEF Provenance, Handled, Vouched
<1>2. Carried'
  BY DEF Provenance, Carried, Genuine
<1>3. Held'
  BY DEF Provenance, Held
<1> QED BY <1>1, <1>2, <1>3 DEF Provenance

\* Every step keeps the provenance of what is stored.
LEMMA ProvenanceNext ==
    ASSUME WellFormed, Provenance, [Next]_vars PROVE Provenance'
<1> TypeOK
  BY DEF WellFormed
<1>1. CASE System
  <2>1. CASE \E s \in Session :
          \/ Sent(s) \/ Challenged(s) \/ (\E produced \in BOOLEAN : RadioEnds(s, produced))
          \/ Present(s) \/ Concluded(s) \/ Assemble(s) \/ TimerFires(s)
    BY <2>1, SentKeeps, ChallengedKeeps, RadioEndsKeeps, PresentKeeps, ConcludedKeeps, AssembleKeeps,
       TimerFiresKeeps
  <2>2. CASE Receive
    BY <2>2, ReceiveKeeps
  <2>3. CASE \E m \in toWitness : HandleSession(m) \/ BeginSubmit(m)
    BY <2>3, HandleSessionKeeps, BeginSubmitKeeps
  <2>4. CASE \E t \in submits : VerifySubmit(t) \/ Issue(t) \/ \E o \in Observation : ObserveSubmit(t, o)
    BY <2>4, VerifySubmitKeeps, IssueKeeps, ObserveSubmitKeeps
  <2>5. CASE \E r \in outgoing : ReplySent(r)
    BY <2>5, ReplyKeeps
  <2> QED BY <1>1, <2>1, <2>2, <2>3, <2>4, <2>5 DEF System
<1>2. CASE Environment
  <2>1. CASE \E s \in Session : Throws(s)
    BY <2>1, ThrowsKeeps
  <2>2. CASE \E s \in Session : SensorReads(s)
    BY <2>2, OthersKeep DEF SensorReads, wallet
  <2>3. CASE \E s \in Session : GrowOld(s)
    BY <2>3, OthersKeep DEF GrowOld, wallet
  <2>4. CASE \E r \in outgoing : ReplyFails(r)
    BY <2>4, ReplyKeeps
  <2>5. CASE WitnessRestarts
    BY <2>5, OthersKeep DEF WitnessRestarts, wallet
  <2> QED BY <1>2, <2>1, <2>2, <2>3, <2>4, <2>5, ReceiveKeeps, WalletKilledKeeps DEF Environment
<1>3. CASE Tick
  BY <1>3, OthersKeep DEF Tick
<1>4. CASE \E s \in Session : Open(s)
  BY <1>4, OpenKeeps
<1>5. CASE UNCHANGED vars
  BY <1>5, OthersKeep DEF vars, wallet, witness
<1> QED BY <1>1, <1>2, <1>3, <1>4, <1>5 DEF Next

\* Every run of the wallet and the witness keeps both.
LEMMA Invariance == Spec => [](WellFormed /\ Provenance)
<1>1. Init => WellFormed /\ Provenance
  BY WellFormedInit, ProvenanceInit
<1>2. WellFormed /\ Provenance /\ [Next]_vars => (WellFormed /\ Provenance)'
  BY WellFormedNext, ProvenanceNext
<1> QED BY <1>1, <1>2, PTL DEF Spec

\* Under `required` a wallet stores only what the sensor read from it, for the challenge it
\* presented (handleSubmit, runWitnessSession), for any number of sessions, duplicates,
\* failures and restarts.
THEOREM RequiredMeansHere == Spec => []StoredWasHere
<1>1. WellFormed /\ Provenance => StoredWasHere
  <2> SUFFICES ASSUME WellFormed, Provenance, Policy = "required", NEW s \in Session, vwc[s] # None
               PROVE  /\ vwc[s].challenge = mine[s] /\ transcript[s] = mine[s]
                      /\ <<s, mine[s]>> \in seen
    BY DEF StoredWasHere
  <2>1. /\ vwc[s] \in issued /\ vwc[s].session = s
        /\ vwc[s].observation = "confirmed" => transcript[s] = vwc[s].challenge
    BY DEF Provenance, Held
  <2>2. /\ vwc[s].challenge = mine[s] /\ vwc[s].observation = "confirmed"
        /\ <<s, vwc[s].challenge>> \in seen
    BY <2>1 DEF Provenance, Vouched
  <2> QED BY <2>1, <2>2
<1> QED BY <1>1, Invariance, PTL

\* What is stored as confirmed is over this device's own transcript, which the sensor read.
THEOREM ConfirmationIsOwn == Spec => []ConfirmedIsOwn
<1>1. WellFormed /\ Provenance => ConfirmedIsOwn
  <2> SUFFICES ASSUME WellFormed, Provenance, NEW s \in Session, vwc[s].kind = "vwc",
                      vwc[s].observation = "confirmed"
               PROVE  transcript[s] = vwc[s].challenge /\ <<s, transcript[s]>> \in seen
    BY DEF ConfirmedIsOwn
  <2>1. vwc[s] # None
    BY DEF None
  <2> QED BY <2>1 DEF Provenance, Vouched, Held
<1> QED BY <1>1, Invariance, PTL

\* What is stored was issued, for the presentation this wallet made.
THEOREM StoredWasIssued == Spec => []PresentedIsWitnessed
<1>1. WellFormed /\ Provenance => PresentedIsWitnessed
  <2> SUFFICES ASSUME WellFormed, Provenance, NEW s \in Session, vwc[s] # None
               PROVE  vwc[s] \in issued /\ vwc[s].challenge = mine[s]
    BY DEF PresentedIsWitnessed
  <2>1. vwc[s] \in issued /\ vwc[s].session = s
    BY DEF Provenance, Held
  <2> QED BY <2>1 DEF Provenance, Vouched
<1> QED BY <1>1, Invariance, PTL

-----------------------------------------------------------------------------
(* A wait ends by the answer it is for. *)

\* A session that was not opened awaits nothing: a kill takes every wait with its session.
IdleSilent == \A s \in Session : stage[s] = "idle" => waiter[s] = "none"

\* How one step may end a wait.
EndsRightly ==
    \A s \in Session :
        (waiter[s] # "none" /\ waiter'[s] = "none") =>
            answer'[s].kind \in {waiter[s], "timedOut"} \/ stage'[s] = "killed"

\* Handling a reply ends its session's wait by that reply, or no wait.
LEMMA ReplyEndsRightly ==
    ASSUME TypeOK, Receive \/ ReceiveTwice
    PROVE  EndsRightly /\ \A s \in Session : waiter'[s] \in {waiter[s], "none"}
<1> DEFINE r == Head(toWallet)
<1>1. HandleReply(r) /\ r \in Reply
  BY DEF Receive, ReceiveTwice, TypeOK
<1>2. r.session \in Session
  BY <1>1, Replies DEF Reply
<1> HIDE DEF r
<1>3. CASE UNCHANGED <<waiter, answer>>
  BY <1>3 DEF EndsRightly
<1>4. CASE /\ waiter[r.session] = r.kind
           /\ waiter' = [waiter EXCEPT ![r.session] = "none"] /\ answer' = [answer EXCEPT ![r.session] = r]
  <2>1. answer'[r.session] = r /\ \A s \in Session \ {r.session} : waiter'[s] = waiter[s]
    BY <1>2, <1>4 DEF TypeOK
  <2>2. waiter'[r.session] = "none"
    BY <1>2, <1>4 DEF TypeOK
  <2> QED BY <1>4, <2>1, <2>2 DEF EndsRightly
<1> QED BY <1>1, <1>3, <1>4 DEF HandleReply, Resolve

\* Registering a wait ends none.
LEMMA AwaitEndsNone ==
    ASSUME TypeOK, NEW s \in Session, NEW kind \in {"challenge", "vwc"}, Await(s, kind)
    PROVE  EndsRightly
<1>1. waiter'[s] = kind /\ \A x \in Session \ {s} : waiter'[x] = waiter[x]
  BY DEF TypeOK, Await
<1> QED BY <1>1 DEF EndsRightly

\* Every step ends a wait rightly or not at all, and leaves what is idle silent.
LEMMA EndsRightlyNext ==
    ASSUME TypeOK, IdleSilent, [Next]_vars PROVE EndsRightly /\ IdleSilent'
<1> USE DEF IdleSilent
<1>1. CASE waiter' = waiter /\ \A s \in Session : stage'[s] = "idle" => stage[s] = "idle"
  BY <1>1 DEF EndsRightly
<1>2. ASSUME NEW s \in Session, Open(s) PROVE EndsRightly /\ IdleSilent'
  <2>1. stage'[s] = "opening" /\ \A x \in Session \ {s} : stage'[x] = stage[x] /\ waiter'[x] = waiter[x]
    BY <1>2 DEF Open, Await, TypeOK
  <2> QED BY <1>2, <2>1, AwaitEndsNone DEF Open
<1>3. ASSUME NEW s \in Session, Present(s) PROVE EndsRightly /\ IdleSilent'
  <2>1. stage'[s] = "submitting" /\ \A x \in Session \ {s} : stage'[x] = stage[x] /\ waiter'[x] = waiter[x]
    BY <1>3 DEF Present, Await, TypeOK
  <2> QED BY <1>3, <2>1, AwaitEndsNone DEF Present
<1>4. CASE Receive \/ ReceiveTwice
  <2>1. stage' = stage
    BY <1>4 DEF Receive, ReceiveTwice
  <2> QED BY <1>4, <2>1, ReplyEndsRightly
<1>5. ASSUME NEW s \in Session, TimerFires(s) PROVE EndsRightly /\ IdleSilent'
  <2>1. /\ waiter'[s] = "none" /\ answer'[s].kind = "timedOut" /\ stage' = stage
        /\ \A x \in Session \ {s} : waiter'[x] = waiter[x]
    BY <1>5 DEF TimerFires, TypeOK, TimedOut
  <2> QED BY <2>1 DEF EndsRightly
<1>6. CASE WalletKilled
  <2>1. \A s \in Session : waiter'[s] = "none" /\ stage'[s] = IF stage[s] = "idle" THEN "idle" ELSE "killed"
    BY <1>6 DEF WalletKilled
  <2> QED BY <2>1 DEF EndsRightly
<1>7. ASSUME NEW s \in Session,
             NEW next \in {"opened", "radio", "presenting", "submitted", "stored", "shared", "failed"},
             stage' = [stage EXCEPT ![s] = next], waiter' = waiter
      PROVE  EndsRightly /\ IdleSilent'
  BY <1>1, <1>7 DEF TypeOK
<1>8. ASSUME NEW s \in Session,
             \/ Sent(s) \/ Challenged(s) \/ (\E produced \in BOOLEAN : RadioEnds(s, produced))
             \/ Concluded(s) \/ Assemble(s) \/ Throws(s)
      PROVE  EndsRightly /\ IdleSilent'
  BY <1>7, <1>8 DEF Sent, Challenged, RadioEnds, Concluded, Assemble, Throws
<1>9. CASE UNCHANGED <<stage, waiter>>
  BY <1>1, <1>9
<1>10. CASE System
  <2>1. CASE \E m \in toWitness : HandleSession(m) \/ BeginSubmit(m)
    BY <2>1, <1>9 DEF HandleSession, BeginSubmit, wallet
  <2>2. CASE \E t \in submits : VerifySubmit(t) \/ Issue(t) \/ \E o \in Observation : ObserveSubmit(t, o)
    BY <2>2, <1>9 DEF VerifySubmit, Issue, ObserveSubmit, wallet
  <2>3. CASE \E r \in outgoing : ReplySent(r)
    BY <2>3, <1>9 DEF ReplySent, wallet
  <2> QED BY <1>10, <2>1, <2>2, <2>3, <1>3, <1>4, <1>5, <1>8 DEF System
<1>11. CASE Environment
  <2>1. CASE (\E s \in Session : SensorReads(s) \/ GrowOld(s)) \/ (\E r \in outgoing : ReplyFails(r))
             \/ WitnessRestarts
    BY <2>1, <1>9 DEF SensorReads, GrowOld, ReplyFails, WitnessRestarts, wallet
  <2> QED BY <1>11, <2>1, <1>4, <1>6, <1>8 DEF Environment
<1>12. CASE Tick
  BY <1>12, <1>9 DEF Tick
<1>13. CASE UNCHANGED vars
  BY <1>13, <1>9 DEF vars, wallet
<1> QED BY <1>2, <1>10, <1>11, <1>12, <1>13 DEF Next

\* A wait ends by the answer it is for, by its timer, or with the app (resolveWitnessResponse): a
\* challenge that comes again cannot end the wait for the credential.
THEOREM WaitsEndRightly == Spec => WaitEndsByItsAnswer
<1>1. Init => IdleSilent
  BY DEF Init, IdleSilent
<1>2. TypeOK /\ IdleSilent /\ [Next]_vars => IdleSilent'
  BY EndsRightlyNext
<1>3. TypeOK /\ IdleSilent /\ [Next]_vars => [EndsRightly]_vars
  BY EndsRightlyNext
<1>4. Spec => [][EndsRightly]_vars
  BY <1>1, <1>2, <1>3, TypeCorrect, PTL DEF Spec
<1> QED BY <1>4 DEF WaitEndsByItsAnswer, EndsRightly

-----------------------------------------------------------------------------
(* The terminal document.  As long as nothing is delivered twice, a session draws one challenge *)
(* and one credential: each is in one place only, from the request that asks for it to the      *)
(* thread it is retained on, and nothing follows the credential.                                *)

\* Where the challenge, or the credential, of a session may be.
Brings(m) == IF m.kind = "session" THEN "challenge" ELSE "vwc"
Asking(s, kind) == {m \in toWitness : m.session = s /\ Brings(m) = kind}
Handling(s, kind) == {t \in submits : t.session = s /\ kind = "vwc"}
Leaving(s, kind) == {r \in outgoing : r.session = s /\ r.kind = kind}
Arriving(s, kind) == {i \in 1..Len(toWallet) : toWallet[i].session = s /\ toWallet[i].kind = kind}
Kept(s, kind) == {i \in 1..Len(retained[s]) : retained[s][i].kind = kind}

Places(s, kind) ==
    ({"asking"} \X Asking(s, kind)) \cup ({"handling"} \X Handling(s, kind))
    \cup ({"leaving"} \X Leaving(s, kind)) \cup ({"arriving"} \X Arriving(s, kind))
    \cup ({"kept"} \X Kept(s, kind))

\* Each is in one place at most, and in none before it is asked for.
InOnePlace ==
    \A s \in Session :
        /\ \A kind \in {"challenge", "vwc"} : \A x, y \in Places(s, kind) : x = y
        /\ stage[s] \in Before => Places(s, "challenge") = {}
        /\ stage[s] \notin After => Places(s, "vwc") = {}

\* The stages of a session that has its challenge.
Past == {"radio", "presenting", "submitting", "submitted", "stored", "shared"}

\* The credential is asked for once the challenge is retained.
ChallengeFirst ==
    \A s \in Session :
        answer[s].kind = "challenge" \/ stage[s] \in Past \/ Places(s, "vwc") # {} => Kept(s, "challenge") # {}

\* A reply is the credential, and the last that is retained.
Closes(s, r) == r.kind = "vwc" /\ retained[s] # <<>> /\ retained[s][Len(retained[s])] = r

CredentialLast ==
    \A s \in Session :
        /\ answer[s].kind = "vwc" => Closes(s, answer[s])
        /\ stage[s] = "stored" => Closes(s, vwc[s])
        /\ terminal[s] # None => terminal[s] = vwc[s] /\ stage[s] \in {"shared", "killed"}

InOrder == InOnePlace /\ ChallengeFirst /\ CredentialLast

\* At first there is nothing anywhere.
LEMMA InOrderInit == Init => InOrder
BY DEF Init, InOrder, InOnePlace, ChallengeFirst, CredentialLast, Places, Asking, Handling, Leaving, Arriving,
   Kept, Before, After, Past, None

Kinds == {"challenge", "vwc"}

\* Where nothing is sent, handled or retained, everything is where it was.
LEMMA PlacesStay ==
    ASSUME UNCHANGED <<toWitness, submits, outgoing, toWallet, retained>>
    PROVE  \A s \in Session : \A kind \in Kinds :
              Places(s, kind)' = Places(s, kind) /\ Kept(s, kind)' = Kept(s, kind)
BY DEF Places, Asking, Handling, Leaving, Arriving, Kept

\* A step of the wallet that neither sends nor receives keeps the order.
LEMMA WalletOrder ==
    ASSUME InOrder, UNCHANGED <<toWitness, submits, outgoing, toWallet, retained>>,
           \A s \in Session :
              /\ stage'[s] \in Before => stage[s] \in Before
              /\ stage'[s] \notin After => stage[s] \notin After
              /\ stage'[s] \in Past => stage[s] \in Past \/ answer[s].kind = "challenge"
              /\ answer'[s] = answer[s] \/ answer'[s].kind \notin Kinds
              /\ stage'[s] = "stored" =>
                    \/ stage[s] = "stored" /\ vwc'[s] = vwc[s]
                    \/ answer[s].kind = "vwc" /\ vwc'[s] = answer[s]
              /\ terminal'[s] # None =>
                    /\ vwc'[s] = vwc[s] /\ stage'[s] \in {"shared", "killed"}
                    /\ \/ terminal'[s] = terminal[s]
                       \/ stage[s] = "stored" /\ terminal'[s] = retained[s][Len(retained[s])]
    PROVE  InOrder'
<1>1. \A s \in Session : \A kind \in Kinds :
         Places(s, kind)' = Places(s, kind) /\ Kept(s, kind)' = Kept(s, kind)
  BY PlacesStay
<1>3. InOnePlace'
  BY <1>1 DEF InOrder, InOnePlace, Kinds
<1>4. ChallengeFirst'
  BY <1>1 DEF InOrder, ChallengeFirst, Kinds
<1>5. CredentialLast'
  <2> SUFFICES ASSUME NEW s \in Session PROVE CredentialLast!(s)'
    BY DEF CredentialLast
  <2>1. answer'[s].kind = "vwc" => Closes(s, answer[s]) /\ answer'[s] = answer[s]
    BY DEF InOrder, CredentialLast, Kinds
  <2>2. stage'[s] = "stored" => Closes(s, vwc'[s])
    BY DEF InOrder, CredentialLast
  <2>3. terminal'[s] # None => terminal'[s] = vwc'[s] /\ stage'[s] \in {"shared", "killed"}
    BY DEF InOrder, CredentialLast, Closes
  <2> QED BY <2>1, <2>2, <2>3 DEF Closes
<1> QED BY <1>3, <1>4, <1>5 DEF InOrder

\* What is in one place stays in one place, or moves to another.
Moves(s, kind) ==
    \/ Places(s, kind)' \subseteq Places(s, kind)
    \/ Places(s, kind) # {} /\ \A x, y \in Places(s, kind)' : x = y

\* A step of the witness that moves things on keeps the order.
LEMMA WitnessOrder ==
    ASSUME InOrder, UNCHANGED wallet, \A s \in Session : \A kind \in Kinds : Moves(s, kind)
    PROVE  InOrder'
<1>1. InOnePlace'
  BY DEF InOrder, InOnePlace, Moves, Kinds, wallet
<1>2. ChallengeFirst'
  BY DEF InOrder, ChallengeFirst, Moves, Kinds, Kept, wallet
<1>3. CredentialLast'
  BY DEF InOrder, CredentialLast, Closes, wallet
<1> QED BY <1>1, <1>2, <1>3 DEF InOrder

\* What takes the place of the one thing there was is the one thing there is.
LEMMA Replaced ==
    ASSUME NEW before, NEW after, NEW x \in before, NEW y, \A a, b \in before : a = b,
           after \subseteq (before \ {x}) \cup {y}
    PROVE  \A a, b \in after : a = b
OBVIOUS

\* The wallet's sends put the request where nothing was.
LEMMA SentOrder ==
    ASSUME TypeOK, InOrder, NEW s \in Session, Sent(s) PROVE InOrder'
<1>1. /\ UNCHANGED <<answer, mine, retained, vwc, terminal, submits, outgoing, toWallet>>
      /\ stage' = [stage EXCEPT ![s] = IF stage[s] = "opening" THEN "opened" ELSE "submitted"]
      /\ stage[s] \in {"opening", "submitting"}
  BY DEF Sent, witness
<1>2. PICK m \in {[kind |-> "session", session |-> s], [kind |-> "submit", session |-> s, challenge |-> mine[s]]} :
         toWitness' = toWitness \cup {m} /\ (m.kind = "session" <=> stage[s] = "opening")
  BY DEF Sent
<1>3. m.session = s /\ m.kind \in {"session", "submit"}
  BY <1>2
<1>4. Places(s, Brings(m)) = {} /\ Brings(m) \in Kinds
  BY <1>1, <1>2, <1>3 DEF InOrder, InOnePlace, Before, After, Brings, Kinds
<1>5. \A x \in Session : \A kind \in Kinds :
         Places(x, kind)' \subseteq Places(x, kind)
                                \cup (IF x = s /\ kind = Brings(m) THEN {<<"asking", m>>} ELSE {})
  BY <1>1, <1>2, <1>3 DEF Places, Asking, Handling, Leaving, Arriving, Kept
<1>6. \A x \in Session : /\ Kept(x, "challenge")' = Kept(x, "challenge")
                         /\ stage'[x] \in Past => stage[x] \in Past
                         /\ x # s => stage'[x] = stage[x]
  BY <1>1 DEF Kept, Past, TypeOK
<1>7. InOnePlace'
  <2> SUFFICES ASSUME NEW x \in Session PROVE InOnePlace!(x)'
    BY DEF InOnePlace
  <2>1. CASE x # s
    BY <1>5, <1>6, <2>1 DEF InOrder, InOnePlace, Kinds
  <2>2. CASE x = s /\ stage[s] = "opening"
    <3>1. stage'[s] = "opened" /\ Brings(m) = "challenge"
      BY <1>1, <1>2, <2>2 DEF TypeOK, Brings
    <3>2. Places(s, "vwc") = {}
      BY <2>2 DEF InOrder, InOnePlace, After
    <3> QED BY <1>4, <1>5, <2>2, <3>1, <3>2 DEF Kinds, Before, After
  <2>3. CASE x = s /\ stage[s] = "submitting"
    <3>1. stage'[s] = "submitted" /\ Brings(m) = "vwc"
      BY <1>1, <1>2, <1>3, <2>3 DEF TypeOK, Brings
    <3>2. \A a, b \in Places(s, "challenge") : a = b
      BY DEF InOrder, InOnePlace
    <3> QED BY <1>4, <1>5, <2>3, <3>1, <3>2 DEF Kinds, Before, After
  <2> QED BY <1>1, <2>1, <2>2, <2>3
<1>8. ChallengeFirst'
  <2> SUFFICES ASSUME NEW x \in Session PROVE ChallengeFirst!(x)'
    BY DEF ChallengeFirst
  <2>1. Places(x, "vwc")' # {} => Places(x, "vwc") # {} \/ stage[x] \in Past
    BY <1>1, <1>2, <1>3, <1>5 DEF Kinds, Past, Brings
  <2> QED BY <1>1, <1>6, <2>1 DEF InOrder, ChallengeFirst
<1>9. CredentialLast'
  BY <1>1 DEF InOrder, CredentialLast, Closes, TypeOK
<1> QED BY <1>7, <1>8, <1>9 DEF InOrder

\* The wallet's other steps on one session.
LEMMA SessionOrder ==
    ASSUME TypeOK, Provenance, InOrder, NEW s \in Session,
           Throws(s) \/ Challenged(s) \/ (\E produced \in BOOLEAN : RadioEnds(s, produced)) \/ Present(s)
           \/ Concluded(s) \/ Assemble(s) \/ TimerFires(s) \/ Open(s)
    PROVE  InOrder'
<1>1. UNCHANGED <<toWitness, submits, outgoing, toWallet, retained>>
  BY DEF Throws, Challenged, RadioEnds, Present, Concluded, Assemble, TimerFires, Open, witness
<1>2. \A x \in Session \ {s} : UNCHANGED <<stage[x], answer[x], vwc[x], terminal[x]>>
  BY DEF Throws, Challenged, RadioEnds, Present, Concluded, Assemble, TimerFires, Open, Await, TypeOK
<1>3. terminal[s] # None => stage[s] \in {"shared", "killed"}
  BY DEF InOrder, CredentialLast
<1>4. \A x \in Session \ {s} : terminal[x] # None => stage[x] \in {"shared", "killed"}
  BY DEF InOrder, CredentialLast
<1>5. vwc[s] # None => stage[s] \in {"stored", "shared", "killed"}
  BY DEF Provenance, Held
<1>6. /\ stage'[s] \in Before => stage[s] \in Before
      /\ stage'[s] \notin After => stage[s] \notin After
      /\ stage'[s] \in Past => stage[s] \in Past \/ answer[s].kind = "challenge"
  BY DEF Throws, Challenged, RadioEnds, Present, Concluded, Assemble, TimerFires, Open, Before, After, Past,
     TypeOK
<1>7. answer'[s] = answer[s] \/ answer'[s].kind \notin Kinds
  BY Replies DEF Throws, Challenged, RadioEnds, Present, Concluded, Assemble, TimerFires, Open, Await, TypeOK,
     Kinds
<1>8. stage'[s] = "stored" => \/ stage[s] = "stored" /\ vwc'[s] = vwc[s]
                              \/ answer[s].kind = "vwc" /\ vwc'[s] = answer[s]
  BY DEF Throws, Challenged, RadioEnds, Present, Concluded, Assemble, TimerFires, Open, TypeOK
<1>9. terminal'[s] # None => /\ vwc'[s] = vwc[s] /\ stage'[s] \in {"shared", "killed"}
                             /\ \/ terminal'[s] = terminal[s]
                                \/ stage[s] = "stored" /\ terminal'[s] = retained[s][Len(retained[s])]
  BY <1>3 DEF Throws, Challenged, RadioEnds, Present, Concluded, Assemble, TimerFires, Open, TypeOK
<1>10. \A x \in Session :
          /\ stage'[x] \in Before => stage[x] \in Before
          /\ stage'[x] \notin After => stage[x] \notin After
          /\ stage'[x] \in Past => stage[x] \in Past \/ answer[x].kind = "challenge"
          /\ answer'[x] = answer[x] \/ answer'[x].kind \notin Kinds
          /\ stage'[x] = "stored" =>
                \/ stage[x] = "stored" /\ vwc'[x] = vwc[x]
                \/ answer[x].kind = "vwc" /\ vwc'[x] = answer[x]
          /\ terminal'[x] # None =>
                /\ vwc'[x] = vwc[x] /\ stage'[x] \in {"shared", "killed"}
                /\ \/ terminal'[x] = terminal[x]
                   \/ stage[x] = "stored" /\ terminal'[x] = retained[x][Len(retained[x])]
  <2> TAKE x \in Session
  <2>1. CASE x = s
    BY <1>6, <1>7, <1>8, <1>9, <2>1
  <2>2. CASE x # s
    BY <1>2, <1>4, <2>2
  <2> QED BY <2>1, <2>2
<1> QED BY <1>1, <1>10, WalletOrder

\* A kill of the wallet keeps the order.
LEMMA KilledOrder ==
    ASSUME TypeOK, InOrder, WalletKilled PROVE InOrder'
<1>1. \A s \in Session : /\ stage'[s] = IF stage[s] = "idle" THEN "idle" ELSE "killed"
                         /\ answer'[s] = None /\ vwc'[s] = vwc[s] /\ terminal'[s] = terminal[s]
  BY DEF WalletKilled
<1>2. UNCHANGED <<toWitness, submits, outgoing, toWallet, retained>>
  BY DEF WalletKilled, witness
<1>3. \A s \in Session : terminal[s] # None => stage[s] \in {"shared", "killed"}
  BY DEF InOrder, CredentialLast
<1> QED BY <1>1, <1>2, <1>3, Replies, WalletOrder DEF Before, After, Past, Kinds

\* A tick keeps the order.
LEMMA TickOrder ==
    ASSUME InOrder, Tick \/ UNCHANGED vars PROVE InOrder'
<1>1. UNCHANGED <<stage, answer, vwc, terminal, toWitness, submits, outgoing, toWallet, retained>>
  BY DEF Tick, vars, wallet, witness
<1>2. \A s \in Session : terminal[s] # None => stage[s] \in {"shared", "killed"}
  BY DEF InOrder, CredentialLast
<1> QED BY <1>1, <1>2, WalletOrder

\* A request that is handled makes place for what it brings.
LEMMA SessionMoves ==
    ASSUME TypeOK, InOrder, NEW m \in toWitness, HandleSession(m), duplicates' = duplicates PROVE InOrder'
<1> DEFINE r == [kind |-> "challenge", session |-> m.session, challenge |-> Fresh(m.session),
                 sensor |-> Policy # "off" /\ m.session \in Offers]
<1>1. /\ toWitness' = toWitness \ {m} /\ m.kind = "session" /\ outgoing' = outgoing \cup {r}
      /\ UNCHANGED <<wallet, submits, toWallet, retained>>
  BY DEF HandleSession, Take, TypeOK, wallet
<1>2. r.kind = "challenge" /\ r.session = m.session
  OBVIOUS
<1> HIDE DEF r
<1>3. \A s \in Session : \A kind \in Kinds : Moves(s, kind)
  <2> TAKE s \in Session
  <2> TAKE kind \in Kinds
  <2>1. CASE s = m.session /\ kind = "challenge"
    <3>1. <<"asking", m>> \in Places(s, kind)
      BY <1>1, <2>1 DEF Places, Asking, Brings
    <3>2. Places(s, kind)' \subseteq (Places(s, kind) \ {<<"asking", m>>}) \cup {<<"leaving", r>>}
      BY <1>1, <1>2, <2>1 DEF Places, Asking, Handling, Leaving, Arriving, Kept
    <3>3. \A a, b \in Places(s, kind) : a = b
      BY DEF InOrder, InOnePlace, Kinds
    <3>4. \A a, b \in Places(s, kind)' : a = b
      BY <3>1, <3>2, <3>3, Replaced
    <3> QED BY <3>1, <3>4 DEF Moves
  <2>2. CASE ~(s = m.session /\ kind = "challenge")
    <3>1. Places(s, kind)' \subseteq Places(s, kind)
      BY <1>1, <1>2, <2>2 DEF Places, Asking, Handling, Leaving, Arriving, Kept
    <3> QED BY <3>1 DEF Moves
  <2> QED BY <2>1, <2>2
<1> QED BY <1>1, <1>3, WitnessOrder

\* A submit that comes in is handled, or refused.
LEMMA BeginMoves ==
    ASSUME TypeOK, InOrder, NEW m \in toWitness, BeginSubmit(m), duplicates' = duplicates PROVE InOrder'
<1>1. PICK t, f : /\ toWitness' = toWitness \ {m} /\ m.kind = "submit"
                  /\ t.session = m.session /\ submits' \subseteq submits \cup {t}
                  /\ f.kind = "refusal" /\ outgoing' \subseteq outgoing \cup {f}
                  /\ UNCHANGED <<wallet, toWallet, retained>>
  <2> DEFINE t == [session |-> m.session, attempt |-> begun[m.session] + 1, presented |-> m.challenge,
                   at |-> "proof", observing |-> FALSE, observation |-> "absent"]
             f == [kind |-> "refusal", session |-> m.session, attempt |-> begun[m.session] + 1]
  <2>1. /\ submits' \subseteq submits \cup {t} /\ outgoing' \subseteq outgoing \cup {f}
        /\ toWitness' = toWitness \ {m} /\ m.kind = "submit" /\ UNCHANGED <<wallet, toWallet, retained>>
    BY DEF BeginSubmit, Refuse, Take, TypeOK, wallet
  <2>2. t.session = m.session /\ f.kind = "refusal"
    OBVIOUS
  <2> HIDE DEF t, f
  <2> QED BY <2>1, <2>2
<1>2. \A s \in Session : \A kind \in Kinds : Moves(s, kind)
  <2> TAKE s \in Session
  <2> TAKE kind \in Kinds
  <2>1. CASE s = m.session /\ kind = "vwc"
    <3>1. <<"asking", m>> \in Places(s, kind)
      BY <1>1, <2>1 DEF Places, Asking, Brings
    <3>2. Places(s, kind)' \subseteq (Places(s, kind) \ {<<"asking", m>>}) \cup {<<"handling", t>>}
      BY <1>1, <2>1 DEF Places, Asking, Handling, Leaving, Arriving, Kept, Kinds
    <3>3. \A a, b \in Places(s, kind) : a = b
      BY DEF InOrder, InOnePlace, Kinds
    <3>4. \A a, b \in Places(s, kind)' : a = b
      BY <3>1, <3>2, <3>3, Replaced
    <3> QED BY <3>1, <3>4 DEF Moves
  <2>2. CASE ~(s = m.session /\ kind = "vwc")
    <3>1. Places(s, kind)' \subseteq Places(s, kind)
      BY <1>1, <2>2 DEF Places, Asking, Handling, Leaving, Arriving, Kept, Kinds
    <3> QED BY <3>1 DEF Moves
  <2> QED BY <2>1, <2>2
<1> QED BY <1>1, <1>2, WitnessOrder

\* A handler that gets on is where it was, or leaves its credential or a refusal behind.
LEMMA HandlerMoves ==
    ASSUME TypeOK, InOrder, NEW t \in submits,
           VerifySubmit(t) \/ Issue(t) \/ \E o \in Observation : ObserveSubmit(t, o)
    PROVE  InOrder'
<1>1. t.session \in Session
  BY DEF TypeOK, Submit
<1>2. UNCHANGED <<wallet, toWitness, toWallet, retained>>
  BY DEF VerifySubmit, Issue, ObserveSubmit, wallet
<1>3. \/ \E u : u.session = t.session /\ submits' = (submits \ {t}) \cup {u} /\ outgoing' = outgoing
      \/ \E f : f.kind = "refusal" /\ submits' = submits \ {t} /\ outgoing' = outgoing \cup {f}
      \/ \E r : r.kind = "vwc" /\ r.session = t.session /\ submits' = submits \ {t} /\ outgoing' = outgoing \cup {r}
  <2>1. t \in Submit
    BY DEF TypeOK
  <2>2. CASE VerifySubmit(t)
    <3> DEFINE u == [t EXCEPT !.at = IF Policy = "off" THEN "signing" ELSE "observation",
                              !.presented = sessions[t.session].challenge,
                              !.observing = sessions[t.session].observing]
               f == [kind |-> "refusal", session |-> t.session, attempt |-> t.attempt]
    <3>1. \/ submits' = (submits \ {t}) \cup {u} /\ outgoing' = outgoing
          \/ submits' = submits \ {t} /\ outgoing' = outgoing \cup {f}
      BY <2>2 DEF VerifySubmit, Refuse
    <3>2. u.session = t.session /\ f.kind = "refusal"
      BY <2>1 DEF Submit
    <3> HIDE DEF u, f
    <3> QED BY <3>1, <3>2
  <2>3. CASE Issue(t)
    <3> DEFINE r == [kind |-> "vwc", session |-> t.session, challenge |-> t.presented,
                     attempt |-> t.attempt, observation |-> t.observation]
    <3>1. submits' = submits \ {t} /\ outgoing' = outgoing \cup {r}
      BY <2>3 DEF Issue
    <3>2. r.session = t.session /\ r.kind = "vwc"
      OBVIOUS
    <3> HIDE DEF r
    <3> QED BY <3>1, <3>2
  <2>4. ASSUME NEW o \in Observation, ObserveSubmit(t, o) PROVE <1>3
    <3> DEFINE u == [t EXCEPT !.at = "signing", !.observation = o]
               f == [kind |-> "refusal", session |-> t.session, attempt |-> t.attempt]
    <3>1. \/ submits' = (submits \ {t}) \cup {u} /\ outgoing' = outgoing
          \/ submits' = submits \ {t} /\ outgoing' = outgoing \cup {f}
      BY <2>4 DEF ObserveSubmit, Refuse
    <3>2. u.session = t.session /\ f.kind = "refusal"
      BY <2>1 DEF Submit
    <3> HIDE DEF u, f
    <3> QED BY <3>1, <3>2
  <2> QED BY <2>2, <2>3, <2>4
<1>4. \A s \in Session : \A kind \in Kinds : Moves(s, kind)
  <2> TAKE s \in Session
  <2> TAKE kind \in Kinds
  <2>1. CASE s = t.session /\ kind = "vwc"
    <3>1. <<"handling", t>> \in Places(s, kind)
      BY <2>1 DEF Places, Handling
    <3>2. \E y : Places(s, kind)' \subseteq (Places(s, kind) \ {<<"handling", t>>}) \cup {y}
      <4>1. ASSUME NEW u, submits' = (submits \ {t}) \cup {u}, outgoing' = outgoing PROVE <3>2
        <5>1. Places(s, kind)' \subseteq (Places(s, kind) \ {<<"handling", t>>}) \cup {<<"handling", u>>}
          BY <1>2, <4>1 DEF Places, Asking, Handling, Leaving, Arriving, Kept
        <5> QED BY <5>1
      <4>2. ASSUME NEW r, submits' = submits \ {t}, outgoing' = outgoing \cup {r} PROVE <3>2
        <5>1. Places(s, kind)' \subseteq (Places(s, kind) \ {<<"handling", t>>}) \cup {<<"leaving", r>>}
          BY <1>2, <4>2 DEF Places, Asking, Handling, Leaving, Arriving, Kept
        <5> QED BY <5>1
      <4> QED BY <1>3, <4>1, <4>2
    <3>3. \A a, b \in Places(s, kind) : a = b
      BY DEF InOrder, InOnePlace, Kinds
    <3>4. \A a, b \in Places(s, kind)' : a = b
      BY <3>1, <3>2, <3>3, Replaced
    <3> QED BY <3>1, <3>4 DEF Moves
  <2>2. CASE ~(s = t.session /\ kind = "vwc")
    <3>1. Places(s, kind)' \subseteq Places(s, kind)
      BY <1>2, <1>3, <2>2 DEF Places, Asking, Handling, Leaving, Arriving, Kept, Kinds
    <3> QED BY <3>1 DEF Moves
  <2> QED BY <2>1, <2>2
<1> QED BY <1>2, <1>4, WitnessOrder

\* A reply that is sent leaves the witness for the wallet; one that is not is in no place.
LEMMA ReplyMoves ==
    ASSUME TypeOK, InOrder, NEW r \in outgoing, ReplySent(r) \/ ReplyFails(r) PROVE InOrder'
<1>1. UNCHANGED <<wallet, toWitness, submits, retained>> /\ outgoing' = outgoing \ {r}
  BY DEF ReplySent, ReplyFails, wallet
<1>2. ASSUME NEW s \in Session, NEW kind \in Kinds PROVE Moves(s, kind)
  <2>1. CASE toWallet' = toWallet
    <3>1. Places(s, kind)' \subseteq Places(s, kind)
      BY <1>1, <2>1 DEF Places, Asking, Handling, Leaving, Arriving, Kept
    <3> QED BY <3>1 DEF Moves
  <2>2. CASE toWallet' = Append(toWallet, r)
    <3>1. toWallet \in Seq(Reply) /\ r \in Reply
      BY DEF TypeOK
    <3>2. \A i \in 1..Len(toWallet') : \/ i \in 1..Len(toWallet) /\ toWallet'[i] = toWallet[i]
                                       \/ i = Len(toWallet) + 1 /\ toWallet'[i] = r
      BY <2>2, <3>1
    <3>3. CASE r.session = s /\ r.kind = kind
      <4>1. <<"leaving", r>> \in Places(s, kind)
        BY <3>3 DEF Places, Leaving
      <4>2. Places(s, kind)' \subseteq
               (Places(s, kind) \ {<<"leaving", r>>}) \cup {<<"arriving", Len(toWallet) + 1>>}
        BY <1>1, <3>2 DEF Places, Asking, Handling, Leaving, Arriving, Kept
      <4>3. \A a, b \in Places(s, kind) : a = b
        BY DEF InOrder, InOnePlace, Kinds
      <4>4. \A a, b \in Places(s, kind)' : a = b
        BY <4>1, <4>2, <4>3, Replaced
      <4> QED BY <4>1, <4>4 DEF Moves
    <3>4. CASE ~(r.session = s /\ r.kind = kind)
      <4>1. Places(s, kind)' \subseteq Places(s, kind)
        BY <1>1, <3>2, <3>4 DEF Places, Asking, Handling, Leaving, Arriving, Kept
      <4> QED BY <4>1 DEF Moves
    <3> QED BY <3>3, <3>4
  <2> QED BY <2>1, <2>2 DEF ReplySent, ReplyFails
<1> QED BY <1>1, <1>2, WitnessOrder

\* What the witness loses is in no place.
LEMMA OthersMove ==
    ASSUME InOrder, WitnessRestarts \/ \E s \in Session : SensorReads(s) \/ GrowOld(s) PROVE InOrder'
<1>1. /\ UNCHANGED <<wallet, toWitness, toWallet, retained>>
      /\ submits' \subseteq submits /\ outgoing' \subseteq outgoing
  BY DEF WitnessRestarts, SensorReads, GrowOld, wallet
<1>2. ASSUME NEW s \in Session, NEW kind \in Kinds PROVE Moves(s, kind)
  BY <1>1 DEF Moves, Places, Asking, Handling, Leaving, Arriving, Kept
<1> QED BY <1>1, <1>2, WitnessOrder

\* What each place holds.
LEMMA Placed ==
    ASSUME NEW s, NEW kind
    PROVE  /\ \A m \in Asking(s, kind) : <<"asking", m>> \in Places(s, kind)
           /\ \A t \in Handling(s, kind) : <<"handling", t>> \in Places(s, kind)
           /\ \A r \in Leaving(s, kind) : <<"leaving", r>> \in Places(s, kind)
           /\ \A i \in Arriving(s, kind) : <<"arriving", i>> \in Places(s, kind)
           /\ \A i \in Kept(s, kind) : <<"kept", i>> \in Places(s, kind)
           /\ \A a, b : /\ <<"asking", a>> # <<"arriving", b>> /\ <<"handling", a>> # <<"arriving", b>>
                        /\ <<"leaving", a>> # <<"arriving", b>> /\ <<"kept", a>> # <<"arriving", b>>
BY DEF Places

\* What is received goes from the head of the queue to the thread.
LEMMA ReceiveMoves ==
    ASSUME TypeOK, InOrder, Receive PROVE \A s \in Session : \A kind \in Kinds : Moves(s, kind)
<1> DEFINE r == Head(toWallet)
<1>1. /\ UNCHANGED <<toWitness, submits, outgoing>> /\ toWallet # <<>> /\ toWallet' = Tail(toWallet)
      /\ HandleReply(r)
  BY DEF Receive, witness
<1>2. toWallet \in Seq(Reply)
  BY DEF TypeOK
<1>3. /\ 1 \in 1..Len(toWallet) /\ r = toWallet[1] /\ r \in Reply
      /\ \A i \in 1..Len(toWallet') : i + 1 \in 1..Len(toWallet) /\ toWallet'[i] = toWallet[i + 1] /\ i + 1 # 1
  BY <1>1, <1>2
<1> HIDE DEF r
<1> SUFFICES ASSUME NEW s \in Session, NEW kind \in Kinds PROVE Moves(s, kind)
  OBVIOUS
<1>4. \A a, b \in Places(s, kind) : a = b
  BY DEF InOrder, InOnePlace, Kinds
<1>5. \A i \in Arriving(s, kind)' : i + 1 \in Arriving(s, kind) /\ i + 1 # 1
  BY <1>3 DEF Arriving
<1>6. UNCHANGED <<Asking(s, kind), Handling(s, kind), Leaving(s, kind)>>
  BY <1>1 DEF Asking, Handling, Leaving
<1>7. CASE r.kind = kind /\ r.session = s
  <2>1. <<"arriving", 1>> \in Places(s, kind)
    BY <1>3, <1>7 DEF Places, Arriving
  <2>2. Kept(s, kind)' \subseteq Kept(s, kind) \cup {Len(retained[s]) + 1}
    <3>1. retained[s] \in Seq(ChallengeReply \cup VwcReply)
      BY DEF TypeOK
    <3>2. retained'[s] = Append(retained[s], r)
      BY <1>1, <1>7 DEF HandleReply, TypeOK, Kinds
    <3>3. \A i \in 1..Len(retained'[s]) : \/ i \in 1..Len(retained[s]) /\ retained'[s][i] = retained[s][i]
                                          \/ i = Len(retained[s]) + 1
      BY <3>1, <3>2
    <3> QED BY <3>3 DEF Kept
  <2>3. Places(s, kind)' \subseteq {<<"kept", Len(retained[s]) + 1>>}
    <3>1. Asking(s, kind) = {} /\ Handling(s, kind) = {} /\ Leaving(s, kind) = {} /\ Kept(s, kind) = {}
      BY <1>4, <2>1, Placed
    <3>2. \A i \in Arriving(s, kind) : i = 1
      <4>1. \A i \in Arriving(s, kind) : <<"arriving", i>> = <<"arriving", 1>>
        BY <1>4, <2>1, Placed
      <4> QED BY <4>1
    <3>3. Arriving(s, kind)' = {}
      BY <1>5, <3>2
    <3> QED BY <1>6, <2>2, <3>1, <3>3 DEF Places
  <2> QED BY <2>1, <2>3 DEF Moves
<1>8. CASE ~(r.kind = kind /\ r.session = s)
  <2>1. Kept(s, kind)' \subseteq Kept(s, kind)
    <3>1. CASE retained'[s] = retained[s]
      BY <3>1 DEF Kept
    <3>2. CASE retained'[s] = Append(retained[s], r) /\ r.kind # kind
      <4>1. retained[s] \in Seq(ChallengeReply \cup VwcReply)
        BY DEF TypeOK
      <4>2. \A i \in 1..Len(retained'[s]) :
               (i \in 1..Len(retained[s]) /\ retained'[s][i] = retained[s][i]) \/ retained'[s][i] = r
        BY <3>2, <4>1
      <4> QED BY <3>2, <4>2 DEF Kept
    <3>3. retained' = retained \/ retained' = [retained EXCEPT ![r.session] = Append(@, r)]
      BY <1>1 DEF HandleReply
    <3>4. retained'[s] = retained[s] \/ (s = r.session /\ retained'[s] = Append(retained[s], r))
      BY <3>3 DEF TypeOK
    <3> QED BY <1>8, <3>1, <3>2, <3>4
  <2>2. \A x \in Places(s, kind)' :
           \/ x \in Places(s, kind) /\ x[1] # "arriving"
           \/ \E i \in Arriving(s, kind)' : x = <<"arriving", i>>
    BY <1>6, <2>1 DEF Places
  <2>3. \A i \in Arriving(s, kind)' : <<"arriving", i + 1>> \in Places(s, kind) /\ i \in Nat
    BY <1>3, <1>5 DEF Places, Arriving
  <2>4. \A a, b \in Places(s, kind)' : a = b
    <3> SUFFICES ASSUME NEW a \in Places(s, kind)', NEW b \in Places(s, kind)' PROVE a = b
      OBVIOUS
    <3>1. \A x \in Places(s, kind) : \A i \in Arriving(s, kind)' : x = <<"arriving", i + 1>>
      BY <1>4, <2>3
    <3>2. \A x \in Places(s, kind) : x[1] # "arriving" => Arriving(s, kind)' = {}
      BY <3>1
    <3>3. \A i, j \in Arriving(s, kind)' : i = j
      <4> SUFFICES ASSUME NEW i \in Arriving(s, kind)', NEW j \in Arriving(s, kind)' PROVE i = j
        OBVIOUS
      <4>1. <<"arriving", i + 1>> = <<"arriving", j + 1>> /\ i \in Nat /\ j \in Nat
        BY <2>3, <3>1
      <4> QED BY <4>1
    <3> QED BY <1>4, <2>2, <3>2, <3>3
  <2>5. Places(s, kind)' # {} => Places(s, kind) # {}
    BY <2>2, <2>3
  <2> QED BY <2>4, <2>5 DEF Moves
<1> QED BY <1>7, <1>8

\* A receipt keeps the order: the challenge came before the credential was asked for, and no
\* second credential comes.
LEMMA ReceiveOrder ==
    ASSUME TypeOK, InOrder, Receive PROVE InOrder'
<1>1. PICK r, s : /\ UNCHANGED <<stage, vwc, terminal>> /\ toWallet # <<>> /\ HandleReply(r)
                  /\ r = Head(toWallet) /\ s = r.session
  BY DEF Receive
<1>2. r = toWallet[1] /\ 1 \in 1..Len(toWallet) /\ r \in Reply
  <2>1. toWallet \in Seq(Reply)
    BY DEF TypeOK
  <2> QED BY <1>1, <2>1
<1>3. s \in Session /\ r.kind \in Kinds \cup {"refusal"}
  BY <1>1, <1>2, Replies DEF Reply, Kinds
<1>4. r.kind \in Kinds => <<"arriving", 1>> \in Places(s, r.kind)
  BY <1>1, <1>2, Placed DEF Arriving
<1>5. \A x \in Session : x # s \/ r.kind = "refusal" => answer'[x] = answer[x] /\ retained'[x] = retained[x]
  BY <1>1, <1>3 DEF HandleReply, Resolve, TypeOK
<1>6. r.kind # "refusal" => /\ retained'[s] = Append(retained[s], r)
                            /\ answer'[s] \in {answer[s], r}
  BY <1>1, <1>3 DEF HandleReply, Resolve, TypeOK
<1>7. retained[s] \in Seq(ChallengeReply \cup VwcReply) /\ Len(retained[s]) \in Nat
  BY <1>3 DEF TypeOK
<1>8. r.kind # "refusal" => /\ Len(retained'[s]) = Len(retained[s]) + 1 /\ retained'[s] # <<>>
                            /\ retained'[s][Len(retained[s]) + 1] = r
                            /\ \A i \in 1..Len(retained[s]) : retained'[s][i] = retained[s][i]
  BY <1>6, <1>7
<1>9. \A x \in Session : Kept(x, "challenge") \subseteq Kept(x, "challenge")'
  <2> TAKE x \in Session
  <2>1. CASE x = s /\ r.kind # "refusal"
    BY <1>7, <1>8, <2>1 DEF Kept
  <2>2. CASE ~(x = s /\ r.kind # "refusal")
    BY <1>5, <2>2 DEF Kept
  <2> QED BY <2>1, <2>2
<1>10. r.kind = "challenge" => Kept(s, "challenge")' # {}
  <2>1. r.kind = "challenge" => Len(retained[s]) + 1 \in Kept(s, "challenge")'
    BY <1>7, <1>8 DEF Kept
  <2> QED BY <2>1
<1>11. \A x \in Session : \A kind \in Kinds : Moves(x, kind)
  BY ReceiveMoves
<1>12. InOnePlace'
  BY <1>1, <1>11 DEF InOrder, InOnePlace, Moves, Kinds
<1>13. ChallengeFirst'
  <2> SUFFICES ASSUME NEW x \in Session PROVE ChallengeFirst!(x)'
    BY DEF ChallengeFirst
  <2>1. Places(x, "vwc")' # {} => Places(x, "vwc") # {}
    BY <1>11 DEF Moves, Kinds
  <2>2. answer'[x].kind = "challenge" => answer[x].kind = "challenge" \/ (x = s /\ r.kind = "challenge")
    BY <1>5, <1>6
  <2> QED BY <1>1, <1>9, <1>10, <2>1, <2>2 DEF InOrder, ChallengeFirst
<1>14. CredentialLast'
  <2> SUFFICES ASSUME NEW x \in Session PROVE CredentialLast!(x)'
    BY DEF CredentialLast
  <2>1. CASE x # s \/ r.kind = "refusal"
    BY <1>1, <1>5, <2>1 DEF InOrder, CredentialLast, Closes
  <2>2. CASE x = s /\ r.kind \in Kinds
    <3>1. r.kind # "refusal"
      BY <2>2 DEF Kinds
    <3>2. \A kind \in Kinds : r.kind = kind => Kept(s, kind) = {}
      <4> SUFFICES ASSUME NEW i \in Kept(s, r.kind) PROVE FALSE
        OBVIOUS
      <4>1. <<"kept", i>> \in Places(s, r.kind)
        BY Placed
      <4>2. <<"kept", i>> = <<"arriving", 1>>
        BY <1>3, <1>4, <2>2, <4>1 DEF InOrder, InOnePlace, Kinds
      <4> QED BY <4>2
    <3>3. \A q : Closes(s, q) => Len(retained[s]) \in Kept(s, "vwc")
      BY <1>7 DEF Closes, Kept
    <3>4. \A q : ~Closes(s, q)
      <4>1. CASE r.kind = "vwc"
        BY <3>2, <3>3, <4>1 DEF Kinds
      <4>2. CASE r.kind = "challenge"
        <5>1. Places(s, "vwc") = {}
          BY <1>3, <3>2, <4>2 DEF InOrder, ChallengeFirst, Kinds
        <5> QED BY <3>3, <5>1, Placed
      <4> QED BY <2>2, <4>1, <4>2 DEF Kinds
    <3>5. answer'[s].kind = "vwc" => answer'[s] = r
      BY <1>3, <1>6, <3>1, <3>4 DEF InOrder, CredentialLast
    <3>6. answer'[s].kind = "vwc" => Closes(s, answer[s])'
      BY <1>8, <3>1, <3>5 DEF Closes
    <3>7. stage[s] # "stored"
      BY <1>3, <3>4 DEF InOrder, CredentialLast
    <3> QED BY <1>1, <2>2, <3>6, <3>7 DEF InOrder, CredentialLast
  <2> QED BY <1>3, <2>1, <2>2
<1> QED BY <1>12, <1>13, <1>14 DEF InOrder

\* Duplicates are never taken back, so whatever has none had none: every step keeps the order.
Orderly == duplicates = 0 => InOrder

LEMMA OrderlyNext ==
    ASSUME TypeOK, Provenance, Orderly, [Next]_vars PROVE Orderly'
<1> SUFFICES ASSUME duplicates' = 0 PROVE InOrder'
  BY DEF Orderly
<1>1. duplicates' = duplicates \/ duplicates' = duplicates + 1
  BY DEF Next, System, Environment, Open, Sent, Throws, Challenged, RadioEnds, Present, Concluded, Assemble,
     TimerFires, Receive, ReceiveTwice, WalletKilled, Take, HandleSession, BeginSubmit, VerifySubmit,
     ObserveSubmit, Issue, ReplySent, ReplyFails, SensorReads, GrowOld, WitnessRestarts, Tick, vars, budget
<1>2. duplicates = 0 /\ duplicates' = duplicates
  BY <1>1 DEF TypeOK
<1>3. InOrder
  BY <1>2 DEF Orderly
<1>4. CASE System
  <2>1. CASE \E s \in Session :
          \/ Sent(s) \/ Challenged(s) \/ (\E produced \in BOOLEAN : RadioEnds(s, produced))
          \/ Present(s) \/ Concluded(s) \/ Assemble(s) \/ TimerFires(s)
    BY <1>3, <2>1, SentOrder, SessionOrder
  <2>2. CASE Receive
    BY <1>3, <2>2, ReceiveOrder
  <2>3. CASE \E m \in toWitness : HandleSession(m) \/ BeginSubmit(m)
    BY <1>2, <1>3, <2>3, SessionMoves, BeginMoves
  <2>4. CASE \E t \in submits : VerifySubmit(t) \/ Issue(t) \/ \E o \in Observation : ObserveSubmit(t, o)
    BY <1>3, <2>4, HandlerMoves
  <2>5. CASE \E r \in outgoing : ReplySent(r)
    BY <1>3, <2>5, ReplyMoves
  <2> QED BY <1>4, <2>1, <2>2, <2>3, <2>4, <2>5 DEF System
<1>5. CASE Environment
  <2>1. ~ReceiveTwice
    BY <1>2 DEF ReceiveTwice
  <2> QED BY <1>3, <1>5, <2>1, SessionOrder, KilledOrder, OthersMove, ReplyMoves DEF Environment
<1>6. CASE Tick \/ UNCHANGED vars
  BY <1>3, <1>6, TickOrder
<1>7. CASE \E s \in Session : Open(s)
  BY <1>3, <1>7, SessionOrder
<1> QED BY <1>4, <1>5, <1>6, <1>7 DEF Next

\* "The terminal document is the LATEST reply - the one that closed the exchange"
\* (findOutcomeEvidencePair): as long as no message is delivered twice, an assembled bundle
\* shows the reply that brought the credential, for any number of sessions, however many
\* sends fail and timers fire, and whichever of the two restarts.
THEOREM TerminalIsTheCredential == Spec => []TerminalClosesExchange
<1>1. Init => Orderly
  BY InOrderInit DEF Orderly
<1>2. WellFormed /\ Provenance /\ Orderly /\ [Next]_vars => Orderly'
  BY OrderlyNext DEF WellFormed
<1>3. Orderly => TerminalClosesExchange
  BY DEF Orderly, InOrder, CredentialLast, TerminalClosesExchange
<1> QED BY <1>1, <1>2, <1>3, Invariance, PTL DEF Spec
=============================================================================
