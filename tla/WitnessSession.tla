---------------------------- MODULE WitnessSession ----------------------------
(***************************************************************************)
(* One wallet's witness sessions (trust-tasks/witnessCeremony.ts) with one *)
(* witness (witness-server/src/trustTasks/WitnessTaskSessions.ts).         *)
(*                                                                         *)
(* A session: the wallet opens it, the witness answers with a challenge,   *)
(* the wallet answers the witness's sensor by radio when asked to, submits *)
(* a presentation bound to the challenge, and stores the credential (VWC)  *)
(* that comes back.  Each wait of the wallet has a timer.                  *)
(*                                                                         *)
(* The wallet handles its messages in order; the witness handles them      *)
(* concurrently (processDidCommMessagesConcurrently), each handler being   *)
(* split at the awaits after which it reads what another may have changed. *)
(***************************************************************************)
EXTENDS Naturals, Sequences, FiniteSets

CONSTANTS
    Session,        \* the sessions the wallet opens
    Policy,         \* the witness's LocalityPolicy
    Offers,         \* the sessions that offer locality
    HasRadio,       \* the phone's locality provider is the real one
    Wait,           \* runWitnessSession's timeoutMs, in ticks
    ObserveWindow,  \* LOCALITY_WINDOW_SECONDS, in ticks
    MaxDuplicates,  \* bound: how often a message is delivered once more
    MaxFailures,    \* bound: how often a send fails
    MaxCrashes,     \* bound: how often the wallet or the witness restarts
    MaxMishaps      \* bound: how much of these three happens in all

ASSUME PolicyIsKnown == Policy \in {"off", "offered", "required"}
ASSUME OffersAreSessions == Offers \subseteq Session
ASSUME HasRadioIsBoolean == HasRadio \in BOOLEAN
ASSUME TicksAreNat ==
    /\ Wait \in Nat /\ ObserveWindow \in Nat
    /\ MaxDuplicates \in Nat /\ MaxFailures \in Nat /\ MaxCrashes \in Nat /\ MaxMishaps \in Nat

VARIABLES
    stage,       \* where runWitnessSession is                                   (volatile)
    waiter,      \* pendingWitnessResponses: the type awaited                    (volatile)
    timer,       \* the ticks left of its timer                                  (volatile)
    answer,      \* what the promise was settled with                            (volatile)
    mine,        \* the challenge received, 0 for none                           (volatile)
    transcript,  \* the challenge the device's transcript is over, 0 for none    (volatile)
    retained,    \* the responses retained on the session's thread, in order     (durable)
    vwc,         \* the credential stored as verified                            (durable)
    terminal,    \* the terminal document of the assembled bundle                (history)
    refused,     \* the sessions on whose thread a refusal is retained              (durable)
    sessions,    \* WitnessTaskSessions.sessions                                 (volatile)
    old,         \* the sessions of it that are older than SESSION_TTL_MS
    drawn,       \* how many challenges were drawn for a session                 (history)
    window,      \* the ticks left for observing a session's challenge           (volatile)
    seen,        \* the challenges whose transcript the sensor read
    submits,     \* the submit handlers under way                                (volatile)
    begun,       \* how many submits came in for a session                       (history)
    issued,      \* the credentials issued                                       (history)
    outgoing,    \* the replies being signed and sent                            (volatile)
    toWitness,   \* the requests under way
    toWallet,    \* the replies under way
    duplicates, failures, crashes

wallet == <<stage, waiter, timer, answer, mine, transcript, retained, vwc, terminal, refused>>
witness == <<sessions, old, drawn, window, seen, submits, begun, issued, outgoing>>
budget == <<duplicates, failures, crashes>>
vars == <<wallet, witness, toWitness, toWallet, budget>>

Challenge == 1..(MaxDuplicates + 1)
Attempt == 1..(MaxDuplicates + 1)
Observation == {"absent", "declinedByHolder", "windowLost", "confirmed"}

Request == [kind : {"session"}, session : Session]
           \cup [kind : {"submit"}, session : Session, challenge : Challenge]
ChallengeReply == [kind : {"challenge"}, session : Session, challenge : Challenge, sensor : BOOLEAN]
VwcReply == [kind : {"vwc"}, session : Session, challenge : Challenge, attempt : Attempt,
             observation : Observation]
Refusal == [kind : {"refusal"}, session : Session, attempt : Attempt]
Reply == ChallengeReply \cup VwcReply \cup Refusal

\* TaskSession, and a submit handler: before and after it reads the session.
TaskSession == [challenge : Challenge, observing : BOOLEAN]
Submit == [session : Session, attempt : Attempt, presented : Challenge,
           at : {"proof", "observation", "signing"}, observing : BOOLEAN, observation : Observation]

MayGoWrong == duplicates + failures + crashes < MaxMishaps

None == [kind |-> "none"]
TimedOut == [kind |-> "timedOut"]
NoSession == [challenge |-> 0, observing |-> FALSE]

-----------------------------------------------------------------------------
Init ==
    /\ stage = [s \in Session |-> "idle"]
    /\ waiter = [s \in Session |-> "none"]
    /\ timer = [s \in Session |-> 0]
    /\ answer = [s \in Session |-> None]
    /\ mine = [s \in Session |-> 0]
    /\ transcript = [s \in Session |-> 0]
    /\ retained = [s \in Session |-> <<>>]
    /\ vwc = [s \in Session |-> None]
    /\ terminal = [s \in Session |-> None]
    /\ refused = {}
    /\ sessions = [s \in Session |-> NoSession]
    /\ old = {}
    /\ drawn = [s \in Session |-> 0]
    /\ window = [s \in Session |-> [c \in Challenge |-> 0]]
    /\ seen = {}
    /\ submits = {}
    /\ begun = [s \in Session |-> 0]
    /\ issued = {}
    /\ outgoing = {}
    /\ toWitness = {}
    /\ toWallet = <<>>
    /\ duplicates = 0 /\ failures = 0 /\ crashes = 0

-----------------------------------------------------------------------------
(* The wallet: runWitnessSession. *)

\* awaitWitnessResponse: a waiter and its timer, registered before the send.
Await(s, kind) ==
    /\ waiter' = [waiter EXCEPT ![s] = kind]
    /\ timer' = [timer EXCEPT ![s] = Wait]
    /\ answer' = [answer EXCEPT ![s] = None]

\* The session document is retained, and its answer awaited.
Open(s) ==
    /\ stage[s] = "idle"
    /\ stage' = [stage EXCEPT ![s] = "opening"]
    /\ Await(s, "challenge")
    /\ UNCHANGED <<mine, transcript, retained, vwc, terminal, refused, witness, toWitness, toWallet, budget>>

\* A send of the wallet ends: the session document, or the submit.
Sent(s) ==
    /\ \/ /\ stage[s] = "opening"
          /\ stage' = [stage EXCEPT ![s] = "opened"]
          /\ toWitness' = toWitness \cup {[kind |-> "session", session |-> s]}
       \/ /\ stage[s] = "submitting"
          /\ stage' = [stage EXCEPT ![s] = "submitted"]
          /\ toWitness' = toWitness \cup {[kind |-> "submit", session |-> s, challenge |-> mine[s]]}
    /\ UNCHANGED <<waiter, timer, answer, mine, transcript, retained, vwc, terminal, refused, witness,
                   toWallet, budget>>

\* A send that throws, or a radio phase that rejects (no key, no Bluetooth, no signature), ends the
\* session; its waiter stays until its timer.
Throws(s) ==
    /\ stage[s] \in {"opening", "submitting"} \/ (HasRadio /\ stage[s] = "radio")
    /\ MayGoWrong /\ failures < MaxFailures /\ failures' = failures + 1
    /\ stage' = [stage EXCEPT ![s] = "failed"]
    /\ UNCHANGED <<waiter, timer, answer, mine, transcript, retained, vwc, terminal, refused, witness,
                   toWitness, toWallet, duplicates, crashes>>

\* The native module refuses a second radio phase at a time.
RadioBusy(s) == HasRadio /\ \E other \in Session \ {s} : stage[other] = "radio"

\* The challenge promise is settled.
Challenged(s) ==
    /\ stage[s] = "opened" /\ answer[s] # None
    /\ \/ /\ answer[s] = TimedOut
          /\ stage' = [stage EXCEPT ![s] = "failed"]
          /\ UNCHANGED mine
       \/ /\ answer[s].kind = "challenge"
          /\ mine' = [mine EXCEPT ![s] = answer[s].challenge]
          /\ \/ ~answer[s].sensor /\ stage' = [stage EXCEPT ![s] = "presenting"]
             \/ answer[s].sensor /\ ~RadioBusy(s) /\ stage' = [stage EXCEPT ![s] = "radio"]
             \/ answer[s].sensor /\ RadioBusy(s) /\ stage' = [stage EXCEPT ![s] = "failed"]
    /\ UNCHANGED <<waiter, timer, answer, transcript, retained, vwc, terminal, refused, witness,
                   toWitness, toWallet, budget>>

\* respondToSensor resolves: with a transcript over this challenge, or with null (Throws: it rejects).
RadioEnds(s, produced) ==
    /\ stage[s] = "radio"
    /\ produced => HasRadio
    /\ stage' = [stage EXCEPT ![s] = "presenting"]
    /\ transcript' = [transcript EXCEPT ![s] = IF produced THEN mine[s] ELSE 0]
    /\ UNCHANGED <<waiter, timer, answer, mine, retained, vwc, terminal, refused, witness, toWitness,
                   toWallet, budget>>

\* The presentation is built and the submit signed and retained.
Present(s) ==
    /\ stage[s] = "presenting"
    /\ stage' = [stage EXCEPT ![s] = "submitting"]
    /\ Await(s, "vwc")
    /\ UNCHANGED <<mine, transcript, retained, vwc, terminal, refused, witness, toWitness, toWallet, budget>>

\* Fault: the witness's word on locality is taken.
AcceptsAnyObservation(s, r) == TRUE

\* The locality cross-check: a confirmed observation is of this device's own transcript.
Accepts(s, r) ==
    r.observation = "confirmed" => transcript[s] # 0 /\ r.challenge = transcript[s]

\* The VWC promise is settled: verified and stored, or refused.
Concluded(s) ==
    /\ stage[s] = "submitted" /\ answer[s] # None
    /\ \/ /\ answer[s].kind = "vwc" /\ Accepts(s, answer[s])
          /\ stage' = [stage EXCEPT ![s] = "stored"]
          /\ vwc' = [vwc EXCEPT ![s] = answer[s]]
       \/ /\ answer[s].kind = "vwc" => ~Accepts(s, answer[s])
          /\ stage' = [stage EXCEPT ![s] = "failed"]
          /\ UNCHANGED vwc
    /\ UNCHANGED <<waiter, timer, answer, mine, transcript, retained, terminal, refused, witness,
                   toWitness, toWallet, budget>>

\* Fault: the earliest response on the thread is taken.
AssembleEarliest(s) ==
    /\ stage[s] = "stored"
    /\ stage' = [stage EXCEPT ![s] = "shared"]
    /\ terminal' = [terminal EXCEPT ![s] = Head(retained[s])]
    /\ UNCHANGED <<waiter, timer, answer, mine, transcript, retained, vwc, refused, witness, toWitness,
                   toWallet, budget>>

\* assembleVwcPresentation: the terminal document is the latest response on the thread.
Assemble(s) ==
    /\ stage[s] = "stored"
    /\ stage' = [stage EXCEPT ![s] = "shared"]
    /\ terminal' = [terminal EXCEPT ![s] = retained[s][Len(retained[s])]]
    /\ UNCHANGED <<waiter, timer, answer, mine, transcript, retained, vwc, refused, witness, toWitness,
                   toWallet, budget>>

\* Fault: a response of another type resolves the wait.
ResolveAnyType(s, r) ==
    IF waiter[s] # "none"
    THEN waiter' = [waiter EXCEPT ![s] = "none"] /\ answer' = [answer EXCEPT ![s] = r]
    ELSE UNCHANGED <<waiter, answer>>

\* Fault: the waiter is dropped before the type is compared.
ResolveDropsWaiter(s, r) ==
    /\ waiter' = [waiter EXCEPT ![s] = "none"]
    /\ answer' = IF waiter[s] = r.kind THEN [answer EXCEPT ![s] = r] ELSE answer

\* resolveWitnessResponse.
Resolve(s, r) ==
    IF waiter[s] = r.kind
    THEN waiter' = [waiter EXCEPT ![s] = "none"] /\ answer' = [answer EXCEPT ![s] = r]
    ELSE UNCHANGED <<waiter, answer>>

\* The witness-leg branch of handleInboundDocument: retain, then resolve; and the error branch.
HandleReply(r) ==
    \/ /\ r.kind # "refusal"
       /\ retained' = [retained EXCEPT ![r.session] = Append(@, r)]
       /\ Resolve(r.session, r)
       /\ UNCHANGED refused
    \/ /\ r.kind = "refusal"
       /\ refused' = refused \cup {r.session}
       /\ UNCHANGED <<retained, waiter, answer>>

\* The wallet's next message, or the same once more.
Receive ==
    /\ toWallet # <<>>
    /\ toWallet' = Tail(toWallet)
    /\ HandleReply(Head(toWallet))
    /\ UNCHANGED <<stage, timer, mine, transcript, vwc, terminal, witness, toWitness, budget>>

ReceiveTwice ==
    /\ toWallet # <<>> /\ MayGoWrong /\ duplicates < MaxDuplicates /\ duplicates' = duplicates + 1
    /\ toWallet' = Append(Tail(toWallet), Head(toWallet))
    /\ HandleReply(Head(toWallet))
    /\ UNCHANGED <<stage, timer, mine, transcript, vwc, terminal, witness, toWitness, failures, crashes>>

TimerFires(s) ==
    /\ waiter[s] # "none" /\ timer[s] = 0
    /\ waiter' = [waiter EXCEPT ![s] = "none"]
    /\ answer' = [answer EXCEPT ![s] = TimedOut]
    /\ UNCHANGED <<stage, timer, mine, transcript, retained, vwc, terminal, refused, witness, toWitness,
                   toWallet, budget>>

\* The app is killed: what runs is gone, what is stored stays.
WalletKilled ==
    /\ MayGoWrong /\ crashes < MaxCrashes /\ crashes' = crashes + 1
    /\ stage' = [s \in Session |-> IF stage[s] = "idle" THEN "idle" ELSE "killed"]
    /\ waiter' = [s \in Session |-> "none"]
    /\ answer' = [s \in Session |-> None]
    /\ UNCHANGED <<timer, mine, transcript, retained, vwc, terminal, refused, witness, toWitness, toWallet,
                   duplicates, failures>>

-----------------------------------------------------------------------------
(* The witness: WitnessTaskSessions. *)

\* A request is delivered, and perhaps delivered again later.
Take(m) ==
    /\ m \in toWitness
    /\ \/ toWitness' = toWitness \ {m} /\ UNCHANGED duplicates
       \/ MayGoWrong /\ duplicates < MaxDuplicates /\ duplicates' = duplicates + 1 /\ UNCHANGED toWitness

\* randomBytes(16).
Fresh(s) == drawn[s] + 1

\* handleSession: a session of that id is replaced; old ones expire.
HandleSession(m) ==
    /\ m.kind = "session" /\ Take(m)
    /\ LET s == m.session
           c == Fresh(s)
           observing == Policy # "off" /\ s \in Offers IN
       /\ drawn' = [drawn EXCEPT ![s] = @ + 1]
       /\ window' = IF observing THEN [window EXCEPT ![s][c] = ObserveWindow] ELSE window
       /\ sessions' = [x \in Session |->
                          IF x = s THEN [challenge |-> c, observing |-> observing]
                          ELSE IF x \in old THEN NoSession ELSE sessions[x]]
       /\ old' = {}
       /\ outgoing' = outgoing \cup
             {[kind |-> "challenge", session |-> s, challenge |-> c, sensor |-> observing]}
    /\ UNCHANGED <<wallet, seen, submits, begun, issued, toWallet, failures, crashes>>

Refuse(s, attempt) == outgoing' = outgoing \cup {[kind |-> "refusal", session |-> s, attempt |-> attempt]}

\* handleSubmit up to the proof check, which looks the session up.
BeginSubmit(m) ==
    /\ m.kind = "submit" /\ Take(m)
    /\ begun' = [begun EXCEPT ![m.session] = @ + 1]
    /\ IF sessions[m.session] = NoSession
       THEN Refuse(m.session, begun[m.session] + 1) /\ UNCHANGED submits
       ELSE /\ submits' = submits \cup
                  {[session |-> m.session, attempt |-> begun[m.session] + 1, presented |-> m.challenge,
                    at |-> "proof", observing |-> FALSE, observation |-> "absent"]}
            /\ UNCHANGED outgoing
    /\ UNCHANGED <<wallet, sessions, old, drawn, window, seen, issued, toWallet, failures, crashes>>

\* Fault: the presentation is not held against this session's challenge.
BoundToAny(presented, session) == session # NoSession

\* verifyPresentation, against the session's challenge.
Bound(presented, session) == session # NoSession /\ presented = session.challenge

\* The handler looks the session up again and verifies the presentation against it.
VerifySubmit(t) ==
    /\ t \in submits /\ t.at = "proof"
    /\ LET session == sessions[t.session] IN
       IF Bound(t.presented, session)
       THEN /\ submits' = (submits \ {t}) \cup
                  {[t EXCEPT !.at = IF Policy = "off" THEN "signing" ELSE "observation",
                             !.presented = session.challenge,
                             !.observing = session.observing]}
            /\ UNCHANGED outgoing
       ELSE submits' = submits \ {t} /\ Refuse(t.session, t.attempt)
    /\ UNCHANGED <<wallet, sessions, old, drawn, window, seen, begun, issued, toWitness, toWallet, budget>>

\* Fault: a required confirmation that was not obtained is passed over.
RefusesNothing(observation) == FALSE

\* `required` refuses to issue without a confirmed observation.
Refuses(observation) == Policy = "required" /\ observation # "confirmed"

\* The observation, awaited.
ObserveSubmit(t, observation) ==
    /\ t \in submits /\ t.at = "observation"
    /\ \/ ~t.observing /\ observation = "declinedByHolder"
       \/ t.observing /\ <<t.session, t.presented>> \in seen /\ observation = "confirmed"
       \/ /\ t.observing /\ <<t.session, t.presented>> \notin seen
          /\ window[t.session][t.presented] = 0 /\ observation = "windowLost"
    /\ IF Refuses(observation)
       THEN submits' = submits \ {t} /\ Refuse(t.session, t.attempt)
       ELSE /\ submits' = (submits \ {t}) \cup {[t EXCEPT !.at = "signing", !.observation = observation]}
            /\ UNCHANGED outgoing
    /\ UNCHANGED <<wallet, sessions, old, drawn, window, seen, begun, issued, toWitness, toWallet, budget>>

\* The credential is signed; whatever session has this id is closed.
Issue(t) ==
    /\ t \in submits /\ t.at = "signing"
    /\ submits' = submits \ {t}
    /\ sessions' = [sessions EXCEPT ![t.session] = NoSession]
    /\ old' = old \ {t.session}
    /\ LET r == [kind |-> "vwc", session |-> t.session, challenge |-> t.presented,
                 attempt |-> t.attempt, observation |-> t.observation] IN
       issued' = issued \cup {r} /\ outgoing' = outgoing \cup {r}
    /\ UNCHANGED <<wallet, drawn, window, seen, begun, toWitness, toWallet, budget>>

\* handleDocument: the reply is signed, then sent.
ReplySent(r) ==
    /\ r \in outgoing
    /\ outgoing' = outgoing \ {r}
    /\ toWallet' = Append(toWallet, r)
    /\ UNCHANGED <<wallet, sessions, old, drawn, window, seen, submits, begun, issued, toWitness, budget>>

\* A reply that cannot be sent is logged and gone.
ReplyFails(r) ==
    /\ r \in outgoing
    /\ MayGoWrong /\ failures < MaxFailures /\ failures' = failures + 1
    /\ outgoing' = outgoing \ {r}
    /\ UNCHANGED <<wallet, sessions, old, drawn, window, seen, submits, begun, issued, toWitness, toWallet,
                   duplicates, crashes>>

\* observeSession: the sensor reads the transcript the phone serves for that challenge.
SensorReads(s) ==
    /\ HasRadio /\ stage[s] = "radio" /\ window[s][mine[s]] > 0
    /\ seen' = seen \cup {<<s, mine[s]>>}
    /\ UNCHANGED <<wallet, sessions, old, drawn, window, submits, begun, issued, outgoing, toWitness,
                   toWallet, budget>>

\* Ten minutes pass, for the person or for the network.
GrowOld(s) ==
    /\ sessions[s] # NoSession /\ s \notin old
    /\ old' = old \cup {s}
    /\ UNCHANGED <<wallet, sessions, drawn, window, seen, submits, begun, issued, outgoing, toWitness,
                   toWallet, budget>>

\* Sessions, handlers and observations are memory.
WitnessRestarts ==
    /\ MayGoWrong /\ crashes < MaxCrashes /\ crashes' = crashes + 1
    /\ sessions' = [s \in Session |-> NoSession]
    /\ old' = {}
    /\ window' = [s \in Session |-> [c \in Challenge |-> 0]]
    /\ submits' = {}
    /\ outgoing' = {}
    /\ UNCHANGED <<wallet, drawn, seen, begun, issued, toWitness, toWallet, duplicates, failures>>

Less(n) == IF n > 0 THEN n - 1 ELSE 0

\* A tick of every clock that runs.
Tick ==
    /\ \/ \E s \in Session : waiter[s] # "none" /\ timer[s] > 0
       \/ \E s \in Session, c \in Challenge : window[s][c] > 0
    /\ timer' = [s \in Session |-> Less(timer[s])]
    /\ window' = [s \in Session |-> [c \in Challenge |-> Less(window[s][c])]]
    /\ UNCHANGED <<stage, waiter, answer, mine, transcript, retained, vwc, terminal, refused, sessions, old,
                   drawn, seen, submits, begun, issued, outgoing, toWitness, toWallet, budget>>

-----------------------------------------------------------------------------
\* What the wallet and the witness get on with by themselves.
System ==
    \/ \E s \in Session :
          \/ Sent(s) \/ Challenged(s) \/ (\E produced \in BOOLEAN : RadioEnds(s, produced))
          \/ Present(s) \/ Concluded(s) \/ Assemble(s) \/ TimerFires(s)
    \/ Receive
    \/ \E m \in toWitness : HandleSession(m) \/ BeginSubmit(m)
    \/ \E t \in submits : VerifySubmit(t) \/ Issue(t) \/ \E o \in Observation : ObserveSubmit(t, o)
    \/ \E r \in outgoing : ReplySent(r)

\* What happens to them.
Environment ==
    \/ \E s \in Session : Throws(s) \/ SensorReads(s) \/ GrowOld(s)
    \/ \E r \in outgoing : ReplyFails(r)
    \/ ReceiveTwice
    \/ WalletKilled
    \/ WitnessRestarts

Next == System \/ Environment \/ Tick \/ \E s \in Session : Open(s)

Spec == Init /\ [][Next]_vars

\* Programs that run get on, and clocks run.
FairSpec == Spec /\ WF_vars(System) /\ WF_vars(Tick)

-----------------------------------------------------------------------------
(* What a witness session promises. *)

\* Every variable has the shape the source gives it.
TypeOK ==
    /\ stage \in [Session -> {"idle", "opening", "opened", "radio", "presenting", "submitting",
                              "submitted", "stored", "shared", "failed", "killed"}]
    /\ waiter \in [Session -> {"none", "challenge", "vwc"}]
    /\ timer \in [Session -> 0..Wait]
    /\ answer \in [Session -> ChallengeReply \cup VwcReply \cup {None, TimedOut}]
    /\ mine \in [Session -> Challenge \cup {0}]
    /\ transcript \in [Session -> Challenge \cup {0}]
    /\ retained \in [Session -> Seq(ChallengeReply \cup VwcReply)]
    /\ vwc \in [Session -> VwcReply \cup {None}]
    /\ terminal \in [Session -> ChallengeReply \cup VwcReply \cup {None}]
    /\ refused \subseteq Session
    /\ sessions \in [Session -> TaskSession \cup {NoSession}]
    /\ old \subseteq Session
    /\ drawn \in [Session -> Nat]
    /\ window \in [Session -> [Challenge -> 0..ObserveWindow]]
    /\ seen \subseteq Session \X Challenge
    /\ submits \subseteq Submit
    /\ begun \in [Session -> Nat]
    /\ issued \subseteq VwcReply
    /\ outgoing \subseteq Reply
    /\ toWitness \subseteq Request
    /\ toWallet \in Seq(Reply)
    /\ duplicates \in Nat /\ failures \in Nat /\ crashes \in Nat

\* "`required` refuses to issue without a confirmed observation" (handleSubmit), and a
\* witness that claims one "this device did not earn" is refused (runWitnessSession): under
\* `required` a wallet stores only what the sensor really read from it, for the challenge it
\* presented - whatever was asked twice, overtaken, lost or restarted.
StoredWasHere ==
    \A s \in Session : (Policy = "required" /\ vwc[s] # None) =>
        /\ vwc[s].challenge = mine[s] /\ transcript[s] = mine[s]
        /\ <<s, mine[s]>> \in seen

\* A confirmed observation is stored only with this device's own transcript of that challenge.
ConfirmedIsOwn ==
    \A s \in Session : vwc[s].kind = "vwc" /\ vwc[s].observation = "confirmed" =>
        transcript[s] = vwc[s].challenge /\ <<s, transcript[s]>> \in seen

\* What is stored as verified was issued for the presentation this wallet made, although a
\* second session request replaces the challenge under a handler's feet.
PresentedIsWitnessed ==
    \A s \in Session : vwc[s] # None => vwc[s] \in issued /\ vwc[s].challenge = mine[s]

\* A wait ends by the answer it is for, by its timer, or with the app: a challenge that
\* comes again does not end the wait for the credential (resolveWitnessResponse).
WaitEndsByItsAnswer ==
    [][\A s \in Session :
          (waiter[s] # "none" /\ waiter'[s] = "none") =>
              answer'[s].kind \in {waiter[s], "timedOut"} \/ stage'[s] = "killed"]_vars

\* "Additive, never a precondition" (ceremony.ts): a session that was opened ends, whatever
\* is lost, so the delivery that waits for it goes on.
SessionEnds ==
    \A s \in Session : stage[s] = "opening" ~> stage[s] \in {"shared", "failed", "killed"}

\* "The terminal document is the LATEST reply - the one that closed the exchange"
\* (findOutcomeEvidencePair): an assembled bundle shows the reply that brought the credential,
\* as long as no message is delivered twice (a late second challenge is retained after it).
TerminalClosesExchange ==
    duplicates = 0 => \A s \in Session : terminal[s] # None => terminal[s] = vwc[s]
=============================================================================
