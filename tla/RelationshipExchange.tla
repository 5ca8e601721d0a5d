------------------------- MODULE RelationshipExchange -------------------------
(***************************************************************************)
(* The relationship exchange between the two wallets of one connection     *)
(* (trust-tasks/ceremony.ts with the parts of vrc/vrc-manager.ts and       *)
(* vrc/lateStep.ts it runs through): the announcement of the relationship  *)
(* DID, capability discovery, the propose, the person's consent, the       *)
(* delivery of each side's credential, upgrades of the relationship, holds *)
(* for late steps, and the app being killed and started again.             *)
(*                                                                         *)
(* A wallet keeps durable state (its record, its retained documents, its   *)
(* marks) and volatile state (prompts, holds, running functions).  An      *)
(* asynchronous function of the source is a TASK: it stands at an await,   *)
(* any other task may run in between, and a crash forgets it.  A document  *)
(* is retained first and sent in a later step, as in the source.           *)
(***************************************************************************)
EXTENDS Naturals, Sequences, FiniteSets

CONSTANTS
    Low, High,     \* the wallet with the lower connection DID, and the other one
    Exchange,      \* exchange ids (the uuids of proposes)
    NoExchange,    \* the exchange of a document that is on none
    Late,          \* the steps that may be found late: \subseteq {"connected", "accepted"}
    Upgraders,     \* bound: the wallets whose person asks for upgrades
    Withdrawers,   \* bound: the wallets whose person withdraws upgrades
    Stoppers,      \* bound: the wallets whose person stops the exchange
    Killed,        \* bound: the wallets whose app is killed
    MaxCrashes,    \* bound: how often an app is killed
    MaxDuplicates, \* bound: how often the mediator delivers a message once more
    MaxFailures    \* bound: how often a send or a delivery fails

ASSUME WalletsDiffer == Low # High
ASSUME NoExchangeIsNone == NoExchange \notin Exchange
ASSUME BoundsAreNat == MaxCrashes \in Nat /\ MaxDuplicates \in Nat /\ MaxFailures \in Nat

VARIABLES
    connected,  \* the connection completed here                      (durable)
    record,     \* the RelationshipDidRecord: none, own DID, both DIDs (durable)
    docs,       \* retained Trust Task documents                      (durable)
    cards,      \* issue documents ever made, per exchange            (history)
    stored,     \* the exchanges whose credential is in the wallet    (durable)
    marks,      \* proposes marked as asked, oldest first             (durable)
    withdrawn,  \* upgrades cancelled by the person                   (durable)
    kept,       \* the step the kept hold remembers, at most one      (durable)
    up,         \* the app is running
    prompt,     \* pendingProposals: the propose on screen            (volatile)
    tasks,      \* running asynchronous functions                     (volatile)
    sending,    \* documents whose send is due                        (volatile)
    holding,    \* lateStepStore holds this connection                (volatile)
    deferred,   \* the steps it keeps for the release                 (volatile)
    inbox,      \* each wallet's queue at its mediator
    crashes, duplicates, failures

durable == <<connected, record, docs, cards, stored, marks, withdrawn, kept>>
volatile == <<up, prompt, tasks, sending, holding, deferred>>
budget == <<crashes, duplicates, failures>>
vars == <<durable, volatile, inbox, budget>>

Wallet == {Low, High}
Other(w) == IF w = Low THEN High ELSE Low

Errors == {"declined", "mismatch", "refused"}
Basic == {"announce", "stop"}
OnExchange == {"propose", "accept", "issue", "receipt"} \cup Errors
Doc == [kind : OnExchange, ex : Exchange, from : Wallet]
       \cup [kind : {"query", "answer"} \cup Basic, ex : {NoExchange}, from : Wallet]
doc(k, e, w) == [kind |-> k, ex |-> e, from |-> w]

Opening == {"announce", "maybeOpen", "open", "propose", "restoreHold", "sweep", "restoreAsk"}
Answering == {"ask", "accept", "decline", "forgetAccepted", "forgetDeclined", "deliver", "sign",
              "reask", "forgetAnswered"}
By == {"inbound", "sweep", "release", "user"}
Task == [op : Opening, by : By, ex : {NoExchange}] \cup [op : Answering, by : By, ex : Exchange]
task(o, b, e) == [op |-> o, by |-> b, ex |-> e]

-----------------------------------------------------------------------------
(* What the handlers read. *)

\* A propose is retained on this connection, by whoever made it.
ProposeRetained(w) == \E d \in docs[w] : d.kind = "propose"

\* peerSupportsTaskType: the peer's discovery answer is retained.  Both wallets
\* run a version whose answer lists the task types asked for.
PeerSupports(w) == doc("answer", NoExchange, Other(w)) \in docs[w]

\* isUpgradeExchange: another exchange on this connection was accepted.
IsUpgrade(w, e) == \E d \in docs[w] : d.kind = "accept" /\ d.ex # e

\* A propose someone answered: a response or a trust-task-error on its exchange.
Answered(w, e) == \E d \in docs[w] : d.ex = e /\ d.kind \in {"accept"} \cup Errors

\* An exchange id no propose has used yet (utils.uuid).
Fresh(e) == \A w \in Wallet : doc("propose", e, w) \notin docs[w]

\* updateCounterpartyRelationshipDid: does nothing while there is no record.
Learn(r) == IF r = "own" THEN "both" ELSE r
\* getOrCreateRelationshipDid.
Create(r) == IF r = "none" THEN "own" ELSE r

\* inFlightVrcDeliveries: the runs of the delivery for one exchange.
Deliveries(w, e) == {t \in tasks[w] : t.ex = e /\ t.op \in {"deliver", "sign"}}

\* deliverVrcViaTrustTaskForExchange: the claim is taken before the first await.
StartDelivery(w, e, by) ==
    IF Deliveries(w, e) = {} THEN {task("deliver", by, e)} ELSE {}

\* Fault: every mark on the connection goes with the answered one.
MarksWithoutAll(m, e) == <<>>

\* forgetAskedProposes: the answered exchange's marks and every older one go; with no
\* mark of its own, the answered propose is taken for the newest asked and all go.
MarksWithout(m, e) ==
    LET own == {i \in 1..Len(m) : m[i] = e}
    IN IF own = {} THEN <<>>
       ELSE LET last == CHOOSE i \in own : \A j \in own : j <= i
            IN SubSeq(m, last + 1, Len(m))

-----------------------------------------------------------------------------
Init ==
    /\ connected = [w \in Wallet |-> FALSE]
    /\ record = [w \in Wallet |-> "none"]
    /\ docs = [w \in Wallet |-> {}]
    /\ cards = [w \in Wallet |-> [e \in Exchange |-> 0]]
    /\ stored = [w \in Wallet |-> {}]
    /\ marks = [w \in Wallet |-> <<>>]
    /\ withdrawn = [w \in Wallet |-> {}]
    /\ kept = [w \in Wallet |-> {}]
    /\ up = [w \in Wallet |-> TRUE]
    /\ prompt = [w \in Wallet |-> NoExchange]
    /\ tasks = [w \in Wallet |-> {}]
    /\ sending = [w \in Wallet |-> {}]
    /\ holding = [w \in Wallet |-> FALSE]
    /\ deferred = [w \in Wallet |-> {}]
    /\ inbox = [w \in Wallet |-> <<>>]
    /\ crashes = 0 /\ duplicates = 0 /\ failures = 0

\* TrustTasksService.retain, and the send that the same function makes next.
Retain(w, D) == docs' = [docs EXCEPT ![w] = @ \cup D]
SendNext(w, D) == sending' = [sending EXCEPT ![w] = @ \cup D]

\* One task makes its step: `t` ends and `new` are started.
Runs(w, t, new) ==
    /\ up[w]
    /\ t \in tasks[w]
    /\ tasks' = [tasks EXCEPT ![w] = (@ \ {t}) \cup new]

\* A handler goes on with `new`, or the step came late: lateStepStore.hold, keepHold (the
\* kept hold is one metadata entry, overwritten) and defer.
Proceed(w, new) ==
    /\ tasks' = [tasks EXCEPT ![w] = @ \cup new]
    /\ UNCHANGED <<holding, deferred, kept>>
Hold(w, step) ==
    /\ holding' = [holding EXCEPT ![w] = TRUE]
    /\ deferred' = [deferred EXCEPT ![w] = @ \cup {step}]
    /\ kept' = [kept EXCEPT ![w] = {step}]
    /\ UNCHANGED tasks

-----------------------------------------------------------------------------
(* The connection and the announcement of the relationship DID. *)

\* The connection completed: announce now, or hold the announcement when it came late.
Connect(w) ==
    /\ up[w] /\ ~connected[w]
    /\ connected' = [connected EXCEPT ![w] = TRUE]
    /\ LET step == task("announce", "release", NoExchange) IN
       \/ Proceed(w, {step})
       \/ "connected" \in Late /\ Hold(w, step)
    /\ UNCHANGED <<record, docs, cards, stored, marks, withdrawn, up, prompt, sending, inbox, budget>>

\* announceRelationshipDid.
Announce(w, t) ==
    /\ t.op = "announce"
    /\ Runs(w, t, {})
    /\ record' = [record EXCEPT ![w] = Create(@)]
    /\ SendNext(w, {doc("announce", NoExchange, w)})
    /\ UNCHANGED <<connected, docs, cards, stored, marks, withdrawn, kept,
                   up, prompt, holding, deferred, inbox, budget>>

\* The peer's announcement: open (or defer the opening), and file the peer's DID.
RecvAnnounce(w) ==
    /\ LET step == task("maybeOpen", "inbound", NoExchange) IN
       IF holding[w]
       THEN /\ deferred' = [deferred EXCEPT ![w] = @ \cup {step}]
            /\ UNCHANGED tasks
       ELSE /\ tasks' = [tasks EXCEPT ![w] = @ \cup {step}]
            /\ UNCHANGED deferred
    /\ record' = [record EXCEPT ![w] = Learn(@)]
    /\ UNCHANGED <<connected, docs, cards, stored, marks, withdrawn, kept, prompt, sending, holding>>

-----------------------------------------------------------------------------
(* Discovery and the propose. *)

\* sendDiscoveryQuery: once per side, and nothing once our own query is retained.
Query(w) == {doc("query", NoExchange, w)} \ docs[w]

\* maybeOpenRelationshipExchange: only the proposer, only while no propose is retained;
\* resume from a retained answer, or ask the peer what it supports.
MaybeOpen(w, t) ==
    /\ t.op = "maybeOpen"
    /\ LET may == w = Low /\ ~ProposeRetained(w)
           ask == IF may /\ ~PeerSupports(w) THEN Query(w) ELSE {}
           open == IF may /\ PeerSupports(w) THEN {task("open", t.by, NoExchange)} ELSE {}
       IN /\ Runs(w, t, open)
          /\ Retain(w, ask)
          /\ SendNext(w, ask)
    /\ UNCHANGED <<connected, record, cards, stored, marks, withdrawn, kept,
                   up, prompt, holding, deferred, inbox, budget>>

\* handleInboundDiscovery: the query and the answer are retained, the answer is sent.
RecvQuery(w, d) ==
    /\ Retain(w, {d, doc("answer", NoExchange, w)})
    /\ SendNext(w, {doc("answer", NoExchange, w)})
    /\ UNCHANGED <<connected, record, cards, stored, marks, withdrawn, kept,
                   prompt, tasks, holding, deferred>>

\* Fault: what the peer supports is read before the answer at hand is retained.
RecvAnswerReadEarly(w, d) ==
    /\ Retain(w, {d})
    /\ tasks' = [tasks EXCEPT ![w] =
                    @ \cup IF w = Low /\ PeerSupports(w)
                           THEN {task("open", "inbound", NoExchange)} ELSE {}]
    /\ UNCHANGED <<connected, record, cards, stored, marks, withdrawn, kept,
                   prompt, sending, holding, deferred>>

\* handleInboundDiscoveryResponse: the proposer opens the exchange.
RecvAnswer(w, d) ==
    /\ Retain(w, {d})
    /\ tasks' = [tasks EXCEPT ![w] =
                    @ \cup IF w = Low THEN {task("open", "inbound", NoExchange)} ELSE {}]
    /\ UNCHANGED <<connected, record, cards, stored, marks, withdrawn, kept,
                   prompt, sending, holding, deferred>>

\* openRelationshipExchange up to its first await after the check.
OpenCheck(w, t) ==
    /\ t.op = "open"
    /\ Runs(w, t, IF ProposeRetained(w) THEN {} ELSE {task("propose", t.by, NoExchange)})
    /\ UNCHANGED <<durable, up, prompt, sending, holding, deferred, inbox, budget>>

\* openRelationshipExchange from there: the relationship DID, then the propose.
Propose(w, t, e) ==
    /\ t.op = "propose"
    /\ Fresh(e)
    /\ Runs(w, t, {})
    /\ record' = [record EXCEPT ![w] = Create(@)]
    /\ Retain(w, {doc("propose", e, w)})
    /\ SendNext(w, {doc("propose", e, w)})
    /\ UNCHANGED <<connected, cards, stored, marks, withdrawn, kept,
                   up, prompt, holding, deferred, inbox, budget>>

\* Fault: the upgrade's credential is delivered along with its propose.
UpgradeDelivers(w, e) ==
    /\ up[w] /\ w \in Upgraders
    /\ record[w] = "both"
    /\ IsUpgrade(w, NoExchange)
    /\ Fresh(e)
    /\ Retain(w, {doc("propose", e, w)})
    /\ SendNext(w, {doc("propose", e, w)})
    /\ tasks' = [tasks EXCEPT ![w] = @ \cup {task("deliver", "user", e)}]
    /\ UNCHANGED <<connected, record, cards, stored, marks, withdrawn, kept,
                   up, prompt, holding, deferred, inbox, budget>>

\* upgradeRelationship, on the person's request.
Upgrade(w, e) ==
    /\ up[w] /\ w \in Upgraders
    /\ record[w] = "both"
    /\ IsUpgrade(w, NoExchange)
    /\ PeerSupports(w)
    /\ Fresh(e)
    /\ Retain(w, {doc("propose", e, w)})
    /\ SendNext(w, {doc("propose", e, w)})
    /\ UNCHANGED <<connected, record, cards, stored, marks, withdrawn, kept,
                   up, prompt, tasks, holding, deferred, inbox, budget>>

\* cancelRelationshipUpgrade: the screen offers it from what pendingUpgradeOf said
\* earlier, so an answer may have come in since.
Withdraw(w, e) ==
    /\ up[w] /\ w \in Withdrawers
    /\ doc("propose", e, w) \in docs[w]
    /\ IsUpgrade(w, e)
    /\ e \notin withdrawn[w]
    /\ withdrawn' = [withdrawn EXCEPT ![w] = @ \cup {e}]
    /\ UNCHANGED <<connected, record, docs, cards, stored, marks, kept, volatile, inbox, budget>>

-----------------------------------------------------------------------------
(* Consent. *)

\* handleInboundPropose: an upgrade must name the relationship on file, or it is refused.
RecvPropose(w, d) ==
    LET e == d.ex
        refusal == IF IsUpgrade(w, e) /\ record[w] # "both"
                   THEN {doc("mismatch", e, w)} ELSE {}
    IN /\ Retain(w, {d} \cup refusal)
       /\ SendNext(w, refusal)
       /\ tasks' = [tasks EXCEPT ![w] =
                       @ \cup IF refusal = {} THEN {task("ask", "inbound", e)} ELSE {}]
       /\ UNCHANGED <<connected, record, cards, stored, marks, withdrawn, kept,
                      prompt, holding, deferred>>

\* The rest of handleInboundPropose: mark as asked, and put the prompt up; a newer
\* propose replaces an older one on screen.
Ask(w, t) ==
    /\ t.op = "ask"
    /\ Runs(w, t, {})
    /\ marks' = [marks EXCEPT ![w] = Append(@, t.ex)]
    /\ prompt' = [prompt EXCEPT ![w] = t.ex]
    /\ UNCHANGED <<connected, record, docs, cards, stored, withdrawn, kept,
                   up, sending, holding, deferred, inbox, budget>>

\* Timing assumption: nobody answers a prompt before the start-up sweep is through (it
\* reads a few records; the person reads a question).
StartedUp(w) ==
    \A t \in tasks[w] : t.op \notin {"restoreHold", "sweep", "restoreAsk", "reask", "forgetAnswered"}

\* respondToRelationshipProposal up to its first await: the prompt is gone at once.
Respond(w, answer) ==
    /\ up[w] /\ StartedUp(w)
    /\ prompt[w] # NoExchange
    /\ prompt' = [prompt EXCEPT ![w] = NoExchange]
    /\ tasks' = [tasks EXCEPT ![w] = @ \cup {task(answer, "user", prompt[w])}]
    /\ UNCHANGED <<durable, up, sending, holding, deferred, inbox, budget>>

\* Fault: our own relationship DID is made, the counterparty's is never filed.
AcceptWithoutLearning(w, t) ==
    /\ t.op = "accept"
    /\ Runs(w, t, {task("forgetAccepted", "user", t.ex)})
    /\ record' = [record EXCEPT ![w] = IF @ = "both" THEN "own" ELSE Create(@)]
    /\ Retain(w, {doc("accept", t.ex, w)})
    /\ UNCHANGED <<connected, cards, stored, marks, withdrawn, kept,
                   up, prompt, sending, holding, deferred, inbox, budget>>

\* acceptRelationshipProposal: the counterparty's DID is filed (into a record that is
\* there already), then ours is made, then the response is retained.
Accept(w, t) ==
    /\ t.op = "accept"
    /\ Runs(w, t, {task("forgetAccepted", "user", t.ex)})
    /\ record' = [record EXCEPT ![w] = IF IsUpgrade(w, t.ex) THEN Create(@) ELSE Create(Learn(@))]
    /\ Retain(w, {doc("accept", t.ex, w)})
    /\ UNCHANGED <<connected, cards, stored, marks, withdrawn, kept,
                   up, prompt, sending, holding, deferred, inbox, budget>>

\* A decline retains its trust-task-error.
Decline(w, t) ==
    /\ t.op = "decline"
    /\ Runs(w, t, {task("forgetDeclined", "user", t.ex)})
    /\ Retain(w, {doc("declined", t.ex, w)})
    /\ UNCHANGED <<connected, record, cards, stored, marks, withdrawn, kept,
                   up, prompt, sending, holding, deferred, inbox, budget>>

\* The answer is retained: its marks are forgotten, and it is sent.
Forget(w, t) ==
    /\ t.op \in {"forgetAccepted", "forgetDeclined"}
    /\ Runs(w, t, {})
    /\ marks' = [marks EXCEPT ![w] = MarksWithout(@, t.ex)]
    /\ SendNext(w, {doc(IF t.op = "forgetAccepted" THEN "accept" ELSE "declined", t.ex, w)})
    /\ UNCHANGED <<connected, record, docs, cards, stored, withdrawn, kept,
                   up, prompt, holding, deferred, inbox, budget>>

-----------------------------------------------------------------------------
(* The acceptance consumed, and the delivery of the credential. *)

\* Fault: an acceptance is acted on although the person withdrew the upgrade.
NotActedOnUnlessMismatch(w, e) == IsUpgrade(w, e) /\ record[w] # "both"

\* An upgrade's acceptance is not acted on when it names another relationship or the
\* person withdrew the upgrade.
NotActedOn(w, e) == IsUpgrade(w, e) /\ (record[w] # "both" \/ e \in withdrawn[w])

\* handleInboundProposeResponse: deliver, or hold the delivery of a late acceptance.
RecvAccept(w, d) ==
    LET e == d.ex
        step == task("deliver", "release", e)
    IN /\ Retain(w, {d})
       /\ record' = [record EXCEPT ![w] = IF IsUpgrade(w, e) THEN @ ELSE Learn(@)]
       /\ \/ Proceed(w, IF NotActedOn(w, e) THEN {} ELSE StartDelivery(w, e, "inbound"))
          \/ "accepted" \in Late /\ ~NotActedOn(w, e) /\ Hold(w, step)
       /\ UNCHANGED <<connected, cards, stored, marks, withdrawn, prompt, sending>>

\* Fault: the retained issue document is not looked for.
AlreadyIssuedNever(w, e) == FALSE

\* Fault: the peer's issue document is taken for this side's.
AlreadyIssuedByAnyone(w, e) == \E d \in docs[w] : d.kind = "issue" /\ d.ex = e

\* priorForExchange: this side's issue document on the exchange is retained.
AlreadyIssued(w, e) == doc("issue", e, w) \in docs[w]

\* deliverVrcViaTrustTaskForExchangeInner up to the signing: nothing to do when issued
\* already; skipped when a relationship DID is missing.
DeliverCheck(w, t) ==
    /\ t.op = "deliver"
    /\ Runs(w, t, IF AlreadyIssued(w, t.ex) \/ record[w] # "both" THEN {}
                  ELSE {task("sign", t.by, t.ex)})
    /\ UNCHANGED <<durable, up, prompt, sending, holding, deferred, inbox, budget>>

\* From the signing (and the witness session, which only adds to it) to the issue.
Issue(w, t) ==
    /\ t.op = "sign"
    /\ Runs(w, t, {})
    /\ Retain(w, {doc("issue", t.ex, w)})
    /\ cards' = [cards EXCEPT ![w][t.ex] = @ + 1]
    /\ SendNext(w, {doc("issue", t.ex, w)})
    /\ UNCHANGED <<connected, record, stored, marks, withdrawn, kept,
                   up, prompt, holding, deferred, inbox, budget>>

\* The signing fails (the person cancels the biometric prompt, say): logged, and over.
DeliveryFails(w, t) ==
    /\ failures < MaxFailures
    /\ failures' = failures + 1
    /\ t.op = "sign"
    /\ Runs(w, t, {})
    /\ UNCHANGED <<durable, up, prompt, sending, holding, deferred, inbox, crashes, duplicates>>

\* handleInboundIssue: stored and receipted when both DIDs are on file, refused otherwise;
\* the refusal is sent without being retained.
RecvIssue(w, d) ==
    LET bound == record[w] = "both"
        reply == doc(IF bound THEN "receipt" ELSE "refused", d.ex, w)
    IN /\ Retain(w, IF bound THEN {d, reply} ELSE {d})
       /\ SendNext(w, {reply})
       /\ stored' = [stored EXCEPT ![w] = IF bound THEN @ \cup {d.ex} ELSE @]
       /\ UNCHANGED <<connected, record, cards, marks, withdrawn, kept,
                      prompt, tasks, holding, deferred>>

\* A receipt, or a trust-task-error: retained, and shown as the end of the flow.
RecvOther(w, d) ==
    /\ Retain(w, {d})
    /\ UNCHANGED <<connected, record, cards, stored, marks, withdrawn, kept,
                   prompt, tasks, sending, holding, deferred>>

-----------------------------------------------------------------------------
(* Sending and receiving. *)

\* What runs once a send returned: after an acceptance, this side's own discovery query
\* and its delivery.
AfterSend(w, d) ==
    IF d.kind = "accept"
    THEN /\ tasks' = [tasks EXCEPT ![w] = @ \cup StartDelivery(w, d.ex, "user")]
         /\ Retain(w, Query(w))
         /\ sending' = [sending EXCEPT ![w] = (@ \ {d}) \cup Query(w)]
    ELSE /\ sending' = [sending EXCEPT ![w] = @ \ {d}]
         /\ UNCHANGED <<tasks, docs>>

Send(w, d) ==
    /\ up[w] /\ d \in sending[w]
    /\ inbox' = [inbox EXCEPT ![Other(w)] = Append(@, d)]
    /\ AfterSend(w, d)
    /\ UNCHANGED <<connected, record, cards, stored, marks, withdrawn, kept,
                   up, prompt, holding, deferred, budget>>

\* The send throws: nothing after it runs.
SendFails(w, d) ==
    /\ failures < MaxFailures
    /\ failures' = failures + 1
    /\ up[w] /\ d \in sending[w]
    /\ sending' = [sending EXCEPT ![w] = @ \ {d}]
    /\ UNCHANGED <<durable, up, prompt, tasks, holding, deferred, inbox, crashes, duplicates>>

\* The other phone stopped the exchange: the hold and what it kept go.
RecvStop(w) ==
    /\ holding' = [holding EXCEPT ![w] = FALSE]
    /\ deferred' = [deferred EXCEPT ![w] = {}]
    /\ kept' = [kept EXCEPT ![w] = {}]
    /\ UNCHANGED <<connected, record, docs, cards, stored, marks, withdrawn, prompt, tasks, sending>>

\* setupTrustTasksInbound and the basic-message handler: one message, its handler.
Handle(w, d) ==
    \/ d.kind = "announce" /\ RecvAnnounce(w)
    \/ d.kind = "stop" /\ RecvStop(w)
    \/ d.kind = "query" /\ RecvQuery(w, d)
    \/ d.kind = "answer" /\ RecvAnswer(w, d)
    \/ d.kind = "propose" /\ RecvPropose(w, d)
    \/ d.kind = "accept" /\ RecvAccept(w, d)
    \/ d.kind = "issue" /\ RecvIssue(w, d)
    \/ d.kind \in {"receipt"} \cup Errors /\ RecvOther(w, d)

\* Mediators queue in order, and a wallet handles one message at a time.
Receive(w) ==
    /\ up[w] /\ connected[w]
    /\ inbox[w] # <<>>
    /\ inbox' = [inbox EXCEPT ![w] = Tail(@)]
    /\ Handle(w, Head(inbox[w]))
    /\ UNCHANGED <<up, budget>>

\* The mediator never learned of the pickup: it delivers the message once more, next
\* or behind what is queued already.
ReceiveTwice(w) ==
    /\ duplicates < MaxDuplicates
    /\ duplicates' = duplicates + 1
    /\ up[w] /\ connected[w]
    /\ inbox[w] # <<>>
    /\ \E q \in {inbox[w], Append(Tail(inbox[w]), Head(inbox[w]))} :
           inbox' = [inbox EXCEPT ![w] = q]
    /\ Handle(w, Head(inbox[w]))
    /\ UNCHANGED <<up, crashes, failures>>

-----------------------------------------------------------------------------
(* Holds, and the app being killed and started again. *)

\* Fault: the kept hold is not marked released.
ReleaseUnmarked(w) ==
    /\ up[w] /\ holding[w]
    /\ holding' = [holding EXCEPT ![w] = FALSE]
    /\ deferred' = [deferred EXCEPT ![w] = {}]
    /\ tasks' = [tasks EXCEPT ![w] = @ \cup
          {t \in deferred[w] : t.op # "deliver" \/ Deliveries(w, t.ex) = {}}]
    /\ UNCHANGED <<durable, up, prompt, sending, inbox, budget>>

\* releaseHold: both people are here (what makes it so is LateStep); the kept steps run.
Release(w) ==
    /\ up[w] /\ holding[w]
    /\ holding' = [holding EXCEPT ![w] = FALSE]
    /\ deferred' = [deferred EXCEPT ![w] = {}]
    /\ kept' = [kept EXCEPT ![w] = {}]
    /\ tasks' = [tasks EXCEPT ![w] = @ \cup
          {t \in deferred[w] : t.op # "deliver" \/ Deliveries(w, t.ex) = {}}]
    /\ UNCHANGED <<connected, record, docs, cards, stored, marks, withdrawn,
                   up, prompt, sending, inbox, budget>>

\* stopExchange.  The screen offers it while the flow waits on the other phone; the flow's
\* status is not modelled, so it is offered all along (bound: one stop under way at a time).
Stop(w) ==
    /\ up[w] /\ connected[w] /\ w \in Stoppers
    /\ \A i \in 1..Len(inbox[Other(w)]) : inbox[Other(w)][i].kind # "stop"
    /\ doc("stop", NoExchange, w) \notin sending[w]
    /\ holding' = [holding EXCEPT ![w] = FALSE]
    /\ deferred' = [deferred EXCEPT ![w] = {}]
    /\ kept' = [kept EXCEPT ![w] = {}]
    /\ SendNext(w, {doc("stop", NoExchange, w)})
    /\ UNCHANGED <<connected, record, docs, cards, stored, marks, withdrawn,
                   up, prompt, tasks, inbox, budget>>

\* The app is killed: everything in memory is gone.
Crash(w) ==
    /\ up[w] /\ w \in Killed /\ crashes < MaxCrashes
    /\ crashes' = crashes + 1
    /\ up' = [up EXCEPT ![w] = FALSE]
    /\ prompt' = [prompt EXCEPT ![w] = NoExchange]
    /\ tasks' = [tasks EXCEPT ![w] = {}]
    /\ sending' = [sending EXCEPT ![w] = {}]
    /\ holding' = [holding EXCEPT ![w] = FALSE]
    /\ deferred' = [deferred EXCEPT ![w] = {}]
    /\ UNCHANGED <<durable, inbox, duplicates, failures>>

\* setupVrcConnectionHandler: the holds are restored and the sweep runs, side by side.
Restart(w) ==
    /\ ~up[w]
    /\ up' = [up EXCEPT ![w] = TRUE]
    /\ tasks' = [tasks EXCEPT ![w] = {task("restoreHold", "sweep", NoExchange),
                                      task("sweep", "sweep", NoExchange)}]
    /\ UNCHANGED <<durable, prompt, sending, holding, deferred, inbox, budget>>

\* restoreLateHolds: only the step the kept hold names is deferred again.
RestoreHold(w, t) ==
    /\ t.op = "restoreHold"
    /\ Runs(w, t, {})
    /\ holding' = [holding EXCEPT ![w] = @ \/ kept[w] # {}]
    /\ deferred' = [deferred EXCEPT ![w] = @ \cup kept[w]]
    /\ UNCHANGED <<durable, up, prompt, sending, inbox, budget>>

\* resumeInterruptedExchanges: only a connection whose record has the peer's version,
\* which is filed together with the peer's DID; then the pending proposes.
Sweep(w, t) ==
    /\ t.op = "sweep"
    /\ Runs(w, t, {task("restoreAsk", "user", NoExchange)} \cup
                  IF record[w] = "both" THEN {task("maybeOpen", "sweep", NoExchange)} ELSE {})
    /\ UNCHANGED <<durable, up, prompt, sending, holding, deferred, inbox, budget>>

\* Fault: the oldest marked propose is taken.
OldestMark(w) == Head(marks[w])

\* The newest marked propose of the connection.
NewestMark(w) == marks[w][Len(marks[w])]

\* restorePendingProposals up to its last awaits: nothing to do while a propose is on
\* screen; else the newest marked one is asked again, or its marks go if it was answered.
RestoreAsk(w, t) ==
    /\ t.op = "restoreAsk"
    /\ ~\E s \in tasks[w] : s.by = "sweep" /\ s.op \in {"maybeOpen", "open", "propose"}
    /\ LET next == IF Answered(w, NewestMark(w)) THEN "forgetAnswered" ELSE "reask" IN
       Runs(w, t, IF marks[w] = <<>> \/ prompt[w] # NoExchange THEN {}
                  ELSE {task(next, "user", NewestMark(w))})
    /\ UNCHANGED <<durable, up, prompt, sending, holding, deferred, inbox, budget>>

\* Its askForConsent, with no second look: a propose asked meanwhile is taken off the screen.
Reask(w, t) ==
    /\ t.op = "reask"
    /\ Runs(w, t, {})
    /\ prompt' = [prompt EXCEPT ![w] = t.ex]
    /\ UNCHANGED <<durable, up, sending, holding, deferred, inbox, budget>>

\* Its forgetAskedProposes.
ForgetAnswered(w, t) ==
    /\ t.op = "forgetAnswered"
    /\ Runs(w, t, {})
    /\ marks' = [marks EXCEPT ![w] = MarksWithout(@, t.ex)]
    /\ UNCHANGED <<connected, record, docs, cards, stored, withdrawn, kept,
                   up, prompt, sending, holding, deferred, inbox, budget>>

-----------------------------------------------------------------------------
\* One task of a wallet runs on.
Run(w, t) ==
    \/ Announce(w, t)
    \/ MaybeOpen(w, t)
    \/ OpenCheck(w, t)
    \/ \E e \in Exchange : Propose(w, t, e)
    \/ Ask(w, t)
    \/ Accept(w, t)
    \/ Decline(w, t)
    \/ Forget(w, t)
    \/ DeliverCheck(w, t)
    \/ Issue(w, t)
    \/ RestoreHold(w, t)
    \/ Sweep(w, t)
    \/ RestoreAsk(w, t)
    \/ Reask(w, t)
    \/ ForgetAnswered(w, t)

\* What a wallet does by itself.
System(w) ==
    \/ Connect(w)
    \/ Restart(w)
    \/ \E t \in tasks[w] : Run(w, t)
    \/ \E d \in sending[w] : Send(w, d)
    \/ Receive(w)

\* What its person, its operating system and its network do to it.
Environment(w) ==
    \/ \E a \in {"accept", "decline"} : Respond(w, a)
    \/ \E e \in Exchange : Upgrade(w, e) \/ Withdraw(w, e)
    \/ Release(w)
    \/ Stop(w)
    \/ Crash(w)
    \/ \E t \in tasks[w] : DeliveryFails(w, t)
    \/ \E d \in sending[w] : SendFails(w, d)
    \/ ReceiveTwice(w)

Next == \E w \in Wallet : System(w) \/ Environment(w)

Spec == Init /\ [][Next]_vars

\* An app that runs gets on with what it has begun, and one that was killed is opened
\* again.  Nothing is assumed of the people.
FairSpec == Spec /\ \A w \in Wallet : WF_vars(System(w))

-----------------------------------------------------------------------------
(* What the exchange promises. *)

\* Every variable has the shape the source gives it.
TypeOK ==
    /\ connected \in [Wallet -> BOOLEAN]
    /\ record \in [Wallet -> {"none", "own", "both"}]
    /\ docs \in [Wallet -> SUBSET Doc]
    /\ cards \in [Wallet -> [Exchange -> Nat]]
    /\ stored \in [Wallet -> SUBSET Exchange]
    /\ marks \in [Wallet -> Seq(Exchange)]
    /\ withdrawn \in [Wallet -> SUBSET Exchange]
    /\ kept \in [Wallet -> SUBSET Task]
    /\ up \in [Wallet -> BOOLEAN]
    /\ prompt \in [Wallet -> Exchange \cup {NoExchange}]
    /\ tasks \in [Wallet -> SUBSET Task]
    /\ sending \in [Wallet -> SUBSET Doc]
    /\ holding \in [Wallet -> BOOLEAN]
    /\ deferred \in [Wallet -> SUBSET Task]
    /\ inbox \in [Wallet -> Seq(Doc)]
    /\ crashes \in Nat /\ duplicates \in Nat /\ failures \in Nat

\* "Idempotent per direction" (deliverVrcViaTrustTaskForExchange): whatever is delivered
\* twice, interrupted or triggered from two sides, a wallet makes at most one credential
\* per exchange.
OneCardPerExchange == \A w \in Wallet, e \in Exchange : cards[w][e] <= 1

\* Accepting the proposal is the consent moment: no credential leaves either wallet on an
\* exchange that the person who was asked did not accept.
ConsentBeforeCard ==
    \A w \in Wallet, e \in Exchange :
        doc("issue", e, w) \in docs[w] =>
            \E r \in Wallet : /\ doc("accept", e, r) \in docs[r]
                              /\ doc("propose", e, Other(r)) \in docs[r]

\* The exchange is the swap two people agreed on (CardSwap): however messages come, steps
\* are held and apps are killed, each wallet makes one credential, on an exchange the asked
\* person accepted, and stores only what the other made.
MadeHere(kind) == [w \in Wallet |-> {e \in Exchange : doc(kind, e, w) \in docs[w]}]
Promise == INSTANCE CardSwap WITH Person <- Wallet,
                                  proposed <- MadeHere("propose"), accepted <- MadeHere("accept")
ImplementsSwap == Promise!Spec

\* Both relationship DIDs are on file wherever a delivery starts, so no delivery on an
\* accepted exchange is skipped for want of one (updateCounterpartyRelationshipDid does
\* nothing without a record, and the acceptance files the DID before it makes a record).
DeliveryNeverSkipped ==
    \A w \in Wallet, e \in Exchange : Deliveries(w, e) # {} => record[w] = "both"

\* "Nothing it would start goes out" while a late acceptance is held (lateStep.ts): neither
\* in this run of the app nor in the next is a delivery held that is under way or done.
\* (As long as no message was delivered twice: an acceptance consumed in time and delivered
\* again late is held.)
HeldSignsNothing ==
    duplicates = 0 =>
        \A w \in Wallet : \A t \in deferred[w] \cup kept[w] :
            t.op = "deliver" => /\ doc("issue", t.ex, w) \notin docs[w]
                               /\ Deliveries(w, t.ex) = {}

\* An answer forgets its own marks and those of the proposes it replaced; "any other (a
\* propose that arrived while the answer was being sent) is kept" (forgetAskedProposes).
\* Only an answer that finds no mark of its own may forget more: it takes itself for the
\* newest, and is not when the answer to a later propose has overtaken it.
LaterProposeKept ==
    [][\A w \in Wallet : \A i \in 1..Len(marks[w]) :
          (Len(marks'[w]) < Len(marks[w]) - i + 1) =>
              \/ \E j \in i..Len(marks[w]) : Answered(w, marks[w][j])
              \/ \E t \in tasks[w] \ tasks'[w] :
                    /\ t.op \in {"forgetAccepted", "forgetDeclined", "forgetAnswered"}
                    /\ \A j \in 1..Len(marks[w]) : marks[w][j] # t.ex]_vars

\* "A later acceptance of it sends no card" (cancelRelationshipUpgrade): once an upgrade is
\* withdrawn and nothing of it is under way or held, no delivery of it starts.
WithdrawnStaysWithdrawn ==
    [][\A w \in Wallet : \A e \in withdrawn[w] :
          (/\ Deliveries(w, e) = {}
           /\ \A t \in deferred[w] \cup kept[w] : t.ex # e)
          => \A t \in tasks'[w] \cup deferred'[w] : ~(t.ex = e /\ t.op \in {"deliver", "sign"})]_vars

\* An accepted exchange ends with each wallet holding the other's credential, unless its
\* proposer withdrew it.
CardsCross ==
    \A e \in Exchange :
        (\E r \in Wallet : doc("accept", e, r) \in docs[r])
            ~> (\A w \in Wallet : e \in stored[w]) \/ (\E w \in Wallet : e \in withdrawn[w])

\* "Resume an exchange interrupted between 'peer's discovery answer processed' and 'propose
\* sent'" (maybeOpenRelationshipExchange): once the proposer has the answer, its propose
\* reaches the other wallet.
AnswerOpensExchange == PeerSupports(Low) ~> ProposeRetained(High)

\* The newest propose asked is marked, has no answer, and is not on screen nor on its way
\* there: no answer is being made to it, and the start-up will not bring it back.
Unasked(w) ==
    /\ up[w] /\ marks[w] # <<>>
    /\ LET newest == marks[w][Len(marks[w])] IN
       /\ prompt[w] # newest
       /\ ~Answered(w, newest)
       /\ \A t \in tasks[w] : /\ t.ex = newest => t.op \notin {"ask", "accept", "decline", "reask"}
                              /\ t.op \notin {"sweep", "restoreAsk"}

\* The person of this wallet answered the propose.
PersonAnswered(w, e) == doc("accept", e, w) \in docs[w] \/ doc("declined", e, w) \in docs[w]

\* "Only the newest propose asked counts, as live", and a phone killed before its user
\* answered asks again (restorePendingProposals): the newest propose asked stays asked,
\* through kills and starts, until it is answered - unless it came while the start-up was
\* at its last awaits, and the older one it had read is put up over it.  What the start-up
\* puts up was never answered.
AskedAgain ==
    [][\A w \in Wallet :
          LET restored == {t \in tasks[w] \ tasks'[w] : t.op = "reask" /\ prompt'[w] = t.ex}
          IN /\ Unasked(w)' => Unasked(w) \/ restored # {}
             /\ \A t \in restored : ~PersonAnswered(w, t.ex)]_vars
=============================================================================
