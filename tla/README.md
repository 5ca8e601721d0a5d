# A formal model of the Keyring wallet's protocols

TLA+ models of protocols that the Keyring wallet (`packages/core`) and its witness server run, the TLC
configurations that check them on small instances, and theorems that TLAPS proves for every instance.
Paths are relative to the repository's root; `modules/` stands for `packages/core/src/modules/`.
`PROJECT.json` maps every definition that models code to the lines it models.

Contents: 1 the system, 2 what is hard in it, 3 the modules and their correspondence to the code, 4 the
runs, 5 bounds, 6 fairness, 7 the proofs, 8 where code and promise part, 9 abstractions, 10 what is not
modelled, 11 the plan.

## 1. The system

Two people meet; their wallets make a connection and give each other a relationship credential and a
profile card. A witness near by may watch and issue a credential of its own about the meeting. Each person
also belongs to communities, under one identity (a persona's DID) for each of them; messages for these come
through mediators, over one shared session and one listener for every other identity.

| component | where | state | operations | talks to | correct when |
|---|---|---|---|---|---|
| Relationship exchange | `modules/trust-tasks/ceremony.ts`, `modules/vrc/vrc-manager.ts`, `modules/vrc/repositories/`, `modules/trust-tasks/services/` | durable: retained Trust Task documents, the relationship DID record, marks of asked proposes, withdrawn upgrades; memory: the prompt, the deliveries in flight | announce, discover, propose, ask, accept, decline, deliver, upgrade, withdraw, resume | the other wallet by DIDComm through mediators; holds; the witness session; the profile card | one credential per exchange and wallet; none without consent or after a withdrawal; nothing asked is lost; an accepted exchange completes |
| Late-step holds | `modules/vrc/lateStep.ts` | memory: holds, steps kept, ready-checks, the question on screen; durable: one kept hold per connection | hold, defer, ask, answer, put aside, release, stop, restore | the exchange's steps; the other phone by basic messages | a step runs only while owed; the asker releases only for a timely answer to its last question; no question disappears unanswered |
| Witness session | `modules/trust-tasks/witnessCeremony.ts`, `BleDeviceLocalityProvider.ts`; `packages/witness-server/src/trustTasks/` | wallet: the response awaited and its timer, retained responses, the stored credential; server: sessions with their challenges | open, challenge, answer the sensor, submit, verify, observe, issue, store, bundle | the delivery of the exchange waits for it; the phone's radio; the witness's sensor | what is stored was issued for this presentation; under `required` the phone was really read; every session ends |
| Profile card (R-Card) | `vrc-manager.ts`, `modules/vrc/services/rCardCredential.ts` | two locks per connection in memory; the active profile; what was shared | announce, issue, offer, record, switch profile | the exchange's acceptance and the peer's announcement trigger it | one card goes out, and it goes out |
| Shared session | `vtiAgent.ts` (`connect`, `holding`, `signIn`, `blockerFor`, `whenFree`) | memory: the session, holds with their ends, the claim, refusals, waiters | sign in, hold, refuse, wait, take a turn | every step, screen and poll of the communities; the listeners | a hold keeps the session for its identity; every sign-in settles; polls get a turn |
| Identity listeners | `vtiIdentityListeners.ts`, `vtiAgent.connectNow` | memory: the running listeners, retry timers, the reconcile, the reserved identity | reconcile, open, start, fail, retry, stop, step aside, pause | mediators; the shared session; key loans | one connection per identity; none in the background; each identity is heard for |
| Mediator transport | `VtiMediatorTransport.ts` | socket, timers, what was handled this session | push, drain, poll, reopen, renew, acknowledge | mediators; the consumers of messages | nothing leaves the mediator before it was taken; everything readable is taken |
| Requests to communities | `vtiAgent.ts` (`ask`, `sendAsk`, `waitFor`, `askAnswered`, `settle`, `disconnect`) | memory: an entry per request, its waiters, a late answer kept | ask, join, send, time out, send again, hold, match, settle, move | communities; the transport; the shared session | a call gets its own answer; a write is out once; an answer acknowledged was heard |
| Ceremony status | `modules/vrc/witnessStatusStore.ts` | memory: the flow the screens show | start, progress, end | the screens | - |
| Contacts, continuity | `modules/vrc/contacts/` | contact records | merge, re-establish | the exchange's records | - |
| Agent link | `modules/trust-tasks/module/vta*.ts` | a reducer's state, a stored link | link, claim, recover | a hosted agent | - |
| Communities, vetting, rooms, polls, shared connect | `modules/trust-tasks/module/vti*.ts`, `modules/rooms/`, `modules/polls/` | client-side stores | request, retry | services outside the repository | - |
| Chat | `modules/chat/` | folded events | send, fold, expire | basic messages | - |
| OpenID refresh | `modules/openid/refresh/`, its hooks and screens, `services/AgentBridge.ts` | durable: the records with their refresh tokens, the registry; memory: the run under way, the replacements fetched | check, mark, refresh the token, re-issue, offer, accept, decline, remove | issuers; the agent, which a lock takes away | a person keeps a credential; a token is presented once; one replacement each; runs end |
| Ephemeral keys | `EphemeralKeyManagementService.ts` | keys for one unlock | import, forget | the wallet's key store | - |
| Servers | `packages/witness-server`, `packages/mediator-server` | sessions (above); queues | see above | wallets | the queue is modelled from the wallet's side |
| Screens, PIN, hardware signing, OCA, TSP envelope, logs | elsewhere | - | - | - | see 10 |

How they interact. A message handler of the exchange (`setupTrustTasksInbound`, the basic-message handler)
retains what came in and starts an asynchronous function. A step found long after it was sent is handed to
the late-step store instead, which runs it at a release. A delivery runs a witness session before it signs;
the session's answers come in through the exchange's own message handler, which resolves the promise the
delivery awaits. An acceptance, or the peer's announcement, triggers the profile card.

Towards communities, a caller takes the shared session for an identity (SharedSession); `connectNow` tells
the listener of that identity to step aside and opens the socket (IdentityListeners); each session object
collects its messages by pushes and drains (MediatorPickup); an answer among them is matched with the request
it belongs to (CommunityAsks), whichever session object heard it.

The refresh of OpenID credentials (CredentialRefresh) stands apart: one run goes over the stored credentials
while the person accepts, declines or removes, and both use the agent that a lock shuts down.

## 2. What is hard

- *Interleaving at awaits.* The wallet is one thread, but any two functions interleave at each `await`:
  what was checked before it may be stale after it (the idempotence check of the propose; `clearPeerCheck`;
  the witness's session lookup; `sharedTarget` read before the stops of a reconcile; `seen` looked up before
  the consumer; the caller that looks for a blocker when several wake at once).
- *Kills.* The operating system kills the app anywhere. Documents and marks survive; prompts, locks, claims,
  holds and functions do not. `resumeInterruptedExchanges`, `restorePendingProposals` and `restoreLateHolds`
  run side by side at the restart, while the mediator's queue is delivered. The registry of the OpenID
  refresh is persisted with its in-flight marks, the credentials it offers are not.
- *Locks.* A lock shuts the agent down under whatever runs: each later call fails, and a failed lookup can read
  as an absent record.
- *Delivery.* Mediators queue in order, push, drop pushes, and redeliver what was not acknowledged. A socket
  may read open and carry nothing. The witness handles its messages concurrently.
- *People.* A prompt is answered late or never, an upgrade is withdrawn while its acceptance travels, a
  question is answered after its window, the app goes to the background at any await.
- *Timers* race answers: the wallet's 60 s wait and the witness's 120 s window, the ready window of a hold,
  deadlines on opens and stops that do not stop what they bound, the answer clock of a request whose late
  answer is still worth keeping, the ends of holds and claims.

`PROJECT.json` lists the hazards one by one, each at its line, with the properties that would catch it.

## 3. The modules

An asynchronous function is split at the awaits after which it reads something another function may have
changed. What stands between two awaits is one action. A kill of the app forgets what is volatile.

**RelationshipExchange** (both wallets, the mediators' queues). `docs` is the Trust Task document store,
`record` the relationship DID record (none, own DID, both DIDs), `marks` the asked proposes in order,
`kept` the kept hold; `tasks` the functions standing at an await; `sending` the documents retained whose
send is due; `prompt`, `holding`, `deferred` the volatile stores; `cards` counts the credentials ever made.

| actions | code |
|---|---|
| `Connect`, `Announce`, `RecvAnnounce` | connection-completed branch, `announceRelationshipDid`, basic-message handler |
| `MaybeOpen`, `RecvQuery`, `RecvAnswer`, `OpenCheck`, `Propose` | `maybeOpenRelationshipExchange`, the discovery handlers, `openRelationshipExchange` before and after its first await |
| `Upgrade`, `Withdraw` | `upgradeRelationship`, `cancelRelationshipUpgrade` |
| `RecvPropose`, `Ask`, `Respond`, `Accept`, `Decline`, `Forget` | `handleInboundPropose`, `askForConsent`, `respondToRelationshipProposal`, `acceptRelationshipProposal`, `forgetAskedProposes` |
| `RecvAccept`, `StartDelivery`, `DeliverCheck`, `Issue`, `DeliveryFails`, `RecvIssue`, `RecvOther` | `handleInboundProposeResponse`, `deliverVrcViaTrustTaskForExchange` and its inner function, `handleInboundIssue`, receipts and errors |
| `Send`, `AfterSend`, `SendFails`, `Receive`, `ReceiveTwice` | `sendTrustTaskDocument` and what follows it, `setupTrustTasksInbound` |
| `Release`, `Stop`, `RecvStop`, `Crash`, `Restart`, `RestoreHold`, `Sweep`, `RestoreAsk`, `Reask`, `ForgetAnswered` | `releaseHold`, `stopExchange`, the start-up functions; the last three are `restorePendingProposals`, split at its last await |

**CardSwap** is the abstract specification RelationshipExchange implements: one person proposes, the other
accepts, each makes one credential, and stores the one the other made. The refinement (`ImplementsSwap`) maps
`proposed` and `accepted` to the documents each wallet retained of its own (`MadeHere`), `cards` and `stored` to
themselves. Announcements, discovery, questions, holds, sends, kills and restarts change nothing there.

**LateStep** (two phones, one connection) is the late-step store in detail, where RelationshipExchange only
has `holding`, `deferred` and `kept`: the ready-checks with their ids and times, the sheet and its answer, the
release loop step by step, the kept hold's updates after their awaits. History variables say which steps are
owed (`owed`), which ran (`ran`), and which questions were answered ready (`saidReady`).

**WitnessSession** (one wallet's sessions, one witness). `stage` is where `runWitnessSession` stands, `waiter`
and `timer` its entry in `pendingWitnessResponses`, `answer` what settled the promise; `sessions` is the
server's map, `submits` its handlers, each at its await; `seen` the transcripts the sensor read.

**SharedSession** (the callers of one phone). A caller is a step, a listing, a `connect`, a poll or a look
(`Kinds`), and stands at one of its awaits (`at`). `left` is the time each hold has left, `alarm` the timer of
each `holdsMoved()`, `woken` the callers it resolved for, `claim` and `refusals` the claim and the turns.

| actions | code |
|---|---|
| `Call`, `Refuse`, `Wait`, `Begin`, `SignedIn`, `SignInFails` | `connect`, `holding`, and the loop of `signIn` up to and after `connectNow` |
| `Refused`, `MustWait` (guards) | `blockerFor` |
| `Finish`, `Tick` | the function of a hold settles; holds and the claim run out |
| `WhenFree`, `PollAgain` | `whenFree` as `sessionKept` uses it, a screen's timer |

**IdentityListeners** (the connections of one phone). `sess` holds every session object, the shared one and the
listeners', several per identity side by side, with its function, socket, whether it was stopped (`halted`) and whether that
stop could not wait for a connection under way (`overran`); `running`
is the map of the listeners; `rec`, `again`, `wanted` the reconcile; `phase`, `who`, `target` the shared
session's `connectNow` and the identity it reserves.

| actions | code |
|---|---|
| `Read`, `ReadFails`, `StopEnds`, `StartWanted` | `reconcileOnce`, `stopOne`, `startOne` to its open |
| `Opened`, `OpenFails`, `SocketOpens`, `StartFails`, `RetryDue` | the rest of `startOne`, its deadlines and its retry |
| `SignIn`, `Look`, `Guard`, `Start`, `SignInFails` | `connectNow`, with the sign-in guard the listeners install |
| `Drop`, `Reopen` | `VtiMediatorSession`: a socket closes, is replaced |
| `KeysHeld`, `Background`, `Foreground`, `Tick` | the events that ask for a reconcile |

**MediatorPickup** (one identity's session and its mediator). `queue` is the mediator's, `frame` what is left
of each frame under way (several are handled at once), `seen` what the session remembers; `taken` is history.
`Post`, `AnswerRequest`, `Resync` are the mediator; `Poll`, `CheckAlive`, `Send`, `Renew`, `ReopenEnds`,
`Ends`, `NewSession` the session's timers and owner; `Receive`, `NextMessage`, `ConsumerTakes`,
`ConsumerFails`, `Acknowledge` are `handleFrame`, `handleDelivery` and `handleTspFrame`.

**Mailbox** is the abstract specification MediatorPickup implements: messages arrive, are taken, and leave
only once taken (or when they can never be opened). The refinement maps `waiting` to `queue`.

**CommunityAsks** (one phone's calls). `asks` are the entries, named by the call that made them; `held` those
whose clock ran out, `kept` their late answers; `on` says which entry a call waits on; `replies` are answers
waiting at the mediator. `Ask` (`AskNew`, `AskJoins`, `AskTakes`), `Send`, `SendFails`, `StartWaiting`,
`TimesOut`, `HoldEnds`, `TakeHeld` are `ask`, `sendAsk`, `waitFor`, `dropExpiredHolds` and `takeHeldAnswer`;
`Hear` and `HearListener` are `deliver` and `answerFromListener` (with `askAnswered`, `settle`); `Move` is
`disconnect` and the next sign-in.

**ProfileCard** (one wallet, one connection). Each trigger (a copy of the announcement, an acceptance) stands
at a `stage` of `issueVrcCredential`, `issueRCardForAcceptedExchange` and `issueRCardCredential`; `vrcLock` and
`cardLock` are the locks in memory; `active` and `switching` the profile and its change, a write at a time.

**CredentialRefresh** (one wallet, its person and its issuers). `run` is `runOnce`, at its awaits; `run.seen` is
the tokens it read when it began; `accepts` are the running `acceptNewCredential`s. `reg`
is the registry, `tokens` the refresh tokens on the records, `issued` is `recentlyIssued`. Tokens are numbered:
`honoured` is the one an issuer takes.

| actions | code |
|---|---|
| `Unlock`, `Lock`, `ClearAgent`, `ManualRun`, `Kill` | `AgentBridge`, `useBifoldAgentSetup`, the requested run of `Home` |
| `Listed`, `TakeUp`, `Skip`, `Verdict`, `Marked`, `RunEnds` | `runOnce`, `refreshRecord`, `verifyCredentialStatus`, `markOpenIDCredentialStatus` |
| `Rotated`, `TokenFails`, `TokenSaved`, `Reissued`, `ReissueFails` | `refreshAccessToken`, `reissueCredentialWithAccessToken`, `refreshAndQueueReplacement` |
| `AcceptTouched`, `Stored`, `Found`, `Deleted` | `handleAcceptTouched`, `acceptNewCredential` |
| `DeclineOffer`, `CloseExpired`, `Remove`, `RemovalEnds` | `useDeclineReplacement`, `useExpiredNotifications`, `handleRemove` |
| `Flip` | an issuer revokes or reinstates |

**MCRelationshipExchange, MCExchangeScenarios, MCLateStep, MCWitnessSession, MCIdentityListeners,
MCCommunityAsks, MCSessions, MCCredentials** give the instances. Some run two instances side by side: MCLateStep
two of LateStep, MCSessions one of SharedSession and one of MediatorPickup, MCCredentials one of ProfileCard and
one of CredentialRefresh. A behaviour is of one or the other (`part`). The modules whose names end in **Proofs**
hold the theorems.

A definition whose comment begins with "Fault:" is not part of the specification. It is a plausible mistake
in the operator that follows it, and shows that the properties would notice.

## 4. The runs

| run | property | what it says |
|---|---|---|
| `ExchangeOnce` | `ImplementsSwap` | whatever is redelivered, killed or triggered twice, the exchange is the swap: at most one credential each, after the other's consent, stored only when made |
| `ExchangeLate` | `HeldSignsNothing` | no delivery is held that is under way or done, also after a kill |
| | `DeliveryNeverSkipped` | wherever a delivery starts both DIDs are on file, though each wallet drops the other's DID when it comes before its own record |
| | `ConsentBeforeCard`, `WithdrawnStaysWithdrawn` | no credential without the other person's acceptance, none started after the withdrawal |
| | `LaterProposeKept` | an answer forgets no mark of a newer propose |
| | `AskedAgain` | through kills and starts the newest propose asked stays asked until it is answered, unless the start-up puts up an older one over it (see 8); what the start-up puts up was never answered |
| `ExchangeProgress` | `CardsCross`, `AnswerOpensExchange` | a discovery answer leads to a propose, an acceptance to both credentials, also for an upgrade that crosses the first exchange |
| `Late` | `AskerReleasesInTime` | only a timely "ready" to the last question releases the asker, whatever was put aside, late, or delivered twice |
| | `OnlyOwedRuns`, `HeldIsOwed` | no step runs twice or after a stop; nothing stopped stays held (without a kill, see 8) |
| | `QuestionAnswered` | a question leaves the screen only when it, not an older one, was answered |
| | `AnswerEndsAskingThere` | an answer that was sent ends the asking, in time or late, also when both ask each other |
| `WitnessRequired` | `StoredWasHere` | under `required` the wallet stores only what the sensor read from it for the challenge it presented |
| | `ConfirmedIsOwn` | a confirmed observation is over the transcript this device reports |
| `WitnessOffered` | `PresentedIsWitnessed` | what is stored was issued, for the presentation made, although a repeated request replaces the challenge under a handler's feet |
| | `WaitEndsByItsAnswer`, `SessionEnds` | a wait ends by its own answer, its timer, or the app's end; every session that is opened ends |
| | `TerminalClosesExchange` | the bundle shows the reply that brought the credential (without duplicates, see 8) |
| `Sessions` | `HeldForItsIdentity` | while a step holds the session it is nobody else's, and nobody is signing in as another |
| | `CallsSettle`, `PollsGetTheirTurn` | every sign-in gets the session or is told it is kept, even if the function of a hold never settles; a refused poll gets its turn |
| | `ImplementsMailbox`, `SeenWasTaken` | collecting implements the Mailbox: nothing leaves the mediator, and no copy is acknowledged unread, before it was taken |
| | `EverythingTaken` | every readable message is taken in the end, for all lost pushes, silent sockets and failed reopens, unless the socket stays closed for good |
| `Listeners` | `OneListener` | one listener per identity that nobody stops |
| | `PausedIsQuiet` | in the background, once the reconcile is over, a listener has or gets a socket only if its stop could not wait for the connection it was making (see 8) |
| | `EveryoneHears` | each identity is heard for again and again, whatever failed, unless its listener is left without a socket object by a failed reopen (see 8) |
| | `PutRight` | a listener next to the shared session of its identity does not stay |
| `Asks` | `AnswersItsOwn` | a call gets the answer to its own request or to the identical one it joined |
| | `WriteIsOutOnce` | a write is not sent while an identical one is out |
| | `NoAnswerLost` | an answer leaves the mediator only to everyone who waits for it, wherever the session moved since they began to wait; a listener's is kept when nobody does |
| `Credentials` | `OneCardPerRun`, `CardGoesOut` | however the triggers of the profile card race, one card goes out while the app runs; no lock left taken keeps it back |
| | `NeverWithout` | wherever a lock, a kill or a failure strikes, nobody is left without a credential they did not remove |
| | `TokenIsCurrent` | a run presents the token the issuer takes now, though it read the records when it began |
| | `OneReplacementEach` | what was offered, accepted or declined is not fetched again |
| | `SwapIsWhole` | when an acceptance is settled the old credential is gone, with two taps or a decline in between (while the agent is live, see 8) |
| | `RunFinishes` | a run ends, whichever records fail and however the agent comes and goes |
| `ExchangeResume`, `HandedTwice` | one each | violated: section 8 |

The modules' type invariants are proved (`TypeCorrect`, `CardTypeCorrect`, `RefreshTypeCorrect`) rather than
run. Every property of a passing run also fails when one of the "Fault:" definitions takes the place of the
operator it spoils (`mutants` in `PROJECT.json`).

## 5. Bounds

Next-state relations carry their own bounds (`MaxCrashes`, `MaxUpsets`, `MaxHappens`, `MaxMishaps`,
`MaxFaults`, `MaxMoves`, ...) and constants say whose person does what (`Upgraders`, `Withdrawers`,
`Stoppers`, `Askers`, `Killed`) or what may go wrong (`MayHappen`). The theorems hold for all of their values;
the runs take these:

- *Exchanges.* One where the property is about an exchange by itself, two where exchanges meet (the first
  and an upgrade, or two openings). The code compares an exchange with "another
  accepted one" and a mark with "the newest"; the one case known to need more (four, section 8) is beyond the
  runs, and the theorems, which hold for any number, are stated with it. Exchange ids are uuids, hence `SYMMETRY`.
- *Kills, duplicates, failures.* One each in `ExchangeOnce` (a kill and a duplicate together). One mishap is
  enough to reach every recovery path, since each runs once per restart and reads durable state only.
  `ExchangeLate` takes two exchanges with every kind of lateness, stop, kill, failure and upgrade, and a
  `CONSTRAINT` (`MCExchangeScenarios!InScenario`) that keeps the states of three scenarios: one exchange with
  late steps, stops and one kill or failure; two openings around a kill of the proposer, and one of
  the other phone before its first answer arrives; a first exchange and an upgrade with late deliveries and at
  most two messages on the way to a phone (`MaxWaiting`). All of them at once is out of TLC's reach.
- `Late` runs two instances side by side: one phone that asks, with a kill, a stop, a duplicate or a failure
  (one of them, `MaxMishaps`) and two ready-checks, so that an answer can meet an older question; and two
  phones that ask each other, where fairness is assumed. Its `CONSTRAINT` `FewChecks` concerns the first
  instance only, about which nothing temporal beyond single steps is claimed. Ready window 0 and clock 1
  separate "in time" from "late".
- *Witness.* `WitnessRequired` has two sessions that offer locality and one that does not; the `CONSTRAINT`
  `FewSessions` lets one of them join the first where nothing goes wrong. Sessions share the radio and the
  expiry, nothing else. The wallet's timer (0 or 1 tick) is shorter than the observation window (1 or 2
  ticks), as 60 s is than 120 s.
- `Sessions`, the shared session: two identities; a step and a poll of one, an endless flow and a poll of the
  other, so that each kind of blocker meets each kind of caller. A hold is 2 ticks, a poll's hold and a claim 1,
  a turn comes after 2 refusals: the order of the source's times, and a claim can be renewed before a poll gets
  by.
- `Listeners`: two identities (a listener next to the shared session is about one, a switch about two), two
  session objects of each (one that lingers behind the one in the map), any two disturbances.
- `Asks`: two identical writes and a read that goes over TSP first, two moves of the session (away and back,
  on a new session object), one upset; `TwoAtOnce` keeps two of the calls under way at a time.
- `Sessions`, the transport: three messages, one unreadable, one that never opens; batches of two and a memory
  of one, so that batches overflow and what was seen is forgotten; two frames under way; two upsets.
- `Credentials`: for the card two announcements and an acceptance, two profiles, a switch and a fault. For the
  refresh, behaviours that start in one of three ways (`Starts`): one credential and two replacements, so that a
  replacement is revoked and replaced in turn, with two runs, two taps and one failed call; or a credential with a
  refresh token and one without, in one run, with one failed call and one lock; or the same with one kill.
- Only safety runs have a constraint on the part they check; no liveness property is checked under one.
- Distinct states: `ExchangeOnce` 1.6 million, `Asks` 1.4, `Late` 1.1, `ExchangeLate` 0.9, `Listeners` 0.41,
  `WitnessRequired` 0.39, `Credentials` 0.24, `ExchangeProgress` 0.19, `Sessions` 0.07, `WitnessOffered` 0.05.

Deadlock is not checked: people may stop at any point, and then nothing is left to do.

## 6. Fairness

Nothing is assumed of people, of mishaps or of the operating system's kills.

- `RelationshipExchange!FairSpec`: weak fairness of `System(w)` for each wallet: the event loop goes on with
  what is pending, the mediator delivers, a send that is due happens, and an app that was killed is opened again.
  `System` is one action per wallet, so no order among its pending continuations is assumed beyond that it
  does not stop. Behaviours end in finitely many steps of it, hence all of them are taken.
- `LateFair` (MCLateStep): the same per phone, in the instance where both ask. Fairness of the clock is not
  needed.
- `WitnessSession!FairSpec`: weak fairness of `System` (event loops, delivery, expired timers) and of `Tick`
  (clocks run). `System` holds the end of the radio phase, and with it that a person asked for a fingerprint on the
  way (`LocalityPeripheral.swift:326-337`) gives it or cancels.
- `SharedSession!FairSpec`: time passes and a sign-in under way settles (each of its steps has a deadline);
  strong fairness of a caller's turn to look (`Settle`), because whoever waits for the sign-in under way is
  resumed in the order it began to wait, and a new sign-in takes the place of a settled one again and again.
  Nothing is assumed of the functions that holds are for: `Finish` may never happen. A screen's timer looks
  again (`PollAgain`); without it `whenFree` alone may wait for ever, see 8.
- `IdentityListeners!FairSpec`: event loops go on, opens and reopens settle (they have deadlines), retry timers
  fire, the inbox looks again every 30 s, the once-a-minute safety net runs, and the app is opened again. A socket
  that closed is reopened once (`Recover`), by the renewal timer that the start or reopen that opened it has set
  (`VtiMediatorTransport.ts:718`); this takes access tokens to carry an expiry. Nothing is assumed after a reopen
  that failed: its session has no socket object, and only a send or the person would bring it back. `EveryoneHears`
  names that state (`Deaf`).
- `MediatorPickup!PickupFairness`: the mediator answers delivery-requests, consumers settle, the poll and the
  renewal ring, a reopen ends (well or badly), an acknowledgement on a closed socket asks for a reopen.
  `EverythingTaken` assumes in addition that the socket is not closed for ever, because the code alone does not
  reopen a closed socket: a send, the renewal, an acknowledgement or the person's return does.
- `ProfileCard!CardFairness`: a running function goes on.
- `CredentialRefresh!RefreshFairness`: the run and each acceptance go on, that is, calls to issuers and to the
  storage end, well or badly. The code sets no time-out on a fetch; one that never ended would keep
  `runningOnce` set, and no run would start until the app is restarted.

## 7. What is proved

For any identities, callers, exchanges, sessions or messages and any bounds (assumptions: the named `ASSUME`s
of each module, such as that the two wallets differ and bounds and ticks are naturals):

- `RelationshipExchangeProofs!TypeCorrect`: `Spec => []TypeOK`. One lemma per group of actions; the only
  fact that is not immediate is that `MarksWithout` returns a sequence of exchanges, which needs the last
  index of a mark (`LastIndex`, by well-foundedness of `<`).
- `RelationshipExchangeProofs!OneCard`: `Spec => []OneCardPerExchange`. The count alone is not inductive: a
  second delivery may be past its check for an earlier issue. `OneCardInv` adds: documents in transit come
  from the peer (`InTransit`), so nobody else's document is taken for this wallet's issue; a held delivery
  has one name and is never past its check (`HeldSteps`); a credential is counted exactly when its issue
  document is retained (`Counted`); one delivery of an exchange runs at a time, the in-memory claim
  (`OneDelivery`); and a delivery that signs has found nothing issued (`SigningIsFirst`). A kill forgets the
  claim, and the deliveries with it.
- `ExchangeIsTheSwap` (`ImplementsSwap`): the refinement. The invariant puts `OneCardInv` and `WithdrawnInv` (below)
  together and adds that an issue document in transit is of a credential its sender made (`IssueMade`).
  With it `Propose` and `Upgrade` propose, `Accept` accepts what the other proposed (`Asking`, `MadeByProposer`),
  `Issue` makes the first credential on an accepted exchange (`SigningIsFirst`, `Counted`, `Giving`), `RecvIssue`
  stores what the other made, and every other step changes nothing there (`MadeStays`, `CardsStep`,
  `StoredStep`).
- `AsksAgain` (`AskedAgain`): an action property. Where the newest mark comes from decides: only a propose that is
  asked puts a mark on, and is on screen in the same step; an answer forgets its own marks and the older ones, so
  either none is left or the newest stays the newest (`MarksNewest`); a kill ends in a start-up, and a start-up
  goes on to ask the newest unless it is answered or something is on screen (`RestoreGoesOn`). `AskingAgain` says
  that what is on screen until then is the newest, and that what the start-up puts up was never answered, which
  holds because nobody answers before the start-up is through (`StartsUpFirst`).
- `ConsentFirst` (`ConsentBeforeCard`): `ConsentInv` follows the consent: what is asked, on screen, marked or
  being accepted was proposed by the other wallet (`Asking`); an acceptance retained, due or in transit is the
  person's (`Accepting`); a delivery runs, is held or is done only where there was one (`Giving`). Lemmas named
  `...Origin` say, for every step at once, where a document, a task, a held step or a mark can come from.
- `NeverSkipped` (`DeliveryNeverSkipped`): `Known` says what a message implies of the records of both wallets:
  an announcement or an answer that its sender has a DID, a query that its receiver has one, a propose or an
  acceptance that both have. So `Learn`, which does nothing without a record, is never wasted where it counts
  (`Both`).
- `StaysWithdrawn` (`WithdrawnStaysWithdrawn`): an action property. An exchange id has one proposer
  (`OneProposer`, from the freshness of ids and `MadeByProposer`), so who withdrew an upgrade never accepted it,
  and its acceptance by the other is not acted on.
- `HeldDeliveryWaits` (`HeldSignsNothing`): as long as nothing is delivered twice, an acceptance is in one place
  (`AcceptedOnce`, `OneOf`): in the queue, about to be sent, held (in memory or on disk), or its credential is out
  or on its way. It needs `AskedOnce`, the same of the propose until it is accepted, for otherwise a propose could
  be accepted twice, and `StartsUpFirst` (nobody answers before the start-up is through). Each action moves at
  most one of them; a lemma per action says which.
- `LaterProposesStay` (`LaterProposeKept`): an action property. Only an answer takes marks away, and it is retained
  before it does (`Declining`, and `Accepting` of the consent). With a mark of its own it leaves what
  follows its last one (`MarksAfter`); so what is lost is older than an answered mark, unless the answer
  found none (section 8).
- `WitnessSessionProofs!TypeCorrect`: not only shapes: that the challenges and attempts stay within
  `1..MaxDuplicates + 1` needs `Counted` (each request a session makes is delivered once plus once per
  duplicate), `Asked` (who sent a request under way) and `Reached` (what a stage implies).
- `RequiredMeansHere` (`StoredWasHere`), `ConfirmationIsOwn` (`ConfirmedIsOwn`), `StoredWasIssued`
  (`PresentedIsWitnessed`): from `Provenance`, which follows a credential back through the protocol: a
  submit handler is about the challenge presented and reports what the sensor read (`Handled`), so is every
  credential issued (`Vouched`), one under way was issued (`Carried`), and one that ended a wait or is
  stored was issued for that session and passed the cross-check (`Held`).
- `WaitsEndRightly` (`WaitEndsByItsAnswer`): an action property, from the types and `IdleSilent` (a session
  that was not opened has no waiter).
- `TerminalIsTheCredential` (`TerminalClosesExchange`): without duplicates the challenge and the credential of a
  session are each in one place, from the request to the thread, and the credential is asked for only once the
  challenge is retained; so the thread ends with the credential.
- `LateStepProofs!TypeCorrect`; `AskerIsReleasedInTime` (`AskerReleasesInTime`): from `AskedAndSaid`, by which a
  phone that is asking asks what it asked last, at the time it asked it (`Current`), and every "ready" queued or
  under way was said by a person to that check (`SaidSo`, `WillSaySo`). `QuestionIsAnswered` (`QuestionAnswered`)
  follows from the types. `HeldStepsAreOwed` (`HeldIsOwed`) and `OnlyOwedStepsRun` (`OnlyOwedRuns`): `Ledger`
  says that the steps kept and those of the releases under way are, each exactly once, what is owed, and that
  what is owed came up. That two releases never share a step is what the loop of one needs of the other.
- `SharedSessionProofs!TypeCorrect`, `SessionIsHeld` (`HeldForItsIdentity`): the property is inductive
  together with the types, because of what it says of the sign-in under way. The step that matters is that a
  sign-in begins only when no ordinary hold of another identity is live (`BeginsWhenFree`) and that the hold
  is taken in the step in which the sign-in settles, before another caller looks.
- `IdentityListenersProofs!TypeCorrect`, `OneListenerEach` (`OneListener`), `BackgroundIsQuiet`
  (`PausedIsQuiet`): the invariant is `InMap`: a listener that nobody stops and that was not halted has no
  socket before its start, and from its start on it is the one the map names. Two live listeners of one
  identity would both be the one in the map. For the second, `Fits` says of those that were stopped that they
  have or get a socket only if the stop overran the connection (`overran`), and `QuietMap` that in the background,
  once the reconcile is over, the map is empty: what is left was stopped, or is being stopped.
- `MediatorPickupProofs!TypeCorrect` (`PickupTypeOK`), `AcknowledgedWasTaken` (`SeenWasTaken`),
  `CollectingLosesNothing` (`ImplementsMailbox`): the invariant `Collected` says that what each frame will
  acknowledge, and what the session remembers, was taken or can never be opened. With it every step is a step
  of the Mailbox or changes nothing there: `Post` arrives, `ConsumerTakes` takes, `Acknowledge` leaves, and no
  other step touches the queue.
- `CredentialsProofs!OneCardGoesOut` (`OneCardPerRun`), `NoLockIsLeftTaken`: `LockInv` says that the lock of
  the card is pending exactly while one run stands between taking it and its offer, and offered once a card
  went out. `CardTypeCorrect` is its types.
- `CredentialsProofs!RefreshTypeCorrect` (`RefreshTypeOK`); `ReplacedOnce` (`OneReplacementEach`): `ReplacedInv`
  adds that what was replaced is blocked and that what a run stands at was not replaced yet. No operation of the
  registry lifts a block (`StaysBlocked`), neither does a kill; a run takes up only what is not blocked.
- `NeverLeftWithout` (`NeverWithout`): a family has one credential that was not replaced yet (`KnownInv`), and
  `KeptInv` says that it is stored, or another of the family is that no acceptance is about to remove and that
  the registry lists with it or with nothing (`Safe`).
- `SwapSettlesWhole` (`SwapIsWhole`): an action property, from `KnownInv`, step by step: what else takes a
  replacement off the registry leaves the old credential marked expired, or has removed it.
- `TokenStaysCurrent` (`TokenIsCurrent`): `TokenKnown` says, of the credential of a family that was not replaced
  yet, that its record, its copy in memory until it is stored, what the run read when it began and the token
  in hand are each the token the issuer takes now, except on the record between the rotation and its save.
- `CommunityAsksProofs!TypeCorrect`, `EachItsOwnAnswer` (`AnswersItsOwn`): `AnswerInv` says that what an entry
  keeps, and what a call that waits on it would get, answers a request identical to the entry's or names no
  thread and is its identity's. `NoneIsLost` (`NoAnswerLost`) is an action property from `WaitInv`: a call waits on an
  ask that is still kept and has no answer, or on one that was never sent (`Asked`: the community answers what was
  sent). That no move takes an ask from under a call that waits is a case of its proof.
  `WritesAreOutOnce` (`WriteIsOutOnce`) is one from `WriteInv`: identical writes have one entry, a write has no
  request before it is sent, and is never sent again over the other envelope.

Only model-checked: everything under fairness (`CardsCross`, `AnswerOpensExchange`, `AnswerEndsAskingThere`,
`SessionEnds`, `CallsSettle`, `PollsGetTheirTurn`, `EveryoneHears`, `PutRight`, `EverythingTaken`,
`CardGoesOut`, `RunFinishes`), which the prover does not treat. Every other property of the passing runs is proved.

## 8. Where code and promise part

Each with a run that shows it, and the quotation in `PROJECT.json` (`findings`):

1. *Never opened* (`ExchangeResume`, `ceremony.ts:460`). A kill between retaining the propose and sending it:
   the restart takes it for sent.
2. *Handed over twice* (`HandedTwice`, `VtiMediatorTransport.ts:1021`, also 986, 1094, 1125). A copy is looked
   for in `seen` before the consumer is awaited and remembered after it; a copy that comes meanwhile, by a
   drain, is handed over again.

Met while modelling, and allowed by the models (a property named here excludes the case):

*The exchange*
- A propose that comes in while the start-up is between its look at what is on screen (`ceremony.ts:1070`) and its
  own prompt (1095) is taken off the screen by the older one; the comment before it says "a newer
  propose replaces an older pending one". The newer one is marked still, and is asked at the next start.
  `AskedAgain` excepts this step.
- Two first exchanges (`ceremony.ts:434`): the sweep of a restart and a queued discovery answer both look for a
  retained propose before either retains its own. What follows of it, two exchanges, is checked.
- An answer without a mark of its own takes every mark, also that of a propose that came in since, and a kill
  then loses that question (`ceremony.ts:1030`). The comments count on this only when "its save failed" (1031) and
  on "a propose that arrived while the answer was being sent" being kept (1018). It happens when a propose is
  redelivered after its answer and answered once more; and, with nothing delivered twice, when two upgrades come
  one after the other: the older is accepted and its forgetting waits, the newer is marked and its answer
  forgets both marks, a third propose is marked, and the older's forgetting takes that mark too.
  `LaterProposeKept` excepts exactly the answer that finds no mark of its own. The second case takes four
  exchanges, two more than `ExchangeLate` has, and showed when the property without the exception could not be
  proved.
- An acceptance consumed in time and delivered again late is held, although its credential went out
  (`HeldSignsNothing` speaks of behaviours without duplicates). Its release finds the earlier issue and does nothing.
- A responder killed after its acceptance is retained and before its own delivery ran (`ceremony.ts:1216`): no
  start-up sweep drives the delivery again.
- A receipt is compared with this wallet's first issue on the connection, whatever its exchange
  (`ceremony.ts:1646`); the mismatch is only logged.

*Holds*
- The opening deferred under a hold is in memory only, and the kept hold remembers one step: a kill loses it
  (`vrc-manager.ts:1898`).
- The phone that *answers* a ready-check releases its own hold however old the question is
  (`lateStep.ts:366`); only the asking phone compares with `READY_WINDOW_MS`. `lateStep.ts:16-19` reads as if
  both did. `AskerReleasesInTime` is about the asker.
- A kill between a stop and the mark of the kept hold (`lateStep.ts:372`, `392`), or a `keepHold` that lands
  after the mark, brings a stopped or released step back at the restart. `HeldIsOwed` and `OnlyOwedRuns` are
  stated of behaviours without a kill.

*Witness*
- Two credentials on one session (`WitnessTaskSessions.ts:682`): a session is closed only after three awaits.
- The wallet gives up after 60 s (`witnessCeremony.ts:302`), the witness observes for 120 s: an exchange with
  locality merely offered goes on without the annotation.
- A refusal of the witness leaves the wallet's waiter alone (`ceremony.ts:779`): the session ends by its
  timer, a minute later. `SessionEnds` holds by that timer.
- A session request the mediator delivers twice is answered twice; when the second challenge is retained after
  the credential, the bundle's terminal document is that challenge (`TrustTaskDocumentRepository.ts:44`).
  `TerminalClosesExchange` excludes duplicates.

*Profile card*
- The share is recorded with the profile that is active by then, not the one the card was built from
  (`vrc-manager.ts:938`); setting the active profile is a write per profile, not atomic
  (`rCardCredential.ts:387`).
- When `prepareVrcCredentialWithEvidence` throws, the first lock stays pending (`vrc-manager.ts:800`). The card
  to such a peer waits for a restart (`CardGoesOut` assumes no fault).
- An announcement that comes before this wallet has its record is dropped with its version
  (`RelationshipDidRepository.ts:93`); the poll of the same handler (`vrc-manager.ts:1957`) then finds the
  record and the issuance is put off (768-778) although nothing will resume it for a peer without Trust Tasks.
  The comments there (770-774, 1949-1953) count on an announcement being stored. `CardGoesOut` speaks of a
  version that is on the record.

*Sessions and mediators*
- A session that was stopped while its start or reopen was under way still opens a socket
  (`VtiMediatorTransport.ts:1276`), and sets its poll (825), which nothing ends. A listener whose start
  outlives its deadline (`vtiIdentityListeners.ts:209`) or whose reopen is under way at the stop so listens on in
  the background, and beside the next listener until the mediator closes the older connection; the comment says of
  the sockets "close them all before the app suspends" (326). `PausedIsQuiet` names these listeners and no others;
  `OneListener` speaks of sessions that were not stopped.
- A listener whose reopen failed has no socket object left, and nothing tries again unless it sends: the poll and
  `checkAlive` want a socket (`VtiMediatorTransport.ts:828`, 849), the renewal is set by a success only (708), and
  the reconcile skips an identity that is in its map (`vtiIdentityListeners.ts:262`). The identity is not heard for
  until its listener is stopped. `EveryoneHears` excepts it (`Deaf`).
- A listener may be started next to the shared session of its identity, because `sharedTarget` and the
  session's identity are read before the stops of a reconcile (`vtiIdentityListeners.ts:255`); the comment at 24
  excludes it. `PutRight` says that it does not last.
- `whenFree` alone may wait for ever while claims are renewed, since nobody counts a refusal meanwhile; the
  screens' own timers make up for it (`vtiAgent.ts:1069`).
- An answer held for the next call is forgotten when the session moves (`vtiAgent.ts:1367`), and so is the ask of a
  call whose request is being sent at that moment, since it waits only afterwards (`waitFor`): it waits out its
  clock, out of reach of its answer. The comment there keeps "an ask a caller still waits on". `NoAnswerLost`
  speaks of calls that had begun to wait.
- A write that joined an entry whose send then fails is not told: it waits out its clock.
- An error that names no thread is taken for the answer to the oldest request of the identity, which may not
  even be sent yet (`vtiAgent.ts:780-788`). `AnswersItsOwn` asks of such an answer only that it is the
  identity's.
- Twenty messages that cannot be unpacked fill every batch (`VtiMediatorTransport.ts:885`), and what is behind
  them reaches the phone by pushes only. `EverythingTaken` is checked with fewer of them than a batch holds.

*OpenID refresh*
- The in-flight mark is persisted with the registry (`registry.ts:107`): a kill while a run is at a credential
  leaves it marked, and every later run skips the credential.
- The notification of an offer survives a restart, the credential it offers was in memory
  (`useOpenIdReplacementNavigation.ts:26`), and its queued replacement keeps later runs from fetching another.
- A verdict of revoked stays on the record when a later check finds it valid and clears the registry only
  (`refreshOrchestrator.ts:285`).
- Without refresh metadata, recording a failed check throws, and the catch marks the credential invalid
  although no status was learnt (`refreshOrchestrator.ts:293`).
- A lock after the replacement was stored: the lookup of the old credential is rejected, reads as absent
  (`credentialRecord.ts:122`), and the swap is settled with the old one in place. `SwapIsWhole` speaks of a live
  agent.
- A rotated token whose answer, or whose save, is lost is lost for good: every later run presents the old one
  (`refreshToken.ts:46`). `TokenIsCurrent` excepts these families (`adrift`).
- Removing a credential leaves its queued replacement in the registry: the test is for a key called "id"
  (`registry.ts:182`). The replacement can be accepted again from memory, with the token it had then;
  `TokenIsCurrent` excepts these families too (`removed`).
- A credential removed while a run is at it is marked expired by the run's failing save, and a notice of it
  appears.
- The request for a run on demand (`OPENID_REFRESH_REQUEST`) is emitted by nobody in this repository.

## 9. Abstractions

- Documents are a kind, an exchange and a sender. DIDs, signatures, proofs and formats are taken as valid:
  both wallets and the witness run this code. The schema checks of the inbound handlers always pass.
- `Accept` reads and writes the record in one step; the source has an await between filing the peer's DID and
  making ours, but only this connection's handlers write there, and none takes a DID away.
- `keepHold` and `markHoldReleased` each read and write one metadata entry in one step of the storage.
- Nobody answers a prompt before the start-up sweep is through (`StartedUp`).
- A hold ends in RelationshipExchange whenever its person and the other say ready; LateStep says when.
- The witness session is part of `Issue` in RelationshipExchange, where it only adds an attachment and always
  ends (`SessionEnds`).
- The wallet's store of an answer and the resolution of its waiter are one step. Ten minutes pass for a
  session of the witness at any moment (`GrowOld`). One radio per phone: a second phase while one runs fails.
- SharedSession: times are whole ticks; two of a caller's own calls do not overlap; what `connectNow` does
  between its begin and its end is IdentityListeners, where who wants the session next is any.
- IdentityListeners: deadlines pass at any moment while what they bound has not settled (`Happens("late")`);
  a session object nobody has a use for any more is forgotten (`Tidy`); an identity, once it has a key, keeps it.
- MediatorPickup: timers ring when nothing is on its way to the phone (`Quiet`), since the mediator answers in
  less than the 15 s between two polls; messages of a batch are handled in order, frames concurrently; what an
  ended session remembered is not kept, its frames run on and their acknowledgements are lost. `Ends` is a stop with
  no start under way; the start that goes on after a stop is IdentityListeners' (`overran`).
- CommunityAsks: the community answers each sending once, the mediator delivers in any order; payloads are
  equal or not (`CallKey`); clocks and holds run out at any moment.
- ProfileCard: DID creation and the polls for it are one step each; a version, once on the record, stays.
- CredentialRefresh: the registry is on disk before the next await ends; an issuer gives a new refresh token each
  time (one that does not leaves nothing to go wrong); a run takes its records in any order; the half second
  before a removal is left out; storing an id that is stored already is refused; a restarted agent is the same
  to a function that kept the old one; the start-up run begins in the step that sets the agent; what is shown of
  a check (`lastCheckResult`) is left out; a replacement gets any unused id, and which one makes no difference.

## 10. Not modelled

The wallet is large, mostly screens and clients of services that are not in this repository; the models cover
the parts whose correctness depends on the order of steps, a small share of its lines.

Of the modelled components: the legacy issuance for peers before Trust Tasks (but for its place between the
locks of ProfileCard), the choice between DIDComm and TSP carriage, the discovery of the witness's policy, the
words and minutes on the cards, the login at the mediator and its tokens, the forwarding of outbound messages,
the final stop of the listeners when the wallet locks, what a persona's inbox keeps, problem reports, and the
times `askAnswered` compares when a reply names no thread. Of the OpenID refresh: the interval and
`checkRecordStatus`, which the container does not switch on (`container-impl.ts:269-272`),
`useUpgradeExpiredCredential`, which nothing calls, DPoP, and the legacy token endpoint.

Of the others: communities, vetting, shared connect, rooms and polls are clients whose counterparts are not in
this repository, of which the shared session, the requests and the transport are the parts with an order of
their own; screens, themes, localisation, OCA and logs have no state others depend on; PIN and hardware
signing, receiving an OpenID offer and presenting a credential are sequential calls; the mediator and the TSP
envelope are configuration and encoding.

## 11. The plan

Done: the exchange and the transport, each with its abstract specification, the holds, the witness session, the
shared session, the listeners, the requests, the profile card, the OpenID refresh. Then

1. abstract specifications: a family of credentials of which one is held, implemented by CredentialRefresh; a
   hold (owed, released, stopped), implemented by LateStep; one session per identity,
   implemented by SharedSession and IdentityListeners together;
2. the agent link's reducer with the calls that drive it, and key loans;
3. the ceremony status store with its time-outs;
4. pure algorithms: the folding and expiry of chat events, the merging of contacts, each
   against a reference definition.

Runs planned for them: one safety run and, where somebody waits, one liveness run per module, at the bounds
of section 5; the runs of section 4 are merged further where that makes room.
