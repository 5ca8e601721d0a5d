------------------------- MODULE IdentityListeners -------------------------
(***************************************************************************)
(* The mediator connections of a phone: the shared session, signed in as   *)
(* one of the phone's identities, and a listener for every other identity  *)
(* (vtiIdentityListeners.ts, vtiAgent.connectNow, VtiMediatorSession).     *)
(* A mediator keeps one live connection per identity: the newest.          *)
(*                                                                         *)
(* An asynchronous function stands, between two steps, at one of its       *)
(* awaits. Which identity the shared session goes for next is any (module  *)
(* SharedSession says which).                                              *)
(***************************************************************************)
EXTENDS Naturals

CONSTANTS
  Dids,         \* the identities of the phone
  Latest,       \* the one the persona inbox looks for
  NoDid,
  MaxSessions,  \* session objects of one identity that may exist side by side
  MayHappen,    \* what may disturb them: "signIn", "pause", "reopen", "open", "start", "late", "read", "drop"
  MaxHappens    \* and how often, together

ASSUME ConstantsOK ==
  /\ Latest \in Dids /\ NoDid \notin Dids
  /\ {MaxSessions, MaxHappens} \subseteq Nat

VARIABLES
  phase,    \* where the shared session's connectNow stands
  who,      \* the identity it is for
  target,   \* sharedTarget: reserved for the shared session
  running,  \* running: the listener of each identity, by slot
  sess,     \* the sessions: their function, socket and whether stop() was called
  waiting,  \* identities whose failed listener waits for its retry timer
  rec,      \* where the reconcile under way stands
  again,    \* another one was asked for meanwhile
  wanted,   \* what the reconcile under way found to be wanted
  mine,     \* identities of the linked agent with a borrowed key
  paused,   \* the app is in the background
  happened  \* how much of it happened

vars == <<phase, who, target, running, sess, waiting, rec, again, wanted, mine, paused, happened>>
shared == <<phase, who>>
manager == <<target, running, waiting, rec, again, wanted, mine, paused>>

Slots == 1..MaxSessions
NoSlot == 0
Free == [owner |-> "none", fn |-> "over", sock |-> "none", halted |-> FALSE, stopping |-> "no", overran |-> FALSE]
Ids == Dids \X Slots

\* sock: "closed" is a socket object that ended (a timer or a send finds it and reopens), "none" no
\* object at all, as after a failed reopen (only a send opens another). overran: stop() could not
\* wait for the connection that was being made.
Session == [owner : {"none", "shared", "listener"}, fn : {"opening", "starting", "up", "over"},
            sock : {"none", "coming", "open", "closed"}, halted : BOOLEAN,
            stopping : {"no", "guard", "reconcile"}, overran : BOOLEAN]

\* A session whose function is over, or that was stopped, is nothing once it has no socket.
Gone(r) == (r.fn = "over" \/ (r.fn = "up" /\ r.halted)) /\ r.sock \in {"none", "closed"} /\ r.stopping = "no"
Tidy(f) == [e \in Ids |-> IF Gone(f[e]) THEN Free ELSE f[e]]

\* session.stop(): the socket and the timers end, but a start() or reopen() under way goes on, and
\* sets its poll timer again when its socket is open.
Halted(r) == [r EXCEPT !.halted = TRUE, !.sock = IF @ = "coming" THEN @ ELSE "none"]

\* stop() of a session that is up: a reopen is not waited for.
Stopped(r) == [Halted(r) EXCEPT !.overran = @ \/ (r.fn = "up" /\ r.sock = "coming")]

\* stop() after a deadline that passed while start() was under way.
StoppedLate(r) == [Halted(r) EXCEPT !.overran = TRUE]

Happens(what) == what \in MayHappen /\ happened < MaxHappens /\ happened' = happened + 1

-----------------------------------------------------------------------------
(* The reconcile: one at a time, and once more when asked for meanwhile.   *)

SharedDids == IF phase \in {"starting", "in"} THEN {who} ELSE {}

\* Fault: the background is not looked at.
TargetsInBackground == mine \ (SharedDids \cup {target})

\* Fault: the identity of the shared session is not left out.
TargetsOfAll == IF paused THEN {} ELSE mine

\* listenerTargets, without the identity reserved for the shared session.
Targets == IF paused THEN {} ELSE mine \ (SharedDids \cup {target})

AskReconcile ==
  IF rec = "idle" THEN rec' = "reading" /\ UNCHANGED again
                  ELSE again' = TRUE /\ UNCHANGED rec

\* Fault: stop() is called at once, without waiting for the start() under way.
StopBeginsUnawaited(ds, by) ==
  LET stops == {<<d, running[d]>> : d \in {x \in ds : running[x] # NoSlot}}
  IN  /\ running' = [d \in Dids |-> IF d \in ds THEN NoSlot ELSE running[d]]
      /\ sess' = Tidy([e \in Ids |->
           IF e \notin stops THEN sess[e]
           ELSE IF sess[e].fn = "up" THEN [Stopped(sess[e]) EXCEPT !.fn = "over"]
           ELSE IF sess[e].fn = "starting" THEN Stopped(sess[e])
           ELSE [sess[e] EXCEPT !.stopping = by]])

\* stopOne, up to its first await: the listeners of ds leave the map; one that is up is stopped at once.
StopBegins(ds, by) ==
  LET stops == {<<d, running[d]>> : d \in {x \in ds : running[x] # NoSlot}}
  IN  /\ running' = [d \in Dids |-> IF d \in ds THEN NoSlot ELSE running[d]]
      /\ sess' = Tidy([e \in Ids |->
           IF e \notin stops THEN sess[e]
           ELSE IF sess[e].fn = "up" THEN [Stopped(sess[e]) EXCEPT !.fn = "over"]
           ELSE [sess[e] EXCEPT !.stopping = by]])

Reconciled == IF again THEN rec' = "reading" /\ again' = FALSE
                       ELSE rec' = "idle" /\ UNCHANGED again

\* The identities were read: what is no longer wanted is stopped.
Read ==
  /\ rec = "reading"
  /\ rec' = "stopping"
  /\ wanted' = Targets
  /\ StopBegins(Dids \ Targets, "reconcile")
  /\ UNCHANGED <<shared, target, waiting, again, mine, paused, happened>>

\* They could not be read in time: the listeners stay as they are.
ReadFails ==
  /\ rec = "reading" /\ ~paused
  /\ Happens("read")
  /\ Reconciled
  /\ UNCHANGED <<shared, target, running, sess, waiting, wanted, mine, paused>>

\* Fault: an identity that has a listener gets another one.
ToStartAnyway == {d \in wanted : ~paused /\ d \notin waiting}

\* Those wanted that have none, and wait for no retry.
ToStart == {d \in wanted : ~paused /\ running[d] = NoSlot /\ d \notin waiting}
FreeSlot(d) == CHOOSE s \in Slots : sess[<<d, s>>] = Free

\* The stops are over: a listener is opened for each wanted identity without one (startOne, up to its open).
StartWanted ==
  /\ rec = "stopping"
  /\ \A e \in Ids : sess[e].stopping # "reconcile"
  /\ \A d \in ToStart : \E s \in Slots : sess[<<d, s>>] = Free
  /\ running' = [d \in Dids |-> IF d \in ToStart THEN FreeSlot(d) ELSE running[d]]
  /\ sess' = [e \in Ids |->
       IF e[1] \in ToStart /\ e[2] = FreeSlot(e[1])
       THEN [Free EXCEPT !.owner = "listener", !.fn = "opening"] ELSE sess[e]]
  /\ wanted' = {}
  /\ Reconciled
  /\ UNCHANGED <<shared, target, waiting, mine, paused, happened>>

\* stopOne, after its awaits: the function of the listener has settled, or its deadline passed.
StopEnds(e) ==
  /\ sess[e].stopping # "no"
  /\ \/ sess[e].fn \in {"up", "over"} /\ UNCHANGED happened
     \/ sess[e].fn \notin {"up", "over"} /\ Happens("late")
  /\ sess' = Tidy([sess EXCEPT ![e] =
       LET r == IF @.fn = "opening" THEN @ ELSE IF @.fn = "starting" THEN StoppedLate(@) ELSE Stopped(@)
       IN  [r EXCEPT !.stopping = "no", !.fn = IF @ = "up" THEN "over" ELSE @]])
  /\ UNCHANGED <<shared, manager>>

-----------------------------------------------------------------------------
(* A listener's function (startOne) and every session's start().           *)

\* Fault: the listener that failed stays in the map.
FailingKept(e, r) ==
  /\ sess' = Tidy([sess EXCEPT ![e] = [r EXCEPT !.fn = "over"]])
  /\ waiting' = waiting \cup {e[1]}
  /\ UNCHANGED <<shared, target, running, rec, again, wanted, mine, paused>>

\* The catch of startOne: out of the map, stopped, and a retry timer.
Failing(e, r) ==
  /\ sess' = Tidy([sess EXCEPT ![e] = [r EXCEPT !.fn = "over"]])
  /\ running' = IF running[e[1]] = e[2] THEN [running EXCEPT ![e[1]] = NoSlot] ELSE running
  /\ waiting' = waiting \cup {e[1]}
  /\ UNCHANGED <<shared, target, rec, again, wanted, mine, paused>>

\* open() resolved. A listener that was stopped meanwhile is not started.
Opened(e) ==
  /\ sess[e].fn = "opening"
  /\ sess' = Tidy([sess EXCEPT ![e] =
       IF running[e[1]] = e[2] THEN [@ EXCEPT !.fn = "starting", !.sock = "coming"]
                               ELSE [Halted(@) EXCEPT !.fn = "over"]])
  /\ UNCHANGED <<shared, manager, happened>>

OpenFails(e) ==
  /\ sess[e].fn = "opening"
  /\ Happens("open")
  /\ Failing(e, sess[e])

\* The socket of a start() or a reopen() is open; the mediator ends every other connection of the identity.
Newest(e) ==
  [f \in Ids |->
     IF f = e THEN [sess[f] EXCEPT !.sock = "open", !.fn = IF @ = "starting" THEN "up" ELSE @]
     ELSE IF f[1] = e[1] /\ sess[f].sock = "open" THEN [sess[f] EXCEPT !.sock = "closed"]
     ELSE sess[f]]

SocketOpens(e) ==
  /\ sess[e].sock = "coming"
  /\ sess' = Tidy(Newest(e))
  /\ IF sess[e].owner = "listener"
     THEN /\ waiting' = IF sess[e].fn = "starting" THEN waiting \ {e[1]} ELSE waiting
          /\ UNCHANGED <<shared, rec, again>>
     ELSE /\ IF phase = "starting" /\ who = e[1] /\ sess[e].fn = "starting"
             THEN phase' = "in" /\ AskReconcile
             ELSE UNCHANGED <<phase, rec, again>>
          /\ UNCHANGED <<who, waiting>>
  /\ UNCHANGED <<target, running, wanted, mine, paused, happened>>

\* start() of a listener fails, or its deadline passes while it goes on.
StartFails(e) ==
  /\ sess[e].owner = "listener" /\ sess[e].fn = "starting"
  /\ \/ /\ Happens("start")
        /\ Failing(e, [sess[e] EXCEPT !.sock = "none"])
     \/ /\ Happens("late")
        /\ Failing(e, StoppedLate(sess[e]))

\* A reopen fails, or the network or the mediator ends a socket.
Drop(e) ==
  /\ sess[e].sock = "open" \/ (sess[e].sock = "coming" /\ sess[e].fn # "starting")
  /\ Happens("drop")
  /\ sess' = Tidy([sess EXCEPT ![e].sock = IF @ = "open" THEN "closed" ELSE "none"])
  /\ UNCHANGED <<shared, manager>>

\* A send, the renewal timer or checkAlive replaces a socket that ended, the poll one that is silent:
\* of a session that was stopped too, when its start() went on and set the poll.
Reopen(e) ==
  /\ \/ sess[e].fn = "up" /\ ~sess[e].halted /\ sess[e].sock \in {"none", "closed"} /\ UNCHANGED happened
     \/ sess[e].sock = "open" /\ Happens("reopen")
  /\ sess' = [sess EXCEPT ![e].sock = "coming"]
  /\ UNCHANGED <<shared, manager>>

-----------------------------------------------------------------------------
(* The shared session: connectNow.                                         *)

SharedSessionOf(f) == {e \in Ids : f[e].owner = "shared" /\ f[e].fn = "up"}

\* disconnect(): the session is stopped and let go of.
LetGo == sess' = Tidy([e \in Ids |-> IF e \in SharedSessionOf(sess) THEN [Stopped(sess[e]) EXCEPT !.fn = "over"]
                                                                ELSE sess[e]])

Connected == \E e \in SharedSessionOf(sess) : sess[e].sock = "open"

Go(d) ==
  /\ phase \in {"out", "in"}
  /\ ~(Connected /\ who = d)
  /\ phase' = "resolving" /\ who' = d
  /\ LetGo
  /\ IF phase = "in" THEN AskReconcile ELSE UNCHANGED <<rec, again>>
  /\ UNCHANGED <<target, running, waiting, wanted, mine, paused>>

\* A step takes the session as d.
SignIn(d) == Happens("signIn") /\ Go(d)

\* The inbox signs in only when nobody else has.
Look == ~Connected /\ phase \in {"out", "in"} /\ UNCHANGED happened /\ Go(Latest)

\* The mediator is known: the identity is reserved and its listener steps aside (the sign-in guard).
Guard ==
  /\ phase = "resolving"
  /\ phase' = "guarding"
  /\ target' = who
  /\ StopBegins({who}, "guard")
  /\ UNCHANGED <<who, waiting, rec, again, wanted, mine, paused, happened>>

Start ==
  /\ phase = "guarding"
  /\ \A e \in Ids : sess[e].stopping # "guard"
  /\ \E s \in Slots : sess[<<who, s>>] = Free
  /\ phase' = "starting"
  /\ sess' = [sess EXCEPT ![<<who, FreeSlot(who)>>] =
                [Free EXCEPT !.owner = "shared", !.fn = "starting", !.sock = "coming"]]
  /\ AskReconcile
  /\ UNCHANGED <<who, target, running, waiting, wanted, mine, paused, happened>>

\* The sign-in fails: nothing is open, and the identity stays reserved.
SignInFails ==
  /\ phase \in {"resolving", "starting"}
  /\ Happens("start")
  /\ phase' = "out"
  /\ sess' = Tidy([e \in Ids |-> IF sess[e].owner = "shared" /\ sess[e].fn = "starting"
                                 THEN [sess[e] EXCEPT !.fn = "over", !.sock = "none"] ELSE sess[e]])
  /\ IF phase = "starting" THEN AskReconcile ELSE UNCHANGED <<rec, again>>
  /\ UNCHANGED <<who, target, running, waiting, wanted, mine, paused>>

-----------------------------------------------------------------------------
(* What else asks for a reconcile.                                         *)

RetryDue(d) ==
  /\ d \in waiting
  /\ waiting' = waiting \ {d}
  /\ AskReconcile
  /\ UNCHANGED <<shared, target, running, sess, wanted, mine, paused, happened>>

\* A key is borrowed: an identity of the linked agent can listen.
KeysHeld(d) ==
  /\ d \notin mine
  /\ mine' = mine \cup {d} /\ waiting' = waiting \ {d}
  /\ AskReconcile
  /\ UNCHANGED <<shared, target, running, sess, wanted, paused, happened>>

\* To the background and back; back, a socket that ended is reopened (checkAlive, see Reopen).
Background ==
  /\ ~paused
  /\ Happens("pause")
  /\ paused' = TRUE
  /\ AskReconcile
  /\ UNCHANGED <<shared, target, running, sess, waiting, wanted, mine>>

Foreground ==
  /\ paused
  /\ paused' = FALSE
  /\ AskReconcile
  /\ UNCHANGED <<shared, target, running, sess, waiting, wanted, mine, happened>>

\* The safety net: once a minute.
Tick ==
  /\ rec = "idle" /\ Targets # {d \in Dids : running[d] # NoSlot}
  /\ AskReconcile
  /\ UNCHANGED <<shared, target, running, sess, waiting, wanted, mine, paused, happened>>

-----------------------------------------------------------------------------
Init ==
  /\ phase = "out" /\ who = NoDid /\ target = NoDid
  /\ running = [d \in Dids |-> NoSlot]
  /\ sess = [e \in Ids |-> Free]
  /\ waiting = {} /\ wanted = {} /\ mine \in {{Latest}, Dids}
  /\ rec = "reading" /\ again = FALSE /\ paused = FALSE
  /\ happened = 0

Recover(e) == sess[e].sock = "closed" /\ Reopen(e)
Opening(e) == Opened(e) \/ SocketOpens(e)
Reconciler == Read \/ StartWanted \/ Tick
SharedSession == Guard \/ Start

Next ==
  \/ Reconciler \/ SharedSession \/ Look \/ SignInFails \/ ReadFails \/ Background \/ Foreground
  \/ \E d \in Dids : SignIn(d) \/ KeysHeld(d) \/ RetryDue(d)
  \/ \E e \in Ids : Opening(e) \/ StopEnds(e) \/ OpenFails(e) \/ StartFails(e) \/ Drop(e) \/ Reopen(e)

Spec == Init /\ [][Next]_vars

\* Event loops go on, timers fire, the inbox looks again every 30 s; the app is opened again. A
\* socket that ended is reopened once: by the renewal timer the start that opened it has set.
FairSpec ==
  /\ Spec
  /\ WF_vars(Reconciler) /\ WF_vars(SharedSession) /\ WF_vars(Look) /\ WF_vars(Foreground)
  /\ \A e \in Ids : (WF_vars(Opening(e)) /\ WF_vars(StopEnds(e)) /\ WF_vars(Recover(e)))
  /\ \A d \in Dids : WF_vars(RetryDue(d))

-----------------------------------------------------------------------------
TypeOK ==
  /\ phase \in {"out", "resolving", "guarding", "starting", "in"}
  /\ who \in Dids \cup {NoDid} /\ target \in Dids \cup {NoDid}
  /\ running \in [Dids -> Slots \cup {NoSlot}]
  /\ sess \in [Ids -> Session]
  /\ waiting \subseteq Dids /\ wanted \subseteq Dids /\ mine \subseteq Dids
  /\ rec \in {"idle", "reading", "stopping"} /\ again \in BOOLEAN /\ paused \in BOOLEAN
  /\ happened \in 0..MaxHappens

\* A session that is alive for its owner, and has or is getting a socket.
Connecting(e) == sess[e].sock \in {"coming", "open"}
Alive(e) == sess[e].owner # "none" /\ ~sess[e].halted /\ Connecting(e)
Listeners(d) == {e \in Ids : e[1] = d /\ sess[e].owner = "listener"}
SharedIs(d) == phase \in {"starting", "in"} /\ who = d

(* An identity never has two listeners of which neither is being stopped    *)
(* (running, reconcileOnce), however reconciles, sign-ins and retries       *)
(* interleave.                                                              *)
OneListener ==
  \A d \in Dids : \A e, f \in Listeners(d) :
    Alive(e) /\ Alive(f) /\ sess[e].stopping = "no" /\ sess[f].stopping = "no" => e = f

(* A listener found next to the shared session of its identity is put right *)
(* (the read of a reconcile may be older than a sign-in, or fail): one of    *)
(* the next reconciles stops it, or the shared session leaves.               *)
PutRight == \A d \in Dids : <>[](SharedIs(d) => \A e \in Listeners(d) : ~Alive(e))

(* In the background, once the reconcile that closes them is over, the only *)
(* listeners that have or get a socket are those whose stop() could not     *)
(* wait for the connection they were making: a reopen, or a start() longer  *)
(* than its deadline. "close them all before the app suspends" holds for    *)
(* every other one, however starts, retries, stops and pauses interleave.   *)
PausedIsQuiet ==
  paused /\ rec = "idle" =>
    \A d \in Dids : \A e \in Listeners(d) : Connecting(e) => sess[e].overran \/ sess[e].stopping # "no"

\* d is heard for: a session that was not stopped has its socket.
Hears(d) == \E s \in Slots : sess[<<d, s>>].sock = "open" /\ ~sess[<<d, s>>].halted

\* The listener of d has no socket left to reopen: its reopen failed, and it is still in the map.
Deaf(d) ==
  running[d] # NoSlot /\ sess[<<d, running[d]>>].fn = "up"
    /\ ~sess[<<d, running[d]>>].halted /\ sess[<<d, running[d]>>].sock = "none"

(* Every identity whose key the phone holds is listened for again and again *)
(* by its listener or by the shared session, whatever failed: retries, the  *)
(* sign-ins of steps and of the inbox, and pauses leave nobody out. The one *)
(* exception is a listener whose reopen failed and that has nothing to send *)
(* from then on: nothing else tries again.                                  *)
EveryoneHears == \A d \in Dids : []<>(d \notin mine \/ paused \/ Hears(d)) \/ <>[]Deaf(d)
=============================================================================
