---------------------------- MODULE CommunityAsks ----------------------------
(***************************************************************************)
(* Requests to a community and their answers (vtiAgent.ts: ask, sendAsk,   *)
(* waitFor, askAnswered, settle, answerFromListener, disconnect).          *)
(*                                                                         *)
(* A call makes a request, or joins the identical one that is out.  The    *)
(* request's entry, named by the call that made it, outlives the call's    *)
(* answer clock: held, it keeps a late answer for the next identical call. *)
(* The session moves between the phone's identities meanwhile (module      *)
(* SharedSession); a listener hears for the others (IdentityListeners).    *)
(***************************************************************************)
EXTENDS Naturals, FiniteSets

CONSTANTS
  Calls, NoCall,
  Dids,
  First,     \* who is signed in at first
  CallDid,   \* the identity a call is made as
  CallKey,   \* what makes calls identical: identity, community, task and payload
  Writes,    \* the calls whose task changes state at the community (not VTI_READ_TASKS)
  ByTsp,     \* the reads first sent over TSP
  MaxMoves,  \* bound: how often the session moves
  MaxUpsets  \* bound: sends that fail, errors naming no thread, redeliveries

ASSUME CallsOK ==
  /\ IsFiniteSet(Calls) /\ NoCall \notin Calls /\ Writes \subseteq Calls /\ ByTsp \subseteq Calls \ Writes
  /\ First \in Dids /\ CallDid \in [Calls -> Dids]
  /\ \A c, d \in Calls : CallKey[c] = CallKey[d] => CallDid[c] = CallDid[d] /\ (c \in Writes <=> d \in Writes)
  /\ {MaxMoves, MaxUpsets} \subseteq Nat

VARIABLES
  who,      \* the identity of the session
  moves,    \* how often it moved: which session object is the current one
  call,     \* how far each call is
  on,       \* the entry it waits on
  using,    \* the session object it sends with
  asks,     \* the entries there are
  order,    \* when each was made
  held,     \* those whose clock ran out and that wait for a late answer
  kept,     \* those with a late answer
  requests, \* what was sent: the entry, and which sending of it
  replies,  \* answers that wait at the mediator, for whom and to what
  answered, \* sendings the community answered
  got,      \* the answer each call was given                               (history)
  upsets

session == <<who, moves>>
entries == <<asks, order, held, kept>>
wire == <<requests, replies, answered>>
vars == <<session, call, on, using, entries, wire, got, upsets>>

Upset == upsets < MaxUpsets /\ upsets' = upsets + 1
Sending == {"sending", "resending"}
Reply == [to : Dids, entry : Calls, threaded : BOOLEAN]
NoReply == [entry |-> NoCall]

Waiters(e) == {c \in Calls : call[c] = "waiting" /\ on[c] = e}
Identical(c) == {e \in asks : CallKey[e] = CallKey[c]}

\* The one made first.
Oldest(es) == {e \in es : \A f \in es : order[e] <= order[f]}

\* A late answer stays with the entry, for the call that made it and sends it again.
Forget(es) ==
  /\ asks' = asks \ es /\ held' = held \ es
  /\ UNCHANGED kept
  /\ order' = [e \in Calls |-> IF e \in es THEN 0 ELSE order[e]]

-----------------------------------------------------------------------------
(* ask and sendAsk                                                         *)

\* Fault: a write that is out is sent again, as a read is.
AskNewAnyway(c) ==
  /\ \A e \in Oldest(Identical(c)) : kept[e] = NoReply
  /\ asks' = asks \cup {c}
  /\ order' = [order EXCEPT ![c] = Cardinality({d \in Calls : call[d] # "idle"})]
  /\ call' = [call EXCEPT ![c] = "sending"]
  /\ on' = [on EXCEPT ![c] = c] /\ using' = [using EXCEPT ![c] = moves]
  /\ UNCHANGED <<held, kept, got>>

\* A late answer is taken; an identical write that is out is waited on.
AskNew(c) ==
  /\ c \in Writes => Identical(c) = {}
  /\ \A e \in Oldest(Identical(c)) : kept[e] = NoReply
  /\ asks' = asks \cup {c}
  /\ order' = [order EXCEPT ![c] = Cardinality({d \in Calls : call[d] # "idle"})]
  /\ call' = [call EXCEPT ![c] = "sending"]
  /\ on' = [on EXCEPT ![c] = c] /\ using' = [using EXCEPT ![c] = moves]
  /\ UNCHANGED <<held, kept, got>>

AskJoins(c) ==
  /\ c \in Writes
  /\ \E e \in Oldest(Identical(c)) :
       /\ kept[e] = NoReply
       /\ call' = [call EXCEPT ![c] = "waiting"] /\ on' = [on EXCEPT ![c] = e]
       /\ held' = held \ {e}
  /\ UNCHANGED <<using, asks, order, kept, got>>

AskTakes(c) ==
  /\ \E e \in Oldest(Identical(c)) :
       /\ kept[e] # NoReply
       /\ call' = [call EXCEPT ![c] = "answered"] /\ got' = [got EXCEPT ![c] = kept[e]]
       /\ Forget({e})
  /\ UNCHANGED <<on, using>>

Ask(c) ==
  /\ call[c] = "idle" /\ who = CallDid[c]
  /\ AskNew(c) \/ AskJoins(c) \/ AskTakes(c)
  /\ UNCHANGED <<session, wire, upsets>>

\* On the session object the call began with: a stopped one sends nothing.
Send(c) ==
  /\ call[c] \in Sending /\ using[c] = moves
  /\ requests' = requests \cup {[entry |-> c, again |-> call[c] = "resending"]}
  /\ call' = [call EXCEPT ![c] = IF @ = "resending" THEN "resent" ELSE "sent"]
  /\ UNCHANGED <<session, on, using, entries, replies, answered, got, upsets>>

\* Nothing is held for a request that did not go out.
SendFails(c) ==
  /\ call[c] \in Sending
  /\ IF using[c] = moves THEN Upset ELSE UNCHANGED upsets
  /\ call' = [call EXCEPT ![c] = "failed"]
  /\ Forget({c})
  /\ UNCHANGED <<session, on, using, wire, got>>

\* waitFor. An entry that a move forgot while it was sent is waited on all the same, out of reach of
\* any answer ("astray").
StartWaiting(c) ==
  /\ call[c] \in {"sent", "resent"}
  /\ IF kept[c] # NoReply
     THEN /\ call' = [call EXCEPT ![c] = "answered"] /\ got' = [got EXCEPT ![c] = kept[c]]
          /\ Forget({c})
     ELSE /\ call' = [call EXCEPT ![c] = IF c \in asks THEN "waiting" ELSE "astray"]
          /\ held' = held \ {c}
          /\ UNCHANGED <<asks, order, kept, got>>
  /\ UNCHANGED <<session, on, using, wire, upsets>>

\* The answer clock: the entry is held; a read that went over TSP goes once more, over DIDComm.
TimesOut(c) ==
  /\ call[c] \in {"waiting", "astray"}
  /\ held' = IF Waiters(on[c]) = {c} /\ on[c] \in asks THEN held \cup {on[c]} ELSE held
  /\ call' = [call EXCEPT ![c] =
       IF on[c] = c /\ c \in ByTsp /\ [entry |-> c, again |-> TRUE] \notin requests
       THEN "resending" ELSE "silent"]
  /\ UNCHANGED <<session, on, using, asks, order, kept, wire, got, upsets>>

\* dropExpiredHolds, at some call after the hold's time.
HoldEnds(e) ==
  /\ e \in held /\ Waiters(e) = {}
  /\ Forget({e})
  /\ UNCHANGED <<session, call, on, using, wire, got, upsets>>

\* takeHeldAnswer, for the request that came back unanswered (lateVerdict).
TakeHeld(c) ==
  /\ call[c] = "silent" /\ who = CallDid[c]
  /\ on[c] \in asks /\ kept[on[c]] # NoReply
  /\ call' = [call EXCEPT ![c] = "answered"] /\ got' = [got EXCEPT ![c] = kept[on[c]]]
  /\ Forget({on[c]})
  /\ UNCHANGED <<session, on, using, wire, upsets>>

\* Fault: every entry goes, the ones waited on too.
MoveForgetsAll(d) ==
  /\ moves < MaxMoves
  /\ who' = d /\ moves' = moves + 1
  /\ Forget(asks)
  /\ UNCHANGED <<call, on, using, wire, got, upsets>>

\* disconnect, and the sign-in as d: what nobody waits on goes.
Move(d) ==
  /\ moves < MaxMoves
  /\ who' = d /\ moves' = moves + 1
  /\ Forget({e \in asks : Waiters(e) = {}})
  /\ UNCHANGED <<call, on, using, wire, got, upsets>>

-----------------------------------------------------------------------------
(* The community answers each sending it gets; an error may name no thread. *)

Answer(m) ==
  /\ m \in requests \ answered
  /\ answered' = answered \cup {m}
  /\ \E threaded \in BOOLEAN :
       /\ IF threaded THEN UNCHANGED upsets ELSE Upset
       /\ replies' = replies \cup {[to |-> CallDid[m.entry], entry |-> m.entry, threaded |-> threaded]}
  /\ UNCHANGED <<session, call, on, using, entries, requests, got>>

-----------------------------------------------------------------------------
(* An answer is heard.                                                     *)

\* Those of the session's identity without an answer; one somebody waits on goes first.
Candidates == {e \in asks : CallDid[e] = who /\ kept[e] = NoReply}
Waited == {e \in Candidates : Waiters(e) # {}}

\* Fault: the first ask of the identity is taken, whatever the thread says.
MatchByType(r) == Oldest(IF Waited # {} THEN Waited ELSE Candidates)

\* askAnswered: by the thread it names, or else by its type.
Match(r) == IF r.threaded THEN {r.entry} \cap asks ELSE Oldest(IF Waited # {} THEN Waited ELSE Candidates)

\* Everyone who waits is given it; with nobody waiting it is kept.
Settle(e, r) ==
  IF Waiters(e) # {}
  THEN /\ call' = [c \in Calls |-> IF c \in Waiters(e) THEN "answered" ELSE call[c]]
       /\ got' = [c \in Calls |-> IF c \in Waiters(e) THEN r ELSE got[c]]
       /\ Forget({e})
  ELSE /\ kept' = [kept EXCEPT ![e] = r]
       /\ UNCHANGED <<call, got, asks, order, held>>

Acknowledge(r) == replies' = replies \ {r} /\ UNCHANGED upsets

\* deliver, on the session; an answer to nothing goes to the inbox, which takes it.
Hear(r) ==
  /\ r \in replies /\ who = r.to
  /\ IF Match(r) = {} THEN UNCHANGED <<call, got, entries>>
     ELSE \E e \in Match(r) : Settle(e, r)
  /\ Acknowledge(r) \/ (Upset /\ UNCHANGED replies)
  /\ UNCHANGED <<session, on, using, requests, answered>>

\* answerFromListener, while the session is another identity's: an unclaimed answer to a write stays.
HearListener(r) ==
  /\ r \in replies /\ who # r.to /\ r.threaded
  /\ IF Match(r) = {}
     THEN r.entry \notin Writes /\ UNCHANGED <<call, got, entries>>
     ELSE \E e \in Match(r) : CallDid[e] = r.to /\ Settle(e, r)
  /\ Acknowledge(r)
  /\ UNCHANGED <<session, on, using, requests, answered>>

-----------------------------------------------------------------------------
Init ==
  /\ who = First /\ moves = 0
  /\ call = [c \in Calls |-> "idle"] /\ on = [c \in Calls |-> NoCall] /\ using = [c \in Calls |-> 0]
  /\ asks = {} /\ held = {} /\ order = [c \in Calls |-> 0] /\ kept = [c \in Calls |-> NoReply]
  /\ requests = {} /\ replies = {} /\ answered = {}
  /\ got = [c \in Calls |-> NoReply] /\ upsets = 0

CallSteps(c) == Send(c) \/ SendFails(c) \/ StartWaiting(c) \/ TimesOut(c)

Next ==
  \/ \E c \in Calls : Ask(c) \/ CallSteps(c) \/ HoldEnds(c) \/ TakeHeld(c)
  \/ \E d \in Dids : Move(d)
  \/ \E m \in requests : Answer(m)
  \/ \E r \in replies : Hear(r) \/ HearListener(r)

Spec == Init /\ [][Next]_vars

-----------------------------------------------------------------------------
TypeOK ==
  /\ who \in Dids /\ moves \in 0..MaxMoves /\ upsets \in 0..MaxUpsets
  /\ call \in [Calls -> Sending \cup {"idle", "sent", "resent", "waiting", "astray", "answered", "silent", "failed"}]
  /\ on \in [Calls -> Calls \cup {NoCall}] /\ using \in [Calls -> 0..MaxMoves]
  /\ asks \subseteq Calls /\ held \subseteq asks
  /\ order \in [Calls -> Nat]
  /\ kept \in [Calls -> Reply \cup {NoReply}] /\ got \in [Calls -> Reply \cup {NoReply}]
  /\ requests \subseteq [entry : Calls, again : BOOLEAN] /\ answered \subseteq requests
  /\ replies \subseteq Reply

(* A call is given the answer to its own request, or to the identical one   *)
(* it joined; one naming no thread at least is its identity's (askAnswered).*)
AnswersItsOwn ==
  \A c \in Calls : got[c] # NoReply =>
    IF got[c].threaded THEN CallKey[got[c].entry] = CallKey[c] ELSE got[c].to = CallDid[c]

(* A write is not sent a second time while the first one is out: sent,      *)
(* unanswered, and waited on or held (ask, sendAsk: "never sent twice"). An *)
(* error naming no thread may be taken for the answer to a write that was   *)
(* not sent yet; that write has no entry any more, and nothing is said.     *)
WriteIsOutOnce ==
  [][\A c \in Writes \cap asks : (\E m \in requests' \ requests : m.entry = c) =>
       \A m \in requests : m.entry \in Identical(c) => m.entry = c /\ m \in answered]_vars

(* The answer to a request leaves the mediator only to everyone who waits   *)
(* for it, whoever hears it and wherever the session moved since they began *)
(* to wait: an ask that is waited on outlives a move (disconnect) until it  *)
(* is answered or its clock ends. With nobody waiting, the answer to a      *)
(* write that a listener heard is kept for the next call (settle,           *)
(* answerFromListener). A call whose ask a move forgot before it waited is  *)
(* astray, and not among those who wait.                                    *)
NoAnswerLost ==
  [][\A r \in replies \ replies' :
       /\ r.threaded => \A c \in Waiters(r.entry) : got'[c] = r
       /\ who # r.to /\ r.entry \in Writes =>
            kept'[r.entry] = r \/ \E c \in Calls : got'[c] = r]_vars
=============================================================================
