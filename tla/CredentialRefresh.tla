-------------------------- MODULE CredentialRefresh --------------------------
(***************************************************************************)
(* The refresh of one wallet's OpenID credentials (modules/openid/refresh, *)
(* its hooks and screens; services/AgentBridge.ts): the runs that check    *)
(* each stored credential with its issuer and fetch a replacement for a    *)
(* revoked one, the registry that survives the app, and the person who     *)
(* accepts, declines or removes.                                           *)
(*                                                                         *)
(* A run is one running function; it stands before its next await.  The    *)
(* registry is written to disk at each change, before the next await ends. *)
(* The app registers no interval and flowType FullReplacement              *)
(* (container-impl.ts:269-272): the timer and checkRecordStatus never run. *)
(***************************************************************************)
EXTENDS Naturals

CONSTANTS
  Roots,       \* credentials a wallet may hold at the start
  Fresh,       \* bound: credentials issuers give as replacements
  Refreshable, \* the roots that came with a refresh token
  NoCred,
  Taps,        \* bound: taps on Accept running at once
  Starts       \* the roots held at the start, and bounds: how many runs may be
               \* asked for, how often an issuer revokes or reinstates, how many
               \* calls fail, and how often the app is locked or killed

Cred == Roots \cup Fresh
Limits == {"runs", "taps", "flips", "faults", "locks", "kills"}

ASSUME RefreshOK ==
  /\ Roots \cap Fresh = {} /\ Refreshable \subseteq Roots /\ NoCred \notin Cred
  /\ Starts \subseteq [holds : SUBSET Roots, may : [Limits -> Nat]]

VARIABLES
  agent,    \* none, live, or closing: shut down and still held  (volatile)
  started,  \* startupRunTriggered                               (volatile)
  run,      \* the run under way (runningOnce)                   (volatile)
  issued,   \* recentlyIssued, with the token in each record     (volatile)
  accepts,  \* the running acceptNewCredential                   (volatile)
  removing, \* the running handleRemove                          (volatile)
  stored,   \* the credential records                            (durable)
  tokens,   \* the refresh token on each record                  (durable)
  reg,      \* the registry                                      (durable)
  revoked,  \* the issuers' status lists                         (external)
  honoured, \* the refresh token the issuer takes, per family    (external)
  family,   \* the root a credential replaces, step by step      (history)
  adrift,   \* families whose last token the wallet never saved  (history)
  removed,  \* families the person removed a credential of, or never had       (history)
  given,    \* how many replacements were fetched for each       (history)
  spent     \* what is left of the bounds

volatile == <<agent, started, run, issued, accepts, removing>>
records == <<stored, tokens>>
issuers == <<revoked, honoured>>
history == <<family, adrift, removed, given>>
refreshVars == <<volatile, records, reg, issuers, history, spent>>

Live == agent = "live"
Spend(what) == spent[what] > 0 /\ spent' = [spent EXCEPT ![what] = @ - 1]

-----------------------------------------------------------------------------
(* The registry                                                            *)

Queued(c) == reg.replacement[c] # NoCred

\* Fault: what was replaced or declined may be tried again.
ShouldSkipUnblocked(c) == c \in reg.refreshing \/ (c \in reg.expired /\ Queued(c))

ShouldSkip(c) ==
  \/ c \in reg.refreshing
  \/ c \in reg.expired /\ Queued(c)
  \/ c \in reg.blocked

MarkInvalid(g, c) ==
  [g EXCEPT !.expired = @ \cup {c}, !.checked = @ \cup {c}]
ClearRefreshing(g, c) == [g EXCEPT !.refreshing = @ \ {c}]
MarkReplaced(g, c, n) ==
  [MarkInvalid(g, c) EXCEPT !.replacement[c] = n, !.blocked = @ \cup {c}]
AcceptReplacement(g, c) ==
  IF g.replacement[c] = NoCred THEN g
  ELSE [g EXCEPT !.replacement[c] = NoCred, !.expired = @ \ {c}, !.blocked = @ \cup {c}]
Decline(g, c) ==
  [g EXCEPT !.checked = @ \ {c}, !.replacement[c] = NoCred, !.refreshing = @ \ {c}]

\* The queued replacement is meant to go too; `replacements?.id` asks for
\* a credential called "id", and it stays.
RemoveFrom(g, c) == [g EXCEPT !.expired = @ \ {c}, !.checked = @ \ {c}]

OldOf(n) == {c \in Cred : reg.replacement[c] = n}
Offered(c) == c \in reg.expired /\ Queued(c)

-----------------------------------------------------------------------------
(* A run                                                                   *)

NoRun == [at |-> "idle", cur |-> NoCred, todo |-> {}, seen |-> [c \in Cred |-> 0], token |-> 0]

RunOnce ==
  IF run.at # "idle" THEN UNCHANGED run ELSE run' = [NoRun EXCEPT !.at = "listing"]

\* A host emits OPENID_REFRESH_REQUEST, and Home's timer passes.
ManualRun ==
  /\ Live /\ run.at = "idle" /\ Spend("runs") /\ RunOnce
  /\ UNCHANGED <<agent, started, issued, accepts, removing, records, reg, issuers, history>>

RunAt(at) == run.at = at
KeepBesidesRun == UNCHANGED <<agent, started, accepts, removing>>

\* The records are read as they are now, and used one after the other.
Listed ==
  /\ RunAt("listing") /\ KeepBesidesRun
  /\ run' = IF Live THEN [run EXCEPT !.at = "next", !.todo = stored, !.seen = tokens] ELSE NoRun
  /\ UNCHANGED <<issued, records, reg, issuers, history, spent>>

RunEnds ==
  /\ RunAt("next") /\ run.todo = {} /\ run' = NoRun
  /\ KeepBesidesRun /\ UNCHANGED <<issued, records, reg, issuers, history, spent>>

\* The agent is gone, or the registry says to skip it.
Skip(c) ==
  /\ RunAt("next") /\ c \in run.todo /\ (agent = "none" \/ ShouldSkip(c))
  /\ run' = [run EXCEPT !.todo = @ \ {c}]
  /\ KeepBesidesRun /\ UNCHANGED <<issued, records, reg, issuers, history, spent>>

TakeUp(c) ==
  /\ RunAt("next") /\ c \in run.todo /\ agent # "none" /\ ~ShouldSkip(c)
  /\ reg' = [reg EXCEPT !.refreshing = @ \cup {c}]
  /\ run' = [run EXCEPT !.at = "checking", !.cur = c, !.todo = @ \ {c}]
  /\ KeepBesidesRun /\ UNCHANGED <<issued, records, issuers, history, spent>>

\* finally: the marker goes, and the next record's turn comes.
Done(g) ==
  /\ reg' = ClearRefreshing(g, run.cur)
  /\ run' = [run EXCEPT !.at = "next", !.cur = NoCred, !.token = 0]

\* Fault: the error leaves the loop, and runningOnce stays set.
ThrowsOut == reg' = MarkInvalid(reg, run.cur) /\ run' = [run EXCEPT !.at = "thrown"]

\* The catch: any failure marks the credential invalid.
Throws == Done(MarkInvalid(reg, run.cur))

HasToken(c) == family[c] \in Refreshable

\* The status list, or a failure to fetch it, decides.  What is not valid is
\* marked on the record; without metadata that throws, as it does without an
\* agent.
Verdict(v) ==
  LET c == run.cur IN
  /\ RunAt("checking") /\ KeepBesidesRun
  /\ CASE v = "valid" -> c \notin revoked /\ Done([reg EXCEPT !.expired = @ \ {c}]) /\ UNCHANGED spent
       [] OTHER ->
            /\ IF v = "error" THEN Spend("faults") ELSE c \in revoked /\ UNCHANGED spent
            /\ IF HasToken(c) /\ agent # "none"
               THEN /\ run' = [run EXCEPT !.at = IF v = "error" THEN "deferring" ELSE "marking"]
                    /\ UNCHANGED reg
               ELSE Throws
  /\ UNCHANGED <<issued, records, issuers, history>>

\* The whole record is written, its token with it.
CanPersist(c) == Live /\ c \in stored

Marked ==
  LET c == run.cur IN
  /\ RunAt("marking") \/ RunAt("deferring")
  /\ KeepBesidesRun
  /\ IF CanPersist(c)
     THEN /\ tokens' = [tokens EXCEPT ![c] = run.seen[c]]
          /\ IF RunAt("deferring") THEN Done(reg)
             ELSE run' = [run EXCEPT !.at = "refreshing"] /\ UNCHANGED reg
     ELSE Throws /\ UNCHANGED tokens
  /\ UNCHANGED <<issued, stored, issuers, history, spent>>

\* The issuer takes the token and gives the next one.  (An issuer that does
\* not rotate its tokens leaves nothing to go wrong here.)
Rotated ==
  LET f == family[run.cur] IN
  /\ RunAt("refreshing") /\ run.seen[run.cur] = honoured[f] /\ KeepBesidesRun
  /\ honoured' = [honoured EXCEPT ![f] = @ + 1]
  /\ run' = [run EXCEPT !.at = "saving", !.token = honoured[f] + 1]
  /\ UNCHANGED <<issued, records, reg, revoked, history, spent>>

\* The call fails, with the network or the agent, or is refused; its answer
\* may be what got lost.
TokenFails ==
  LET f == family[run.cur]
      current == run.seen[run.cur] = honoured[f]
  IN
  /\ RunAt("refreshing") /\ KeepBesidesRun /\ Throws
  /\ IF current /\ Live THEN Spend("faults") ELSE UNCHANGED spent
  /\ \/ UNCHANGED <<honoured, adrift>>
     \/ /\ current
        /\ honoured' = [honoured EXCEPT ![f] = @ + 1] /\ adrift' = adrift \cup {f}
  /\ UNCHANGED <<issued, records, revoked, family, removed, given>>

\* Fault: the new token is used and not persisted.
TokenForgotten ==
  /\ RunAt("saving") /\ KeepBesidesRun /\ run' = [run EXCEPT !.at = "asking"]
  /\ UNCHANGED <<issued, records, reg, issuers, history, spent>>

TokenSaved ==
  LET c == run.cur IN
  /\ RunAt("saving") /\ KeepBesidesRun
  /\ IF CanPersist(c)
     THEN /\ tokens' = [tokens EXCEPT ![c] = run.token]
          /\ run' = [run EXCEPT !.at = "asking"] /\ UNCHANGED <<reg, adrift>>
     ELSE Throws /\ adrift' = adrift \cup {family[c]} /\ UNCHANGED tokens
  /\ UNCHANGED <<issued, stored, issuers, family, removed, given, spent>>

Unused == {n \in Fresh : family[n] = NoCred}
\* Which of them an issuer takes makes no difference.
NewId == CHOOSE n \in Unused : TRUE

\* The replacement is queued and its credential blocked; the record itself
\* is kept in memory alone.
Reissued(n) ==
  LET c == run.cur IN
  /\ RunAt("asking") /\ Unused # {} /\ n = NewId /\ KeepBesidesRun
  /\ Done(MarkReplaced(reg, c, n))
  /\ issued' = [issued EXCEPT ![n] = run.token]
  /\ family' = [family EXCEPT ![n] = family[c]]
  /\ given' = [given EXCEPT ![c] = @ + 1]
  /\ UNCHANGED <<records, issuers, adrift, removed, spent>>

ReissueFails ==
  /\ RunAt("asking") /\ KeepBesidesRun /\ Throws
  /\ IF Live /\ Unused # {} THEN Spend("faults") ELSE UNCHANGED spent
  /\ UNCHANGED <<issued, records, issuers, history>>

RunStep ==
  \/ Listed \/ RunEnds \/ \E c \in Cred : Skip(c) \/ TakeUp(c)
  \/ \E v \in {"valid", "invalid", "error"} : Verdict(v)
  \/ Marked \/ Rotated \/ TokenFails \/ TokenSaved
  \/ ReissueFails \/ \E n \in Fresh : Reissued(n)

-----------------------------------------------------------------------------
(* The person                                                              *)

NoAccept == [at |-> "none", new |-> NoCred, old |-> NoCred]
KeepBesidesAccepts == UNCHANGED <<agent, started, run, issued, removing, issuers>>
GoOn(t, at, old) ==
  accepts' = [accepts EXCEPT ![t] = IF at = "none" THEN NoAccept
                                    ELSE [@ EXCEPT !.at = at, !.old = old]]

\* The notification opens the offer screen, of the record kept in memory.
CanOpen(n) == Live /\ issued[n] > 0 /\ \E c \in Cred : Offered(c) /\ reg.replacement[c] = n

\* Nothing keeps the button from a second tap.
AcceptTouched(t, n) ==
  /\ accepts[t].at = "none" /\ CanOpen(n) /\ Spend("taps")
  /\ accepts' = [accepts EXCEPT ![t] = [at |-> "storing", new |-> n, old |-> NoCred]]
  /\ KeepBesidesAccepts /\ UNCHANGED <<records, reg, history>>

\* Fault: an error of the store is ignored.
StoredOrNot(t) ==
  LET n == accepts[t].new IN
  /\ accepts[t].at = "storing" /\ KeepBesidesAccepts
  /\ stored' = IF Live THEN stored \cup {n} ELSE stored
  /\ \E c \in OldOf(n) : GoOn(t, "finding", c)
  /\ UNCHANGED <<tokens, reg, history, spent>>

\* A record that is stored already is refused, as is any call on an agent
\* that was shut down.
Stored(t) ==
  LET n == accepts[t].new IN
  /\ accepts[t].at = "storing" /\ KeepBesidesAccepts
  /\ IF Live /\ n \notin stored
     THEN /\ stored' = stored \cup {n}
          /\ tokens' = [tokens EXCEPT ![n] = issued[n]]
          /\ IF OldOf(n) = {} THEN GoOn(t, "none", NoCred)
             ELSE \E c \in OldOf(n) : GoOn(t, "finding", c)
     ELSE GoOn(t, "none", NoCred) /\ UNCHANGED records
  /\ UNCHANGED <<reg, history, spent>>

\* Fault: the swap is settled before the old record goes.
FoundSettles(t) ==
  LET c == accepts[t].old IN
  /\ accepts[t].at = "finding" /\ KeepBesidesAccepts
  /\ GoOn(t, IF Live /\ c \in stored THEN "deleting" ELSE "none", c)
  /\ reg' = AcceptReplacement(reg, c)
  /\ UNCHANGED <<records, history, spent>>

\* A lookup that fails reads as a record that is not there.
Found(t) ==
  LET c == accepts[t].old IN
  /\ accepts[t].at = "finding" /\ KeepBesidesAccepts
  /\ IF Live /\ c \in stored
     THEN GoOn(t, "deleting", c) /\ UNCHANGED reg
     ELSE GoOn(t, "none", NoCred) /\ reg' = AcceptReplacement(reg, c)
  /\ UNCHANGED <<records, history, spent>>

Deleted(t) ==
  LET c == accepts[t].old IN
  /\ accepts[t].at = "deleting" /\ KeepBesidesAccepts
  /\ GoOn(t, "none", NoCred)
  /\ IF Live /\ c \in stored
     THEN stored' = stored \ {c} /\ reg' = AcceptReplacement(reg, c)
     ELSE UNCHANGED <<stored, reg>>
  /\ UNCHANGED <<tokens, history, spent>>

DeclineOffer(n) ==
  /\ CanOpen(n)
  /\ \E c \in OldOf(n) : reg' = Decline(reg, c)
  /\ UNCHANGED <<volatile, records, issuers, history, spent>>

\* The Expired notification is closed.
CloseExpired(c) ==
  /\ Live /\ c \in (reg.expired \cap reg.checked) \ reg.closed /\ ~Queued(c)
  /\ reg' = Decline([reg EXCEPT !.closed = @ \cup {c}], c)
  /\ UNCHANGED <<volatile, records, issuers, history, spent>>

KeepBesidesRemoval == UNCHANGED <<agent, started, run, issued, accepts, tokens, issuers>>

Remove(c) ==
  /\ Live /\ c \in stored \ removing /\ removing' = removing \cup {c}
  /\ reg' = RemoveFrom(reg, c)
  /\ KeepBesidesRemoval /\ UNCHANGED <<stored, history, spent>>

RemovalEnds(c) ==
  /\ c \in removing /\ removing' = removing \ {c} /\ KeepBesidesRemoval
  /\ IF Live THEN stored' = stored \ {c} /\ removed' = removed \cup {family[c]}
     ELSE UNCHANGED <<stored, removed>>
  /\ UNCHANGED <<reg, family, adrift, given, spent>>

-----------------------------------------------------------------------------
(* The issuer and the app                                                  *)

\* A status list entry is set, or cleared again.
Flip(c) ==
  /\ c \in stored /\ Spend("flips")
  /\ revoked' = IF c \in revoked THEN revoked \ {c} ELSE revoked \cup {c}
  /\ UNCHANGED <<volatile, records, reg, honoured, history>>

\* setAgent: the first one since the app started also starts a run.
Unlock ==
  /\ agent = "none" /\ agent' = "live" /\ started' = TRUE
  /\ IF started THEN UNCHANGED run ELSE RunOnce
  /\ UNCHANGED <<issued, accepts, removing, records, reg, issuers, history, spent>>

\* agent.shutdown(), and only then clearAgent.
Lock ==
  /\ Live /\ Spend("locks") /\ agent' = "closing"
  /\ UNCHANGED <<started, run, issued, accepts, removing, records, reg, issuers, history>>
ClearAgent ==
  /\ agent = "closing" /\ agent' = "none"
  /\ UNCHANGED <<started, run, issued, accepts, removing, records, reg, issuers, history, spent>>

Nothing == [n \in Fresh |-> 0]
NoAccepts == [t \in Taps |-> NoAccept]

\* A token that was asked for may have been given; one not saved is lost.
Kill ==
  LET f == family[run.cur] IN
  /\ Spend("kills")
  /\ agent' = "none" /\ started' = FALSE /\ run' = NoRun
  /\ issued' = Nothing /\ accepts' = NoAccepts /\ removing' = {}
  /\ \/ run.at = "saving" /\ adrift' = adrift \cup {f} /\ UNCHANGED honoured
     \/ /\ run.at = "refreshing" /\ run.seen[run.cur] = honoured[f]
        /\ adrift' = adrift \cup {f} /\ honoured' = [honoured EXCEPT ![f] = @ + 1]
     \/ run.at # "saving" /\ UNCHANGED <<adrift, honoured>>
  /\ UNCHANGED <<records, reg, revoked, family, removed, given>>

-----------------------------------------------------------------------------
RefreshInit ==
  /\ agent = "none" /\ started = FALSE /\ run = NoRun
  /\ issued = Nothing /\ accepts = NoAccepts /\ removing = {}
  /\ tokens = [c \in Cred |-> IF c \in Refreshable THEN 1 ELSE 0]
  /\ reg = [refreshing |-> {}, expired |-> {}, checked |-> {}, blocked |-> {}, closed |-> {},
            replacement |-> [c \in Cred |-> NoCred]]
  /\ revoked = {} /\ honoured = [r \in Roots |-> 1]
  /\ family = [c \in Cred |-> IF c \in Roots THEN c ELSE NoCred]
  /\ adrift = {} /\ given = [c \in Cred |-> 0]
  /\ \E s \in Starts : stored = s.holds /\ removed = Roots \ s.holds /\ spent = s.may

AcceptStep(t) == Stored(t) \/ Found(t) \/ Deleted(t)

RefreshNext ==
  \/ RunStep \/ ManualRun \/ Unlock \/ Lock \/ ClearAgent \/ Kill
  \/ \E t \in Taps : AcceptStep(t) \/ \E n \in Fresh : AcceptTouched(t, n)
  \/ \E n \in Fresh : DeclineOffer(n)
  \/ \E c \in Cred : CloseExpired(c) \/ Remove(c) \/ RemovalEnds(c) \/ Flip(c)

\* Calls end: fetch and the store answer or fail.
RefreshFairness ==
  /\ WF_refreshVars(RunStep)
  /\ \A t \in Taps : WF_refreshVars(AcceptStep(t))

RefreshSpec == RefreshInit /\ [][RefreshNext]_refreshVars /\ RefreshFairness

-----------------------------------------------------------------------------
(* Properties                                                              *)

RunTypeOK ==
  /\ run \in [at : {"idle", "listing", "next", "checking", "marking", "deferring",
                   "refreshing", "saving", "asking"},
              cur : Cred \cup {NoCred}, todo : SUBSET Cred, seen : [Cred -> Nat], token : Nat]
  /\ run.cur = NoCred <=> run.at \in {"idle", "listing", "next"}
AcceptsTypeOK ==
  /\ accepts \in [Taps -> [at : {"none", "storing", "finding", "deleting"},
                           new : Fresh \cup {NoCred}, old : Cred \cup {NoCred}]]
  /\ \A t \in Taps :
       /\ accepts[t].at = "storing" => accepts[t].new # NoCred
       /\ accepts[t].at \in {"finding", "deleting"} => accepts[t].old # NoCred
RegTypeOK ==
  reg \in [refreshing : SUBSET Cred, expired : SUBSET Cred, checked : SUBSET Cred,
           blocked : SUBSET Cred, closed : SUBSET Cred, replacement : [Cred -> Fresh \cup {NoCred}]]
RecordsTypeOK ==
  /\ issued \in [Fresh -> Nat] /\ removing \subseteq Cred
  /\ stored \subseteq Cred /\ tokens \in [Cred -> Nat] /\ revoked \subseteq Cred
HistoryTypeOK ==
  /\ honoured \in [Roots -> Nat] /\ adrift \cup removed \subseteq Roots \cup {NoCred}
  /\ family \in [Cred -> Roots \cup {NoCred}] /\ given \in [Cred -> Nat]
  /\ spent \in [Limits -> Nat]

RefreshTypeOK ==
  /\ agent \in {"none", "live", "closing"} /\ started \in BOOLEAN
  /\ RunTypeOK /\ AcceptsTypeOK /\ RegTypeOK /\ RecordsTypeOK /\ HistoryTypeOK

(* Whatever is killed, locked, tapped twice or declined in the middle of an *)
(* acceptance, a person who removed no credential of a family still has    *)
(* one: the replacement is stored before the old record goes               *)
(* (useAcceptReplacement.ts:35-56).                                        *)
NeverWithout ==
  \A r \in Roots : r \in removed \/ \E c \in stored : family[c] = r

(* A refresh token is good once.  The one a run presents, from a record     *)
(* read when the run began, is the one the issuer takes now ("If refresh   *)
(* token rotated, persist it", refreshToken.ts:140) - unless an earlier    *)
(* answer was lost on its way to the record, or the person removed a       *)
(* credential of the family: the copy in memory can be accepted again.     *)
TokenIsCurrent ==
  run.at = "refreshing" =>
    LET f == family[run.cur] IN
    run.seen[run.cur] = honoured[f] \/ f \in adrift \cup removed

(* A credential gets one replacement, ever: what was offered, accepted or   *)
(* declined is not fetched again, after a kill either ("Permanent (until   *)
(* unblocked) blocks", registry.ts:25).                                    *)
OneReplacementEach == \A c \in Cred : given[c] <= 1

(* When an acceptance settles the swap in the registry, the old credential  *)
(* has left the wallet ("if it replaces an old one (per registry), fetch   *)
(* old via provider & delete it", useAcceptReplacement.ts:24), unless the  *)
(* agent is shut down by then: a lookup it rejects reads as no record.     *)
SwapIsWhole ==
  [][\A c \in Cred :
       Live /\ Offered(c) /\ c \notin reg'.expired /\ reg'.replacement[c] = NoCred
         => c \notin stored']_refreshVars

(* A run ends, whichever of its records fail and however the app is locked: *)
(* "never blocking the rest of the batch" (docs/openid-refresh.md:82).     *)
RunFinishes == run.at # "idle" ~> run.at = "idle"
=============================================================================
