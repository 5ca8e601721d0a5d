----------------------------- MODULE ProfileCard -----------------------------
(***************************************************************************)
(* The profile card (R-Card) of one wallet on one connection: the triggers *)
(* that issue it under locks in memory, the profile that is active when it *)
(* is built and when the share is recorded, and the switch of the active   *)
(* profile (vrc-manager.ts: issueVrcCredential, issueRCardCredential,      *)
(* issueRCardForAcceptedExchange; services/rCardCredential.ts).            *)
(*                                                                         *)
(* A trigger is a running function; it stands before its next await.       *)
(***************************************************************************)
EXTENDS Naturals, FiniteSets

CONSTANTS
  Announcements, \* bound: copies of the peer's announcement handled
  Acceptances,   \* bound: acceptances of the exchange handled
  Profile,       \* this wallet's profiles
  NoProfile,
  MaxSwitches,   \* bound: how often the person switches the active profile
  MaxFaults     \* bound: failed calls, and kills of the app

Trigger == Announcements \cup Acceptances

ASSUME CardOK ==
  /\ Announcements \cap Acceptances = {} /\ NoProfile \notin Profile /\ Profile # {}
  /\ MaxSwitches \in Nat /\ MaxFaults \in Nat

VARIABLES
  peer,      \* what the peer speaks: no cards, cards, or Trust Tasks as well
  known,     \* its version is on the record                       (durable)
  ownDid,    \* this wallet's relationship DID is on the record    (durable)
  vrcLock,   \* connectionCredentialOffers                         (volatile)
  cardLock,  \* connectionRCardOffers                              (volatile)
  stage,     \* where each trigger stands                          (volatile)
  built,     \* the profile of the card it built                   (volatile)
  active,    \* the profiles tagged active                         (durable)
  switching, \* a running setActiveRCardProfile                    (volatile)
  cards,     \* cards offered since the app started                (history)
  went,      \* the profile of the last card offered               (history)
  shared,    \* sharedProfileId                                    (durable)
  switches, faults

locks == <<vrcLock, cardLock>>
profiles == <<active, switching, switches>>
sharing == <<cards, went, shared>>
cardVars == <<peer, known, ownDid, locks, stage, built, profiles, sharing, faults>>

SpeaksCards == peer \in {"cards", "tasks"}
Fails == faults < MaxFaults /\ faults' = faults + 1
Busy == {"pending", "offered"}
Go(t, s) == stage' = [stage EXCEPT ![t] = s]

NoSwitch == [to |-> NoProfile, todo |-> {}]

-----------------------------------------------------------------------------
(* The triggers                                                            *)

\* The connection handler makes this wallet's relationship DID.
OwnDid ==
  /\ ~ownDid /\ ownDid' = TRUE
  /\ UNCHANGED <<peer, known, locks, stage, built, profiles, sharing, faults>>

\* An announcement stores the version, dropped without a record (the record comes with this
\* wallet's own DID), then polls for that DID, for 5 s.
Announced(t) ==
  /\ t \in Announcements /\ stage[t] = "ready"
  /\ known' = (known \/ ownDid) /\ Go(t, "ownDid")
  /\ UNCHANGED <<peer, ownDid, locks, built, profiles, sharing, faults>>

PollsOwnDid(t) ==
  /\ stage[t] = "ownDid"
  /\ \/ ownDid /\ Go(t, "issue") /\ UNCHANGED faults
     \/ ~ownDid /\ Fails /\ Go(t, "done")
  /\ UNCHANGED <<peer, known, ownDid, locks, built, profiles, sharing>>

\* issueVrcCredential, to its first await.
IssueVrc(t) ==
  /\ stage[t] = "issue"
  /\ IF vrcLock \in Busy THEN Go(t, "done") /\ UNCHANGED vrcLock
     ELSE vrcLock' = "pending" /\ Go(t, "gate")
  /\ UNCHANGED <<peer, known, ownDid, cardLock, built, profiles, sharing, faults>>

\* Fault: with Trust Tasks nothing goes this way.
GateClosed(t) ==
  /\ stage[t] = "gate"
  /\ IF known /\ peer = "tasks" THEN vrcLock' = "offered" /\ Go(t, "done")
     ELSE IF known THEN Go(t, "credential") /\ UNCHANGED vrcLock
     ELSE vrcLock' = "free" /\ Go(t, "done")
  /\ UNCHANGED <<peer, known, ownDid, cardLock, built, profiles, sharing, faults>>

\* The record decides the dialect: with Trust Tasks the card goes alone.
Gate(t) ==
  /\ stage[t] = "gate"
  /\ IF ~known THEN vrcLock' = "free" /\ Go(t, "done")
     ELSE IF peer = "tasks" THEN vrcLock' = "offered" /\ Go(t, "card")
     ELSE Go(t, "credential") /\ UNCHANGED vrcLock
  /\ UNCHANGED <<peer, known, ownDid, cardLock, built, profiles, sharing, faults>>

\* The legacy credential is prepared and offered; a throw of the first leaves the lock taken.
OfferVrc(t) ==
  /\ stage[t] = "credential"
  /\ \/ vrcLock' = "offered" /\ Go(t, "card") /\ UNCHANGED faults
     \/ Fails /\ vrcLock' \in {"pending", "failed"} /\ Go(t, "done")
  /\ UNCHANGED <<peer, known, ownDid, cardLock, built, profiles, sharing>>

\* The acceptance of the exchange: it puts both DIDs and the version on the record.
Accepted(t) ==
  /\ t \in Acceptances /\ stage[t] = "ready" /\ peer = "tasks" /\ ownDid
  /\ known' = TRUE /\ Go(t, "card")
  /\ UNCHANGED <<peer, ownDid, locks, built, profiles, sharing, faults>>

-----------------------------------------------------------------------------
(* issueRCardCredential                                                    *)

\* Fault: the lock is taken only once the card is out.
IssueCardUnlocked(t) ==
  /\ stage[t] = "card"
  /\ IF cardLock = "offered" THEN Go(t, "done") ELSE Go(t, "speaks")
  /\ UNCHANGED <<peer, known, ownDid, locks, built, profiles, sharing, faults>>

\* issueRCardCredential, to its first await.
IssueCard(t) ==
  /\ stage[t] = "card"
  /\ IF cardLock \in Busy THEN Go(t, "done") /\ UNCHANGED cardLock
     ELSE cardLock' = "pending" /\ Go(t, "speaks")
  /\ UNCHANGED <<peer, known, ownDid, vrcLock, built, profiles, sharing, faults>>

\* A lookup that fails reads as a peer that takes no cards.
Speaks(t) ==
  /\ stage[t] = "speaks"
  /\ \/ SpeaksCards /\ Go(t, "build") /\ UNCHANGED <<cardLock, faults>>
     \/ ~SpeaksCards /\ Go(t, "done") /\ cardLock' = "free" /\ UNCHANGED faults
     \/ SpeaksCards /\ Fails /\ Go(t, "done") /\ cardLock' = "free"
  /\ UNCHANGED <<peer, known, ownDid, vrcLock, built, profiles, sharing>>

\* The card is built from a profile that is active now; without one, or when none can be
\* read, it is skipped.
Build(t) ==
  /\ stage[t] = "build"
  /\ \/ /\ \E p \in active : built' = [built EXCEPT ![t] = p]
        /\ Go(t, "offer") /\ UNCHANGED <<cardLock, faults>>
     \/ /\ (active = {} /\ UNCHANGED faults) \/ Fails
        /\ cardLock' = "free" /\ Go(t, "done") /\ UNCHANGED built
  /\ UNCHANGED <<peer, known, ownDid, vrcLock, profiles, sharing>>

OfferCard(t) ==
  /\ stage[t] = "offer"
  /\ \/ /\ cardLock' = "offered" /\ Go(t, "record")
        /\ cards' = cards + 1 /\ went' = built[t]
        /\ UNCHANGED faults
     \/ Fails /\ cardLock' = "failed" /\ Go(t, "done") /\ UNCHANGED <<cards, went>>
  /\ UNCHANGED <<peer, known, ownDid, vrcLock, built, profiles, shared>>

\* The share is recorded: with the profile that is active by now.
RecordShare(t) ==
  /\ stage[t] = "record" /\ Go(t, "done")
  /\ \/ \E p \in active : shared' = p /\ UNCHANGED faults
     \/ active = {} /\ UNCHANGED <<shared, faults>>
     \/ Fails /\ UNCHANGED shared
  /\ UNCHANGED <<peer, known, ownDid, locks, built, profiles, cards, went>>

-----------------------------------------------------------------------------
(* setActiveRCardProfile: every record that must change, one write each.   *)

Switch(p) ==
  /\ switching = NoSwitch /\ active # {p} /\ switches < MaxSwitches
  /\ switches' = switches + 1
  /\ switching' = [to |-> p, todo |-> {q \in Profile : (q \in active) # (q = p)}]
  /\ UNCHANGED <<peer, known, ownDid, locks, stage, built, active, sharing, faults>>

WriteTag(p) ==
  /\ p \in switching.todo
  /\ active' = IF p = switching.to THEN active \cup {p} ELSE active \ {p}
  /\ switching' = IF switching.todo = {p} THEN NoSwitch ELSE [switching EXCEPT !.todo = @ \ {p}]
  /\ UNCHANGED <<peer, known, ownDid, locks, stage, built, switches, sharing, faults>>

WriteFails ==
  /\ switching # NoSwitch /\ Fails
  /\ switching' = NoSwitch
  /\ UNCHANGED <<peer, known, ownDid, locks, stage, built, active, switches, sharing>>

\* The app is killed: locks and running functions are gone, what was handled is done.
Restart ==
  /\ Fails
  /\ vrcLock' = "free" /\ cardLock' = "free"
  /\ stage' = [t \in Trigger |-> IF stage[t] = "ready" THEN "ready" ELSE "done"]
  /\ built' = [t \in Trigger |-> NoProfile]
  /\ switching' = NoSwitch /\ cards' = 0
  /\ UNCHANGED <<peer, known, ownDid, active, switches, went, shared>>

-----------------------------------------------------------------------------
CardInit ==
  /\ peer \in {"none", "cards", "tasks"} /\ known = FALSE /\ ownDid = FALSE
  /\ vrcLock = "free" /\ cardLock = "free"
  /\ stage = [t \in Trigger |-> "ready"] /\ built = [t \in Trigger |-> NoProfile]
  /\ active \in {{p} : p \in Profile} \cup {{}} /\ switching = NoSwitch
  /\ cards = 0 /\ went = NoProfile /\ shared = NoProfile
  /\ switches = 0 /\ faults = 0

Runs(t) ==
  \/ PollsOwnDid(t) \/ IssueVrc(t) \/ Gate(t) \/ OfferVrc(t)
  \/ IssueCard(t) \/ Speaks(t) \/ Build(t) \/ OfferCard(t) \/ RecordShare(t)

CardNext ==
  \/ OwnDid \/ WriteFails \/ Restart
  \/ \E p \in Profile : Switch(p) \/ WriteTag(p)
  \/ \E t \in Trigger : Announced(t) \/ Accepted(t) \/ Runs(t)

CardSpec == CardInit /\ [][CardNext]_cardVars

\* A running function goes on.
CardFairness ==
  /\ WF_cardVars(\E p \in Profile : WriteTag(p))
  /\ \A t \in Trigger : WF_cardVars(Runs(t))

-----------------------------------------------------------------------------
CardTypeOK ==
  /\ peer \in {"none", "cards", "tasks"} /\ {known, ownDid} \subseteq BOOLEAN
  /\ {vrcLock, cardLock} \subseteq {"free", "pending", "offered", "failed"}
  /\ stage \in [Trigger -> {"ready", "ownDid", "issue", "gate", "credential", "card", "speaks",
                            "build", "offer", "record", "done"}]
  /\ built \in [Trigger -> Profile \cup {NoProfile}]
  /\ active \subseteq Profile /\ switching \in [to : Profile \cup {NoProfile}, todo : SUBSET Profile]
  /\ cards \in Nat /\ {went, shared} \subseteq Profile \cup {NoProfile}
  /\ switches \in 0..MaxSwitches /\ faults \in 0..MaxFaults

(* However the triggers race, one card goes out while the app runs          *)
(* ("Duplicate-safe: issueRCardCredential's own per-connection lock makes   *)
(* whichever trigger runs second a no-op").                                 *)
OneCardPerRun == cards <= 1

(* A trigger that comes to the card sees it out, unless something fails or  *)
(* no profile is active: no lock is left taken by a run that gave up.       *)
CardGoesOut ==
  [](faults = 0 /\ active # {}) =>
    \A t \in Trigger : stage[t] = "gate" /\ known /\ SpeaksCards ~> cards = 1
=============================================================================
