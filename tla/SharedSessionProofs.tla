------------------------- MODULE SharedSessionProofs -------------------------
(***************************************************************************)
(* Proofs about SharedSession, for any number of identities and callers    *)
(* and any lengths of the holds: while an ordinary hold is live, the       *)
(* session is its identity's.                                              *)
(***************************************************************************)
EXTENDS SharedSession, TLAPS

USE DEF Kinds, CallersOK, TimesOK

-----------------------------------------------------------------------------
(* Types.                                                                  *)

\* A fresh phone has no session, no holds and no claims.
LEMMA TypeInit == Init => TypeOK
<1> SUFFICES ASSUME Init PROVE TypeOK
  OBVIOUS
<1>1. open \in BOOLEAN
  BY DEF Init
<1>2. refusals \in [Dids -> 0..TurnAfter] /\ mishaps \in 0..MaxMishaps
  BY TimesOK DEF Init
<1> QED BY <1>1, <1>2, CallersOK DEF Init, TypeOK

\* Every step keeps the shape of the store's fields and of its callers.
LEMMA TypeStep == TypeOK /\ [Next]_vars => TypeOK'
<1> SUFFICES ASSUME TypeOK, [Next]_vars PROVE TypeOK'
  OBVIOUS
<1> USE CallersOK, TimesOK
<1>1. CASE UNCHANGED vars
  BY <1>1 DEF TypeOK, vars, claims
<1>2. CASE Drop
  <2>1. open' \in BOOLEAN
    BY <1>2 DEF Drop
  <2>2. mishaps' \in 0..MaxMishaps
    BY <1>2 DEF Drop, TypeOK
  <2> QED BY <1>2, <2>1, <2>2 DEF Drop, TypeOK, claims
<1>3. CASE Tick
  BY <1>3 DEF Tick, TypeOK, Less, Watching
<1>4. ASSUME NEW c \in Callers, Call(c) PROVE TypeOK'
  BY <1>4 DEF Call, TypeOK, claims
<1>5. ASSUME NEW c \in Callers, Refuse(c) PROVE TypeOK'
  <2>1. CallerDid[c] \in Dids
    OBVIOUS
  <2>2. refusals' \in [Dids -> 0..TurnAfter]
    BY <1>5, <2>1 DEF Refuse, TypeOK
  <2> QED BY <1>5, <2>2 DEF Refuse, TypeOK
<1>6. ASSUME NEW c \in Callers, Wait(c) PROVE TypeOK'
  <2>1. HoldEnds \cup {0} \subseteq Nat
    BY DEF HoldEnds, TypeOK
  <2>2. alarm' \in [Callers -> Nat]
    BY <1>6, <2>1 DEF Wait, Watch, TypeOK
  <2> QED BY <1>6, <2>2 DEF Wait, TypeOK, claims, Watching
<1>7. ASSUME NEW c \in Callers, Begin(c) PROVE TypeOK'
  BY <1>7 DEF Begin, TypeOK, claims, Watching
<1>8. ASSUME NEW c \in Callers, SignedIn(c) PROVE TypeOK'
  <2>1. refusals' \in [Dids -> 0..TurnAfter] /\ claim' \in Dids \cup {NoDid} /\ claimLeft' \in Nat
    BY <1>8 DEF SignedIn, TypeOK
  <2>2. left' \in [Callers -> Nat] /\ woken' \subseteq Callers
    BY <1>8 DEF SignedIn, TakeHold, WakeAll, WakeOthers, Watching, TypeOK
  <2>3. at' \in [Callers -> {"idle", "trying", "waiting", "signingIn", "inside", "refused"}]
    BY <1>8 DEF SignedIn, TakeHold, TypeOK
  <2>4. open' \in BOOLEAN /\ session' \in Dids \cup {NoDid}
    BY <1>8 DEF SignedIn, TypeOK
  <2> QED BY <1>8, <2>1, <2>2, <2>3, <2>4 DEF SignedIn, TypeOK
<1>9. ASSUME NEW c \in Callers, SignInFails(c) PROVE TypeOK'
  BY <1>9 DEF SignInFails, TypeOK, claims
<1>10. ASSUME NEW c \in Callers, Finish(c) PROVE TypeOK'
  BY <1>10 DEF Finish, WakeAll, WakeOthers, Watching, TypeOK, claims
<1>11. ASSUME NEW c \in Callers, WhenFree(c) PROVE TypeOK'
  <2>1. HoldEnds \cup {0} \subseteq Nat
    BY DEF HoldEnds, TypeOK
  <2>2. alarm' \in [Callers -> Nat]
    BY <1>11, <2>1 DEF WhenFree, Watch, TypeOK
  <2> QED BY <1>11, <2>2 DEF WhenFree, TypeOK, claims
<1>12. ASSUME NEW c \in Callers, PollAgain(c) PROVE TypeOK'
  BY <1>12 DEF PollAgain, TypeOK, claims
<1> QED
  BY <1>1, <1>2, <1>3, <1>4, <1>5, <1>6, <1>7, <1>8, <1>9, <1>10, <1>11, <1>12 DEF Next, Settle

\* Every reachable state has the shape of the store's fields and of its callers.
THEOREM TypeCorrect == Spec => []TypeOK
  BY TypeInit, TypeStep, PTL DEF Spec

-----------------------------------------------------------------------------
(* Holds.  HeldForItsIdentity is inductive: a sign-in begins only when no  *)
(* ordinary hold of another identity is live, and the hold is taken in the *)
(* step in which the sign-in settles.                                      *)

\* A caller that begins to sign in finds no ordinary hold of another identity.
LEMMA BeginsWhenFree ==
  ASSUME NEW b \in Callers, Begin(b), NEW c \in Callers, Ordinary(c), left[c] > 0
  PROVE  CallerDid[b] = CallerDid[c]
<1>1. OrdinaryHolds(b) = {}
  BY DEF Begin, Refused, MustWait, KeptByCallers, Ordinary
<1> QED BY <1>1 DEF OrdinaryHolds, Other

\* Signing in settles for the identity of every ordinary hold there is.
LEMMA HeldStep == TypeOK /\ HeldForItsIdentity /\ [Next]_vars => HeldForItsIdentity'
<1> SUFFICES ASSUME TypeOK, HeldForItsIdentity, [Next]_vars,
                    NEW c \in Callers, Ordinary(c), left'[c] > 0
             PROVE  /\ session' \in {CallerDid[c], NoDid}
                    /\ connecting' # NoCaller => CallerDid[connecting'] = CallerDid[c]
  BY DEF HeldForItsIdentity, Ordinary, Background
<1> USE CallersOK, TimesOK
<1>1. CASE left[c] > 0
  <2> USE <1>1
  <2>1. /\ session \in {CallerDid[c], NoDid}
        /\ connecting # NoCaller => CallerDid[connecting] = CallerDid[c]
    BY DEF HeldForItsIdentity
  <2>2. ASSUME NEW b \in Callers, Begin(b) PROVE session' \in {CallerDid[c], NoDid} /\ connecting' = b
    BY <2>1, <2>2 DEF Begin
  <2>3. ASSUME NEW b \in Callers, Begin(b) PROVE CallerDid[b] = CallerDid[c]
    BY <2>3, BeginsWhenFree
  <2>4. ASSUME NEW b \in Callers, SignedIn(b)
        PROVE  session' = CallerDid[c] /\ connecting' = NoCaller
    BY <2>1, <2>4 DEF SignedIn
  <2>5. ASSUME NEW b \in Callers, SignInFails(b)
        PROVE  session' = session /\ connecting' = NoCaller
    BY <2>5 DEF SignInFails
  <2>6. \/ UNCHANGED <<session, connecting>>
        \/ \E b \in Callers : Begin(b) \/ SignedIn(b) \/ SignInFails(b)
    BY DEF Next, vars, claims, Settle, Drop, Tick, Call, Refuse, Wait, Finish, WhenFree, PollAgain
  <2> QED BY <2>1, <2>2, <2>3, <2>4, <2>5, <2>6
<1>2. CASE left[c] = 0
  <2> USE <1>2
  <2>1. \E b \in Callers : SignedIn(b) /\ left' # left
    <3>1. ASSUME NEW b \in Callers, Finish(b) PROVE left'[c] = 0
      BY <3>1 DEF Finish, TypeOK
    <3>2. CASE Tick
      BY <3>2 DEF Tick, Less
    <3> QED BY <3>1, <3>2
            DEF Next, vars, claims, Settle, Drop, Call, Refuse, Wait, Begin, SignInFails, WhenFree, PollAgain
  <2>2. PICK b \in Callers : SignedIn(b) /\ left' # left
    BY <2>1
  <2>3. b = c
    BY <2>2 DEF SignedIn, TakeHold, TypeOK
  <2> QED BY <2>2, <2>3 DEF SignedIn
<1> QED BY <1>1, <1>2 DEF TypeOK

\* While an ordinary hold is live, for however many callers and identities, nothing signs
\* the session in as another identity (holding).
THEOREM SessionIsHeld == Spec => []HeldForItsIdentity
<1>1. Init => HeldForItsIdentity
  BY DEF Init, HeldForItsIdentity
<1> QED BY <1>1, TypeInit, TypeStep, HeldStep, PTL DEF Spec
=============================================================================
