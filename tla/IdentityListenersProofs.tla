----------------------- MODULE IdentityListenersProofs -----------------------
(***************************************************************************)
(* Proofs about IdentityListeners, for any number of identities, sessions  *)
(* and mishaps: an identity never has two listeners that nobody stops, and *)
(* in the background only connections that no stop could wait for are left. *)
(***************************************************************************)
EXTENDS IdentityListeners, TLAPS

-----------------------------------------------------------------------------
(* The inductive invariant.                                                *)

\* A listener nobody stops has a socket only in start() or after it, and is the one the map
\* names for its identity from then on. One that was stopped has a socket only if the stop
\* could not wait for the connection it was making.
Fits(e, r, named) ==
  r.owner = "listener" =>
    /\ r.fn = "opening" => ~r.halted
    /\ r.halted /\ ~r.overran => r.sock \notin {"coming", "open"}
    /\ ~r.halted /\ r.fn \in {"opening", "over"} => r.sock = "none"
    /\ ~r.halted /\ r.stopping = "no" /\ r.fn \in {"starting", "up"} => named = e[2]

Shape == sess \in [Ids -> Session] /\ running \in [Dids -> Slots \cup {NoSlot}]
InMap == Shape /\ \A e \in Ids : Fits(e, sess[e], running[e[1]])

-----------------------------------------------------------------------------
(* Values.                                                                 *)

\* A pair of an identity and a slot.
LEMMA IdParts ==
  /\ \A e \in Ids : e[1] \in Dids /\ e[2] \in Slots /\ e[2] # NoSlot
  /\ \A e, f \in Ids : e[1] = f[1] /\ e[2] = f[2] => e = f
  /\ \A d \in Dids, s \in Slots : <<d, s>> \in Ids
  BY ConstantsOK DEF Ids, Slots, NoSlot

\* An empty slot is a session that is nothing.
LEMMA FreeFits == Free \in Session /\ \A e \in Ids, x \in Slots \cup {NoSlot} : Fits(e, Free, x)
<1>1. Free \in Session /\ Free.owner = "none"
  BY DEF Free, Session
<1> QED BY <1>1 DEF Fits

\* stop() halts a session, keeps whose it is and how far its function is.
LEMMA HaltedTyped ==
  ASSUME NEW r \in Session
  PROVE  /\ Halted(r) \in Session /\ Halted(r).halted /\ Halted(r).owner = r.owner
         /\ Halted(r).fn = r.fn /\ Halted(r).stopping = r.stopping /\ Halted(r).overran = r.overran
         /\ Halted(r).sock = IF r.sock = "coming" THEN "coming" ELSE "none"
  BY DEF Halted, Session

\* A stop that did not wait says so; the function of one that was up is over after it.
LEMMA StoppedTyped ==
  ASSUME NEW r \in Session
  PROVE  /\ Stopped(r) \in Session /\ Stopped(r).halted /\ Stopped(r).owner = r.owner /\ Stopped(r).fn = r.fn
         /\ Stopped(r).stopping = r.stopping /\ Stopped(r).sock = (IF r.sock = "coming" THEN "coming" ELSE "none")
         /\ Stopped(r).overran = (r.overran \/ (r.fn = "up" /\ r.sock = "coming"))
         /\ StoppedLate(r) \in Session /\ StoppedLate(r).halted /\ StoppedLate(r).owner = r.owner
         /\ StoppedLate(r).fn = r.fn /\ StoppedLate(r).stopping = r.stopping /\ StoppedLate(r).overran
<1> DEFINE h == Halted(r)
           was == r.overran \/ (r.fn = "up" /\ r.sock = "coming")
<1>1. /\ h \in Session /\ h.halted /\ h.owner = r.owner /\ h.fn = r.fn /\ h.stopping = r.stopping
      /\ h.sock = (IF r.sock = "coming" THEN "coming" ELSE "none") /\ h.overran = r.overran
  BY HaltedTyped
<1>2. was \in BOOLEAN
  BY DEF Session
<1>3. Stopped(r) = [h EXCEPT !.overran = was] /\ StoppedLate(r) = [h EXCEPT !.overran = TRUE]
  BY <1>1 DEF Stopped, StoppedLate, Session
<1> HIDE DEF h, was
<1>4. /\ [h EXCEPT !.overran = was] \in Session /\ [h EXCEPT !.overran = was].overran = was
      /\ [h EXCEPT !.overran = TRUE] \in Session /\ [h EXCEPT !.overran = TRUE].overran
  BY <1>1, <1>2 DEF Session
<1> QED BY <1>1, <1>3, <1>4 DEF Session, was

\* What is tidied up is as it was, or empty.
LEMMA TidyFits ==
  ASSUME NEW g \in [Ids -> Session], running' \in [Dids -> Slots \cup {NoSlot}],
         \A e \in Ids : Fits(e, g[e], running'[e[1]]),
         sess' = Tidy(g) \/ sess' = g
  PROVE  InMap'
<1>1. CASE sess' = g
  BY <1>1 DEF InMap, Shape
<1>2. CASE sess' = Tidy(g)
  <2>1. sess' = [e \in Ids |-> IF Gone(g[e]) THEN Free ELSE g[e]]
    BY <1>2 DEF Tidy
  <2>2. sess' \in [Ids -> Session]
    BY <2>1, FreeFits
  <2>3. ASSUME NEW e \in Ids PROVE Fits(e, sess'[e], running'[e[1]])
    BY <2>1, FreeFits, IdParts
  <2> QED BY <2>2, <2>3 DEF InMap, Shape
<1> QED BY <1>1, <1>2

\* One session changes, and fits.
LEMMA OneChanges ==
  ASSUME InMap, UNCHANGED running, NEW e \in Ids, NEW r \in Session, Fits(e, r, running[e[1]]),
         NEW g, g = [sess EXCEPT ![e] = r], sess' = Tidy(g) \/ sess' = g
  PROVE  InMap'
<1>1. g \in [Ids -> Session]
  BY DEF InMap, Shape
<1>2. ASSUME NEW f \in Ids PROVE Fits(f, g[f], running'[f[1]])
  BY DEF InMap, Shape
<1>3. running' \in [Dids -> Slots \cup {NoSlot}]
  BY DEF InMap, Shape
<1> QED BY <1>1, <1>2, <1>3, TidyFits

-----------------------------------------------------------------------------
(* Steps.                                                                  *)

\* A phone that just started has no listener.
LEMMA InMapInit == Init => InMap
<1> SUFFICES ASSUME Init PROVE InMap
  OBVIOUS
<1>1. Shape
  BY FreeFits DEF Init, Shape
<1> QED BY <1>1, FreeFits, IdParts DEF Init, InMap

\* stopOne: what leaves the map is halted, or marked as being stopped.
LEMMA StopsFit ==
  ASSUME InMap, NEW ds, NEW by \in {"guard", "reconcile"}, StopBegins(ds, by)
  PROVE  InMap'
<1> DEFINE stops == {<<d, running[d]>> : d \in {x \in ds : running[x] # NoSlot}}
           over(r) == [Stopped(r) EXCEPT !.fn = "over"]
           marked(r) == [r EXCEPT !.stopping = by]
           g == [e \in Ids |-> IF e \notin stops THEN sess[e]
                              ELSE IF sess[e].fn = "up" THEN over(sess[e]) ELSE marked(sess[e])]
<1>1. running' = [d \in Dids |-> IF d \in ds THEN NoSlot ELSE running[d]] /\ sess' = Tidy(g)
  BY DEF StopBegins
<1>2. ASSUME NEW r \in Session
      PROVE  /\ over(r) \in Session /\ over(r).halted /\ over(r).fn = "over"
             /\ r.fn = "up" => over(r).overran \/ over(r).sock = "none"
             /\ marked(r) \in Session /\ marked(r).stopping # "no" /\ marked(r).owner = r.owner
             /\ marked(r).halted = r.halted /\ marked(r).fn = r.fn /\ marked(r).sock = r.sock
             /\ marked(r).overran = r.overran
  <2>1. Stopped(r) \in Session /\ Stopped(r).halted /\ (r.fn = "up" => Stopped(r).overran \/ Stopped(r).sock = "none")
    BY StoppedTyped
  <2>2. /\ over(r) \in Session /\ over(r).halted /\ over(r).fn = "over"
        /\ over(r).overran = Stopped(r).overran /\ over(r).sock = Stopped(r).sock
    BY <2>1 DEF Session
  <2>3. /\ marked(r) \in Session /\ marked(r).stopping # "no" /\ marked(r).owner = r.owner
        /\ marked(r).halted = r.halted /\ marked(r).fn = r.fn /\ marked(r).sock = r.sock
        /\ marked(r).overran = r.overran
    BY DEF Session
  <2> HIDE DEF over, marked
  <2> QED BY <2>1, <2>2, <2>3
<1>3. \A e \in Ids : sess[e] \in Session
  BY DEF InMap, Shape
<1>4. g \in [Ids -> Session]
  BY <1>2, <1>3
<1>5. running' \in [Dids -> Slots \cup {NoSlot}]
  BY <1>1 DEF InMap, Shape
<1>6. ASSUME NEW e \in Ids PROVE Fits(e, g[e], running'[e[1]])
  <2> DEFINE r == sess[e]
  <2>0. r \in Session /\ Fits(e, r, running[e[1]]) /\ e[1] \in Dids
    BY <1>3, IdParts DEF InMap
  <2>1. CASE e \notin stops
    <3>1. e[1] \in ds => running[e[1]] # e[2]
      <4>1. e = <<e[1], e[2]>>
        BY DEF Ids
      <4> QED BY <2>1, <4>1, IdParts
    <3>2. g[e] = r /\ running'[e[1]] \in {NoSlot, running[e[1]]} /\ (e[1] \notin ds => running'[e[1]] = running[e[1]])
      BY <1>1, <2>0, <2>1
    <3> QED BY <2>0, <3>1, <3>2 DEF Fits
  <2>2. CASE e \in stops /\ r.fn = "up"
    <3>1. g[e] = over(r)
      BY <2>2
    <3> HIDE DEF over
    <3> QED BY <1>2, <2>0, <3>1 DEF Fits
  <2>3. CASE e \in stops /\ r.fn # "up"
    <3>1. g[e] = marked(r)
      BY <2>3
    <3> HIDE DEF marked
    <3> QED BY <1>2, <2>0, <3>1 DEF Fits
  <2> QED BY <2>1, <2>2, <2>3
<1> HIDE DEF g
<1> QED BY <1>1, <1>4, <1>5, <1>6, TidyFits

\* A slot is free to start a listener in: the map names it before its function begins.
LEMMA StartsFit == InMap /\ StartWanted => InMap'
<1> SUFFICES ASSUME InMap, StartWanted PROVE InMap'
  OBVIOUS
<1> DEFINE new == [Free EXCEPT !.owner = "listener", !.fn = "opening"]
           started(e) == e[1] \in ToStart /\ e[2] = FreeSlot(e[1])
<1>1. /\ running' = [d \in Dids |-> IF d \in ToStart THEN FreeSlot(d) ELSE running[d]]
      /\ sess' = [e \in Ids |-> IF started(e) THEN new ELSE sess[e]]
      /\ \A d \in ToStart : \E s \in Slots : sess[<<d, s>>] = Free
  BY DEF StartWanted
<1>2. \A d \in ToStart : FreeSlot(d) \in Slots
  BY <1>1 DEF FreeSlot
<1>3. new \in Session /\ new.fn = "opening" /\ new.sock = "none" /\ ~new.halted
  BY DEF Free, Session
<1>4. Shape'
  BY <1>1, <1>2, <1>3 DEF InMap, Shape
<1>5. ASSUME NEW e \in Ids PROVE Fits(e, sess'[e], running'[e[1]])
  <2>1. CASE started(e)
    BY <1>1, <1>3, <2>1 DEF Fits
  <2>2. CASE ~started(e)
    <3>1. sess'[e] = sess[e] /\ Fits(e, sess[e], running[e[1]])
      BY <1>1, <2>2 DEF InMap
    <3>2. CASE e[1] \in ToStart
      <4>1. running[e[1]] = NoSlot
        BY <3>2 DEF ToStart
      <4> QED BY <3>1, <4>1, IdParts DEF Fits
    <3>3. CASE e[1] \notin ToStart
      BY <1>1, <3>1, <3>3, IdParts
    <3> QED BY <3>2, <3>3
  <2> QED BY <2>1, <2>2
<1> QED BY <1>4, <1>5 DEF InMap

\* Whatever ends the awaits of stopOne, what it stopped is halted or was not started yet.
LEMMA StopEndsFits == ASSUME InMap, NEW e \in Ids, StopEnds(e) PROVE InMap'
<1> DEFINE r == IF sess[e].fn = "opening" THEN sess[e]
                ELSE IF sess[e].fn = "starting" THEN StoppedLate(sess[e]) ELSE Stopped(sess[e])
           q == [r EXCEPT !.stopping = "no", !.fn = IF @ = "up" THEN "over" ELSE @]
<1>1. sess[e] \in Session /\ Fits(e, sess[e], running[e[1]])
  BY DEF InMap, Shape
<1>2. /\ r \in Session /\ r.owner = sess[e].owner /\ r.fn = sess[e].fn
      /\ (r = sess[e] /\ r.fn = "opening") \/ (r.halted /\ r.fn # "opening")
      /\ r.owner = "listener" /\ r.fn # "opening" => r.overran \/ r.sock = "none"
  <2>1. CASE sess[e].fn = "opening"
    BY <1>1, <2>1
  <2>2. CASE sess[e].fn = "starting"
    <3>1. r = StoppedLate(sess[e])
      BY <2>2
    <3>2. /\ StoppedLate(sess[e]) \in Session /\ StoppedLate(sess[e]).owner = sess[e].owner
          /\ StoppedLate(sess[e]).fn = sess[e].fn /\ StoppedLate(sess[e]).halted /\ StoppedLate(sess[e]).overran
      BY <1>1, StoppedTyped
    <3> HIDE DEF r
    <3> QED BY <2>2, <3>1, <3>2
  <2>3. CASE sess[e].fn \notin {"opening", "starting"}
    <3>1. r = Stopped(sess[e])
      BY <2>3
    <3>2. /\ Stopped(sess[e]) \in Session /\ Stopped(sess[e]).owner = sess[e].owner
          /\ Stopped(sess[e]).fn = sess[e].fn /\ Stopped(sess[e]).halted
          /\ Stopped(sess[e]).overran = (sess[e].overran \/ (sess[e].fn = "up" /\ sess[e].sock = "coming"))
          /\ Stopped(sess[e]).sock = (IF sess[e].sock = "coming" THEN "coming" ELSE "none")
      BY <1>1, StoppedTyped
    <3>3. sess[e].owner = "listener" /\ sess[e].sock = "coming" => sess[e].fn = "up" \/ sess[e].overran
      BY <1>1, <2>3 DEF Fits, Session
    <3> HIDE DEF r
    <3> QED BY <2>3, <3>1, <3>2, <3>3
  <2> QED BY <2>1, <2>2, <2>3
<1>3. UNCHANGED running /\ sess' = Tidy([sess EXCEPT ![e] = q])
  BY DEF StopEnds, manager, InMap, Shape
<1> HIDE DEF r
<1>4. q \in Session /\ q.owner = r.owner /\ q.halted = r.halted /\ q.sock = r.sock /\ q.overran = r.overran
      /\ q.fn = IF r.fn = "up" THEN "over" ELSE r.fn
  BY <1>2 DEF Session
<1> HIDE DEF q
<1>5. Fits(e, q, running[e[1]])
  BY <1>1, <1>2, <1>4 DEF Fits
<1> QED BY <1>3, <1>4, <1>5, OneChanges

\* The catch of startOne: the session leaves the map, and its function is over.
LEMMA FailingFits ==
  ASSUME InMap, NEW e \in Ids, NEW r \in Session, Failing(e, r),
         r.owner = "listener" => r.sock = "none" \/ (r.halted /\ r.overran)
  PROVE  InMap'
<1> DEFINE q == [r EXCEPT !.fn = "over"]
           g == [sess EXCEPT ![e] = q]
<1>1. q \in Session /\ q.owner = r.owner /\ q.fn = "over" /\ q.halted = r.halted /\ q.sock = r.sock /\ q.overran = r.overran
  BY DEF Session
<1>2. sess' = Tidy(g) /\ running' = IF running[e[1]] = e[2] THEN [running EXCEPT ![e[1]] = NoSlot] ELSE running
  BY DEF Failing
<1> HIDE DEF q
<1>3. g \in [Ids -> Session]
  BY <1>1 DEF InMap, Shape
<1>4. running' \in [Dids -> Slots \cup {NoSlot}]
  BY <1>2 DEF InMap, Shape
<1>5. ASSUME NEW f \in Ids PROVE Fits(f, g[f], running'[f[1]])
  <2>1. CASE f = e
    <3>1. g[f] = q
      BY <2>1 DEF InMap, Shape
    <3> QED BY <1>1, <3>1 DEF Fits
  <2>2. CASE f # e
    <3>1. g[f] = sess[f] /\ Fits(f, sess[f], running[f[1]])
      BY <2>2 DEF InMap, Shape
    <3>2. running[f[1]] = f[2] => running'[f[1]] = f[2]
      BY <1>2, <2>2, IdParts DEF InMap, Shape
    <3> QED BY <3>1, <3>2 DEF Fits
  <2> QED BY <2>1, <2>2
<1> HIDE DEF g
<1> QED BY <1>2, <1>3, <1>4, <1>5, TidyFits

\* open() of a listener resolves or fails, and so does its start().
LEMMA OpeningFits ==
  ASSUME InMap, NEW e \in Ids, Opened(e) \/ OpenFails(e) \/ StartFails(e)
  PROVE  InMap'
<1>1. sess[e] \in Session /\ Fits(e, sess[e], running[e[1]])
  BY DEF InMap, Shape
<1>2. CASE Opened(e)
  <2> DEFINE begun == [sess[e] EXCEPT !.fn = "starting", !.sock = "coming"]
             ended == [Halted(sess[e]) EXCEPT !.fn = "over"]
  <2>1. /\ begun \in Session /\ begun.fn = "starting" /\ begun.halted = sess[e].halted
        /\ begun.owner = sess[e].owner /\ sess[e].fn = "opening"
    BY <1>1, <1>2 DEF Session, Opened
  <2>2. ended \in Session /\ ended.halted /\ ended.fn = "over" /\ (ended.owner = "listener" => ended.sock = "none")
    <3>1. /\ Halted(sess[e]) \in Session /\ Halted(sess[e]).halted /\ Halted(sess[e]).owner = sess[e].owner
          /\ Halted(sess[e]).sock = (IF sess[e].sock = "coming" THEN "coming" ELSE "none")
      BY <1>1, HaltedTyped
    <3>2. sess[e].owner = "listener" => sess[e].sock = "none"
      BY <1>1, <2>1 DEF Fits
    <3> QED BY <3>1, <3>2 DEF Session
  <2>3. UNCHANGED running
    BY <1>2 DEF Opened, manager
  <2>4. CASE running[e[1]] = e[2]
    <3>1. sess' = Tidy([sess EXCEPT ![e] = begun])
      BY <1>2, <2>4 DEF Opened, InMap, Shape
    <3>2. Fits(e, begun, running[e[1]])
      BY <1>1, <2>1, <2>4 DEF Fits
    <3> HIDE DEF begun
    <3> QED BY <2>1, <2>3, <3>1, <3>2, OneChanges
  <2>5. CASE running[e[1]] # e[2]
    <3>1. sess' = Tidy([sess EXCEPT ![e] = ended])
      BY <1>2, <2>5 DEF Opened, InMap, Shape
    <3>2. Fits(e, ended, running[e[1]])
      BY <2>2 DEF Fits
    <3> HIDE DEF ended
    <3> QED BY <2>2, <2>3, <3>1, <3>2, OneChanges
  <2> QED BY <2>4, <2>5
<1>3. CASE OpenFails(e)
  <2>1. sess[e].fn = "opening" /\ Failing(e, sess[e])
    BY <1>3 DEF OpenFails
  <2>2. sess[e].owner = "listener" => sess[e].sock = "none"
    BY <1>1, <2>1 DEF Fits
  <2> QED BY <1>1, <2>1, <2>2, FailingFits
<1>4. CASE StartFails(e)
  <2> DEFINE closed == [sess[e] EXCEPT !.sock = "none"]
  <2>1. closed \in Session /\ closed.sock = "none"
    BY <1>1 DEF Session
  <2>2. StoppedLate(sess[e]) \in Session /\ StoppedLate(sess[e]).halted /\ StoppedLate(sess[e]).overran
    BY <1>1, StoppedTyped
  <2>3. Failing(e, closed) \/ Failing(e, StoppedLate(sess[e]))
    BY <1>4 DEF StartFails
  <2> HIDE DEF closed
  <2> QED BY <2>1, <2>2, <2>3, FailingFits
<1> QED BY <1>2, <1>3, <1>4

\* A socket opens, and the mediator ends the other ones of the identity.
LEMMA SocketFits == ASSUME InMap, NEW e \in Ids, SocketOpens(e) PROVE InMap'
<1> DEFINE up(r) == [r EXCEPT !.sock = "open", !.fn = IF @ = "starting" THEN "up" ELSE @]
           ended(r) == [r EXCEPT !.sock = "closed"]
<1>1. /\ sess[e].sock = "coming" /\ UNCHANGED running /\ sess' = Tidy(Newest(e))
  BY DEF SocketOpens
<1>2. ASSUME NEW r \in Session
      PROVE  /\ up(r) \in Session /\ up(r).owner = r.owner /\ up(r).halted = r.halted
             /\ up(r).stopping = r.stopping /\ up(r).overran = r.overran
             /\ up(r).fn = IF r.fn = "starting" THEN "up" ELSE r.fn
             /\ ended(r) \in Session /\ ended(r).owner = r.owner /\ ended(r).halted = r.halted
             /\ ended(r).stopping = r.stopping /\ ended(r).overran = r.overran
             /\ ended(r).fn = r.fn /\ ended(r).sock = "closed"
  BY DEF Session
<1>3. /\ Newest(e)[e] = up(sess[e])
      /\ \A f \in Ids : f # e => Newest(e)[f] = sess[f] \/ (sess[f].sock = "open" /\ Newest(e)[f] = ended(sess[f]))
      /\ Newest(e) = [f \in Ids |-> Newest(e)[f]]
  BY DEF Newest
<1> HIDE DEF up, ended
<1>4. \A f \in Ids : sess[f] \in Session /\ Fits(f, sess[f], running[f[1]])
  BY DEF InMap, Shape
<1>5. Newest(e) \in [Ids -> Session]
  BY <1>2, <1>3, <1>4
<1>6. ASSUME NEW f \in Ids PROVE Fits(f, Newest(e)[f], running'[f[1]])
  <2>1. CASE f = e
    BY <1>1, <1>2, <1>3, <1>4, <2>1 DEF Fits
  <2>2. CASE f # e
    BY <1>1, <1>2, <1>3, <1>4, <2>2 DEF Fits
  <2> QED BY <2>1, <2>2
<1>7. running' \in [Dids -> Slots \cup {NoSlot}]
  BY <1>1 DEF InMap, Shape
<1> QED BY <1>1, <1>5, <1>6, <1>7, TidyFits

\* A socket ends, or is replaced.
LEMMA ReopenFits == ASSUME InMap, NEW e \in Ids, Drop(e) \/ Reopen(e) PROVE InMap'
<1> DEFINE with(s) == [sess[e] EXCEPT !.sock = s]
<1>1. sess[e] \in Session /\ Fits(e, sess[e], running[e[1]])
  BY DEF InMap, Shape
<1>2. \A s \in {"none", "closed", "coming"} :
        /\ with(s) \in Session /\ with(s).owner = sess[e].owner /\ with(s).halted = sess[e].halted
        /\ with(s).fn = sess[e].fn /\ with(s).stopping = sess[e].stopping /\ with(s).sock = s
        /\ with(s).overran = sess[e].overran
  BY <1>1 DEF Session
<1>3. UNCHANGED running
  BY DEF Drop, Reopen, manager
<1> HIDE DEF with
<1>4. CASE Drop(e)
  <2>1. PICK s \in {"none", "closed"} : sess' = Tidy([sess EXCEPT ![e] = with(s)]) /\ (s = "closed" => sess[e].sock = "open")
    <3>1. sess' = Tidy([sess EXCEPT ![e] = with(IF sess[e].sock = "open" THEN "closed" ELSE "none")])
      BY <1>4 DEF Drop, InMap, Shape, with
    <3> QED BY <3>1
  <2>2. Fits(e, with(s), running[e[1]])
    BY <1>1, <1>2, <2>1 DEF Fits
  <2> QED BY <1>2, <1>3, <2>1, <2>2, OneChanges
<1>5. CASE Reopen(e)
  <2>1. sess' = [sess EXCEPT ![e] = with("coming")]
    BY <1>5 DEF Reopen, InMap, Shape, with
  <2>2. (sess[e].fn = "up" /\ ~sess[e].halted) \/ sess[e].sock = "open"
    BY <1>5 DEF Reopen
  <2>3. Fits(e, with("coming"), running[e[1]])
    BY <1>1, <1>2, <2>2 DEF Fits
  <2> QED BY <1>2, <1>3, <2>1, <2>3, OneChanges
<1> QED BY <1>4, <1>5

\* The shared session changes no listener: what changes is not a listener's.
LEMMA OthersChange ==
  ASSUME InMap, UNCHANGED running, NEW g \in [Ids -> Session],
         \A e \in Ids : g[e] = sess[e] \/ g[e].owner # "listener",
         sess' = Tidy(g) \/ sess' = g
  PROVE  InMap'
<1>1. running' \in [Dids -> Slots \cup {NoSlot}]
  BY DEF InMap, Shape
<1>2. ASSUME NEW e \in Ids PROVE Fits(e, g[e], running'[e[1]])
  BY DEF InMap, Fits
<1> QED BY <1>1, <1>2, TidyFits

\* connectNow: letting go, signing in and failing.
LEMMA SharedFits ==
  ASSUME InMap, (\E d \in Dids : Go(d)) \/ Start \/ SignInFails
  PROVE  InMap'
<1>1. UNCHANGED running
  BY DEF Go, Start, SignInFails
<1>2. \A e \in Ids : sess[e] \in Session
  BY DEF InMap, Shape
<1>3. ASSUME NEW d \in Dids, Go(d) PROVE InMap'
  <2> DEFINE over(r) == [Stopped(r) EXCEPT !.fn = "over"]
             g == [e \in Ids |-> IF e \in SharedSessionOf(sess) THEN over(sess[e]) ELSE sess[e]]
  <2>1. sess' = Tidy(g)
    BY <1>3 DEF Go, LetGo
  <2>2. \A r \in Session : over(r) \in Session /\ over(r).owner = r.owner
    BY StoppedTyped DEF Session
  <2> HIDE DEF over
  <2>3. g \in [Ids -> Session]
    BY <1>2, <2>2
  <2>4. \A e \in Ids : g[e] = sess[e] \/ g[e].owner # "listener"
    BY <1>2, <2>2 DEF SharedSessionOf
  <2> HIDE DEF g
  <2> QED BY <1>1, <2>1, <2>3, <2>4, OthersChange
<1>4. CASE Start
  <2> DEFINE new == [Free EXCEPT !.owner = "shared", !.fn = "starting", !.sock = "coming"]
  <2>1. sess' = [sess EXCEPT ![<<who, FreeSlot(who)>>] = new]
    BY <1>4 DEF Start
  <2>2. new \in Session /\ new.owner = "shared"
    BY DEF Free, Session
  <2> HIDE DEF new
  <2>3. sess' \in [Ids -> Session]
    BY <1>2, <2>1, <2>2 DEF InMap, Shape
  <2>4. \A e \in Ids : sess'[e] = sess[e] \/ sess'[e].owner # "listener"
    BY <2>1, <2>2 DEF InMap, Shape
  <2> QED BY <1>1, <2>3, <2>4, OthersChange
<1>5. CASE SignInFails
  <2> DEFINE closed(r) == [r EXCEPT !.fn = "over", !.sock = "none"]
             g == [e \in Ids |-> IF sess[e].owner = "shared" /\ sess[e].fn = "starting"
                                THEN closed(sess[e]) ELSE sess[e]]
  <2>1. sess' = Tidy(g)
    BY <1>5 DEF SignInFails
  <2>2. \A r \in Session : closed(r) \in Session /\ closed(r).owner = r.owner
    BY DEF Session
  <2> HIDE DEF closed
  <2>3. g \in [Ids -> Session]
    BY <1>2, <2>2
  <2>4. \A e \in Ids : g[e] = sess[e] \/ g[e].owner # "listener"
    BY <1>2, <2>2
  <2> HIDE DEF g
  <2> QED BY <1>1, <2>1, <2>3, <2>4, OthersChange
<1> QED BY <1>3, <1>4, <1>5

\* Every step keeps a listener that nobody stops in the map.
LEMMA InMapStep == InMap /\ [Next]_vars => InMap'
<1> SUFFICES ASSUME InMap, [Next]_vars PROVE InMap'
  OBVIOUS
<1>1. CASE UNCHANGED <<sess, running>>
  BY <1>1 DEF InMap, Shape
<1>2. CASE Read
  BY <1>2, StopsFit DEF Read
<1>3. CASE Guard
  BY <1>3, StopsFit DEF Guard
<1>4. ASSUME (\E d \in Dids : SignIn(d)) \/ Look PROVE InMap'
  <2>1. \E d \in Dids : Go(d)
    BY <1>4, ConstantsOK DEF SignIn, Look
  <2> QED BY <2>1, SharedFits
<1>5. CASE ReadFails \/ Background \/ Foreground \/ Tick \/ (\E d \in Dids : RetryDue(d) \/ KeysHeld(d)) \/ UNCHANGED vars
  <2>1. UNCHANGED <<sess, running>>
    BY <1>5 DEF ReadFails, Background, Foreground, Tick, RetryDue, KeysHeld, vars, manager
  <2> QED BY <1>1, <2>1
<1> QED BY <1>2, <1>3, <1>4, <1>5, StartsFit, StopEndsFits, OpeningFits, SocketFits, ReopenFits, SharedFits
       DEF Next, Reconciler, SharedSession, Opening

\* In every behaviour the invariant holds.
LEMMA AlwaysInMap == Spec => []InMap
  BY InMapInit, InMapStep, PTL DEF Spec

-----------------------------------------------------------------------------
(* What follows.                                                           *)

\* The rest of the types.
Places ==
  /\ phase \in {"out", "resolving", "guarding", "starting", "in"}
  /\ who \in Dids \cup {NoDid} /\ target \in Dids \cup {NoDid}
  /\ waiting \subseteq Dids /\ wanted \subseteq Dids /\ mine \subseteq Dids
  /\ rec \in {"idle", "reading", "stopping"}
Switches == again \in BOOLEAN /\ paused \in BOOLEAN
Budget == happened \in 0..MaxHappens

\* What is read, reserved or waits for a retry are identities of the phone.
LEMMA PlacesStep == Places /\ [Next]_vars => Places'
<1> SUFFICES ASSUME Places, [Next]_vars PROVE Places'
  OBVIOUS
<1>1. CASE Read \/ StartWanted \/ Tick \/ ReadFails
  BY <1>1 DEF Places, Read, StartWanted, Tick, ReadFails, Reconciled, AskReconcile, Targets, shared
<1>2. CASE Guard \/ Start \/ SignInFails
  BY <1>2 DEF Places, Guard, Start, SignInFails, AskReconcile
<1>3. CASE (\E d \in Dids : SignIn(d)) \/ Look
  <2>1. PICK d \in Dids : Go(d)
    BY <1>3, ConstantsOK DEF SignIn, Look
  <2> QED BY <2>1 DEF Places, Go, AskReconcile
<1>4. CASE Background \/ Foreground \/ UNCHANGED vars
  BY <1>4 DEF Places, Background, Foreground, AskReconcile, vars, shared, manager
<1>5. ASSUME NEW d \in Dids, KeysHeld(d) \/ RetryDue(d) PROVE Places'
  BY <1>5 DEF Places, KeysHeld, RetryDue, AskReconcile, shared
<1>6. ASSUME NEW e \in Ids, Opened(e) \/ StopEnds(e) \/ Drop(e) \/ Reopen(e) PROVE Places'
  BY <1>6 DEF Places, Opened, StopEnds, Drop, Reopen, shared, manager
<1>7. ASSUME NEW e \in Ids, SocketOpens(e) PROVE Places'
  BY <1>7 DEF Places, SocketOpens, AskReconcile, shared
<1>8. ASSUME NEW e \in Ids, OpenFails(e) \/ StartFails(e) PROVE Places'
  <2>1. \E r : Failing(e, r)
    BY <1>8 DEF OpenFails, StartFails
  <2> QED BY <2>1, IdParts DEF Places, Failing, shared
<1> QED BY <1>1, <1>2, <1>3, <1>4, <1>5, <1>6, <1>7, <1>8 DEF Next, Reconciler, SharedSession, Opening

\* A step sets a switch, clears it or leaves it.
LEMMA SwitchesStep == Switches /\ [Next]_vars => Switches'
<1> SUFFICES ASSUME Switches, [Next]_vars PROVE Switches'
  OBVIOUS
<1>1. again' = TRUE \/ again' = FALSE \/ again' = again
  BY DEF Next, Reconciler, SharedSession, Opening, Read, StartWanted, Tick, ReadFails, Guard, Start, SignInFails,
         SignIn, Look, Go, Background, Foreground, KeysHeld, RetryDue, Opened, StopEnds, Drop, Reopen,
         SocketOpens, OpenFails, StartFails, Failing, Reconciled, AskReconcile, vars, manager
<1>2. paused' = TRUE \/ paused' = FALSE \/ paused' = paused
  BY DEF Next, Reconciler, SharedSession, Opening, Read, StartWanted, Tick, ReadFails, Guard, Start, SignInFails,
         SignIn, Look, Go, Background, Foreground, KeysHeld, RetryDue, Opened, StopEnds, Drop, Reopen,
         SocketOpens, OpenFails, StartFails, Failing, vars, manager
<1> QED BY <1>1, <1>2 DEF Switches

\* Mishaps are counted up to their bound.
LEMMA BudgetStep == Budget /\ [Next]_vars => Budget'
<1> SUFFICES ASSUME Budget, [Next]_vars PROVE Budget'
  OBVIOUS
<1>1. UNCHANGED happened \/ \E what : Happens(what)
  BY DEF Next, Reconciler, SharedSession, Opening, Read, StartWanted, Tick, ReadFails, Guard, Start, SignInFails,
         SignIn, Look, Background, Foreground, KeysHeld, RetryDue, Opened, StopEnds, Drop, Reopen,
         SocketOpens, OpenFails, StartFails, vars
<1> QED BY <1>1, ConstantsOK DEF Budget, Happens

\* Every reachable state has the shape of the source's map, sessions and timers.
THEOREM TypeCorrect == Spec => []TypeOK
<1>1. Init => Places
  BY ConstantsOK DEF Init, Places
<1>2. Init => Switches
  BY DEF Init, Switches
<1>3. Init => Budget
  BY ConstantsOK DEF Init, Budget
<1>4. InMap /\ Places /\ Switches /\ Budget => TypeOK
  BY DEF InMap, Shape, Places, Switches, Budget, TypeOK
<1> QED BY <1>1, <1>2, <1>3, <1>4, AlwaysInMap, PlacesStep, SwitchesStep, BudgetStep, PTL DEF Spec

\* A listener with a socket that nobody stops is in the map.
LEMMA AliveIsInMap ==
  ASSUME InMap, NEW d \in Dids, NEW e \in Listeners(d), Alive(e), sess[e].stopping = "no"
  PROVE  e \in Ids /\ e[1] = d /\ running[d] = e[2]
  BY DEF InMap, Shape, Fits, Listeners, Alive, Connecting, Session

\* However reconciles, sign-ins, retries and failures interleave, an identity never has two
\* listeners that nobody stops (running, reconcileOnce, startOne).
THEOREM OneListenerEach == Spec => []OneListener
<1>1. InMap => OneListener
  <2> SUFFICES ASSUME InMap, NEW d \in Dids, NEW e \in Listeners(d), NEW f \in Listeners(d),
                      Alive(e), Alive(f), sess[e].stopping = "no", sess[f].stopping = "no"
               PROVE  e = f
    BY DEF OneListener
  <2>1. e \in Ids /\ e[1] = d /\ running[d] = e[2]
    BY AliveIsInMap
  <2>2. f \in Ids /\ f[1] = d /\ running[d] = f[2]
    BY AliveIsInMap
  <2> QED BY <2>1, <2>2, IdParts
<1> QED BY <1>1, AlwaysInMap, PTL

\* In the background the map is empty, from the read of the reconcile that closes the
\* listeners, unless that one is to be followed by another.
QuietMap ==
  paused /\ (rec = "idle" \/ (rec = "stopping" /\ ~again)) => \A d \in Dids : running[d] = NoSlot

\* Only a reconcile of an app in the foreground fills the map.
LEMMA QuietStep == InMap /\ QuietMap /\ [Next]_vars => QuietMap'
<1> SUFFICES ASSUME InMap, QuietMap, [Next]_vars PROVE QuietMap'
  OBVIOUS
<1>1. ASSUME AskReconcile, UNCHANGED paused, \A d \in Dids : running'[d] \in {running[d], NoSlot}
      PROVE  QuietMap'
  BY <1>1 DEF AskReconcile, QuietMap
<1>2. ASSUME UNCHANGED <<rec, again, paused>>, \A d \in Dids : running'[d] \in {running[d], NoSlot}
      PROVE  QuietMap'
  BY <1>2 DEF QuietMap
<1>3. CASE Read
  <2>1. paused => Targets = {}
    BY DEF Targets
  <2> QED BY <1>3, <2>1 DEF Read, StopBegins, QuietMap
<1>4. CASE ReadFails
  BY <1>4 DEF ReadFails, QuietMap
<1>5. CASE StartWanted
  <2>1. paused => ToStart = {}
    BY DEF ToStart
  <2> QED BY <1>5, <2>1 DEF StartWanted, Reconciled, QuietMap
<1>6. CASE Guard
  <2>1. \A d \in Dids : running'[d] \in {running[d], NoSlot}
    BY <1>6 DEF Guard, StopBegins
  <2> QED BY <1>2, <1>6, <2>1 DEF Guard
<1>7. ASSUME NEW e \in Ids, OpenFails(e) \/ StartFails(e) PROVE QuietMap'
  <2>1. \E r : Failing(e, r)
    BY <1>7 DEF OpenFails, StartFails
  <2>2. \A d \in Dids : running'[d] \in {running[d], NoSlot}
    BY <2>1 DEF Failing, InMap, Shape
  <2> QED BY <1>2, <2>1, <2>2 DEF Failing
<1>8. ASSUME NEW e \in Ids, Opened(e) \/ SocketOpens(e) \/ StopEnds(e) \/ Drop(e) \/ Reopen(e) PROVE QuietMap'
  <2>1. UNCHANGED <<running, paused>>
    BY <1>8 DEF Opened, SocketOpens, StopEnds, Drop, Reopen, manager
  <2>2. AskReconcile \/ UNCHANGED <<rec, again>>
    BY <1>8 DEF Opened, SocketOpens, StopEnds, Drop, Reopen, manager
  <2> QED BY <1>1, <1>2, <2>1, <2>2
<1>9. CASE Background \/ Foreground
  BY <1>9 DEF Background, Foreground, AskReconcile, QuietMap
<1>10. CASE Tick \/ SignInFails \/ Start \/ (\E d \in Dids : Go(d) \/ RetryDue(d) \/ KeysHeld(d)) \/ UNCHANGED vars
  <2>1. UNCHANGED <<running, paused>> /\ (AskReconcile \/ UNCHANGED <<rec, again>>)
    BY <1>10 DEF Tick, SignInFails, Start, Go, RetryDue, KeysHeld, vars, manager
  <2> QED BY <1>1, <1>2, <2>1
<1>11. ASSUME (\E d \in Dids : SignIn(d)) \/ Look PROVE \E d \in Dids : Go(d)
  BY <1>11, ConstantsOK DEF SignIn, Look
<1> QED BY <1>3, <1>4, <1>5, <1>6, <1>7, <1>8, <1>9, <1>10, <1>11 DEF Next, Reconciler, SharedSession, Opening

\* In the background, once the reconcile that closes the listeners is over, one has or gets a
\* socket only if its stop could not wait for the connection it was making: a reopen, or a
\* start() past its deadline (stopOne, startOne; "close them all before the app suspends").
THEOREM BackgroundIsQuiet == Spec => []PausedIsQuiet
<1>1. Init => QuietMap
  BY DEF Init, QuietMap
<1>2. InMap /\ QuietMap => PausedIsQuiet
  <2> SUFFICES ASSUME InMap, QuietMap, paused, rec = "idle", NEW d \in Dids, NEW e \in Listeners(d),
                      Connecting(e), sess[e].stopping = "no", ~sess[e].overran
               PROVE  FALSE
    BY DEF PausedIsQuiet
  <2>1. ~sess[e].halted /\ sess[e].owner # "none"
    BY DEF InMap, Fits, Listeners, Connecting
  <2>2. e \in Ids /\ running[d] = e[2]
    BY <2>1, AliveIsInMap DEF Alive
  <2> QED BY <2>2, IdParts DEF QuietMap
<1> QED BY <1>1, <1>2, AlwaysInMap, QuietStep, PTL DEF Spec
=============================================================================
