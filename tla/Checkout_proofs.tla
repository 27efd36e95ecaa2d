--------------------------- MODULE Checkout_proofs ---------------------------
(***************************************************************************)
(* Type correctness of Checkout, the exclusion its lock gives while nobody *)
(* cancels (one request past the lock, and no two payable sessions of a    *)
(* member outside the skew), and what a cancel leaves behind.              *)
(***************************************************************************)
EXTENDS Checkout, TLAPS

USE CheckoutAssumption

\* Type correctness of every behaviour of createCheckoutSession, cancelCheckout
\* and the checkout webhooks.
THEOREM TypeCorrect == Spec => []TypeOK
<1>1. Init => TypeOK
  BY DEF Init, TypeOK, Session, Job, noSession, idle
<1>2. TypeOK /\ [Next]_vars => TypeOK'
  <2> SUFFICES ASSUME TypeOK, [Next]_vars PROVE TypeOK'
    OBVIOUS
  <2> USE DEF TypeOK
  <2>n. now \in Nat
    OBVIOUS
  <2>1. ASSUME NEW r \in Tab, StartCheckout(r) PROVE TypeOK'
    <3>1. [idle EXCEPT !.pc = "clearLapsed", !.startedAt = now] \in Job
      BY <2>n DEF idle, Job
    <3> QED BY <2>1, <3>1 DEF StartCheckout, Request
  <2>2. ASSUME NEW r \in Tab, CheckoutStep(r) PROVE TypeOK'
    <3> r \in Request /\ Caller[r] \in Member
      BY DEF Request
    <3>1. CASE ClearLapsed(r)
      <4>1. [job[r] EXCEPT !.pc = "reserve", !.asOf = now] \in Job
        BY <2>n DEF Job
      <4>2. job' = [job EXCEPT ![r] = [job[r] EXCEPT !.pc = "reserve", !.asOf = now]]
        BY <3>1 DEF ClearLapsed
      <4>3. reservation' \in [Member -> Reservation \cup {None}]
        BY <3>1 DEF ClearLapsed, ReleaseOf
      <4> QED BY <3>1, <4>1, <4>2, <4>3 DEF ClearLapsed
    <3>2. CASE Reserve(r)
      <4>1. reservationExpiry(job[r].asOf) \in Nat
        BY DEF reservationExpiry, Job
      <4>2. reservation' \in [Member -> Reservation \cup {None}]
        BY <3>2, <4>1 DEF Reserve, Reservation
      <4> QED BY <3>2, <4>2 DEF Reserve, Job, idle
    <3>3. CASE \E s \in SessionId : CreateSession(r, s) \/ CreateSessionAnswerLost(r, s)
      <4>1. checkoutSessionExpiresAt(reservationExpiry(job[r].asOf)) \in Nat
        BY DEF checkoutSessionExpiresAt, reservationExpiry, Job
      <4>2. ASSUME NEW s \in SessionId, NewSession(s, r)
            PROVE  session' \in [SessionId -> Session]
        BY <4>1, <4>2 DEF NewSession, Session
      <4> QED BY <3>3, <4>2 DEF CreateSession, CreateSessionAnswerLost, Job
    <3>4. CASE CreateSessionFails(r)
      BY <3>4 DEF CreateSessionFails, Job
    <3>5. CASE ReleaseAfterError(r)
      BY <3>5 DEF ReleaseAfterError, ReleaseOf, Job, idle
    <3>6. CASE AttachSession(r)
      <4>1. reservation' \in [Member -> Reservation \cup {None}]
        <5>1. job[r].session \in SessionId \cup {None}
          BY DEF Job
        <5>2. CASE reservation[Caller[r]] = None
          BY <3>6, <5>2 DEF AttachSession
        <5>3. CASE reservation[Caller[r]] # None
          <6>1. [reservation[Caller[r]] EXCEPT !.stripeSessionId = job[r].session] \in Reservation
            BY <5>1, <5>3 DEF Reservation
          <6> QED BY <3>6, <5>3, <6>1 DEF AttachSession
        <5> QED BY <5>2, <5>3
      <4>2. session' \in [SessionId -> Session]
        <5>1. \A x \in Session : [x EXCEPT !.handed = TRUE] \in Session
          BY ZenonT(30) DEF Session
        <5>2. session' = [session EXCEPT ![job[r].session] =
                           [session[job[r].session] EXCEPT !.handed = TRUE]]
          BY <3>6 DEF AttachSession
        <5> QED BY <5>1, <5>2
      <4> QED BY <3>6, <4>1, <4>2 DEF AttachSession, Job, idle
    <3> QED BY <2>2, <3>1, <3>2, <3>3, <3>4, <3>5, <3>6 DEF CheckoutStep
  <2>3. ASSUME NEW r \in Canceller, StartCancel(r) PROVE TypeOK'
    <3> r \in Request /\ Caller[r] \in Member
      BY DEF Request
    <3> DEFINE lock == reservation[Caller[r]]
               attached == IF lock = None THEN None ELSE lock.stripeSessionId
               begun == [idle EXCEPT !.pc = IF attached = None THEN "release" ELSE "readStatus",
                                     !.startedAt = now, !.session = attached]
    <3>1. attached \in SessionId \cup {None}
      BY DEF Reservation
    <3>2. begun \in Job
      BY <2>n, <3>1 DEF idle, Job
    <3>3. job' = [job EXCEPT ![r] = begun]
      BY <2>3 DEF StartCancel
    <3> QED BY <2>3, <3>2, <3>3 DEF StartCancel
  <2>4. ASSUME NEW r \in Canceller, CancelStep(r) PROVE TypeOK'
    <3> r \in Request /\ Caller[r] \in Member
      BY DEF Request
    <3>1. CASE ReadSessionStatus(r)
      BY <3>1 DEF ReadSessionStatus, Job, idle
    <3>2. CASE ExpireAbandonedSession(r)
      <4>1. session' \in [SessionId -> Session]
        BY <3>2 DEF ExpireAbandonedSession, Session
      <4> QED BY <3>2, <4>1 DEF ExpireAbandonedSession, Job
    <3>3. CASE ReleaseOnCancel(r)
      BY <3>3 DEF ReleaseOnCancel, ReleaseOf, Job, idle
    <3> QED BY <2>4, <3>1, <3>2, <3>3 DEF CancelStep
  <2>5. ASSUME NEW r \in Request, Crash(r) PROVE TypeOK'
    BY <2>5 DEF Crash, Job, idle
  <2>6. ASSUME NEW s \in SessionId, Stripe(s) PROVE TypeOK'
    <3>1. CASE releaseCheckoutReservation(s)
      BY <3>1 DEF releaseCheckoutReservation, ReleaseFor
    <3>2. CASE DeliverSubscription(s)
      BY <3>2 DEF DeliverSubscription, Session
    <3>3. CASE Pay(s) \/ StripeExpires(s) \/ SubscriptionEnds(s)
      BY <3>3 DEF Pay, StripeExpires, SubscriptionEnds, Session
    <3> QED BY <2>6, <3>1, <3>2, <3>3 DEF Stripe
  <2>7. CASE Tick
    BY <2>7 DEF Tick
  <2>8. CASE UNCHANGED vars
    BY <2>8 DEF vars
  <2> QED BY <2>1, <2>2, <2>3, <2>4, <2>5, <2>6, <2>7, <2>8 DEF Next
<1> QED BY <1>1, <1>2, PTL DEF Spec

-----------------------------------------------------------------------------
(* Exclusion.  The lock of a request past it cannot lapse while the request *)
(* lives, nobody else removes it, and a session that can be paid is the one *)
(* its member's lock names until the lock lapses.                           *)

LockOf(r) ==
  [expiresAt |-> reservationExpiry(job[r].asOf), stripeSessionId |-> None]

\* A request in flight is young, and read the clock after it started.
Young ==
  \A r \in Tab : ~ At(r, "idle") =>
    /\ now <= job[r].startedAt + RequestLimit
    /\ job[r].startedAt <= now
    /\ ~ At(r, "clearLapsed") => job[r].startedAt <= job[r].asOf /\ job[r].asOf <= now

Holders ==
  \A r \in Tab : Holding(r) => reservation[Caller[r]] = LockOf(r)

Exclusive ==
  \A r1, r2 \in Tab :
    r1 # r2 /\ Caller[r1] = Caller[r2] => ~ (Holding(r1) /\ Holding(r2))

Attaching ==
  \A r \in Tab : At(r, "attach") =>
    /\ job[r].session \in SessionId
    /\ session[job[r].session].status # "none"
    /\ ~ session[job[r].session].handed
    /\ session[job[r].session].member = Caller[r]
    /\ session[job[r].session].expiresAt =
         checkoutSessionExpiresAt(reservationExpiry(job[r].asOf))

Covered(s) ==
  LET m == session[s].member
  IN  session[s].handed /\ session[s].status = "open" =>
        /\ m \in Member
        /\ \/ now + Skew >= session[s].expiresAt
           \/ /\ reservation[m] # None
              /\ reservation[m].stripeSessionId = s
              /\ reservation[m].expiresAt + Skew = session[s].expiresAt

AllCovered == \A s \in SessionId : Covered(s)

IInv == TypeOK /\ Young /\ Holders /\ Exclusive /\ Attaching /\ AllCovered

LEMMA InitInv == Init => IInv
<1> SUFFICES ASSUME Init PROVE IInv
  OBVIOUS
<1>1. TypeOK
  BY DEF Init, TypeOK, Session, Job, noSession, idle
<1>2. \A r \in Tab : job[r].pc = "idle"
  BY DEF Init, Request, idle
<1>3. \A s \in SessionId : ~ session[s].handed
  BY DEF Init, noSession
<1> QED BY <1>1, <1>2, <1>3
  DEF IInv, Young, Holders, Exclusive, Attaching, AllCovered, Covered, Holding, At

\* The lock of a request past it has not lapsed.
LEMMA HeldIsLive ==
  ASSUME IInv, NEW r \in Tab, Holding(r)
  PROVE  reservation[Caller[r]] # None /\ reservation[Caller[r]].expiresAt > now
<1>0. job[r].asOf \in Nat
  BY DEF IInv, TypeOK, Job, Request
<1>1. reservation[Caller[r]] = LockOf(r) /\ LockOf(r) \in Reservation
  <2>1. reservation[Caller[r]] = LockOf(r)
    BY DEF IInv, Holders
  <2> QED BY <1>0, <2>1 DEF LockOf, Reservation, reservationExpiry
<1>2. /\ now <= job[r].startedAt + RequestLimit
      /\ job[r].startedAt <= job[r].asOf
  BY DEF IInv, Young, Holding, At
<1>3. now \in Nat /\ job[r].startedAt \in Nat /\ job[r].asOf \in Nat
  BY DEF IInv, TypeOK, Job, Request
<1>4. reservation[Caller[r]].expiresAt = job[r].asOf + TTL
  BY <1>1 DEF LockOf, reservationExpiry
<1> QED BY <1>1, <1>2, <1>3, <1>4, NullReservationAssumption

\* One step of one request.
LEMMA CheckoutStepInv ==
  ASSUME IInv, TypeOK', NEW r \in Tab, CheckoutStep(r)
  PROVE  Young' /\ Holders' /\ Exclusive' /\ Attaching' /\ AllCovered'
<1> DEFINE m == Caller[r]
<1>r. r \in Request /\ m \in Member /\ Tab \subseteq Request
  BY DEF Request
<1>t. /\ now \in Nat
      /\ job \in [Request -> Job]
      /\ reservation \in [Member -> Reservation \cup {None}]
      /\ session \in [SessionId -> Session]
  BY DEF IInv, TypeOK
<1>o. \A q \in Tab : q # r => job'[q] = job[q]
  BY <1>r, <1>t DEF CheckoutStep, ClearLapsed, Reserve, CreateSession, CreateSessionAnswerLost,
      CreateSessionFails, ReleaseAfterError, AttachSession
<1>n. now' = now
  BY DEF CheckoutStep, ClearLapsed, Reserve, CreateSession, CreateSessionAnswerLost,
      CreateSessionFails, ReleaseAfterError, AttachSession
<1>i. Young /\ Holders /\ Exclusive /\ Attaching /\ AllCovered
  BY DEF IInv
<1>1. CASE ClearLapsed(r)
  <2>1. job'[r] = [job[r] EXCEPT !.pc = "reserve", !.asOf = now] /\ session' = session
    BY <1>1, <1>r, <1>t DEF ClearLapsed
  <2>2. \A q \in Tab : Holding(q)' <=> Holding(q)
    BY <1>1, <1>o, <1>r, <1>t, <2>1 DEF Holding, ClearLapsed, At, Job
  <2>3. \A q \in Tab : Holding(q) => q # r
    BY <1>1 DEF Holding, ClearLapsed, At
  <2>4. Young'
    BY <1>1, <1>i, <1>n, <1>o, <1>r, <1>t, <2>1 DEF Young, At, Job, ClearLapsed
  <2>5. \A q \in Tab : Holding(q) => reservation'[Caller[q]] = reservation[Caller[q]]
    BY <1>1, <1>r, <1>t, HeldIsLive DEF ClearLapsed, ReleaseOf, Reservation
  <2>6. Holders'
    BY <1>i, <1>o, <2>2, <2>3, <2>5 DEF Holders, LockOf, reservationExpiry
  <2>7. Exclusive'
    BY <1>i, <2>2 DEF Exclusive
  <2>8. Attaching'
    BY <1>i, <1>o, <2>1, <1>t, <1>r DEF Attaching, At, Job
  <2>9. AllCovered'
    <3> SUFFICES ASSUME NEW s \in SessionId, session[s].handed, session[s].status = "open"
                 PROVE  Covered(s)'
      BY <2>1 DEF AllCovered, Covered
    <3>1. Covered(s) /\ session[s].member \in Member
      BY <1>i DEF AllCovered, Covered
    <3>2. CASE reservation'[session[s].member] = reservation[session[s].member]
      BY <3>1, <3>2, <2>1, <1>n DEF Covered
    <3>3. CASE reservation'[session[s].member] # reservation[session[s].member]
      <4>1. session[s].member = m /\ reservation[m] # None /\ reservation[m].expiresAt <= now
        <5>1. reservation' = [reservation EXCEPT ![m] = None] \/ reservation' = reservation
          BY <1>1 DEF ClearLapsed, ReleaseOf
        <5>2. reservation[m] # None /\ reservation[m].expiresAt <= now
          BY <1>1, <3>3 DEF ClearLapsed
        <5> QED BY <5>1, <5>2, <3>1, <3>3, <1>t, <1>r
      <4>2. reservation[m].expiresAt \in Nat /\ session[s].expiresAt \in Nat
        BY <4>1, <1>t, <1>r DEF Reservation, Session
      <4> QED BY <3>1, <4>1, <4>2, <1>t, <2>1, <1>n DEF Covered
    <3> QED BY <3>2, <3>3
  <2> QED BY <2>4, <2>6, <2>7, <2>8, <2>9
<1>2. CASE Reserve(r)
  <2>1. session' = session
    BY <1>2 DEF Reserve
  <2>2. CASE reservation[m] = None
    <3>1. job'[r] = [job[r] EXCEPT !.pc = "createSession"]
      BY <1>2, <2>2, <1>r, <1>t DEF Reserve
    <3>2. /\ reservation'[m] = LockOf(r)
          /\ \A n \in Member : n # m => reservation'[n] = reservation[n]
      BY <1>2, <2>2, <1>r, <1>t DEF Reserve, LockOf
    <3>3. LockOf(r)' = LockOf(r) /\ \A q \in Tab : q # r => LockOf(q)' = LockOf(q)
      BY <3>1, <1>o, <1>r, <1>t DEF LockOf, Job, reservationExpiry
    <3>4. \A q \in Tab : Holding(q) => Caller[q] # m
      BY <2>2, HeldIsLive
    <3>5. \A q \in Tab : Holding(q)' => q = r \/ Holding(q)
      BY <1>o DEF Holding
    <3>6. Young'
      BY <1>2, <1>i, <1>n, <1>o, <1>r, <1>t, <3>1 DEF Young, At, Job, Reserve
    <3>7. Holders'
      BY <1>i, <3>2, <3>3, <3>4, <3>5, <1>r DEF Holders, Request
    <3>8. Exclusive'
      BY <1>i, <3>4, <3>5 DEF Exclusive
    <3>9. Attaching'
      BY <1>i, <1>o, <2>1, <3>1, <1>t, <1>r DEF Attaching, At, Job
    <3>10. AllCovered'
      <4> SUFFICES ASSUME NEW s \in SessionId PROVE Covered(s)'
        BY DEF AllCovered
      <4>1. Covered(s)
        BY <1>i DEF AllCovered
      <4> QED BY <4>1, <3>2, <2>2, <2>1, <1>n DEF Covered
    <3> QED BY <3>6, <3>7, <3>8, <3>9, <3>10
  <2>3. CASE reservation[m] # None
    <3>1. job'[r] = idle /\ reservation' = reservation
      BY <1>2, <2>3, <1>r, <1>t DEF Reserve
    <3>2. ~ Holding(r)' /\ ~ At(r, "attach")' /\ At(r, "idle")'
      BY <3>1 DEF Holding, At, idle
    <3>3. Young'
      BY <1>i, <1>n, <1>o, <3>2 DEF Young, At
    <3>4. Holders' /\ Exclusive' /\ Attaching'
      BY <1>i, <1>o, <3>1, <3>2, <2>1 DEF Holders, Exclusive, Attaching, Holding, At, LockOf
    <3>5. AllCovered'
      BY <1>i, <3>1, <2>1, <1>n DEF AllCovered, Covered
    <3> QED BY <3>3, <3>4, <3>5
  <2> QED BY <2>2, <2>3
<1>3. CASE \E s \in SessionId : CreateSession(r, s) \/ CreateSessionAnswerLost(r, s)
  <2> PICK t \in SessionId : CreateSession(r, t) \/ CreateSessionAnswerLost(r, t)
    BY <1>3
  <2> USE DEF CreateSession, CreateSessionAnswerLost
  <2>1. /\ NewSession(t, r) /\ session[t].status = "none"
        /\ reservation' = reservation
        /\ At(r, "createSession")
        /\ job'[r].asOf = job[r].asOf /\ job'[r].startedAt = job[r].startedAt
        /\ \/ job'[r].pc = "attach" /\ job'[r].session = t
           \/ job'[r].pc = "releaseAfterError"
    BY <1>r, <1>t DEF Job
  <2>2. \A q \in Tab : Holding(q)' <=> Holding(q)
    BY <2>1, <1>o DEF Holding, At
  <2>3. \A q \in Tab : LockOf(q)' = LockOf(q)
    BY <2>1, <1>o DEF LockOf, reservationExpiry
  <2>4. Young'
    BY <1>i, <1>n, <1>o, <2>1 DEF Young, At
  <2>5. Holders' /\ Exclusive'
    BY <1>i, <2>1, <2>2, <2>3 DEF Holders, Exclusive
  <2>6. /\ session'[t].status = "open" /\ ~ session'[t].handed /\ session'[t].member = m
        /\ session'[t].expiresAt =
             checkoutSessionExpiresAt(reservationExpiry(job'[r].asOf))
        /\ \A s \in SessionId : s # t => session'[s] = session[s]
    BY <2>1, <1>t DEF NewSession
  <2>7. Attaching'
    <3> SUFFICES ASSUME NEW q \in Tab, At(q, "attach")' PROVE Attaching!(q)!2'
      BY DEF Attaching
    <3>1. CASE q = r
      BY <3>1, <2>1, <2>6 DEF At
    <3>2. CASE q # r
      <4>1. At(q, "attach") /\ job'[q] = job[q]
        BY <1>o, <3>2 DEF At
      <4> QED BY <4>1, <1>i, <2>1, <2>6 DEF Attaching
    <3> QED BY <3>1, <3>2
  <2>8. AllCovered'
    BY <1>i, <2>1, <2>6, <1>n DEF AllCovered, Covered
  <2> QED BY <2>4, <2>5, <2>7, <2>8
<1>4. CASE CreateSessionFails(r)
  <2>1. /\ reservation' = reservation /\ session' = session
        /\ job'[r] = [job[r] EXCEPT !.pc = "releaseAfterError"]
        /\ At(r, "createSession")
    BY <1>4, <1>r, <1>t DEF CreateSessionFails
  <2>2. \A q \in Tab : (Holding(q)' <=> Holding(q)) /\ LockOf(q)' = LockOf(q)
    BY <2>1, <1>o, <1>r, <1>t DEF Holding, At, LockOf, Job
  <2>3. Young'
    BY <1>i, <1>n, <1>o, <1>r, <1>t, <2>1 DEF Young, At, Job
  <2>4. Holders' /\ Exclusive'
    BY <1>i, <2>1, <2>2 DEF Holders, Exclusive
  <2>5. Attaching' /\ AllCovered'
    BY <1>i, <2>1, <1>o, <1>n, <1>r, <1>t DEF Attaching, AllCovered, Covered, At, Job
  <2> QED BY <2>3, <2>4, <2>5
<1>5. CASE ReleaseAfterError(r)
  <2>1. /\ session' = session /\ job'[r] = idle /\ Holding(r)
        /\ reservation'[m] = None
        /\ \A n \in Member : n # m => reservation'[n] = reservation[n]
    BY <1>5, <1>r, <1>t DEF ReleaseAfterError, ReleaseOf, Holding, At
  <2>2. ~ Holding(r)' /\ ~ At(r, "attach")' /\ At(r, "idle")'
    BY <2>1 DEF Holding, At, idle
  <2>3. Young'
    BY <1>i, <1>n, <1>o, <2>2 DEF Young, At
  <2>4. \A q \in Tab : Holding(q)' => q # r /\ Holding(q) /\ Caller[q] # m /\ LockOf(q)' = LockOf(q)
    BY <1>i, <1>o, <2>1, <2>2 DEF Holding, Exclusive, LockOf
  <2>5. Holders'
    BY <1>i, <2>1, <2>4 DEF Holders, Request
  <2>6. Exclusive'
    BY <1>i, <2>4 DEF Exclusive
  <2>7. Attaching'
    BY <1>i, <1>o, <2>1, <2>2 DEF Attaching, At
  <2>8. AllCovered'
    <3> SUFFICES ASSUME NEW s \in SessionId PROVE Covered(s)'
      BY DEF AllCovered
    <3>1. Covered(s)
      BY <1>i DEF AllCovered
    <3>2. reservation[m] = LockOf(r)
      BY <1>i, <2>1 DEF Holders
    <3>3. reservation[m].stripeSessionId # s
      BY <3>2 DEF LockOf
    <3> QED BY <3>1, <3>3, <2>1, <1>n DEF Covered
  <2> QED BY <2>3, <2>5, <2>6, <2>7, <2>8
<1>6. CASE AttachSession(r)
  <2> DEFINE t == job[r].session
  <2>1. At(r, "attach") /\ Holding(r) /\ job'[r] = idle
    BY <1>6, <1>r, <1>t DEF AttachSession, Holding, At
  <2>2. /\ t \in SessionId /\ session[t].member = m
        /\ session[t].expiresAt = checkoutSessionExpiresAt(reservationExpiry(job[r].asOf))
    BY <1>i, <2>1 DEF Attaching
  <2>3. reservation[m] = LockOf(r) /\ reservation[m] # None
    BY <1>i, <2>1, HeldIsLive DEF Holders
  <2>4. /\ reservation'[m] # None
        /\ reservation'[m].stripeSessionId = t
        /\ reservation'[m].expiresAt = reservationExpiry(job[r].asOf)
        /\ \A n \in Member : n # m => reservation'[n] = reservation[n]
    <3>1. reservation'[m] = [LockOf(r) EXCEPT !.stripeSessionId = t]
      BY <1>6, <2>3, <1>r, <1>t DEF AttachSession
    <3>2. \A n \in Member : n # m => reservation'[n] = reservation[n]
      BY <1>6, <1>r, <1>t DEF AttachSession
    <3>3. [LockOf(r) EXCEPT !.stripeSessionId = t] \in Reservation
      BY <1>r, <1>t, <2>2 DEF LockOf, Reservation, reservationExpiry, Job
    <3> QED BY <3>1, <3>2, <3>3, NullReservationAssumption DEF LockOf
  <2>5. /\ session'[t].status = session[t].status
        /\ session'[t].member = m
        /\ session'[t].expiresAt = session[t].expiresAt
        /\ \A s \in SessionId : s # t => session'[s] = session[s]
    BY <1>6, <2>2, <1>t DEF AttachSession, Session
  <2>6. ~ Holding(r)' /\ ~ At(r, "attach")' /\ At(r, "idle")'
    BY <2>1 DEF Holding, At, idle
  <2>7. Young'
    BY <1>i, <1>n, <1>o, <2>6 DEF Young, At
  <2>8. \A q \in Tab : Holding(q)' => q # r /\ Holding(q) /\ Caller[q] # m /\ LockOf(q)' = LockOf(q)
    BY <1>i, <1>o, <2>1, <2>6 DEF Holding, Exclusive, LockOf
  <2>9. Holders'
    BY <1>i, <2>4, <2>8 DEF Holders, Request
  <2>10. Exclusive'
    BY <1>i, <2>8 DEF Exclusive
  <2>11. Attaching'
    <3> SUFFICES ASSUME NEW q \in Tab, At(q, "attach")' PROVE Attaching!(q)!2'
      BY DEF Attaching
    <3>1. q # r /\ job'[q] = job[q] /\ At(q, "attach") /\ Holding(q)
      BY <1>o, <2>6 DEF At, Holding
    <3>2. Caller[q] # m
      BY <1>i, <2>1, <3>1 DEF Exclusive
    <3>3. job[q].session \in SessionId /\ job[q].session # t
      BY <1>i, <3>1, <3>2, <2>2 DEF Attaching
    <3> QED BY <1>i, <3>1, <3>3, <2>5 DEF Attaching
  <2>12. AllCovered'
    <3> SUFFICES ASSUME NEW s \in SessionId PROVE Covered(s)'
      BY DEF AllCovered
    <3>1. CASE s = t
      BY <3>1, <2>2, <2>4, <2>5, <1>r DEF Covered, checkoutSessionExpiresAt
    <3>2. CASE s # t
      <4>1. Covered(s)
        BY <1>i DEF AllCovered
      <4>2. reservation[m].stripeSessionId # s
        BY <2>3 DEF LockOf
      <4> QED BY <3>2, <4>1, <4>2, <2>4, <2>5, <1>n DEF Covered
    <3> QED BY <3>1, <3>2
  <2> QED BY <2>7, <2>9, <2>10, <2>11, <2>12
<1> QED BY <1>1, <1>2, <1>3, <1>4, <1>5, <1>6 DEF CheckoutStep

\* Every other step, while nobody cancels.
LEMMA StepInv ==
  ASSUME Canceller = {}, IInv, TypeOK', [Next]_vars
  PROVE  IInv'
<1>t. /\ now \in Nat
      /\ job \in [Request -> Job]
      /\ reservation \in [Member -> Reservation \cup {None}]
      /\ session \in [SessionId -> Session]
      /\ Tab \subseteq Request
  BY DEF IInv, TypeOK, Request
<1>i. Young /\ Holders /\ Exclusive /\ Attaching /\ AllCovered
  BY DEF IInv
<1>1. ASSUME NEW r \in Tab, StartCheckout(r) PROVE IInv'
  <2>1. /\ now' = now /\ reservation' = reservation /\ session' = session
        /\ job'[r] = [idle EXCEPT !.pc = "clearLapsed", !.startedAt = now]
        /\ \A q \in Tab : q # r => job'[q] = job[q]
    BY <1>1, <1>t DEF StartCheckout
  <2>2. /\ job'[r].pc = "clearLapsed" /\ job'[r].startedAt = now
    BY <2>1 DEF idle
  <2>3. Young'
    <3> SUFFICES ASSUME NEW q \in Tab, ~ At(q, "idle")' PROVE Young!(q)!2'
      BY DEF Young
    <3>1. CASE q = r
      <4>1. now <= now + RequestLimit /\ now <= now
        BY <1>t
      <4>2. now' = now /\ job'[q].pc = "clearLapsed" /\ job'[q].startedAt = now
        BY <2>1, <2>2, <3>1
      <4> QED BY <4>1, <4>2 DEF At
    <3>2. CASE q # r
      <4>1. now' = now /\ job'[q] = job[q] /\ ~ At(q, "idle")
        BY <2>1, <3>2 DEF At
      <4> QED BY <1>i, <4>1 DEF Young, At
    <3> QED BY <3>1, <3>2
  <2>4. Holders' /\ Exclusive' /\ Attaching'
    BY <1>i, <2>1, <2>2 DEF Holders, Exclusive, Attaching, Holding, At, LockOf
  <2>5. AllCovered'
    BY <1>i, <2>1 DEF AllCovered, Covered
  <2> QED BY <2>3, <2>4, <2>5 DEF IInv
<1>2. ASSUME NEW r \in Tab, CheckoutStep(r) PROVE IInv'
  BY <1>2, CheckoutStepInv DEF IInv
<1>3. ASSUME NEW r \in Request, Crash(r) PROVE IInv'
  <2>1. /\ now' = now /\ reservation' = reservation /\ session' = session
        /\ job'[r].pc = "idle"
        /\ \A q \in Tab : q # r => job'[q] = job[q]
    BY <1>3, <1>t DEF Crash, idle
  <2>2. Young'
    BY <1>i, <2>1 DEF Young, At
  <2>3. Holders' /\ Exclusive' /\ Attaching'
    BY <1>i, <2>1 DEF Holders, Exclusive, Attaching, Holding, At, LockOf
  <2>4. AllCovered'
    BY <1>i, <2>1 DEF AllCovered, Covered
  <2> QED BY <2>2, <2>3, <2>4 DEF IInv
<1>4. ASSUME NEW s \in SessionId, Stripe(s) PROVE IInv'
  <2>1. now' = now /\ job' = job
    BY <1>4 DEF Stripe, releaseCheckoutReservation, DeliverSubscription, Pay, StripeExpires,
                SubscriptionEnds
  <2>2. Young' /\ Exclusive'
    BY <1>i, <2>1 DEF Young, Exclusive, Holding, At
  <2>3. CASE releaseCheckoutReservation(s)
    <3>1. /\ session' = session /\ session[s].status # "open"
          /\ \A m \in Member :
               \/ reservation'[m] = reservation[m]
               \/ reservation[m].stripeSessionId = s
      BY <2>3, <1>t DEF releaseCheckoutReservation, ReleaseFor
    <3>2. Holders'
      <4> SUFFICES ASSUME NEW r \in Tab, Holding(r) PROVE reservation'[Caller[r]] = LockOf(r)
        BY <2>1 DEF Holders, Holding, At, LockOf
      <4>1. reservation[Caller[r]] = LockOf(r) /\ LockOf(r).stripeSessionId = None
        BY <1>i DEF Holders, LockOf
      <4> QED BY <3>1, <4>1, <1>t
    <3>3. Attaching'
      BY <1>i, <2>1, <3>1 DEF Attaching, At
    <3>4. AllCovered'
      BY <1>i, <2>1, <3>1 DEF AllCovered, Covered
    <3> QED BY <2>2, <3>2, <3>3, <3>4 DEF IInv
  <2>4. CASE DeliverSubscription(s)
    <3>1. session' = session /\ reservation' = reservation
      BY <2>4 DEF DeliverSubscription
    <3> QED BY <1>i, <2>1, <2>2, <3>1
        DEF IInv, Holders, Attaching, AllCovered, Covered, Holding, At, LockOf
  <2>5. CASE Pay(s) \/ StripeExpires(s) \/ SubscriptionEnds(s)
    <3>1. /\ reservation' = reservation
          /\ session'[s].status = session[s].status \/ session'[s].status # "none"
          /\ session'[s].status = "open" => session[s].status = "open"
          /\ session'[s].handed = session[s].handed
          /\ session'[s].member = session[s].member
          /\ session'[s].expiresAt = session[s].expiresAt
          /\ \A u \in SessionId : u # s => session'[u] = session[u]
      <4>1. CASE Pay(s)
        BY <4>1, <1>t DEF Pay, Session
      <4>2. CASE StripeExpires(s)
        BY <4>2, <1>t DEF StripeExpires, Session
      <4>3. CASE SubscriptionEnds(s)
        BY <4>3, <1>t DEF SubscriptionEnds, Session
      <4> QED BY <2>5, <4>1, <4>2, <4>3
    <3>2. Holders'
      BY <1>i, <2>1, <3>1 DEF Holders, Holding, At, LockOf
    <3>3. Attaching'
      BY <1>i, <2>1, <3>1 DEF Attaching, At
    <3>4. AllCovered'
      BY <1>i, <2>1, <3>1 DEF AllCovered, Covered
    <3> QED BY <2>2, <3>2, <3>3, <3>4 DEF IInv
  <2> QED BY <1>4, <2>3, <2>4, <2>5 DEF Stripe
<1>5. CASE Tick
  <2>1. /\ now' = now + 1
        /\ reservation' = reservation /\ session' = session /\ job' = job
    BY <1>5 DEF Tick
  <2>2. \A r \in Tab : At(r, "idle") \/ now < job[r].startedAt + RequestLimit
    BY <1>5, <1>t DEF Tick
  <2>3. Young'
    <3> SUFFICES ASSUME NEW r \in Tab, ~ At(r, "idle") PROVE Young!(r)!2'
      BY <2>1 DEF Young, At
    <3>1. job[r].startedAt \in Nat /\ job[r].asOf \in Nat
      BY <1>t DEF Job
    <3> QED BY <1>i, <1>t, <2>1, <2>2, <3>1 DEF Young, At
  <2>4. Holders' /\ Exclusive' /\ Attaching'
    BY <1>i, <2>1 DEF Holders, Exclusive, Attaching, Holding, At, LockOf
  <2>5. AllCovered'
    <3> SUFFICES ASSUME NEW s \in SessionId PROVE Covered(s)'
      BY DEF AllCovered
    <3>1. Covered(s) /\ session[s].expiresAt \in Nat
      BY <1>i, <1>t DEF AllCovered, Session
    <3> QED BY <2>1, <3>1, <1>t DEF Covered
  <2> QED BY <2>3, <2>4, <2>5 DEF IInv
<1>6. CASE UNCHANGED vars
  BY <1>6, <1>i DEF vars, IInv, Young, Holders, Exclusive, Attaching, AllCovered, Covered,
                    Holding, At, LockOf
<1> QED BY <1>1, <1>2, <1>3, <1>4, <1>5, <1>6 DEF Next

LEMMA Invariance ==
  ASSUME Canceller = {}
  PROVE  Spec => []IInv
<1>1. IInv /\ TypeOK' /\ [Next]_vars => IInv'
  BY StepInv
<1> QED BY <1>1, InitInv, TypeCorrect, PTL DEF Spec

\* However many tabs a member opens, and whatever fails or dies, at most one of
\* its requests is past the lock taken by reserveCheckout.
THEOREM LockExcludes == Spec => []OneHolder
<1>1. CASE Canceller = {}
  <2>1. IInv => OneHolder
    BY DEF IInv, Exclusive, OneHolder
  <2> QED BY <1>1, <2>1, Invariance, PTL
<1>2. CASE Canceller # {}
  <2>1. OneHolder
    BY <1>2 DEF OneHolder
  <2> QED BY <2>1, PTL
<1> QED BY <1>1, <1>2

\* Until it attaches or gives up, a request keeps the very lock it took.
THEOREM LockIsKept == Spec => []HolderKeepsLock
<1>1. CASE Canceller = {}
  <2>1. IInv => HolderKeepsLock
    BY DEF IInv, Holders, HolderKeepsLock, LockOf
  <2> QED BY <1>1, <2>1, Invariance, PTL
<1>2. CASE Canceller # {}
  <2>1. HolderKeepsLock
    BY <1>2 DEF HolderKeepsLock
  <2> QED BY <2>1, PTL
<1> QED BY <1>1, <1>2

\* Two sessions of one member can both be paid only in the last Skew of one of
\* them, whatever the length of the TTL and of the skew.
THEOREM OverlapBounded == Spec => []OverlapOnlyInSkew
<1>1. CASE Canceller = {}
  <2>1. IInv => OverlapOnlyInSkew
    <3> SUFFICES ASSUME IInv,
                        NEW s1 \in SessionId, NEW s2 \in SessionId, s1 # s2,
                        Payable(s1), Payable(s2), session[s1].member = session[s2].member
                 PROVE  \E s \in {s1, s2} : now + Skew >= session[s].expiresAt
      BY DEF OverlapOnlyInSkew
    <3>1. Covered(s1) /\ Covered(s2)
      BY DEF IInv, AllCovered
    <3> QED BY <3>1 DEF Covered, Payable
  <2> QED BY <1>1, <2>1, Invariance, PTL
<1>2. CASE Canceller # {}
  <2>1. OverlapOnlyInSkew
    BY <1>2 DEF OverlapOnlyInSkew
  <2> QED BY <2>1, PTL
<1> QED BY <1>1, <1>2

-----------------------------------------------------------------------------
(* Cancelling.  A lock, a request about to attach and a cancel name sessions *)
(* Stripe created, and a session that is closed stays closed.                *)

Created(s) == s \in SessionId /\ session[s].status # "none"

LocksNameCreated ==
  \A m \in Member : reservation[m] # None /\ reservation[m].stripeSessionId # None =>
    Created(reservation[m].stripeSessionId)

AttachingCreated == \A r \in Tab : At(r, "attach") => Created(job[r].session)

CancelInv(r) ==
  /\ At(r, "readStatus") \/ At(r, "expireSession") => Created(job[r].session)
  /\ At(r, "release") /\ job[r].session # None =>
       Created(job[r].session) /\ session[job[r].session].status # "open"

ClosingInv ==
  /\ TypeOK
  /\ LocksNameCreated
  /\ AttachingCreated
  /\ faults = 0 => \A r \in Canceller : CancelInv(r)

\* What Stripe created stays created, and what is no longer open stays closed.
LEMMA SessionsOnlyMoveOn ==
  ASSUME TypeOK, [Next]_vars, AttachingCreated
  PROVE  \A s \in SessionId :
           /\ Created(s) => Created(s)'
           /\ Created(s) /\ session[s].status # "open" => session'[s].status # "open"
<1> USE DEF Created, TypeOK
<1>1. ASSUME NEW r \in Tab, StartCheckout(r) \/ CheckoutStep(r)
      PROVE  \A s \in SessionId : session[s].status # "none" => session'[s].status = session[s].status
  <2> r \in Request
    BY DEF Request
  <2>1. ASSUME NEW x \in SessionId, CreateSession(r, x) \/ CreateSessionAnswerLost(r, x)
        PROVE  \A s \in SessionId : session[s].status # "none" => session'[s] = session[s]
    BY <2>1 DEF CreateSession, CreateSessionAnswerLost, NewSession
  <2>2. CASE AttachSession(r)
    <3>1. session' = [session EXCEPT ![job[r].session].handed = TRUE]
      BY <2>2 DEF AttachSession
    <3> QED BY <3>1 DEF Session
  <2> QED BY <1>1, <2>1, <2>2
          DEF StartCheckout, CheckoutStep, ClearLapsed, Reserve, CreateSessionFails, ReleaseAfterError
<1>2. ASSUME NEW r \in Canceller, StartCancel(r) \/ CancelStep(r)
      PROVE  \A s \in SessionId :
               \/ session'[s].status = session[s].status
               \/ session[s].status = "open" /\ session'[s].status = "expired"
  BY <1>2 DEF StartCancel, CancelStep, ReadSessionStatus, ExpireAbandonedSession, ReleaseOnCancel, Session
<1>3. ASSUME NEW x \in SessionId, Stripe(x)
      PROVE  \A s \in SessionId :
               \/ session'[s].status = session[s].status
               \/ session[s].status = "open" /\ session'[s].status \in {"complete", "expired"}
  BY <1>3 DEF Stripe, releaseCheckoutReservation, DeliverSubscription, Pay, Payable, StripeExpires,
              SubscriptionEnds, Session
<1>4. CASE Tick \/ (\E r \in Request : Crash(r)) \/ UNCHANGED vars
  BY <1>4 DEF Tick, Crash, vars
<1> QED BY <1>1, <1>2, <1>3, <1>4 DEF Next

LEMMA LocksAreNamed ==
  ASSUME ClosingInv, [Next]_vars
  PROVE  LocksNameCreated' /\ AttachingCreated'
<1> USE DEF TypeOK
<1>t. TypeOK /\ LocksNameCreated /\ AttachingCreated
  BY DEF ClosingInv
<1>s. \A s \in SessionId : Created(s) => Created(s)'
  BY <1>t, SessionsOnlyMoveOn
<1>c. \A x : Created(x) => Created(x)'
  BY <1>s DEF Created
<1>d. ASSUME \A m \in Member :
               \/ reservation'[m] = None
               \/ reservation'[m] = reservation[m]
               \/ reservation'[m].stripeSessionId = None
               \/ Created(reservation'[m].stripeSessionId)
      PROVE  LocksNameCreated'
  BY <1>t, <1>c, <1>d DEF LocksNameCreated
<1>j. ASSUME \A r \in Tab : At(r, "attach")' => job'[r] = job[r] \/ Created(job[r].session)'
      PROVE  AttachingCreated'
  BY <1>t, <1>c, <1>j DEF AttachingCreated, At
<1>1. ASSUME NEW r \in Tab, StartCheckout(r) PROVE LocksNameCreated' /\ AttachingCreated'
  BY <1>1, <1>t, <1>d, <1>j DEF StartCheckout, At, idle, Request
<1>2. ASSUME NEW r \in Tab, CheckoutStep(r) PROVE LocksNameCreated' /\ AttachingCreated'
  <2> r \in Request /\ Caller[r] \in Member
    BY DEF Request
  <2> USE <1>t
  <2>1. CASE ClearLapsed(r)
    BY <2>1, <1>d, <1>j DEF ClearLapsed, ReleaseOf, At, Request
  <2>2. CASE Reserve(r)
    <3>1. \A m \in Member : reservation'[m] = reservation[m] \/ reservation'[m].stripeSessionId = None
      BY <2>2 DEF Reserve
    <3>2. \A q \in Tab : job'[q] = job[q] \/ ~ At(q, "attach")'
      BY <2>2 DEF Reserve, At, Request, idle, Job
    <3> QED BY <3>1, <3>2, <1>d, <1>j
  <2>3. ASSUME NEW s \in SessionId, CreateSession(r, s) PROVE LocksNameCreated' /\ AttachingCreated'
    <3>1. session'[s].status = "open"
      BY <2>3 DEF CreateSession, NewSession
    <3>2. job' = [job EXCEPT ![r] = [job[r] EXCEPT !.pc = "attach", !.session = s]]
      BY <2>3 DEF CreateSession
    <3>3. \A q \in Tab : job'[q] = job[q] \/ job'[q].session = s
      BY <3>2 DEF Job, Request
    <3>4. UNCHANGED reservation
      BY <2>3 DEF CreateSession
    <3>5. Created(s)'
      BY <3>1 DEF Created
    <3> QED BY <3>3, <3>4, <3>5, <1>d, <1>j DEF Created
  <2>4. ASSUME NEW s \in SessionId, CreateSessionAnswerLost(r, s)
        PROVE  LocksNameCreated' /\ AttachingCreated'
    BY <2>4, <1>d, <1>j DEF CreateSessionAnswerLost, At, Request, Job
  <2>5. CASE CreateSessionFails(r) \/ ReleaseAfterError(r)
    BY <2>5, <1>d, <1>j DEF CreateSessionFails, ReleaseAfterError, ReleaseOf, At, Request, Job, idle
  <2>6. CASE AttachSession(r)
    <3>1. Created(job[r].session)
      BY <2>6 DEF AttachSession, AttachingCreated
    <3>2. \A m \in Member : \/ reservation'[m] = reservation[m]
                            \/ reservation'[m].stripeSessionId = job[r].session
      BY <2>6 DEF AttachSession, Reservation
    <3> QED BY <2>6, <3>1, <3>2, <1>d, <1>j DEF AttachSession, At, Request, idle
  <2> QED BY <1>2, <2>1, <2>2, <2>3, <2>4, <2>5, <2>6 DEF CheckoutStep
<1>3. ASSUME NEW r \in Canceller, StartCancel(r) \/ CancelStep(r)
      PROVE  LocksNameCreated' /\ AttachingCreated'
  <2>1. \A q \in Tab : job'[q] = job[q]
    BY <1>3, <1>t DEF StartCancel, CancelStep, ReadSessionStatus, ExpireAbandonedSession, ReleaseOnCancel,
                      Request
  <2>2. \A m \in Member : reservation'[m] = reservation[m] \/ reservation'[m] = None
    BY <1>3, <1>t DEF StartCancel, CancelStep, ReadSessionStatus, ExpireAbandonedSession, ReleaseOnCancel,
                      ReleaseOf
  <2> QED BY <2>1, <2>2, <1>d, <1>j
<1>4. ASSUME NEW r \in Request, Crash(r) PROVE LocksNameCreated' /\ AttachingCreated'
  BY <1>4, <1>t, <1>d, <1>j DEF Crash, At, idle, Request
<1>5. ASSUME NEW s \in SessionId, Stripe(s) PROVE LocksNameCreated' /\ AttachingCreated'
  <2>1. UNCHANGED job
    BY <1>5 DEF Stripe, releaseCheckoutReservation, DeliverSubscription, Pay, StripeExpires, SubscriptionEnds
  <2>2. \A m \in Member : reservation'[m] = reservation[m] \/ reservation'[m] = None
    BY <1>5 DEF Stripe, releaseCheckoutReservation, ReleaseFor, DeliverSubscription, Pay, StripeExpires,
                SubscriptionEnds
  <2> QED BY <2>1, <2>2, <1>d, <1>j
<1>6. CASE Tick \/ UNCHANGED vars
  BY <1>6, <1>d, <1>j DEF Tick, vars
<1> QED BY <1>1, <1>2, <1>3, <1>4, <1>5, <1>6 DEF Next

LEMMA CancelsNameCreated ==
  ASSUME ClosingInv, [Next]_vars, faults' = 0, NEW c \in Canceller
  PROVE  CancelInv(c)'
<1> USE DEF TypeOK
<1>t. TypeOK /\ LocksNameCreated /\ AttachingCreated /\ c \in Request /\ Caller[c] \in Member
  BY DEF ClosingInv, Request
<1>f. faults = 0
  <2>1. ASSUME NEW r \in Tab, StartCheckout(r) \/ CheckoutStep(r) PROVE faults' \in {faults, faults + 1}
    BY <2>1 DEF StartCheckout, CheckoutStep, ClearLapsed, Reserve, CreateSession, CreateSessionFails,
                CreateSessionAnswerLost, ReleaseAfterError, AttachSession
  <2>2. ASSUME NEW r \in Canceller, StartCancel(r) \/ CancelStep(r) PROVE faults' \in {faults, faults + 1}
    BY <2>2 DEF StartCancel, CancelStep, ReadSessionStatus, ExpireAbandonedSession, ReleaseOnCancel
  <2>3. ASSUME NEW s \in SessionId, Stripe(s) PROVE faults' = faults
    BY <2>3 DEF Stripe, releaseCheckoutReservation, DeliverSubscription, Pay, StripeExpires,
                SubscriptionEnds
  <2>4. faults' \in {faults, faults + 1}
    BY <2>1, <2>2, <2>3 DEF Next, Crash, Tick, vars
  <2> QED BY <2>4, <1>t
<1>i. CancelInv(c)
  BY <1>f DEF ClosingInv
<1>m. \A s \in SessionId :
        /\ Created(s) => Created(s)'
        /\ Created(s) /\ session[s].status # "open" => session'[s].status # "open"
  BY <1>t, SessionsOnlyMoveOn
<1>s. ASSUME job'[c] = job[c] PROVE CancelInv(c)'
  <2>1. Created(job[c].session) => job[c].session \in SessionId
    BY DEF Created
  <2>2. CASE At(c, "readStatus") \/ At(c, "expireSession")
    BY <1>s, <2>2, <1>i, <1>m, <2>1 DEF CancelInv, At, Created
  <2>3. CASE At(c, "release") /\ job[c].session # None
    BY <1>s, <2>3, <1>i, <1>m, <2>1 DEF CancelInv, At, Created
  <2> QED BY <1>s, <2>2, <2>3 DEF CancelInv, At
<1>n. ASSUME job'[c] = idle PROVE CancelInv(c)'
  BY <1>n DEF CancelInv, At, idle
<1>1. CASE StartCancel(c)
  <2> DEFINE lock == reservation[Caller[c]]
             attached == IF lock = None THEN None ELSE lock.stripeSessionId
  <2>1. job'[c] = [idle EXCEPT !.pc = IF attached = None THEN "release" ELSE "readStatus",
                               !.startedAt = now, !.session = attached]
    BY <1>1, <1>t DEF StartCancel
  <2>2. job'[c].session = attached /\ job'[c].pc = IF attached = None THEN "release" ELSE "readStatus"
    BY <2>1 DEF idle
  <2>3. attached # None => Created(attached)
    BY <1>t DEF LocksNameCreated
  <2>4. attached # None => attached \in SessionId /\ session'[attached].status # "none"
    BY <2>3, <1>1 DEF Created, StartCancel
  <2> QED BY <2>2, <2>4 DEF CancelInv, At, Created
<1>2. CASE ReadSessionStatus(c)
  <2>1. At(c, "readStatus") /\ Created(job[c].session) /\ UNCHANGED session
    BY <1>2, <1>i DEF ReadSessionStatus, CancelInv
  <2>2. \/ job'[c] = idle
        \/ job'[c] = [job[c] EXCEPT !.pc = "expireSession"]
        \/ /\ job'[c] = [job[c] EXCEPT !.pc = "release"]
           /\ session[job[c].session].status = "expired"
    BY <1>2, <1>t DEF ReadSessionStatus
  <2> QED BY <2>1, <2>2, <1>n, <1>t DEF CancelInv, At, Created, Job
<1>3. CASE ExpireAbandonedSession(c)
  <2> DEFINE s == job[c].session
  <2>1. Created(s)
    BY <1>3, <1>i DEF ExpireAbandonedSession, CancelInv
  <2>2. session' = [session EXCEPT ![s].status = IF @ = "open" THEN "expired" ELSE @]
    BY <1>3, <1>f DEF ExpireAbandonedSession
  <2>3. session'[s].status \notin {"none", "open"}
    BY <2>1, <2>2, <1>t DEF Created, Session
  <2>4. job'[c] = [job[c] EXCEPT !.pc = "release"]
    BY <1>3, <1>t DEF ExpireAbandonedSession
  <2>5. job'[c].pc = "release" /\ job'[c].session = s
    BY <2>4, <1>t DEF Job
  <2> QED BY <2>1, <2>3, <2>5 DEF CancelInv, At, Created
<1>4. CASE ReleaseOnCancel(c) \/ Crash(c)
  BY <1>4, <1>t, <1>n DEF ReleaseOnCancel, Crash
<1>5. ASSUME NEW r \in Tab, StartCheckout(r) \/ CheckoutStep(r) PROVE job'[c] = job[c]
  BY <1>5, <1>t DEF StartCheckout, CheckoutStep, ClearLapsed, Reserve, CreateSession,
     CreateSessionFails, CreateSessionAnswerLost, ReleaseAfterError, AttachSession
<1>6. ASSUME NEW r \in Request, r # c, StartCancel(r) \/ CancelStep(r) \/ Crash(r) PROVE job'[c] = job[c]
  BY <1>6, <1>t DEF StartCancel, CancelStep, ReadSessionStatus, ExpireAbandonedSession, ReleaseOnCancel, Crash
<1>7. ASSUME NEW x \in SessionId, Stripe(x) PROVE job'[c] = job[c]
  BY <1>7 DEF Stripe, releaseCheckoutReservation, DeliverSubscription, Pay, StripeExpires, SubscriptionEnds
<1>8. CASE Tick \/ UNCHANGED vars
  BY <1>8, <1>s DEF Tick, vars
<1>9. Canceller \subseteq Request
  BY DEF Request
<1> QED BY <1>s, <1>1, <1>2, <1>3, <1>4, <1>5, <1>6, <1>7, <1>8, <1>9 DEF Next, CancelStep

\* While no call fails, a cancel about to drop the lock has closed the session it
\* found, for any number of tabs, cancels and sessions (cancelCheckout).
THEOREM CancelCloses == Spec => []CancelClosesSession
<1>1. Init => LocksNameCreated /\ AttachingCreated /\ \A r \in Canceller : CancelInv(r)
  BY DEF Init, idle, At, LocksNameCreated, AttachingCreated, CancelInv, Request
<1>2. TypeOK /\ TypeOK' /\ ClosingInv /\ [Next]_vars => ClosingInv'
  BY LocksAreNamed, CancelsNameCreated DEF ClosingInv
<1>3. Init /\ TypeOK => ClosingInv
  BY <1>1 DEF ClosingInv
<1>4. ClosingInv => CancelClosesSession
  BY DEF ClosingInv, CancelInv, CancelClosesSession
<1> QED BY <1>2, <1>3, <1>4, TypeCorrect, PTL DEF Spec

=============================================================================
