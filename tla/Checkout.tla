------------------------------ MODULE Checkout ------------------------------
(***************************************************************************)
(* One checkout at a time: BillingService.createCheckoutSession and        *)
(* cancelCheckout, the CheckoutReservation row they share as a lock        *)
(* (checkout-reservation.ts), the webhook that releases it, and the Stripe *)
(* sessions the lock is meant to keep single.                              *)
(*                                                                         *)
(* Every awaited call is a step of its own.  A request that changes        *)
(* nothing (a refusal) is a guard that does not hold.                      *)
(***************************************************************************)
EXTENDS Naturals

CONSTANTS
  None,
  Member,
  SessionId,     \* the Stripe checkout sessions of a run
  Tab,           \* concurrent POST /billing/create-checkout-session requests
  Canceller,     \* concurrent POST /billing/cancel-checkout requests
  Caller,        \* the member behind a request
  TTL,           \* CHECKOUT_RESERVATION_TTL_MS
  Skew,          \* CHECKOUT_SESSION_EXPIRY_SKEW_MS
  RequestLimit,  \* bound on the age of a request the platform still runs
  MaxTime,       \* bound on the clock
  MaxFaults      \* bound on failed calls and crashes

Request == Tab \cup Canceller

ASSUME CheckoutAssumption ==
  /\ None \notin SessionId \cup Member
  /\ Tab \cap Canceller = {}
  /\ Caller \in [Request -> Member]
  /\ TTL \in Nat /\ Skew \in Nat /\ RequestLimit \in Nat
  /\ RequestLimit < TTL
  /\ MaxTime \in Nat /\ MaxFaults \in Nat

VARIABLES
  now,          \* the clock
  reservation,  \* the CheckoutReservation row of a member
  session,      \* checkout sessions, and the subscription each started, at Stripe
  row,          \* the Subscription row each session led to
  job,          \* what each request is doing
  faults        \* faults so far

vars == <<now, reservation, session, row, job, faults>>

Reservation == [expiresAt : Nat, stripeSessionId : SessionId \cup {None}]

ASSUME NullReservationAssumption == None \notin Reservation

Session ==
  [status : {"none", "open", "complete", "expired"},
   member : Member \cup {None},
   expiresAt : Nat,
   handed : BOOLEAN,                             \* its URL reached the member
   subscription : {"none", "live", "ended"}]

Job ==
  [pc : {"idle", "clearLapsed", "reserve", "createSession", "attach",
         "releaseAfterError", "readStatus", "expireSession", "release"},
   startedAt : Nat,
   asOf : Nat,                                   \* reserveCheckout's `now`
   session : SessionId \cup {None}]

noSession ==
  [status |-> "none", member |-> None, expiresAt |-> 0, handed |-> FALSE,
   subscription |-> "none"]

idle == [pc |-> "idle", startedAt |-> 0, asOf |-> 0, session |-> None]

Init ==
  /\ now = 0
  /\ reservation = [m \in Member |-> None]
  /\ session = [s \in SessionId |-> noSession]
  /\ row = [s \in SessionId |-> "none"]
  /\ job = [r \in Request |-> idle]
  /\ faults = 0

-----------------------------------------------------------------------------
(* checkout-reservation.ts *)

reservationExpiry(at) == at + TTL

\* Mutant of checkoutSessionExpiresAt: the skew is added twice.
skewedTwice(reservationExpiresAt) == reservationExpiresAt + Skew + Skew

checkoutSessionExpiresAt(reservationExpiresAt) == reservationExpiresAt + Skew

\* releaseCheckout by member, whoever took the lock.
ReleaseOf(m) == reservation' = [reservation EXCEPT ![m] = None]

\* Mutant of ReleaseFor: the event releases whatever its member holds.
ReleaseByMember(s) == ReleaseOf(session[s].member)

\* releaseCheckout by Stripe session.
ReleaseFor(s) ==
  reservation' = [m \in Member |->
    IF reservation[m] # None /\ reservation[m].stripeSessionId = s
    THEN None ELSE reservation[m]]

-----------------------------------------------------------------------------
(* createCheckoutSession *)

At(r, pc) == job[r].pc = pc

SessionsOf(m) == {s \in SessionId : session[s].member = m}

\* Refused with a 409 while a row of the member is live.
StartCheckout(r) ==
  /\ At(r, "idle")
  /\ \A s \in SessionsOf(Caller[r]) : row[s] # "live"
  /\ job' = [job EXCEPT ![r] = [idle EXCEPT !.pc = "clearLapsed", !.startedAt = now]]
  /\ UNCHANGED <<now, reservation, session, row, faults>>

\* Mutant of ClearLapsed: a lapsed lock is not cleared.
KeepLapsed(r) ==
  /\ At(r, "clearLapsed")
  /\ job' = [job EXCEPT ![r].pc = "reserve", ![r].asOf = now]
  /\ UNCHANGED <<now, reservation, session, row, faults>>

ClearLapsed(r) ==
  LET m == Caller[r]
  IN  /\ At(r, "clearLapsed")
      /\ IF reservation[m] # None /\ reservation[m].expiresAt <= now
         THEN ReleaseOf(m)
         ELSE UNCHANGED reservation
      /\ job' = [job EXCEPT ![r].pc = "reserve", ![r].asOf = now]
      /\ UNCHANGED <<now, session, row, faults>>

\* Mutant of Reserve: no unique constraint stops the second request.
ReserveOverwriting(r) ==
  /\ At(r, "reserve")
  /\ reservation' = [reservation EXCEPT ![Caller[r]] =
       [expiresAt |-> reservationExpiry(job[r].asOf), stripeSessionId |-> None]]
  /\ job' = [job EXCEPT ![r].pc = "createSession"]
  /\ UNCHANGED <<now, session, row, faults>>

\* Mutant of Reserve: the row is created without its expiry.
ReserveWithoutExpiry(r) ==
  /\ At(r, "reserve")
  /\ reservation[Caller[r]] = None
  /\ reservation' = [reservation EXCEPT ![Caller[r]] =
       [expiresAt |-> None, stripeSessionId |-> None]]
  /\ job' = [job EXCEPT ![r].pc = "createSession"]
  /\ UNCHANGED <<now, session, row, faults>>

\* The unique userId lets one request in and refuses the others with a 409.
Reserve(r) ==
  LET m == Caller[r]
  IN  /\ At(r, "reserve")
      /\ IF reservation[m] = None
         THEN /\ reservation' = [reservation EXCEPT ![m] =
                   [expiresAt |-> reservationExpiry(job[r].asOf), stripeSessionId |-> None]]
              /\ job' = [job EXCEPT ![r].pc = "createSession"]
         ELSE /\ job' = [job EXCEPT ![r] = idle]
              /\ UNCHANGED reservation
      /\ UNCHANGED <<now, session, row, faults>>

\* Stripe refuses an expires_at less than the TTL away.
stripeAccepts(r) ==
  checkoutSessionExpiresAt(reservationExpiry(job[r].asOf)) >= now + TTL

NewSession(s, r) ==
  session' = [session EXCEPT ![s] =
    [status |-> "open", member |-> Caller[r],
     expiresAt |-> checkoutSessionExpiresAt(reservationExpiry(job[r].asOf)),
     handed |-> FALSE, subscription |-> "none"]]

CreateSession(r, s) ==
  /\ At(r, "createSession")
  /\ stripeAccepts(r)
  /\ session[s].status = "none"
  /\ NewSession(s, r)
  /\ job' = [job EXCEPT ![r].pc = "attach", ![r].session = s]
  /\ UNCHANGED <<now, reservation, row, faults>>

\* The call fails: refused, unreachable, or out of session ids (a bound of the
\* model).
CreateSessionFails(r) ==
  /\ At(r, "createSession")
  /\ IF stripeAccepts(r) /\ \E s \in SessionId : session[s].status = "none"
     THEN faults < MaxFaults /\ faults' = faults + 1
     ELSE UNCHANGED faults
  /\ job' = [job EXCEPT ![r].pc = "releaseAfterError"]
  /\ UNCHANGED <<now, reservation, session, row>>

\* Stripe created the session and the answer was lost: nobody has its URL.
CreateSessionAnswerLost(r, s) ==
  /\ At(r, "createSession")
  /\ stripeAccepts(r)
  /\ faults < MaxFaults
  /\ session[s].status = "none"
  /\ NewSession(s, r)
  /\ faults' = faults + 1
  /\ job' = [job EXCEPT ![r].pc = "releaseAfterError"]
  /\ UNCHANGED <<now, reservation, row>>

ReleaseAfterError(r) ==
  /\ At(r, "releaseAfterError")
  /\ ReleaseOf(Caller[r])
  /\ job' = [job EXCEPT ![r] = idle]
  /\ UNCHANGED <<now, session, row, faults>>

\* The lock the member holds NOW gets the session, and the member its URL.
AttachSession(r) ==
  LET m == Caller[r]
  IN  /\ At(r, "attach")
      /\ reservation' =
           IF reservation[m] = None THEN reservation
           ELSE [reservation EXCEPT ![m].stripeSessionId = job[r].session]
      /\ session' = [session EXCEPT ![job[r].session].handed = TRUE]
      /\ job' = [job EXCEPT ![r] = idle]
      /\ UNCHANGED <<now, row, faults>>

-----------------------------------------------------------------------------
(* cancelCheckout *)

StartCancel(r) ==
  LET lock == reservation[Caller[r]]
      attached == IF lock = None THEN None ELSE lock.stripeSessionId
  IN  /\ At(r, "idle")
      /\ job' = [job EXCEPT ![r] =
           [idle EXCEPT !.pc = IF attached = None THEN "release" ELSE "readStatus",
                        !.startedAt = now, !.session = attached]]
      /\ UNCHANGED <<now, reservation, session, row, faults>>

\* A confirmed completion holds the lock; a failed read goes on as if open.
ReadSessionStatus(r) ==
  LET status == session[job[r].session].status
  IN  /\ At(r, "readStatus")
      /\ \/ /\ status = "complete"
            /\ job' = [job EXCEPT ![r] = idle]
            /\ UNCHANGED faults
         \/ /\ status = "open"
            /\ job' = [job EXCEPT ![r].pc = "expireSession"]
            /\ UNCHANGED faults
         \/ /\ status = "expired"
            /\ job' = [job EXCEPT ![r].pc = "release"]
            /\ UNCHANGED faults
         \/ /\ faults < MaxFaults
            /\ faults' = faults + 1
            /\ job' = [job EXCEPT ![r].pc = "expireSession"]
      /\ UNCHANGED <<now, reservation, session, row>>

\* Mutant of ExpireAbandonedSession: the lock goes and the session stays open.
AbandonSession(r) ==
  /\ At(r, "expireSession")
  /\ job' = [job EXCEPT ![r].pc = "release"]
  /\ UNCHANGED <<now, reservation, session, row, faults>>

\* Best effort: only an open session can be expired, and the call may fail.
ExpireAbandonedSession(r) ==
  LET s == job[r].session
  IN  /\ At(r, "expireSession")
      /\ \/ /\ session' = [session EXCEPT ![s].status = IF @ = "open" THEN "expired" ELSE @]
            /\ UNCHANGED faults
         \/ /\ faults < MaxFaults
            /\ faults' = faults + 1
            /\ UNCHANGED session
      /\ job' = [job EXCEPT ![r].pc = "release"]
      /\ UNCHANGED <<now, reservation, row>>

ReleaseOnCancel(r) ==
  /\ At(r, "release")
  /\ ReleaseOf(Caller[r])
  /\ job' = [job EXCEPT ![r] = idle]
  /\ UNCHANGED <<now, session, row, faults>>

\* The process dies or a database statement throws.
Crash(r) ==
  /\ ~ At(r, "idle")
  /\ faults < MaxFaults
  /\ faults' = faults + 1
  /\ job' = [job EXCEPT ![r] = idle]
  /\ UNCHANGED <<now, reservation, session, row>>

-----------------------------------------------------------------------------
(* Webhook deliveries: at any time after Stripe generated them, in any order, *)
(* any number of times.                                                       *)

\* checkout.session.completed, .expired and .async_payment_failed.
releaseCheckoutReservation(s) ==
  /\ session[s].status \in {"complete", "expired"}
  /\ ReleaseFor(s)
  /\ UNCHANGED <<now, session, row, job, faults>>

\* customer.subscription.*: the row catches up with Stripe (StripeWebhooks).
DeliverSubscription(s) ==
  /\ row[s] # session[s].subscription
  /\ row' = [row EXCEPT ![s] = session[s].subscription]
  /\ UNCHANGED <<now, reservation, session, job, faults>>

-----------------------------------------------------------------------------
(* Stripe, the member and time *)

Payable(s) ==
  /\ session[s].status = "open"
  /\ session[s].handed
  /\ now < session[s].expiresAt

Pay(s) ==
  /\ Payable(s)
  /\ session' = [session EXCEPT ![s].status = "complete", ![s].subscription = "live"]
  /\ UNCHANGED <<now, reservation, row, job, faults>>

StripeExpires(s) ==
  /\ session[s].status = "open"
  /\ now >= session[s].expiresAt
  /\ session' = [session EXCEPT ![s].status = "expired"]
  /\ UNCHANGED <<now, reservation, row, job, faults>>

SubscriptionEnds(s) ==
  /\ session[s].subscription = "live"
  /\ session' = [session EXCEPT ![s].subscription = "ended"]
  /\ UNCHANGED <<now, reservation, row, job, faults>>

\* The platform ends a request before it is RequestLimit old.
Tick ==
  /\ now < MaxTime
  /\ \A r \in Request : At(r, "idle") \/ now < job[r].startedAt + RequestLimit
  /\ now' = now + 1
  /\ UNCHANGED <<reservation, session, row, job, faults>>

-----------------------------------------------------------------------------
CheckoutStep(r) ==
  \/ ClearLapsed(r)
  \/ Reserve(r)
  \/ \E s \in SessionId : CreateSession(r, s) \/ CreateSessionAnswerLost(r, s)
  \/ CreateSessionFails(r)
  \/ ReleaseAfterError(r)
  \/ AttachSession(r)

CancelStep(r) ==
  \/ ReadSessionStatus(r)
  \/ ExpireAbandonedSession(r)
  \/ ReleaseOnCancel(r)

Stripe(s) ==
  \/ releaseCheckoutReservation(s)
  \/ DeliverSubscription(s)
  \/ Pay(s)
  \/ StripeExpires(s)
  \/ SubscriptionEnds(s)

Next ==
  \/ \E r \in Tab : StartCheckout(r) \/ CheckoutStep(r)
  \/ \E r \in Canceller : StartCancel(r) \/ CancelStep(r)
  \/ \E r \in Request : Crash(r)
  \/ \E s \in SessionId : Stripe(s)
  \/ Tick

Spec == Init /\ [][Next]_vars

\* Members keep pressing Subscribe, requests run on, and time passes.
Fairness ==
  /\ \A r \in Tab : WF_vars(StartCheckout(r)) /\ WF_vars(CheckoutStep(r))
  /\ \A r \in Canceller : WF_vars(CancelStep(r))
  /\ WF_vars(Tick)

FairSpec == Spec /\ Fairness

-----------------------------------------------------------------------------
(* Properties *)

\* Every variable has its type.
TypeOK ==
  /\ now \in 0 .. MaxTime
  /\ reservation \in [Member -> Reservation \cup {None}]
  /\ session \in [SessionId -> Session]
  /\ row \in [SessionId -> {"none", "live", "ended"}]
  /\ job \in [Request -> Job]
  /\ faults \in 0 .. MaxFaults

\* While nobody cancels, one request per member at a time is past the lock
\* ("the database decides the winner", reserveCheckout), however many are made,
\* fail or die.
Holding(r) == job[r].pc \in {"createSession", "attach", "releaseAfterError"}

OneHolder ==
  Canceller = {} =>
    \A r1, r2 \in Tab :
      r1 # r2 /\ Caller[r1] = Caller[r2] => ~ (Holding(r1) /\ Holding(r2))

\* While nobody cancels, two sessions of a member can both be paid only in the
\* last Skew of the older one, after its lock lapsed (createCheckoutSession).
OverlapOnlyInSkew ==
  Canceller = {} =>
    \A s1, s2 \in SessionId :
      /\ s1 # s2
      /\ Payable(s1) /\ Payable(s2)
      /\ session[s1].member = session[s2].member
      => \E s \in {s1, s2} : now + Skew >= session[s].expiresAt

\* A cancel about to drop the lock has left nothing to pay behind: with Stripe
\* answering, the session it found is no longer open (cancelCheckout).
CancelClosesSession ==
  faults = 0 =>
    \A r \in Canceller :
      At(r, "release") /\ job[r].session # None =>
        session[job[r].session].status # "open"

\* A Stripe event drops the lock of the checkout it is about and no other: while
\* nobody cancels, a request that took the lock still holds it, unattached and
\* unexpired, until it attaches its session or gives the lock up.
HolderKeepsLock ==
  Canceller = {} =>
    \A r \in Tab : Holding(r) =>
      reservation[Caller[r]] =
        [expiresAt |-> reservationExpiry(job[r].asOf), stripeSessionId |-> None]

\* A member who keeps trying gets a session in the end, whatever crashes: the
\* TTL frees a lock nobody released ("un-strands them without anyone being
\* called").  A lock that outlasts the clock of the run says nothing.
NeverStranded ==
  \A m \in Member :
    <>(\/ \E s \in SessionsOf(m) : session[s].handed
       \/ reservation[m] # None /\ reservation[m].expiresAt > MaxTime)

-----------------------------------------------------------------------------
(* What the documentation says and the code does not always do *)

\* "the lock and the session can never disagree about how long a checkout lasts"
\* (CHECKOUT_RESERVATION_TTL_MS): a session that can be paid is covered by a lock.
LockCoversSession ==
  \A s \in SessionId : Payable(s) =>
    /\ reservation[session[s].member] # None
    /\ now < reservation[session[s].member].expiresAt

\* Does not hold; the README says how.  "a member ... could hold two payable sessions at
\* once ... the exact outcome the lock exists to prevent" (cancelCheckout).
OnePayableSession ==
  \A s1, s2 \in SessionId :
    Payable(s1) /\ Payable(s2) /\ session[s1].member = session[s2].member => s1 = s2

\* Does not hold; the README says how.  "Two live subscriptions means two charges a
\* month" (createCheckoutSession).
ChargedOnce ==
  \A s1, s2 \in SessionId :
    /\ session[s1].subscription = "live" /\ session[s2].subscription = "live"
    /\ session[s1].member = session[s2].member
    => s1 = s2

=============================================================================
