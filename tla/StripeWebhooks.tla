--------------------------- MODULE StripeWebhooks ---------------------------
(***************************************************************************)
(* WebhooksService.handleStripeEvent and everything it calls: Stripe       *)
(* generates events, delivers each of them any number of times in any      *)
(* order, and the API's workers turn deliveries into subscription rows and *)
(* entitlements.                                                           *)
(*                                                                         *)
(* No database transaction spans a delivery, so every awaited statement is *)
(* a step of its own and another worker, a fault or an operator may act    *)
(* between two of them.  A worker's locals are the record job[w].          *)
(***************************************************************************)
EXTENDS BillingRules, Sequences

CONSTANTS
  Member,        \* members of the gym
  Sub,           \* Stripe subscription ids
  Owner,         \* metadata.userId of a subscription; None when it has none
  Worker,        \* concurrent webhook invocations
  EventKind,     \* the kinds of event this instance of Stripe generates
  EventStatus,   \* the subscription statuses it generates
  ChargeSub,     \* what its charges trace to; None: a charge without a subscription
  GrantUntil,    \* end dates an operator grants access until, by hand
  MaxEvents,     \* bound on the events Stripe generates
  MaxFaults      \* bound on failed statements and crashes

MoneyBackKind == {"refund", "dispute"}
ChargeKind == MoneyBackKind \cup {"partial_refund", "dispute_won", "dispute_lost"}
IgnoredKind == {"partial_refund", "dispute_lost"}

ASSUME ParameterAssumption ==
  /\ None \notin Member \cup Sub
  /\ Owner \in [Sub -> Member \cup {None}]
  /\ EventKind \subseteq {"subscription"} \cup ChargeKind
  /\ EventStatus \subseteq Status
  /\ ChargeSub \subseteq Sub \cup {None}
  /\ GrantUntil \subseteq Date \cup {None}
  /\ MaxEvents \in Nat
  /\ MaxFaults \in Nat

VARIABLES
  now,          \* the clock Stripe and the API share
  events,       \* what Stripe has generated, in order
  rows,         \* Subscription rows by Stripe subscription id
  entitlement,  \* Entitlement rows by member
  eventRow,     \* StripeWebhookEvent rows by event
  alerts,       \* unmatched-subscription alerts raised, by subscription
  told,         \* money-back events a human was alerted about
  job,          \* what each worker is doing
  faults        \* faults so far

vars == <<now, events, rows, entitlement, eventRow, alerts, told, job, faults>>

EventId == 1 .. MaxEvents

Event ==
  [kind : {"subscription"} \cup ChargeKind,
   sub : Sub \cup {None},            \* None: a charge no subscription paid
   created : Date,
   status : Status \cup {None},      \* None on a charge event
   currentPeriodEnd : Date \cup {None}]

SubscriptionRow ==
  [status : Status,
   currentPeriodEnd : Date \cup {None},
   lastEventAt : Date,
   revokedAt : Date \cup {None},
   revokedReason : RevokeReason \cup {None}]

EventRow ==
  [status : {"none", "PROCESSED", "FAILED"}, stripeSubscriptionId : Sub \cup {None}]

Job ==
  [pc : {"idle", "read", "write", "readEntitlement", "readSubscriptions",
         "writeEntitlement", "record", "fail"},
   event : EventId \cup {None},
   existing : SubscriptionRow \cup {None},     \* the row as it was read
   granted : Entitlement \cup {None},          \* the entitlement as it was read
   derived : Entitlement \cup {None},          \* what the rows read support
   alertedSubscriptionId : Sub \cup {None}]

\* No record is null.
ASSUME NullRecordAssumption == None \notin SubscriptionRow \cup Entitlement \cup Revocation

idle ==
  [pc |-> "idle", event |-> None, existing |-> None, granted |-> None,
   derived |-> None, alertedSubscriptionId |-> None]

\* The FREE row `upsertMember` creates with the user; `source` defaults to MANUAL.
FreeAccount == [tier |-> "FREE", validUntil |-> None, source |-> "MANUAL"]

Init ==
  /\ now = 0
  /\ events = <<>>
  /\ rows = [s \in Sub |-> None]
  /\ entitlement = [m \in Member |-> FreeAccount]
  /\ eventRow = [i \in EventId |-> [status |-> "none", stripeSubscriptionId |-> None]]
  /\ alerts = [s \in Sub |-> 0]
  /\ told = {}
  /\ job = [w \in Worker |-> idle]
  /\ faults = 0

-----------------------------------------------------------------------------
(* Stripe, time and the operator *)

\* Indices of the events generated for a subscription, by kind.
Generated(s, kinds) ==
  {i \in DOMAIN events : events[i].sub = s /\ events[i].kind \in kinds}

\* created, updated or deleted: a subscription is never revived once canceled
\* and its period never moves back.
StripeUpdatesSubscription(s, status, end) ==
  /\ "subscription" \in EventKind
  /\ Len(events) < MaxEvents
  /\ \A i \in Generated(s, {"subscription"}) :
       /\ events[i].status # "canceled"
       /\ status # "incomplete" \/ events[i].status = "incomplete"
       /\ events[i].currentPeriodEnd # None =>
            end # None /\ end >= events[i].currentPeriodEnd
  /\ events' = Append(events,
       [kind |-> "subscription", sub |-> s, created |-> now,
        status |-> status, currentPeriodEnd |-> end])
  /\ UNCHANGED <<now, rows, entitlement, eventRow, alerts, told, job, faults>>

\* A charge is refunded or disputed after the subscription it paid went live; a
\* dispute closes after it opened.
StripeReportsCharge(kind, s) ==
  /\ kind \in EventKind
  /\ Len(events) < MaxEvents
  /\ \/ s = None
     \/ \E i \in Generated(s, {"subscription"}) : events[i].status \in STRIPE_ACTIVE_STATUSES
  /\ kind \in {"dispute_won", "dispute_lost"} =>
       Cardinality(Generated(s, {"dispute_won", "dispute_lost"}))
         < Cardinality(Generated(s, {"dispute"}))
  /\ events' = Append(events,
       [kind |-> kind, sub |-> s, created |-> now,
        status |-> None, currentPeriodEnd |-> None])
  /\ UNCHANGED <<now, rows, entitlement, eventRow, alerts, told, job, faults>>

Tick ==
  /\ now < MaxDate
  /\ now' = now + 1
  /\ UNCHANGED <<events, rows, entitlement, eventRow, alerts, told, job, faults>>

\* An operator records access that was paid for in person.
GrantManually(m, until) ==
  /\ entitlement[m].source = "STRIPE" \/ entitlement[m].tier = "FREE"
  /\ until = None \/ until > now
  /\ entitlement' = [entitlement EXCEPT ![m] =
       [tier |-> "PREMIUM", validUntil |-> until, source |-> "MANUAL"]]
  /\ UNCHANGED <<now, events, rows, eventRow, alerts, told, job, faults>>

-----------------------------------------------------------------------------
(* One delivery *)

At(w, pc) == job[w].pc = pc
Handled(w) == events[job[w].event]

\* Mutant of Deliver: any recorded outcome, FAILED included, is skipped.
DeliverUnrecorded(w, i) ==
  /\ At(w, "idle")
  /\ i \in DOMAIN events
  /\ eventRow[i].status = "none"
  /\ job' = [job EXCEPT ![w] = [idle EXCEPT !.pc = "read", !.event = i]]
  /\ UNCHANGED <<now, events, rows, entitlement, eventRow, alerts, told, faults>>

\* A delivery begins with the read of its own record.
Deliver(w, i) ==
  /\ At(w, "idle")
  /\ i \in DOMAIN events
  /\ eventRow[i].status # "PROCESSED"
  /\ job' = [job EXCEPT ![w] = [idle EXCEPT !.pc = "read", !.event = i]]
  /\ UNCHANGED <<now, events, rows, entitlement, eventRow, alerts, told, faults>>

SkipProcessed(w, i) ==
  /\ At(w, "idle")
  /\ i \in DOMAIN events
  /\ eventRow[i].status = "PROCESSED"
  /\ UNCHANGED vars

\* A partial refund, or a dispute that was not won.
IgnoreEvent(w) ==
  /\ At(w, "read")
  /\ Handled(w).kind \in IgnoredKind
  /\ job' = [job EXCEPT ![w].pc = "record"]
  /\ UNCHANGED <<now, events, rows, entitlement, eventRow, alerts, told, faults>>

\* Mutant of AlertUnmatchedSubscription: every live delivery alerts.
AlertUnmatchedEveryTime(w) ==
  LET e == Handled(w)
  IN  /\ At(w, "read")
      /\ e.kind = "subscription"
      /\ Owner[e.sub] = None
      /\ alerts' = [alerts EXCEPT ![e.sub] =
           IF e.status \in STRIPE_ACTIVE_STATUSES THEN @ + 1 ELSE @]
      /\ job' = [job EXCEPT ![w].pc = "record", ![w].alertedSubscriptionId = e.sub]
      /\ UNCHANGED <<now, events, rows, entitlement, eventRow, told, faults>>

\* Mutant of AlertUnmatchedSubscription: the stamp is written although no alert
\* went out, so the first live delivery stays quiet.
StampUnmatchedUnalerted(w) ==
  LET e == Handled(w)
      stamped == \E i \in EventId : eventRow[i].stripeSubscriptionId = e.sub
  IN  /\ At(w, "read")
      /\ e.kind = "subscription"
      /\ Owner[e.sub] = None
      /\ alerts' = [alerts EXCEPT ![e.sub] =
           IF e.status \in STRIPE_ACTIVE_STATUSES /\ ~ stamped THEN @ + 1 ELSE @]
      /\ job' = [job EXCEPT ![w].pc = "record", ![w].alertedSubscriptionId = e.sub]
      /\ UNCHANGED <<now, events, rows, entitlement, eventRow, told, faults>>

\* Nobody to grant access to: tell a human, once the subscription is live and
\* unless an earlier delivery carries the stamp.
AlertUnmatchedSubscription(w) ==
  LET e == Handled(w)
      due == /\ e.status \in STRIPE_ACTIVE_STATUSES
             /\ \A i \in EventId : eventRow[i].stripeSubscriptionId # e.sub
  IN  /\ At(w, "read")
      /\ e.kind = "subscription"
      /\ Owner[e.sub] = None
      /\ IF due
         THEN /\ alerts' = [alerts EXCEPT ![e.sub] = @ + 1]
              /\ job' = [job EXCEPT ![w].pc = "record", ![w].alertedSubscriptionId = e.sub]
         ELSE /\ job' = [job EXCEPT ![w].pc = "record"]
              /\ UNCHANGED alerts
      /\ UNCHANGED <<now, events, rows, entitlement, eventRow, told, faults>>

\* Mutant of isOutOfOrder: the ordering guard is dropped.
neverOutOfOrder(existing, e) == FALSE

isOutOfOrder(existing, e) == existing # None /\ existing.lastEventAt > e.created

\* An event older than the state already recorded is ignored.
ReadSubscription(w) ==
  LET e == Handled(w)
  IN  /\ At(w, "read")
      /\ e.kind = "subscription"
      /\ Owner[e.sub] # None
      /\ IF isOutOfOrder(rows[e.sub], e)
         THEN job' = [job EXCEPT ![w].pc = "record"]
         ELSE job' = [job EXCEPT ![w].pc = "write", ![w].existing = rows[e.sub]]
      /\ UNCHANGED <<now, events, rows, entitlement, eventRow, alerts, told, faults>>

\* What the upsert leaves in revokedAt and revokedReason: cleared when the row
\* as it was READ is released, otherwise whatever the row holds NOW.
revocationAfterUpsert(w, row) ==
  IF \/ row = None
     \/ job[w].existing # None /\ releasesRevocation(job[w].existing, Handled(w))
  THEN NO_REVOCATION
  ELSE [revokedAt |-> row.revokedAt, revokedReason |-> row.revokedReason]

\* Mutant of UpsertSubscription: lastEventAt is the time of delivery.
UpsertStampedOnArrival(w) ==
  LET e == Handled(w)
      revocation == revocationAfterUpsert(w, rows[e.sub])
  IN  /\ At(w, "write")
      /\ e.kind = "subscription"
      /\ rows' = [rows EXCEPT ![e.sub] =
           [status |-> e.status,
            currentPeriodEnd |-> e.currentPeriodEnd,
            lastEventAt |-> now,
            revokedAt |-> revocation.revokedAt,
            revokedReason |-> revocation.revokedReason]]
      /\ job' = [job EXCEPT ![w].pc = "readEntitlement", ![w].existing = None]
      /\ UNCHANGED <<now, events, entitlement, eventRow, alerts, told, faults>>

\* Mutant of UpsertSubscription: a row is created without lastEventAt.
UpsertUnstamped(w) ==
  LET e == Handled(w)
      revocation == revocationAfterUpsert(w, rows[e.sub])
  IN  /\ At(w, "write")
      /\ e.kind = "subscription"
      /\ rows' = [rows EXCEPT ![e.sub] =
           [status |-> e.status,
            currentPeriodEnd |-> e.currentPeriodEnd,
            lastEventAt |-> IF rows[e.sub] = None THEN None ELSE e.created,
            revokedAt |-> revocation.revokedAt,
            revokedReason |-> revocation.revokedReason]]
      /\ job' = [job EXCEPT ![w].pc = "readEntitlement", ![w].existing = None]
      /\ UNCHANGED <<now, events, entitlement, eventRow, alerts, told, faults>>

UpsertSubscription(w) ==
  LET e == Handled(w)
      revocation == revocationAfterUpsert(w, rows[e.sub])
  IN  /\ At(w, "write")
      /\ e.kind = "subscription"
      /\ rows' = [rows EXCEPT ![e.sub] =
           [status |-> e.status,
            currentPeriodEnd |-> e.currentPeriodEnd,
            lastEventAt |-> e.created,
            revokedAt |-> revocation.revokedAt,
            revokedReason |-> revocation.revokedReason]]
      /\ job' = [job EXCEPT ![w].pc = "readEntitlement", ![w].existing = None]
      /\ UNCHANGED <<now, events, entitlement, eventRow, alerts, told, faults>>

planForCharge(row, e) ==
  IF e.kind = "dispute_won"
  THEN planDisputeWonRelease(row)
  ELSE planRevocation(row,
         IF e.kind = "refund" THEN REVOKE_REASON_REFUND ELSE REVOKE_REASON_CHARGEBACK,
         e.created)

\* The charge is traced to a subscription row.  No subscription, or no row for
\* it: access is left alone and a human is told.
ReadChargedSubscription(w) ==
  LET e == Handled(w)
      traced == e.sub # None /\ rows[e.sub] # None
  IN  /\ At(w, "read")
      /\ e.kind \in ChargeKind \ IgnoredKind
      /\ \/ /\ ~ traced
            /\ told' = told \cup {job[w].event}
            /\ job' = [job EXCEPT ![w].pc = "record"]
         \/ /\ traced
            /\ planForCharge(rows[e.sub], e) = None
            /\ job' = [job EXCEPT ![w].pc = "record"]
            /\ UNCHANGED told
         \/ /\ traced
            /\ planForCharge(rows[e.sub], e) # None
            /\ job' = [job EXCEPT ![w].pc = "write", ![w].existing = rows[e.sub]]
            /\ UNCHANGED told
      /\ UNCHANGED <<now, events, rows, entitlement, eventRow, alerts, faults>>

UpdateRevocation(w) ==
  LET e == Handled(w)
      plan == planForCharge(job[w].existing, e)
  IN  /\ At(w, "write")
      /\ e.kind \in ChargeKind
      /\ rows' = [rows EXCEPT ![e.sub].revokedAt = plan.revokedAt,
                              ![e.sub].revokedReason = plan.revokedReason]
      /\ job' = [job EXCEPT ![w].pc = "readEntitlement", ![w].existing = None]
      /\ UNCHANGED <<now, events, entitlement, eventRow, alerts, told, faults>>

-----------------------------------------------------------------------------
(* syncEntitlementFromSubscriptions *)

rowsOf(m) == {rows[s] : s \in {t \in Sub : Owner[t] = m /\ rows[t] # None}}

\* Mutant of ReadEntitlement: the live manual grant is not respected.
ReadEntitlementUnguarded(w) ==
  /\ At(w, "readEntitlement")
  /\ job' = [job EXCEPT ![w].pc = "readSubscriptions",
                        ![w].granted = entitlement[Owner[Handled(w).sub]]]
  /\ UNCHANGED <<now, events, rows, entitlement, eventRow, alerts, told, faults>>

\* A live manual grant is left alone.
ReadEntitlement(w) ==
  LET m == Owner[Handled(w).sub]
  IN  /\ At(w, "readEntitlement")
      /\ IF entitlement[m].source = "MANUAL" /\ isEntitlementActive(entitlement[m], now)
         THEN job' = [job EXCEPT ![w].pc = "record"]
         ELSE job' = [job EXCEPT ![w].pc = "readSubscriptions",
                                 ![w].granted = entitlement[m]]
      /\ UNCHANGED <<now, events, rows, entitlement, eventRow, alerts, told, faults>>

derivedEntitlement(m) ==
  LET resolved == resolveStripeEntitlement(rowsOf(m))
  IN  [tier |-> resolved.tier, validUntil |-> resolved.validUntil, source |-> "STRIPE"]

\* Mutant of ReadSubscriptions: access is inferred from the event's own row.
ReadHandledSubscriptionOnly(w) ==
  LET resolved == resolveStripeEntitlement({rows[Handled(w).sub]})
  IN  /\ At(w, "readSubscriptions")
      /\ job' = [job EXCEPT ![w].pc = "writeEntitlement",
           ![w].derived = [tier |-> resolved.tier, validUntil |-> resolved.validUntil,
                           source |-> "STRIPE"]]
      /\ UNCHANGED <<now, events, rows, entitlement, eventRow, alerts, told, faults>>

ReadSubscriptions(w) ==
  /\ At(w, "readSubscriptions")
  /\ job' = [job EXCEPT ![w].pc = "writeEntitlement",
                        ![w].derived = derivedEntitlement(Owner[Handled(w).sub])]
  /\ UNCHANGED <<now, events, rows, entitlement, eventRow, alerts, told, faults>>

WriteEntitlement(w) ==
  /\ At(w, "writeEntitlement")
  /\ entitlement' = [entitlement EXCEPT ![Owner[Handled(w).sub]] = job[w].derived]
  /\ job' = [job EXCEPT ![w].pc = "record", ![w].granted = None, ![w].derived = None]
  /\ UNCHANGED <<now, events, rows, eventRow, alerts, told, faults>>

-----------------------------------------------------------------------------
(* The end of a delivery *)

RecordProcessed(w) ==
  /\ At(w, "record")
  /\ eventRow' = [eventRow EXCEPT ![job[w].event] =
       [status |-> "PROCESSED", stripeSubscriptionId |-> job[w].alertedSubscriptionId]]
  /\ job' = [job EXCEPT ![w] = idle]
  /\ UNCHANGED <<now, events, rows, entitlement, alerts, told, faults>>

\* A database statement or a Stripe read inside applyStripeEvent throws.
Throw(w) ==
  /\ faults < MaxFaults
  /\ job[w].pc \notin {"idle", "record", "fail"}
  /\ faults' = faults + 1
  /\ job' = [job EXCEPT ![w] = [idle EXCEPT !.pc = "fail", !.event = job[w].event]]
  /\ UNCHANGED <<now, events, rows, entitlement, eventRow, alerts, told>>

\* The best-effort FAILED record; the error then reaches Stripe as a 5xx.
RecordFailed(w) ==
  /\ At(w, "fail")
  /\ eventRow' = [eventRow EXCEPT ![job[w].event] =
       [status |-> "FAILED", stripeSubscriptionId |-> None]]
  /\ job' = [job EXCEPT ![w] = idle]
  /\ UNCHANGED <<now, events, rows, entitlement, alerts, told, faults>>

\* The process dies, or the record of the outcome is the statement that fails.
Crash(w) ==
  /\ faults < MaxFaults
  /\ ~ At(w, "idle")
  /\ faults' = faults + 1
  /\ job' = [job EXCEPT ![w] = idle]
  /\ UNCHANGED <<now, events, rows, entitlement, eventRow, alerts, told>>

-----------------------------------------------------------------------------
Environment ==
  \/ \E s \in Sub, status \in EventStatus, end \in Date \cup {None} :
       StripeUpdatesSubscription(s, status, end)
  \/ \E kind \in ChargeKind, s \in ChargeSub : StripeReportsCharge(kind, s)
  \/ Tick
  \/ \E m \in Member, until \in GrantUntil : GrantManually(m, until)

Progress(w) ==
  \/ IgnoreEvent(w)
  \/ AlertUnmatchedSubscription(w)
  \/ ReadSubscription(w)
  \/ UpsertSubscription(w)
  \/ ReadChargedSubscription(w)
  \/ UpdateRevocation(w)
  \/ ReadEntitlement(w)
  \/ ReadSubscriptions(w)
  \/ WriteEntitlement(w)
  \/ RecordProcessed(w)
  \/ RecordFailed(w)

Fault(w) == Throw(w) \/ Crash(w)

Next ==
  \/ Environment
  \/ \E w \in Worker :
       \/ \E i \in EventId : Deliver(w, i) \/ SkipProcessed(w, i)
       \/ Progress(w)
       \/ Fault(w)

Spec == Init /\ [][Next]_vars

\* A charge's delivery dies between the row and the entitlement.  Its redelivery
\* finds nothing to write to the row and derives nothing.
LosesDerivation(w) ==
  /\ job[w].pc \in {"readEntitlement", "readSubscriptions", "writeEntitlement"}
  /\ Handled(w).kind \in ChargeKind
  /\ Fault(w)

\* Every other failure is one a redelivery repairs.
RetriedSpec == Init /\ [][Next /\ \A w \in Worker : ~ LosesDerivation(w)]_vars

\* An invocation that started runs on, and Stripe keeps redelivering an event
\* that has not been answered with a 2xx.
Fairness ==
  /\ \A w \in Worker : WF_vars(Progress(w))
  /\ \A i \in EventId : SF_vars(\E w \in Worker : Deliver(w, i))

FairSpec == Spec /\ Fairness

-----------------------------------------------------------------------------
(* Properties *)

Processed(i) == eventRow[i].status = "PROCESSED"

\* Nothing in flight and nothing left to deliver.
Settled ==
  /\ \A w \in Worker : At(w, "idle")
  /\ \A i \in DOMAIN events : Processed(i)

\* Every variable has its type.
TypeOK ==
  /\ now \in Date
  /\ events \in Seq(Event) /\ Len(events) <= MaxEvents
  /\ rows \in [Sub -> SubscriptionRow \cup {None}]
  /\ entitlement \in [Member -> Entitlement]
  /\ eventRow \in [EventId -> EventRow]
  /\ alerts \in [Sub -> Nat]
  /\ told \subseteq EventId
  /\ job \in [Worker -> Job]
  /\ faults \in 0 .. MaxFaults

\* A stored row never holds a mixture of two events or a state Stripe never
\* reported: status, period end and lastEventAt come from one event of that
\* subscription, however deliveries interleave, fail or repeat
\* (applySubscriptionEvent).
RowsTraceToEvents ==
  \A s \in Sub : rows[s] # None =>
    \E i \in Generated(s, {"subscription"}) :
      /\ rows[s].lastEventAt = events[i].created
      /\ rows[s].status = events[i].status
      /\ rows[s].currentPeriodEnd = events[i].currentPeriodEnd

\* A member is locked out only with a cause: a revocation's date and reason are
\* those of one refund or dispute of a charge that paid for that very
\* subscription, and both fields are null together ("Every revocation stores
\* revokedAt and revokedReason together", revokeAccessForCharge).
RevocationsTraceToCharges ==
  \A s \in Sub : rows[s] # None =>
    IF rows[s].revokedAt = None
    THEN rows[s].revokedReason = None
    ELSE \E i \in Generated(s, MoneyBackKind) :
           /\ rows[s].revokedAt = events[i].created
           /\ rows[s].revokedReason =
                IF events[i].kind = "refund" THEN REVOKE_REASON_REFUND
                                             ELSE REVOKE_REASON_CHARGEBACK

\* With one delivery at a time, no order, repetition or fault leaves a row behind
\* an event already recorded PROCESSED (the lastEventAt guard).
NewestEventWins ==
  \A i \in DOMAIN events :
    /\ Processed(i)
    /\ events[i].kind = "subscription"
    /\ Owner[events[i].sub] # None
    => /\ rows[events[i].sub] # None
       /\ rows[events[i].sub].lastEventAt >= events[i].created

\* The two things that give access back: a won dispute, and a live event with a
\* later period generated after some refund of the subscription.
RestoringEvent(s) ==
  \/ Generated(s, {"dispute_won"}) # {}
  \/ \E i, j \in Generated(s, {"subscription"}), k \in Generated(s, {"refund"}) :
       /\ events[j].status \in STRIPE_ACTIVE_STATUSES
       /\ events[i].currentPeriodEnd # None /\ events[j].currentPeriodEnd # None
       /\ events[j].currentPeriodEnd > events[i].currentPeriodEnd
       /\ events[j].created > events[k].created

\* Money that went back never passes quietly: once a refund or dispute is
\* PROCESSED, the subscription is revoked, or a human was told, or something
\* that gives access back has been generated (revokeAccessForCharge).
MoneyBackHolds ==
  \A i \in DOMAIN events :
    /\ Processed(i)
    /\ events[i].kind \in MoneyBackKind
    => \/ i \in told
       \/ RestoringEvent(events[i].sub)
       \/ rows[events[i].sub] # None /\ rows[events[i].sub].revokedAt # None

\* Once everything is delivered, an entitlement Stripe wrote is the one the
\* member's stored rows support ("Always derived, never inferred from the event
\* in hand", syncEntitlementFromSubscriptions).
SettledEntitlement ==
  Settled => \A m \in Member :
    entitlement[m].source = "STRIPE" => entitlement[m] = derivedEntitlement(m)

\* Somebody paying with no member to grant access to is never passed over: a
\* live event of such a subscription is PROCESSED only after an alert went out.
UnmatchedNeverSilent ==
  \A i \in DOMAIN events :
    /\ Processed(i)
    /\ events[i].kind = "subscription"
    /\ Owner[events[i].sub] = None
    /\ events[i].status \in STRIPE_ACTIVE_STATUSES
    => alerts[events[i].sub] >= 1

\* The unmatched-subscription alert repeats only at the price of a fault between
\* the alert and the record that carries its stamp: with one delivery at a time,
\* no order or number of deliveries alone raises it twice
\* (alertUnmatchedSubscription).
AlertRepeatsOnlyAfterFault == \A s \in Sub : alerts[s] <= 1 + faults

\* A step that replaces a live manual grant is the write of a delivery that
\* looked before the grant was made; a grant standing when a delivery looks is
\* never overwritten (syncEntitlementFromSubscriptions).
LiveGrantSurvives ==
  [][\A m \in Member :
       /\ entitlement[m].source = "MANUAL"
       /\ isEntitlementActive(entitlement[m], now)
       /\ entitlement'[m] # entitlement[m]
       => \E w \in Worker :
            /\ At(w, "writeEntitlement")
            /\ job'[w].pc = "record"
            /\ job[w].granted # entitlement[m]]_vars

\* A row moves only as SubscriptionLedger allows: forward along Stripe's timeline,
\* a chargeback cleared only by a won dispute, a refund only by a paid renewal.
Ledger == INSTANCE SubscriptionLedger WITH ledger <- rows

LedgerSpec == Ledger!Spec

\* Every event Stripe generates is PROCESSED in the end, through any failures and
\* crashes, because an unanswered delivery is repeated.
EventuallyProcessed ==
  \A i \in EventId : i \in DOMAIN events ~> Processed(i)

-----------------------------------------------------------------------------
(* What the documentation says and the code does not always do *)

\* "Tells a human that somebody is paying ..., exactly once per subscription"
\* (alertUnmatchedSubscription): the alert fires at most once, faults or not.
UnmatchedAlertOnce == \A s \in Sub : alerts[s] <= 1

\* "A refund revocation standing next to a won dispute means the money went back
\* for a different reason, and that reason still holds" (planDisputeWonRelease):
\* a subscription with a refund and no later period stays revoked.
RefundStillHolds ==
  Settled => \A s \in Sub :
    /\ rows[s] # None
    /\ Generated(s, {"refund"}) \ told # {}
    /\ \A i, j \in Generated(s, {"subscription"}) :
         events[i].currentPeriodEnd = events[j].currentPeriodEnd
    => rows[s].revokedAt # None

\* "A dispute Diaz won restores the access that chargeback took" (applyDisputeClosed):
\* a subscription whose every dispute was won and that was never refunded is not
\* revoked.
WonDisputeRestores ==
  Settled => \A s \in Sub :
    /\ rows[s] # None
    /\ Generated(s, {"refund"}) = {}
    /\ Cardinality(Generated(s, {"dispute"})) = Cardinality(Generated(s, {"dispute_won"}))
    => rows[s].revokedAt = None

\* "An event Stripe generated before the state already recorded on a subscription
\* is ignored, so an out-of-order delivery cannot restore access after a
\* cancellation" (applySubscriptionEvent).
CancellationSticks ==
  Settled => \A s \in Sub :
    /\ rows[s] # None
    /\ \E i \in Generated(s, {"subscription"}) : events[i].status = "canceled"
    => rows[s].status = "canceled"

\* "PREMIUM while any unrevoked subscription is active/trialing/past_due": a member
\* with a live row whose paid period is still running has access.
PayingMemberHasAccess ==
  Settled => \A s \in Sub :
    /\ Owner[s] # None
    /\ rows[s] # None
    /\ isLiveStripeSubscription(rows[s])
    /\ rows[s].currentPeriodEnd # None /\ rows[s].currentPeriodEnd > now
    => isEntitlementActive(entitlement[Owner[s]], now)

=============================================================================
