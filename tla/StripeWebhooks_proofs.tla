----------------------- MODULE StripeWebhooks_proofs -----------------------
(***************************************************************************)
(* Invariants of StripeWebhooks for every number of members,               *)
(* subscriptions, workers, events and faults.                              *)
(***************************************************************************)
EXTENDS StripeWebhooks, FiniteSetTheorems, WellFoundedInduction, TLAPS

-----------------------------------------------------------------------------
(* What the billing rules return, for every row and date *)

\* The dates of S after d.
after(S, d) == {e \in S : e > d}

\* A nonempty set of dates has a latest one: no set of later dates is smaller
\* than its own.
LEMMA LatestDate ==
  ASSUME NEW S, S \subseteq Date, S # {}
  PROVE  /\ Max(S) \in S
         /\ \A d \in S : Max(S) >= d
<1> DEFINE tails == {after(S, d) : d \in S}
<1>1. S \subseteq Int
  BY MaxDateAssumption DEF Date
<1>2. IsFiniteSet(S)
  <2>1. IsFiniteSet(0 .. MaxDate)
    BY MaxDateAssumption, FS_Interval
  <2>2. QED
    BY <2>1, FS_Subset DEF Date
<1>3. /\ tails \subseteq FiniteSubsetsOf(S)
      /\ tails # {}
  <2>1. FiniteSubsetsOf(S) = SUBSET S
    BY <1>2, FS_FiniteSubsetsOfFinite
  <2>2. \A d \in S : after(S, d) \in SUBSET S
    BY DEF after
  <2>3. QED
    BY <2>1, <2>2
<1>4. PICK least \in tails : \A t \in tails : <<t, least>> \notin StrictSubsetOrdering(S)
  <2>1. IsWellFoundedOn(StrictSubsetOrdering(S), FiniteSubsetsOf(S))
    BY FS_StrictSubsetOrderingWellFounded
  <2> HIDE DEF tails
  <2>2. QED
    BY <1>3, <2>1, WFMin
<1>5. PICK d \in S : least = after(S, d)
  BY <1>4
<1>6. ASSUME NEW e \in S, e > d PROVE FALSE
  <2>1. after(S, e) \in tails
    OBVIOUS
  <2>2. after(S, e) \subseteq after(S, d)
    <3>1. ASSUME NEW f \in S, f > e PROVE f > d
      BY <1>1, <1>6, <3>1
    <3>2. QED
      BY <3>1 DEF after
  <2>3. e \in after(S, d) /\ e \notin after(S, e)
    BY <1>1, <1>6 DEF after
  <2>4. <<after(S, e), after(S, d)>> \in StrictSubsetOrdering(S)
    BY <2>2, <2>3 DEF StrictSubsetOrdering, after
  <2>5. QED
    BY <1>4, <1>5, <2>1, <2>4
<1>7. \A e \in S : d >= e
  BY <1>1, <1>6
<1>8. QED
  BY <1>7 DEF Max

\* The entitlement a set of rows supports is well formed, whatever the rows.
LEMMA ResolvedType ==
  ASSUME NEW R, \A row \in R : row.currentPeriodEnd \in Date \cup {None}
  PROVE  /\ resolveStripeEntitlement(R).tier \in {"FREE", "PREMIUM"}
         /\ resolveStripeEntitlement(R).validUntil \in Date \cup {None}
<1> DEFINE granting == {row \in R : isLiveStripeSubscription(row)}
           ends     == {row.currentPeriodEnd : row \in granting} \ {None}
<1>1. ends \subseteq Date
  OBVIOUS
<1>2. ends # {} => Max(ends) \in Date
  <2> HIDE DEF ends
  <2>1. QED
    BY <1>1, LatestDate
<1>3. QED
  BY <1>2 DEF resolveStripeEntitlement

-----------------------------------------------------------------------------
(* The inductive invariant *)

\* A subscription event names a subscription and carries a status.
EventsOK ==
  \A i \in DOMAIN events : events[i].kind = "subscription" =>
    events[i].sub \in Sub /\ events[i].status \in Status

\* Only a subscription with an owner gets a row.
RowsOwned == \A s \in Sub : rows[s] # None => Owner[s] # None

\* What a worker knows at each point of a delivery.
HandlesEvent(w) == job[w].pc # "idle" => job[w].event \in DOMAIN events

HasOwner(w) ==
  job[w].pc \in {"write", "readEntitlement", "readSubscriptions", "writeEntitlement"} =>
    Handled(w).sub \in Sub /\ Owner[Handled(w).sub] \in Member

HasPlan(w) ==
  job[w].pc = "write" /\ Handled(w).kind \in ChargeKind =>
    /\ Handled(w).kind \notin IgnoredKind
    /\ rows[Handled(w).sub] # None
    /\ job[w].existing # None
    /\ planForCharge(job[w].existing, Handled(w)) # None

HasDerived(w) == job[w].pc = "writeEntitlement" => job[w].derived \in Entitlement

JobsOK ==
  \A w \in Worker : HandlesEvent(w) /\ HasOwner(w) /\ HasPlan(w) /\ HasDerived(w)

IInv == TypeOK /\ EventsOK /\ RowsOwned /\ JobsOK

-----------------------------------------------------------------------------
(* Lemmas about single operators *)

\* Appending an event leaves the earlier ones in place.
LEMMA AppendKeeps ==
  ASSUME NEW S, NEW seq \in Seq(S), NEW e \in S
  PROVE  /\ Append(seq, e) \in Seq(S)
         /\ Len(Append(seq, e)) = Len(seq) + 1
         /\ DOMAIN Append(seq, e) = DOMAIN seq \cup {Len(seq) + 1}
         /\ \A i \in DOMAIN seq : Append(seq, e)[i] = seq[i]
         /\ Append(seq, e)[Len(seq) + 1] = e
  OBVIOUS

\* What sync writes is an entitlement.
LEMMA DerivedType ==
  ASSUME TypeOK, NEW m
  PROVE  derivedEntitlement(m) \in Entitlement
<1>1. \A row \in rowsOf(m) : row.currentPeriodEnd \in Date \cup {None}
  BY DEF TypeOK, rowsOf, SubscriptionRow
<1>2. QED
  BY <1>1, ResolvedType DEF derivedEntitlement, Entitlement

\* A plan is a revocation to write, or nothing.
LEMMA PlanType ==
  ASSUME NEW row, NEW e \in Event
  PROVE  planForCharge(row, e) \in Revocation \cup {None}
  BY DEF planForCharge, planRevocation, planDisputeWonRelease, NO_REVOCATION,
         Revocation, RevokeReason, Event, REVOKE_REASON_REFUND, REVOKE_REASON_CHARGEBACK

-----------------------------------------------------------------------------
(* The invariant is inductive *)

\* A new event disturbs nothing a worker relies on.
LEMMA NewEventPreserves ==
  ASSUME IInv, Len(events) < MaxEvents,
         NEW e \in Event, e.kind = "subscription" => e.sub \in Sub /\ e.status \in Status,
         events' = Append(events, e),
         UNCHANGED <<now, rows, entitlement, eventRow, alerts, told, job, faults>>
  PROVE  IInv'
<1>1. /\ events' \in Seq(Event) /\ Len(events') = Len(events) + 1
      /\ DOMAIN events' = DOMAIN events \cup {Len(events) + 1}
      /\ \A i \in DOMAIN events : events'[i] = events[i]
      /\ events'[Len(events) + 1] = e
  BY AppendKeeps DEF IInv, TypeOK
<1>2. TypeOK'
  BY <1>1, ParameterAssumption DEF IInv, TypeOK
<1>3. EventsOK'
  BY <1>1 DEF IInv, EventsOK
<1>4. RowsOwned'
  BY DEF IInv, RowsOwned
<1>5. JobsOK'
  <2> SUFFICES ASSUME NEW w \in Worker
               PROVE  HandlesEvent(w)' /\ HasOwner(w)' /\ HasPlan(w)' /\ HasDerived(w)'
    BY DEF JobsOK
  <2>1. HandlesEvent(w) /\ HasOwner(w) /\ HasPlan(w) /\ HasDerived(w)
    BY DEF IInv, JobsOK
  <2>2. HandlesEvent(w)'
    BY <1>1, <2>1 DEF HandlesEvent
  <2>3. job[w].pc # "idle" => Handled(w)' = Handled(w)
    BY <1>1, <2>1 DEF HandlesEvent, Handled
  <2>4. HasOwner(w)'
    BY <2>1, <2>3 DEF HasOwner
  <2>5. HasPlan(w)'
    BY <2>1, <2>3 DEF HasPlan
  <2>6. HasDerived(w)'
    BY <2>1 DEF HasDerived
  <2>7. QED
    BY <2>2, <2>4, <2>5, <2>6
<1>6. QED
  BY <1>2, <1>3, <1>4, <1>5 DEF IInv

\* A worker's step leaves what the other workers rely on, as long as no row
\* disappears.
LEMMA OtherJobs ==
  ASSUME IInv, NEW w \in Worker, NEW new \in Job,
         job' = [job EXCEPT ![w] = new],
         UNCHANGED events,
         \A s \in Sub : rows[s] # None => rows'[s] # None,
         (HandlesEvent(w) /\ HasOwner(w) /\ HasPlan(w) /\ HasDerived(w))'
  PROVE  JobsOK'
<1> SUFFICES ASSUME NEW v \in Worker
             PROVE  (HandlesEvent(v) /\ HasOwner(v) /\ HasPlan(v) /\ HasDerived(v))'
  BY DEF JobsOK
<1>1. CASE v = w
  BY <1>1
<1>2. CASE v # w
  <2>1. job'[v] = job[v] /\ Handled(v)' = Handled(v)
    BY <1>2 DEF IInv, TypeOK, Handled
  <2>2. HandlesEvent(v) /\ HasOwner(v) /\ HasPlan(v) /\ HasDerived(v)
    BY DEF IInv, JobsOK
  <2>3. HandlesEvent(v)' /\ HasOwner(v)' /\ HasDerived(v)'
    BY <2>1, <2>2 DEF HandlesEvent, HasOwner, HasDerived
  <2>4. HasPlan(v)'
    <3>1. job[v].pc = "write" => Handled(v).sub \in Sub
      BY <2>2 DEF HasOwner
    <3>2. QED
      BY <2>1, <2>2, <3>1 DEF HasPlan
  <2>5. QED
    BY <2>3, <2>4
<1>3. QED
  BY <1>1, <1>2

\* The same for a step that changes no row.
LEMMA JobStep ==
  ASSUME IInv, NEW w \in Worker, NEW new \in Job,
         job' = [job EXCEPT ![w] = new],
         UNCHANGED <<now, events, rows, entitlement, eventRow, alerts, told, faults>>,
         (HandlesEvent(w) /\ HasOwner(w) /\ HasPlan(w) /\ HasDerived(w))'
  PROVE  IInv'
<1>1. TypeOK'
  BY DEF IInv, TypeOK
<1>2. EventsOK' /\ RowsOwned'
  BY DEF IInv, EventsOK, RowsOwned
<1>3. JobsOK'
  BY OtherJobs
<1>4. QED
  BY <1>1, <1>2, <1>3 DEF IInv

LEMMA IdleJob == idle \in Job
  BY DEF idle, Job

LEMMA InitIInv == Init => IInv
<1> SUFFICES ASSUME Init PROVE IInv
  OBVIOUS
<1>1. TypeOK
  BY IdleJob, MaxDateAssumption, ParameterAssumption
     DEF Init, TypeOK, Date, FreeAccount, Entitlement, EventRow, EventId
<1>2. EventsOK
  BY DEF Init, EventsOK
<1>3. RowsOwned
  BY DEF Init, RowsOwned
<1>4. JobsOK
  BY DEF Init, JobsOK, idle, HandlesEvent, HasOwner, HasPlan, HasDerived
<1>5. QED
  BY <1>1, <1>2, <1>3, <1>4 DEF IInv

\* The environment keeps the invariant.
LEMMA EnvironmentPreserves ==
  ASSUME IInv, Environment
  PROVE  IInv'
<1>1. ASSUME NEW s \in Sub, NEW status \in EventStatus, NEW end \in Date \cup {None},
             StripeUpdatesSubscription(s, status, end)
      PROVE  IInv'
  <2> DEFINE e == [kind |-> "subscription", sub |-> s, created |-> now,
                   status |-> status, currentPeriodEnd |-> end]
  <2>1. e \in Event /\ e.sub \in Sub /\ e.status \in Status
    BY ParameterAssumption DEF Event, IInv, TypeOK
  <2>2. /\ Len(events) < MaxEvents
        /\ events' = Append(events, e)
        /\ UNCHANGED <<now, rows, entitlement, eventRow, alerts, told, job, faults>>
    BY <1>1 DEF StripeUpdatesSubscription
  <2> HIDE DEF e
  <2>3. QED
    BY <2>1, <2>2, NewEventPreserves
<1>2. ASSUME NEW kind \in ChargeKind, NEW s \in ChargeSub, StripeReportsCharge(kind, s)
      PROVE  IInv'
  <2> DEFINE e == [kind |-> kind, sub |-> s, created |-> now,
                   status |-> None, currentPeriodEnd |-> None]
  <2>1. e \in Event /\ e.kind # "subscription"
    BY ParameterAssumption DEF Event, IInv, TypeOK, ChargeKind, MoneyBackKind
  <2>2. /\ Len(events) < MaxEvents
        /\ events' = Append(events, e)
        /\ UNCHANGED <<now, rows, entitlement, eventRow, alerts, told, job, faults>>
    BY <1>2 DEF StripeReportsCharge
  <2> HIDE DEF e
  <2>3. QED
    BY <2>1, <2>2, NewEventPreserves
<1>3. CASE Tick
  <2>1. TypeOK'
    BY <1>3, MaxDateAssumption DEF Tick, IInv, TypeOK, Date
  <2>2. EventsOK' /\ RowsOwned'
    BY <1>3 DEF Tick, IInv, EventsOK, RowsOwned
  <2>3. JobsOK'
    BY <1>3 DEF Tick, IInv, JobsOK, HandlesEvent, HasOwner, HasPlan, HasDerived, Handled
  <2>4. QED
    BY <2>1, <2>2, <2>3 DEF IInv
<1>4. ASSUME NEW m \in Member, NEW until \in GrantUntil, GrantManually(m, until)
      PROVE  IInv'
  <2>1. TypeOK'
    BY <1>4, ParameterAssumption DEF GrantManually, IInv, TypeOK, Entitlement
  <2>2. EventsOK' /\ RowsOwned'
    BY <1>4 DEF GrantManually, IInv, EventsOK, RowsOwned
  <2>3. JobsOK'
    BY <1>4 DEF GrantManually, IInv, JobsOK, HandlesEvent, HasOwner, HasPlan, HasDerived, Handled
  <2>4. QED
    BY <2>1, <2>2, <2>3 DEF IInv
<1>5. QED
  BY <1>1, <1>2, <1>3, <1>4 DEF Environment

\* What the invariant says of one worker and the event it handles.
LEMMA WorkerFacts ==
  ASSUME IInv, NEW w \in Worker
  PROVE  /\ job[w] \in Job
         /\ HandlesEvent(w) /\ HasOwner(w) /\ HasPlan(w) /\ HasDerived(w)
         /\ job[w].pc # "idle" =>
              /\ job[w].event \in EventId
              /\ Handled(w) \in Event
              /\ Handled(w).kind = "subscription" =>
                   Handled(w).sub \in Sub /\ Handled(w).status \in Status
<1>1. job[w] \in Job
  BY DEF IInv, TypeOK
<1>2. HandlesEvent(w) /\ HasOwner(w) /\ HasPlan(w) /\ HasDerived(w)
  BY DEF IInv, JobsOK
<1>3. DOMAIN events \subseteq EventId /\ \A i \in DOMAIN events : events[i] \in Event
  BY ParameterAssumption DEF IInv, TypeOK, EventId
<1>4. QED
  BY <1>1, <1>2, <1>3 DEF HandlesEvent, Handled, IInv, EventsOK

\* Going to record, or to fail, needs nothing but the event.
LEMMA WindDown ==
  ASSUME IInv, NEW w \in Worker, NEW new \in Job,
         new.pc \in {"record", "fail", "read"}, new.event \in DOMAIN events,
         job' = [job EXCEPT ![w] = new],
         UNCHANGED events
  PROVE  (HandlesEvent(w) /\ HasOwner(w) /\ HasPlan(w) /\ HasDerived(w))'
<1>1. job'[w] = new
  BY DEF IInv, TypeOK
<1>2. QED
  BY <1>1 DEF HandlesEvent, HasOwner, HasPlan, HasDerived

\* The steps of a delivery that change no row keep the invariant.
LEMMA ReadStepsPreserve ==
  ASSUME IInv, NEW w \in Worker,
         \/ \E i \in EventId : Deliver(w, i)
         \/ IgnoreEvent(w) \/ ReadSubscription(w)
         \/ ReadEntitlement(w) \/ ReadSubscriptions(w)
  PROVE  IInv'
<1> USE WorkerFacts
<1>1. ASSUME NEW i \in EventId, Deliver(w, i) PROVE IInv'
  <2> DEFINE new == [idle EXCEPT !.pc = "read", !.event = i]
  <2>1. new \in Job /\ new.pc = "read" /\ new.event \in DOMAIN events
    BY <1>1 DEF Deliver, idle, Job
  <2>2. job' = [job EXCEPT ![w] = new]
    BY <1>1 DEF Deliver
  <2> HIDE DEF new
  <2>3. QED
    BY <1>1, <2>1, <2>2, WindDown, JobStep DEF Deliver
<1>2. CASE IgnoreEvent(w)
  <2> DEFINE new == [job[w] EXCEPT !.pc = "record"]
  <2>1. new \in Job /\ new.pc = "record" /\ new.event \in DOMAIN events
    BY <1>2 DEF IgnoreEvent, Job, At, HandlesEvent
  <2>2. job' = [job EXCEPT ![w] = new]
    BY <1>2 DEF IgnoreEvent
  <2> HIDE DEF new
  <2>3. QED
    BY <1>2, <2>1, <2>2, WindDown, JobStep DEF IgnoreEvent
<1>3. CASE ReadSubscription(w)
  <2>1. job[w].event \in DOMAIN events /\ Handled(w).sub \in Sub
    BY <1>3 DEF ReadSubscription, At, HandlesEvent
  <2>2. CASE isOutOfOrder(rows[Handled(w).sub], Handled(w))
    <3> DEFINE new == [job[w] EXCEPT !.pc = "record"]
    <3>1. new \in Job /\ new.pc = "record" /\ new.event \in DOMAIN events
      BY <2>1 DEF Job
    <3>2. job' = [job EXCEPT ![w] = new]
      BY <1>3, <2>2 DEF ReadSubscription
    <3> HIDE DEF new
    <3>3. QED
      BY <1>3, <3>1, <3>2, WindDown, JobStep DEF ReadSubscription
  <2>3. CASE ~ isOutOfOrder(rows[Handled(w).sub], Handled(w))
    <3> DEFINE new == [job[w] EXCEPT !.pc = "write", !.existing = rows[Handled(w).sub]]
    <3>1. new \in Job /\ new.pc = "write" /\ new.event = job[w].event
      BY <2>1 DEF Job, IInv, TypeOK
    <3>2. job' = [job EXCEPT ![w] = new]
      BY <1>3, <2>3 DEF ReadSubscription
    <3> HIDE DEF new
    <3>3. job'[w] = new /\ Handled(w)' = Handled(w)
      BY <1>3, <3>1, <3>2 DEF ReadSubscription, IInv, TypeOK, Handled
    <3>4. Handled(w).kind = "subscription" /\ Owner[Handled(w).sub] \in Member
      BY <1>3, <2>1, ParameterAssumption DEF ReadSubscription
    <3>5. (HandlesEvent(w) /\ HasOwner(w) /\ HasPlan(w) /\ HasDerived(w))'
      BY <1>3, <2>1, <3>1, <3>3, <3>4
         DEF ReadSubscription, HandlesEvent, HasOwner, HasPlan, HasDerived, ChargeKind, MoneyBackKind
    <3>6. QED
      BY <1>3, <3>1, <3>2, <3>5, JobStep DEF ReadSubscription
  <2>4. QED
    BY <2>2, <2>3
<1>4. CASE ReadEntitlement(w)
  <2> DEFINE m == Owner[Handled(w).sub]
             live == entitlement[m].source = "MANUAL" /\ isEntitlementActive(entitlement[m], now)
  <2>1. job[w].event \in DOMAIN events /\ Handled(w).sub \in Sub /\ m \in Member
    BY <1>4 DEF ReadEntitlement, At, HandlesEvent, HasOwner
  <2>2. CASE live
    <3> DEFINE new == [job[w] EXCEPT !.pc = "record"]
    <3>1. new \in Job /\ new.pc = "record" /\ new.event \in DOMAIN events
      BY <2>1 DEF Job
    <3>2. job' = [job EXCEPT ![w] = new]
      BY <1>4, <2>2 DEF ReadEntitlement
    <3> HIDE DEF new
    <3>3. QED
      BY <1>4, <3>1, <3>2, WindDown, JobStep DEF ReadEntitlement
  <2>3. CASE ~ live
    <3> DEFINE new == [job[w] EXCEPT !.pc = "readSubscriptions", !.granted = entitlement[m]]
    <3>1. new \in Job /\ new.pc = "readSubscriptions" /\ new.event = job[w].event
      BY <2>1 DEF Job, IInv, TypeOK
    <3>2. job' = [job EXCEPT ![w] = new]
      BY <1>4, <2>3 DEF ReadEntitlement
    <3> HIDE DEF new
    <3>3. job'[w] = new /\ Handled(w)' = Handled(w)
      BY <1>4, <3>1, <3>2 DEF ReadEntitlement, IInv, TypeOK, Handled
    <3>4. (HandlesEvent(w) /\ HasOwner(w) /\ HasPlan(w) /\ HasDerived(w))'
      BY <1>4, <2>1, <3>1, <3>3 DEF ReadEntitlement, HandlesEvent, HasOwner, HasPlan, HasDerived
    <3>5. QED
      BY <1>4, <3>1, <3>2, <3>4, JobStep DEF ReadEntitlement
  <2>4. QED
    BY <2>2, <2>3
<1>5. CASE ReadSubscriptions(w)
  <2> DEFINE derived == derivedEntitlement(Owner[Handled(w).sub])
             new == [job[w] EXCEPT !.pc = "writeEntitlement", !.derived = derived]
  <2>1. job[w].event \in DOMAIN events /\ Handled(w).sub \in Sub /\ Owner[Handled(w).sub] \in Member
    BY <1>5 DEF ReadSubscriptions, At, HandlesEvent, HasOwner
  <2>2. derived \in Entitlement
    BY DerivedType DEF IInv
  <2>3. job' = [job EXCEPT ![w] = new]
    BY <1>5 DEF ReadSubscriptions
  <2> HIDE DEF derived
  <2>4. new \in Job /\ new.pc = "writeEntitlement" /\ new.event = job[w].event /\ new.derived = derived
    BY <2>2 DEF Job
  <2> HIDE DEF new
  <2>5. job'[w] = new /\ Handled(w)' = Handled(w)
    BY <1>5, <2>3, <2>4 DEF ReadSubscriptions, IInv, TypeOK, Handled
  <2>6. (HandlesEvent(w) /\ HasOwner(w) /\ HasPlan(w) /\ HasDerived(w))'
    BY <1>5, <2>1, <2>2, <2>4, <2>5 DEF ReadSubscriptions, HandlesEvent, HasOwner, HasPlan, HasDerived
  <2>7. QED
    BY <1>5, <2>3, <2>4, <2>6, JobStep DEF ReadSubscriptions
<1>6. QED
  BY <1>1, <1>2, <1>3, <1>4, <1>5

\* The steps that trace a charge or alert a human keep the invariant.
LEMMA ChargeReadPreserves ==
  ASSUME IInv, NEW w \in Worker, ReadChargedSubscription(w) \/ AlertUnmatchedSubscription(w)
  PROVE  IInv'
<1> USE WorkerFacts
<1>1. CASE ReadChargedSubscription(w)
  <2> DEFINE e == Handled(w)
             record == [job[w] EXCEPT !.pc = "record"]
             write == [job[w] EXCEPT !.pc = "write", !.existing = rows[e.sub]]
  <2>1. /\ job[w].event \in DOMAIN events /\ job[w].event \in EventId /\ e \in Event
        /\ e.kind \in ChargeKind \ IgnoredKind
    BY <1>1 DEF ReadChargedSubscription, At, HandlesEvent
  <2>2. CASE /\ job' = [job EXCEPT ![w] = record]
             /\ told' \subseteq EventId
    <3>1. record \in Job /\ record.pc = "record" /\ record.event \in DOMAIN events
      BY <2>1 DEF Job
    <3> HIDE DEF record
    <3>2. (HandlesEvent(w) /\ HasOwner(w) /\ HasPlan(w) /\ HasDerived(w))'
      BY <1>1, <2>2, <3>1, WindDown DEF ReadChargedSubscription
    <3>3. JobsOK'
      BY <1>1, <2>2, <3>1, <3>2, OtherJobs DEF ReadChargedSubscription
    <3>4. TypeOK'
      BY <1>1, <2>2, <3>1 DEF ReadChargedSubscription, IInv, TypeOK
    <3>5. EventsOK' /\ RowsOwned'
      BY <1>1 DEF ReadChargedSubscription, IInv, EventsOK, RowsOwned
    <3>6. QED
      BY <3>3, <3>4, <3>5 DEF IInv
  <2>3. CASE /\ e.sub # None /\ rows[e.sub] # None
             /\ planForCharge(rows[e.sub], e) # None
             /\ job' = [job EXCEPT ![w] = write]
             /\ UNCHANGED told
    <3>1. e.sub \in Sub /\ Owner[e.sub] \in Member
      BY <2>1, <2>3, ParameterAssumption DEF Event, IInv, RowsOwned
    <3>2. /\ write \in Job /\ write.pc = "write" /\ write.event = job[w].event
          /\ write.existing = rows[e.sub]
      BY <2>1, <3>1 DEF Job, IInv, TypeOK
    <3> HIDE DEF write
    <3>3. job'[w] = write /\ Handled(w)' = e
      BY <1>1, <2>3, <3>2 DEF ReadChargedSubscription, IInv, TypeOK, Handled
    <3>4. (HandlesEvent(w) /\ HasOwner(w) /\ HasPlan(w) /\ HasDerived(w))'
      BY <1>1, <2>1, <2>3, <3>1, <3>2, <3>3
         DEF ReadChargedSubscription, HandlesEvent, HasOwner, HasPlan, HasDerived
    <3>5. QED
      BY <1>1, <2>3, <3>2, <3>4, JobStep DEF ReadChargedSubscription
  <2>4. QED
    BY <1>1, <2>1, <2>2, <2>3 DEF ReadChargedSubscription, IInv, TypeOK
<1>2. CASE AlertUnmatchedSubscription(w)
  <2> DEFINE e == Handled(w)
  <2>1. /\ job[w].event \in DOMAIN events /\ e.sub \in Sub
    BY <1>2 DEF AlertUnmatchedSubscription, At, HandlesEvent
  <2>2. PICK new \in Job :
          /\ new.pc = "record" /\ new.event = job[w].event
          /\ job' = [job EXCEPT ![w] = new]
    <3>1. CASE job' = [job EXCEPT ![w].pc = "record", ![w].alertedSubscriptionId = e.sub]
      <4> DEFINE new == [job[w] EXCEPT !.pc = "record", !.alertedSubscriptionId = e.sub]
      <4>1. new \in Job /\ new.pc = "record" /\ new.event = job[w].event
        BY <2>1 DEF Job
      <4>2. job' = [job EXCEPT ![w] = new]
        BY <3>1
      <4>3. QED
        BY <4>1, <4>2
    <3>2. CASE job' = [job EXCEPT ![w].pc = "record"]
      <4> DEFINE new == [job[w] EXCEPT !.pc = "record"]
      <4>1. new \in Job /\ new.pc = "record" /\ new.event = job[w].event
        BY <2>1 DEF Job
      <4>2. job' = [job EXCEPT ![w] = new]
        BY <3>2
      <4>3. QED
        BY <4>1, <4>2
    <3>3. QED
      BY <1>2, <3>1, <3>2 DEF AlertUnmatchedSubscription
  <2>3. alerts' \in [Sub -> Nat]
    BY <1>2 DEF AlertUnmatchedSubscription, IInv, TypeOK
  <2>4. (HandlesEvent(w) /\ HasOwner(w) /\ HasPlan(w) /\ HasDerived(w))'
    BY <1>2, <2>1, <2>2, WindDown DEF AlertUnmatchedSubscription
  <2>5. JobsOK'
    BY <1>2, <2>2, <2>4, OtherJobs DEF AlertUnmatchedSubscription
  <2>6. TypeOK'
    BY <1>2, <2>2, <2>3 DEF AlertUnmatchedSubscription, IInv, TypeOK
  <2>7. EventsOK' /\ RowsOwned'
    BY <1>2 DEF AlertUnmatchedSubscription, IInv, EventsOK, RowsOwned
  <2>8. QED
    BY <2>5, <2>6, <2>7 DEF IInv
<1>3. QED
  BY <1>1, <1>2

\* The two writes to a subscription row keep the invariant.
LEMMA RowWritePreserves ==
  ASSUME IInv, NEW w \in Worker, UpsertSubscription(w) \/ UpdateRevocation(w)
  PROVE  /\ IInv'
         /\ \A s \in Sub : rows[s] # None => rows'[s] # None
<1> USE WorkerFacts
<1> DEFINE e == Handled(w)
           new == [job[w] EXCEPT !.pc = "readEntitlement", !.existing = None]
<1>1. /\ job[w].pc = "write" /\ job[w].event \in DOMAIN events
      /\ e \in Event /\ e.sub \in Sub /\ Owner[e.sub] \in Member
      /\ job' = [job EXCEPT ![w] = new]
      /\ UNCHANGED <<now, events, entitlement, eventRow, alerts, told, faults>>
  BY DEF UpsertSubscription, UpdateRevocation, At, HandlesEvent, HasOwner
<1>2. new \in Job /\ new.pc = "readEntitlement" /\ new.event = job[w].event
  BY DEF Job
<1>3. rows' \in [Sub -> SubscriptionRow \cup {None}] /\ rows'[e.sub] \in SubscriptionRow
      /\ \A s \in Sub \ {e.sub} : rows'[s] = rows[s]
  <2>1. CASE UpsertSubscription(w)
    <3> DEFINE revocation == revocationAfterUpsert(w, rows[e.sub])
    <3>1. revocation.revokedAt \in Date \cup {None} /\ revocation.revokedReason \in RevokeReason \cup {None}
      BY <1>1 DEF revocationAfterUpsert, NO_REVOCATION, IInv, TypeOK, SubscriptionRow
    <3>2. e.status \in Status /\ e.currentPeriodEnd \in Date \cup {None} /\ e.created \in Date
      BY <1>1, <2>1 DEF UpsertSubscription, Event
    <3> HIDE DEF revocation
    <3>3. QED
      BY <1>1, <2>1, <3>1, <3>2 DEF UpsertSubscription, IInv, TypeOK, SubscriptionRow, revocation
  <2>2. CASE UpdateRevocation(w)
    <3> DEFINE plan == planForCharge(job[w].existing, e)
    <3>1. plan \in Revocation /\ rows[e.sub] \in SubscriptionRow
      BY <1>1, <2>2, PlanType DEF UpdateRevocation, HasPlan, IInv, TypeOK
    <3> HIDE DEF plan
    <3>2. rows' = [rows EXCEPT ![e.sub].revokedAt = plan.revokedAt,
                               ![e.sub].revokedReason = plan.revokedReason]
      BY <2>2 DEF UpdateRevocation, plan
    <3>3. QED
      BY <1>1, <3>1, <3>2 DEF IInv, TypeOK, SubscriptionRow, Revocation
  <2>3. QED
    BY <2>1, <2>2
<1> HIDE DEF new
<1>4. \A s \in Sub : rows[s] # None => rows'[s] # None
  BY <1>1, <1>3, NullRecordAssumption
<1>5. job'[w] = new /\ Handled(w)' = e
  BY <1>1, <1>2 DEF IInv, TypeOK, Handled
<1>6. (HandlesEvent(w) /\ HasOwner(w) /\ HasPlan(w) /\ HasDerived(w))'
  BY <1>1, <1>2, <1>5 DEF HandlesEvent, HasOwner, HasPlan, HasDerived
<1>7. JobsOK'
  BY <1>1, <1>2, <1>4, <1>6, OtherJobs
<1>8. TypeOK'
  BY <1>1, <1>2, <1>3 DEF IInv, TypeOK
<1>9. EventsOK' /\ RowsOwned'
  BY <1>1, <1>3, ParameterAssumption DEF IInv, EventsOK, RowsOwned
<1>10. QED
  BY <1>4, <1>7, <1>8, <1>9 DEF IInv

\* The end of a delivery, however it ends, keeps the invariant.
LEMMA EndingPreserves ==
  ASSUME IInv, NEW w \in Worker,
         \/ WriteEntitlement(w) \/ RecordProcessed(w) \/ RecordFailed(w)
         \/ Throw(w) \/ Crash(w)
  PROVE  IInv' /\ UNCHANGED <<events, rows>>
<1> USE WorkerFacts
<1>1. UNCHANGED <<events, rows>>
  BY DEF WriteEntitlement, RecordProcessed, RecordFailed, Throw, Crash
<1>2. EventsOK' /\ RowsOwned'
  BY <1>1 DEF IInv, EventsOK, RowsOwned
<1>3. CASE WriteEntitlement(w)
  <2> DEFINE new == [job[w] EXCEPT !.pc = "record", !.granted = None, !.derived = None]
  <2>1. /\ job[w].event \in DOMAIN events
        /\ Owner[Handled(w).sub] \in Member /\ job[w].derived \in Entitlement
    BY <1>3 DEF WriteEntitlement, At, HandlesEvent, HasOwner, HasDerived
  <2>2. new \in Job /\ new.pc = "record" /\ new.event \in DOMAIN events
    BY <2>1 DEF Job
  <2>3. job' = [job EXCEPT ![w] = new]
    BY <1>3 DEF WriteEntitlement
  <2> HIDE DEF new
  <2>4. TypeOK'
    BY <1>3, <2>1, <2>2, <2>3 DEF WriteEntitlement, IInv, TypeOK
  <2>5. JobsOK'
    BY <1>1, <2>2, <2>3, WindDown, OtherJobs
  <2>6. QED
    BY <1>1, <1>2, <2>4, <2>5 DEF IInv
<1>4. CASE RecordProcessed(w) \/ RecordFailed(w) \/ Crash(w)
  <2>1. job' = [job EXCEPT ![w] = idle]
    BY <1>4 DEF RecordProcessed, RecordFailed, Crash
  <2>2. job'[w] = idle
    BY <2>1 DEF IInv, TypeOK
  <2>3. (HandlesEvent(w) /\ HasOwner(w) /\ HasPlan(w) /\ HasDerived(w))'
    BY <2>2 DEF idle, HandlesEvent, HasOwner, HasPlan, HasDerived
  <2>4. JobsOK'
    BY <1>1, <2>1, <2>3, IdleJob, OtherJobs
  <2>5. /\ eventRow' \in [EventId -> EventRow]
        /\ faults' \in 0 .. MaxFaults
        /\ UNCHANGED <<now, entitlement, alerts, told>>
    <3>1. CASE RecordProcessed(w)
      <4>1. job[w].event \in EventId /\ job[w].alertedSubscriptionId \in Sub \cup {None}
        BY <3>1 DEF RecordProcessed, At, Job
      <4>2. QED
        BY <3>1, <4>1 DEF RecordProcessed, IInv, TypeOK, EventRow
    <3>2. CASE RecordFailed(w)
      <4>1. job[w].event \in EventId
        BY <3>2 DEF RecordFailed, At
      <4>2. QED
        BY <3>2, <4>1 DEF RecordFailed, IInv, TypeOK, EventRow
    <3>3. CASE Crash(w)
      BY <3>3, ParameterAssumption DEF Crash, IInv, TypeOK
    <3>4. QED
      BY <1>4, <3>1, <3>2, <3>3
  <2>6. TypeOK'
    BY <1>1, <2>1, <2>5, IdleJob DEF IInv, TypeOK
  <2>7. QED
    BY <1>1, <1>2, <2>4, <2>6 DEF IInv
<1>5. CASE Throw(w)
  <2> DEFINE new == [idle EXCEPT !.pc = "fail", !.event = job[w].event]
  <2>1. job[w].event \in DOMAIN events /\ job[w].event \in EventId
    BY <1>5 DEF Throw, HandlesEvent
  <2>2. new \in Job /\ new.pc = "fail" /\ new.event \in DOMAIN events
    BY <2>1 DEF idle, Job
  <2>3. job' = [job EXCEPT ![w] = new]
    BY <1>5 DEF Throw
  <2> HIDE DEF new
  <2>4. faults' \in 0 .. MaxFaults /\ UNCHANGED <<now, entitlement, eventRow, alerts, told>>
    BY <1>5, ParameterAssumption DEF Throw, IInv, TypeOK
  <2>5. TypeOK'
    BY <1>1, <2>2, <2>3, <2>4 DEF IInv, TypeOK
  <2>6. JobsOK'
    BY <1>1, <2>2, <2>3, WindDown, OtherJobs
  <2>7. QED
    BY <1>1, <1>2, <2>5, <2>6 DEF IInv
<1>6. QED
  BY <1>3, <1>4, <1>5

LEMMA StepIInv == IInv /\ [Next]_vars => IInv'
<1> SUFFICES ASSUME IInv, [Next]_vars PROVE IInv'
  OBVIOUS
<1>1. CASE Environment
  BY <1>1, EnvironmentPreserves
<1>2. ASSUME NEW w \in Worker, NEW i \in EventId, Deliver(w, i) PROVE IInv'
  BY <1>2, ReadStepsPreserve
<1>3. ASSUME NEW w \in Worker, Progress(w) PROVE IInv'
  BY <1>3, ReadStepsPreserve, ChargeReadPreserves, RowWritePreserves, EndingPreserves DEF Progress
<1>4. ASSUME NEW w \in Worker, Fault(w) PROVE IInv'
  BY <1>4, EndingPreserves DEF Fault
<1>5. CASE UNCHANGED vars
  BY <1>5 DEF vars, IInv, TypeOK, EventsOK, RowsOwned, JobsOK, HandlesEvent, HasOwner,
              HasPlan, HasDerived, Handled
<1>6. QED
  BY <1>1, <1>2, <1>3, <1>4, <1>5 DEF Next, SkipProcessed

LEMMA InductiveInvariant == Spec => []IInv
<1>1. QED
  BY InitIInv, StepIInv, PTL DEF Spec

\* Every variable of the webhook handlers has its type, for every instance.
THEOREM TypeCorrect == Spec => []TypeOK
<1>1. IInv => TypeOK
  BY DEF IInv
<1>2. QED
  BY <1>1, InductiveInvariant, PTL

-----------------------------------------------------------------------------
(* Where stored rows come from *)

\* A step that changes no row, and no event already generated, keeps both
\* traces.
LEMMA TracesSurvive ==
  ASSUME IInv, RowsTraceToEvents, RevocationsTraceToCharges, UNCHANGED rows,
         DOMAIN events \subseteq DOMAIN events',
         \A i \in DOMAIN events : events'[i] = events[i]
  PROVE  RowsTraceToEvents' /\ RevocationsTraceToCharges'
<1>1. \A s, kinds : Generated(s, kinds) \subseteq Generated(s, kinds)'
  BY DEF Generated
<1>2. \A s, kinds : \A i \in Generated(s, kinds) : events'[i] = events[i]
  BY DEF Generated
<1>3. RowsTraceToEvents'
  BY <1>1, <1>2 DEF RowsTraceToEvents
<1>4. RevocationsTraceToCharges'
  BY <1>1, <1>2 DEF RevocationsTraceToCharges
<1>5. QED
  BY <1>3, <1>4

\* Every environment step only adds to what Stripe has generated.
LEMMA EnvironmentAppends ==
  ASSUME IInv, Environment
  PROVE  /\ UNCHANGED <<rows, job, eventRow, told>>
         /\ DOMAIN events \subseteq DOMAIN events'
         /\ \A i \in DOMAIN events : events'[i] = events[i]
<1>1. UNCHANGED <<rows, job, eventRow, told>> /\ (UNCHANGED events \/ \E e \in Event : events' = Append(events, e))
  <2>1. ASSUME NEW s \in Sub, NEW status \in EventStatus, NEW end \in Date \cup {None},
               StripeUpdatesSubscription(s, status, end)
        PROVE  UNCHANGED <<rows, job, eventRow, told>> /\ \E e \in Event : events' = Append(events, e)
    <3> DEFINE e == [kind |-> "subscription", sub |-> s, created |-> now,
                     status |-> status, currentPeriodEnd |-> end]
    <3>1. e \in Event
      BY ParameterAssumption DEF Event, IInv, TypeOK
    <3>2. QED
      BY <2>1, <3>1 DEF StripeUpdatesSubscription
  <2>2. ASSUME NEW kind \in ChargeKind, NEW s \in ChargeSub, StripeReportsCharge(kind, s)
        PROVE  UNCHANGED <<rows, job, eventRow, told>> /\ \E e \in Event : events' = Append(events, e)
    <3> DEFINE e == [kind |-> kind, sub |-> s, created |-> now,
                     status |-> None, currentPeriodEnd |-> None]
    <3>1. e \in Event
      BY ParameterAssumption DEF Event, IInv, TypeOK
    <3>2. QED
      BY <2>2, <3>1 DEF StripeReportsCharge
  <2>3. Tick \/ (\E m \in Member, until \in GrantUntil : GrantManually(m, until))
        => UNCHANGED <<rows, job, eventRow, told, events>>
    BY DEF Tick, GrantManually
  <2>4. QED
    BY <2>1, <2>2, <2>3 DEF Environment
<1>2. ASSUME NEW e \in Event, events' = Append(events, e)
      PROVE  /\ DOMAIN events \subseteq DOMAIN events'
             /\ \A i \in DOMAIN events : events'[i] = events[i]
  <2>1. events \in Seq(Event)
    BY DEF IInv, TypeOK
  <2>2. QED
    BY <1>2, <2>1, AppendKeeps
<1>3. QED
  BY <1>1, <1>2

\* The upsert writes the state of the event it handles; a revocation it keeps
\* was there before.
LEMMA UpsertTraces ==
  ASSUME IInv, RowsTraceToEvents, RevocationsTraceToCharges,
         NEW w \in Worker, UpsertSubscription(w)
  PROVE  RowsTraceToEvents' /\ RevocationsTraceToCharges'
<1> USE WorkerFacts
<1> DEFINE e == Handled(w)
           revocation == revocationAfterUpsert(w, rows[e.sub])
<1>1. /\ job[w].event \in Generated(e.sub, {"subscription"})
      /\ e.sub \in Sub
      /\ e = events[job[w].event]
      /\ UNCHANGED events
  BY DEF UpsertSubscription, At, HandlesEvent, Generated, Handled
<1>2. /\ rows' \in [Sub -> SubscriptionRow \cup {None}]
      /\ rows'[e.sub].status = e.status
      /\ rows'[e.sub].currentPeriodEnd = e.currentPeriodEnd
      /\ rows'[e.sub].lastEventAt = e.created
      /\ rows'[e.sub].revokedAt = revocation.revokedAt
      /\ rows'[e.sub].revokedReason = revocation.revokedReason
      /\ \A s \in Sub \ {e.sub} : rows'[s] = rows[s]
  <2> HIDE DEF revocation
  <2>1. IInv'
    BY RowWritePreserves
  <2>2. QED
    BY <1>1, <2>1 DEF UpsertSubscription, IInv, TypeOK, revocation
<1>3. \A s, kinds : Generated(s, kinds)' = Generated(s, kinds)
  BY <1>1 DEF Generated
<1>4. RowsTraceToEvents'
  BY <1>1, <1>2, <1>3 DEF RowsTraceToEvents
<1>5. \/ revocation = NO_REVOCATION
      \/ /\ rows[e.sub] # None
         /\ revocation.revokedAt = rows[e.sub].revokedAt
         /\ revocation.revokedReason = rows[e.sub].revokedReason
  BY DEF revocationAfterUpsert
<1> HIDE DEF revocation
<1>6. RevocationsTraceToCharges'
  BY <1>1, <1>2, <1>3, <1>5 DEF RevocationsTraceToCharges, NO_REVOCATION
<1>7. QED
  BY <1>4, <1>6

\* A revocation is stamped from the event in hand, a release clears both fields.
LEMMA RevocationTraces ==
  ASSUME IInv, RowsTraceToEvents, RevocationsTraceToCharges,
         NEW w \in Worker, UpdateRevocation(w)
  PROVE  RowsTraceToEvents' /\ RevocationsTraceToCharges'
<1> USE WorkerFacts
<1> DEFINE e == Handled(w)
           plan == planForCharge(job[w].existing, e)
<1>1. /\ job[w].event \in DOMAIN events /\ e = events[job[w].event]
      /\ e \in Event /\ e.sub \in Sub /\ e.kind \in ChargeKind \ IgnoredKind
      /\ rows[e.sub] # None /\ rows[e.sub] \in SubscriptionRow
      /\ plan # None
      /\ UNCHANGED events
  BY DEF UpdateRevocation, At, HandlesEvent, HasOwner, HasPlan, Handled, IInv, TypeOK
<1>2. \/ plan = NO_REVOCATION
      \/ /\ e.kind \in MoneyBackKind
         /\ plan.revokedAt = e.created
         /\ plan.revokedReason = IF e.kind = "refund" THEN REVOKE_REASON_REFUND
                                                      ELSE REVOKE_REASON_CHARGEBACK
  BY <1>1 DEF planForCharge, planRevocation, planDisputeWonRelease, ChargeKind, IgnoredKind,
              MoneyBackKind
<1>3. e.created # None
  BY <1>1, NoneAssumption DEF Event, Date
<1> HIDE DEF plan
<1>4. /\ rows'[e.sub].status = rows[e.sub].status
      /\ rows'[e.sub].currentPeriodEnd = rows[e.sub].currentPeriodEnd
      /\ rows'[e.sub].lastEventAt = rows[e.sub].lastEventAt
      /\ rows'[e.sub].revokedAt = plan.revokedAt
      /\ rows'[e.sub].revokedReason = plan.revokedReason
      /\ \A s \in Sub \ {e.sub} : rows'[s] = rows[s]
  BY <1>1 DEF UpdateRevocation, IInv, TypeOK, SubscriptionRow, plan
<1>5. \A s, kinds : Generated(s, kinds)' = Generated(s, kinds)
  BY <1>1 DEF Generated
<1>6. RowsTraceToEvents'
  BY <1>1, <1>4, <1>5 DEF RowsTraceToEvents
<1>7. e.kind \in MoneyBackKind => job[w].event \in Generated(e.sub, MoneyBackKind)
  BY <1>1 DEF Generated
<1>8. RevocationsTraceToCharges'
  BY <1>1, <1>2, <1>3, <1>4, <1>5, <1>7 DEF RevocationsTraceToCharges, NO_REVOCATION
<1>9. QED
  BY <1>6, <1>8

\* Deliveries that only read, or only end, leave rows and events alone.
LEMMA QuietSteps ==
  ASSUME NEW w \in Worker,
         \/ \E i \in EventId : Deliver(w, i) \/ SkipProcessed(w, i)
         \/ Fault(w)
         \/ Progress(w) /\ ~ UpsertSubscription(w) /\ ~ UpdateRevocation(w)
  PROVE  UNCHANGED <<rows, events>>
  BY DEF Deliver, SkipProcessed, vars, Fault, Throw, Crash, Progress, IgnoreEvent,
         AlertUnmatchedSubscription, ReadSubscription, ReadChargedSubscription,
         ReadEntitlement, ReadSubscriptions, WriteEntitlement, RecordProcessed, RecordFailed

LEMMA TracesPreserved ==
  ASSUME IInv, RowsTraceToEvents, RevocationsTraceToCharges, [Next]_vars
  PROVE  RowsTraceToEvents' /\ RevocationsTraceToCharges'
<1>1. CASE Environment
  BY <1>1, EnvironmentAppends, TracesSurvive
<1>2. ASSUME NEW w \in Worker, UpsertSubscription(w) \/ UpdateRevocation(w)
      PROVE  RowsTraceToEvents' /\ RevocationsTraceToCharges'
  BY <1>2, UpsertTraces, RevocationTraces
<1>3. CASE UNCHANGED <<rows, events>>
  BY <1>3, TracesSurvive
<1>4. QED
  BY <1>1, <1>2, <1>3, QuietSteps DEF Next, vars

\* However deliveries interleave, fail and repeat, a stored row holds the state
\* of one event of its own subscription.
THEOREM RowsTraced == Spec => []RowsTraceToEvents
<1>1. Init => RowsTraceToEvents /\ RevocationsTraceToCharges
  BY DEF Init, RowsTraceToEvents, RevocationsTraceToCharges
<1>2. IInv /\ RowsTraceToEvents /\ RevocationsTraceToCharges /\ [Next]_vars
      => RowsTraceToEvents' /\ RevocationsTraceToCharges'
  BY TracesPreserved
<1>3. QED
  BY <1>1, <1>2, InductiveInvariant, PTL DEF Spec

\* However deliveries interleave, fail and repeat, a revocation is that of one
\* refund or dispute of the very subscription it stands on.
THEOREM RevocationsTraced == Spec => []RevocationsTraceToCharges
<1>1. Init => RowsTraceToEvents /\ RevocationsTraceToCharges
  BY DEF Init, RowsTraceToEvents, RevocationsTraceToCharges
<1>2. IInv /\ RowsTraceToEvents /\ RevocationsTraceToCharges /\ [Next]_vars
      => RowsTraceToEvents' /\ RevocationsTraceToCharges'
  BY TracesPreserved
<1>3. QED
  BY <1>1, <1>2, InductiveInvariant, PTL DEF Spec

-----------------------------------------------------------------------------
(* One delivery at a time *)

Serial == \A v, w \in Worker : v = w

\* The row a delivery writes from is still the stored one, and is not newer.
ReadIsFresh(w) ==
  job[w].pc = "write" =>
    /\ job[w].existing = rows[Handled(w).sub]
    /\ Handled(w).kind = "subscription" => ~ isOutOfOrder(job[w].existing, Handled(w))

\* The stored row has caught up with a subscription event.
CaughtUp(e) ==
  e.kind = "subscription" /\ Owner[e.sub] # None =>
    rows[e.sub] # None /\ rows[e.sub].lastEventAt >= e.created

WriteIsDone(w) ==
  job[w].pc \in {"readEntitlement", "readSubscriptions", "writeEntitlement", "record"} =>
    CaughtUp(Handled(w))

\* An event Stripe has not generated has no record.
Unseen == \A i \in EventId : Processed(i) => i \in DOMAIN events

SerialInv ==
  /\ IInv
  /\ \A w \in Worker : ReadIsFresh(w) /\ WriteIsDone(w)
  /\ \A i \in DOMAIN events : Processed(i) => CaughtUp(events[i])
  /\ Unseen

\* The step records only an event the row has caught up with.
RecordsCaughtUp ==
  \A i \in EventId : Processed(i)' =>
    Processed(i) \/ (i \in DOMAIN events /\ CaughtUp(events[i]))

\* A step of the one worker that changes no row.
LEMMA QuietSerialStep ==
  ASSUME SerialInv, IInv', UNCHANGED <<rows, events>>,
         NEW w \in Worker, \A v \in Worker : v = w,
         ReadIsFresh(w)', WriteIsDone(w)', RecordsCaughtUp
  PROVE  SerialInv'
<1>1. DOMAIN events \subseteq EventId
  BY ParameterAssumption DEF SerialInv, IInv, TypeOK, EventId
<1>2. \A i \in DOMAIN events : Processed(i)' => CaughtUp(events[i])'
  BY <1>1 DEF SerialInv, CaughtUp, RecordsCaughtUp
<1>3. Unseen'
  BY DEF SerialInv, Unseen, RecordsCaughtUp
<1>4. \A v \in Worker : ReadIsFresh(v)' /\ WriteIsDone(v)'
  OBVIOUS
<1>5. QED
  BY <1>2, <1>3, <1>4 DEF SerialInv

LEMMA SerialStep ==
  ASSUME Serial, SerialInv, NEW w \in Worker,
         \/ \E i \in EventId : Deliver(w, i)
         \/ Progress(w) \/ Fault(w)
  PROVE  SerialInv'
<1> DEFINE e == Handled(w)
<1>1. IInv' /\ IInv
  BY StepIInv DEF SerialInv, Next, vars
<1>2. \A v \in Worker : v = w
  BY DEF Serial
<1>3. ReadIsFresh(w) /\ WriteIsDone(w)
  BY DEF SerialInv
<1>4. /\ job[w] \in Job /\ HandlesEvent(w) /\ HasOwner(w) /\ HasPlan(w)
      /\ job \in [Worker -> Job]
      /\ job[w].pc # "idle" => e \in Event /\ job[w].event \in EventId
  BY <1>1, WorkerFacts DEF IInv, TypeOK
<1>5. CASE \/ \E i \in EventId : Deliver(w, i)
           \/ Fault(w)
           \/ RecordFailed(w)
  <2>1. /\ UNCHANGED <<rows, events>>
        /\ job'[w].pc \in {"idle", "read", "fail"}
        /\ UNCHANGED eventRow
           \/ eventRow' = [eventRow EXCEPT ![job[w].event] =
                             [status |-> "FAILED", stripeSubscriptionId |-> None]]
    <3>1. ASSUME NEW i \in EventId, Deliver(w, i)
          PROVE  UNCHANGED <<rows, events, eventRow>> /\ job'[w].pc = "read"
      BY <1>4, <3>1 DEF Deliver, idle
    <3>2. CASE Throw(w)
      BY <1>4, <3>2 DEF Throw, idle
    <3>3. CASE Crash(w)
      BY <1>4, <3>3 DEF Crash, idle
    <3>4. CASE RecordFailed(w)
      BY <1>4, <3>4 DEF RecordFailed, idle
    <3>5. QED
      BY <1>5, <3>1, <3>2, <3>3, <3>4 DEF Fault
  <2>2. \A i \in EventId : Processed(i)' => Processed(i)
    <3>1. eventRow \in [EventId -> EventRow]
      BY <1>1 DEF IInv, TypeOK
    <3>2. QED
      BY <2>1, <3>1 DEF Processed
  <2>3. RecordsCaughtUp
    BY <2>2 DEF RecordsCaughtUp
  <2>4. ReadIsFresh(w)' /\ WriteIsDone(w)'
    BY <2>1 DEF ReadIsFresh, WriteIsDone
  <2>5. QED
    BY <1>1, <1>2, <2>1, <2>3, <2>4, QuietSerialStep
<1>6. CASE IgnoreEvent(w) \/ AlertUnmatchedSubscription(w)
  <2>1. /\ UNCHANGED <<rows, events, eventRow>>
        /\ job'[w].pc = "record" /\ job'[w].event = job[w].event
        /\ CaughtUp(e)
    BY <1>4, <1>6 DEF IgnoreEvent, AlertUnmatchedSubscription, CaughtUp, IgnoredKind, At, Job
  <2>2. WriteIsDone(w)' /\ ReadIsFresh(w)'
    BY <2>1 DEF WriteIsDone, ReadIsFresh, CaughtUp, Handled
  <2>3. RecordsCaughtUp
    BY <2>1 DEF RecordsCaughtUp, Processed
  <2>4. QED
    BY <1>1, <1>2, <2>1, <2>2, <2>3, QuietSerialStep
<1>7. CASE ReadSubscription(w)
  <2>1. /\ UNCHANGED <<rows, events, eventRow>>
        /\ job'[w].event = job[w].event
        /\ job[w].event \in DOMAIN events /\ e.sub \in Sub
    BY <1>1, <1>4, <1>7, WorkerFacts DEF ReadSubscription, At, HandlesEvent, Job
  <2>2. \/ /\ job'[w].pc = "record" /\ isOutOfOrder(rows[e.sub], e)
        \/ /\ job'[w].pc = "write" /\ ~ isOutOfOrder(rows[e.sub], e)
           /\ job'[w].existing = rows[e.sub]
    BY <1>4, <1>7 DEF ReadSubscription, At, Job
  <2>3. isOutOfOrder(rows[e.sub], e) => CaughtUp(e)
    <3>1. e.created \in Date /\ (rows[e.sub] # None => rows[e.sub].lastEventAt \in Date)
      BY <1>1, <1>4, <1>7, <2>1 DEF ReadSubscription, At, IInv, TypeOK, Event, SubscriptionRow
    <3>2. QED
      BY <3>1, MaxDateAssumption DEF isOutOfOrder, CaughtUp, Date
  <2>4. WriteIsDone(w)' /\ ReadIsFresh(w)'
    BY <2>1, <2>2, <2>3 DEF WriteIsDone, ReadIsFresh, CaughtUp, Handled
  <2>5. RecordsCaughtUp
    BY <2>1 DEF RecordsCaughtUp, Processed
  <2>6. QED
    BY <1>1, <1>2, <2>1, <2>4, <2>5, QuietSerialStep
<1>8. CASE ReadChargedSubscription(w)
  <2>1. /\ UNCHANGED <<rows, events, eventRow>>
        /\ job'[w].event = job[w].event
        /\ e.kind # "subscription"
    BY <1>4, <1>8 DEF ReadChargedSubscription, ChargeKind, MoneyBackKind, IgnoredKind, Job
  <2>2. \/ job'[w].pc = "record"
        \/ job'[w].pc = "write" /\ job'[w].existing = rows[e.sub]
    BY <1>4, <1>8 DEF ReadChargedSubscription, Job
  <2>3. WriteIsDone(w)' /\ ReadIsFresh(w)'
    BY <2>1, <2>2 DEF WriteIsDone, ReadIsFresh, CaughtUp, Handled
  <2>4. RecordsCaughtUp
    BY <2>1 DEF RecordsCaughtUp, Processed
  <2>5. QED
    BY <1>1, <1>2, <2>1, <2>3, <2>4, QuietSerialStep
<1>9. CASE ReadEntitlement(w) \/ ReadSubscriptions(w) \/ WriteEntitlement(w)
  <2>1. /\ UNCHANGED <<rows, events, eventRow>>
        /\ job'[w].event = job[w].event
        /\ job[w].pc \in {"readEntitlement", "readSubscriptions", "writeEntitlement"}
        /\ job'[w].pc \in {"readSubscriptions", "writeEntitlement", "record"}
    BY <1>4, <1>9 DEF ReadEntitlement, ReadSubscriptions, WriteEntitlement, At, Job
  <2>2. WriteIsDone(w)' /\ ReadIsFresh(w)'
    BY <1>3, <2>1 DEF WriteIsDone, ReadIsFresh, CaughtUp, Handled
  <2>3. RecordsCaughtUp
    BY <2>1 DEF RecordsCaughtUp, Processed
  <2>4. QED
    BY <1>1, <1>2, <2>1, <2>2, <2>3, QuietSerialStep
<1>10. CASE RecordProcessed(w)
  <2>1. /\ UNCHANGED <<rows, events>>
        /\ job'[w] = idle
        /\ CaughtUp(e) /\ job[w].event \in DOMAIN events
    BY <1>3, <1>4, <1>10 DEF RecordProcessed, At, WriteIsDone, HandlesEvent
  <2>2. \A i \in EventId : Processed(i)' => Processed(i) \/ i = job[w].event
    <3>1. eventRow \in [EventId -> EventRow]
      BY <1>1 DEF IInv, TypeOK
    <3>2. QED
      BY <1>10, <3>1 DEF RecordProcessed, Processed
  <2>3. WriteIsDone(w)' /\ ReadIsFresh(w)'
    BY <2>1 DEF WriteIsDone, ReadIsFresh, idle
  <2>4. RecordsCaughtUp
    BY <2>1, <2>2 DEF RecordsCaughtUp, Handled
  <2>5. QED
    BY <1>1, <1>2, <2>1, <2>3, <2>4, QuietSerialStep
<1>11. CASE UpsertSubscription(w) \/ UpdateRevocation(w)
  <2>1. /\ job[w].pc = "write" /\ job'[w].pc = "readEntitlement"
        /\ job'[w].event = job[w].event
        /\ job[w].event \in DOMAIN events /\ e \in Event /\ e.sub \in Sub
        /\ UNCHANGED <<events, eventRow>>
    BY <1>4, <1>11 DEF UpsertSubscription, UpdateRevocation, At, HandlesEvent, HasOwner, Job
  <2>2. \A s \in Sub : rows[s] # None => rows'[s] # None
    BY <1>1, <1>11, RowWritePreserves
  <2>3. /\ \A s \in Sub : rows[s] # None => rows'[s].lastEventAt >= rows[s].lastEventAt
        /\ e.kind = "subscription" => rows'[e.sub] # None /\ rows'[e.sub].lastEventAt = e.created
    <3>1. /\ rows \in [Sub -> SubscriptionRow \cup {None}]
          /\ rows' \in [Sub -> SubscriptionRow \cup {None}]
      BY <1>1 DEF IInv, TypeOK
    <3>2. CASE UpsertSubscription(w)
      <4>1. /\ rows'[e.sub] \in SubscriptionRow /\ rows'[e.sub].lastEventAt = e.created
            /\ \A s \in Sub \ {e.sub} : rows'[s] = rows[s]
        <5>1. rows'[e.sub].lastEventAt = e.created /\ \A s \in Sub \ {e.sub} : rows'[s] = rows[s]
          BY <2>1, <3>1, <3>2 DEF UpsertSubscription
        <5>2. IInv' /\ UNCHANGED events
          BY <1>1, <2>1
        <5>3. rows'[e.sub] # None
          <6> DEFINE r == revocationAfterUpsert(w, rows[e.sub])
                     row == [status |-> e.status,
                             currentPeriodEnd |-> e.currentPeriodEnd,
                             lastEventAt |-> e.created,
                             revokedAt |-> r.revokedAt,
                             revokedReason |-> r.revokedReason]
          <6>1. /\ r.revokedAt \in Date \cup {None}
                /\ r.revokedReason \in RevokeReason \cup {None}
            BY <2>1, <3>1 DEF revocationAfterUpsert, NO_REVOCATION, SubscriptionRow
          <6>2. e.status \in Status
            BY <1>1, <2>1, <3>2, WorkerFacts DEF UpsertSubscription
          <6>3. rows'[e.sub] = row
            BY <2>1, <3>1, <3>2 DEF UpsertSubscription
          <6> HIDE DEF r
          <6>4. row \in SubscriptionRow
            BY <2>1, <6>1, <6>2 DEF SubscriptionRow, Event
          <6>5. QED
            BY <6>3, <6>4, NullRecordAssumption
        <5>4. QED
          BY <2>1, <3>1, <5>1, <5>3
      <4>2. rows[e.sub] # None => e.created >= rows[e.sub].lastEventAt
        <5>1. ~ isOutOfOrder(rows[e.sub], e)
          BY <1>3, <2>1, <3>2 DEF ReadIsFresh, UpsertSubscription
        <5>2. e.created \in Date /\ (rows[e.sub] # None => rows[e.sub].lastEventAt \in Date)
          BY <2>1, <3>1 DEF Event, SubscriptionRow
        <5>3. QED
          BY <5>1, <5>2, MaxDateAssumption DEF isOutOfOrder, Date
      <4>3. \A s \in Sub : rows[s] # None => rows[s].lastEventAt \in Nat
        BY <3>1, MaxDateAssumption DEF SubscriptionRow, Date
      <4>4. QED
        BY <4>1, <4>2, <4>3, NullRecordAssumption
    <3>3. CASE UpdateRevocation(w)
      <4>1. \A s \in Sub : rows[s] # None => rows'[s].lastEventAt = rows[s].lastEventAt
        BY <2>1, <3>1, <3>3 DEF UpdateRevocation, SubscriptionRow
      <4>2. \A s \in Sub : rows[s] # None => rows[s].lastEventAt \in Nat
        BY <3>1, MaxDateAssumption DEF SubscriptionRow, Date
      <4>3. e.kind # "subscription"
        BY <3>3 DEF UpdateRevocation, ChargeKind, MoneyBackKind
      <4>4. QED
        BY <4>1, <4>2, <4>3
    <3>4. QED
      BY <1>11, <3>2, <3>3
  <2>4. \A f \in Event : f.kind = "subscription" => (f.sub \in Sub /\ CaughtUp(f) => CaughtUp(f)')
    <3>1. \A s \in Sub : rows[s] # None => rows[s].lastEventAt \in Nat /\ rows'[s].lastEventAt \in Nat
      BY <1>1, <2>2, MaxDateAssumption DEF IInv, TypeOK, SubscriptionRow, Date
    <3>2. \A f \in Event : f.created \in Nat
      BY MaxDateAssumption DEF Event, Date
    <3>3. QED
      BY <2>2, <2>3, <3>1, <3>2 DEF CaughtUp
  <2>5. \A i \in DOMAIN events : Processed(i)' => CaughtUp(events[i])'
    <3>1. ASSUME NEW i \in DOMAIN events, Processed(i)' PROVE CaughtUp(events[i])'
      <4>1. Processed(i) /\ CaughtUp(events[i]) /\ events[i] \in Event /\ events'[i] = events[i]
        BY <1>1, <2>1, <3>1 DEF SerialInv, Processed, IInv, TypeOK
      <4>2. events[i].kind = "subscription" => events[i].sub \in Sub
        BY <1>1 DEF IInv, EventsOK
      <4>3. QED
        BY <2>1, <2>4, <4>1, <4>2 DEF CaughtUp
    <3>2. QED
      BY <3>1
  <2>6. CaughtUp(e)'
    <3>1. e.created \in Nat
      BY <2>1, MaxDateAssumption DEF Event, Date
    <3>2. Handled(w)' = e
      BY <2>1 DEF Handled
    <3>3. QED
      BY <2>1, <2>3, <3>1 DEF CaughtUp, Handled
  <2>7. WriteIsDone(w)' /\ ReadIsFresh(w)'
    BY <2>1, <2>6 DEF WriteIsDone, ReadIsFresh, CaughtUp, Handled
  <2>8. Unseen'
    BY <2>1 DEF SerialInv, Unseen, Processed
  <2>9. QED
    BY <1>1, <1>2, <2>1, <2>5, <2>7, <2>8 DEF SerialInv
<1>12. QED
  BY <1>5, <1>6, <1>7, <1>8, <1>9, <1>10, <1>11 DEF Progress

LEMMA SerialEnvironment ==
  ASSUME SerialInv, Environment
  PROVE  SerialInv'
<1>1. /\ IInv /\ IInv'
      /\ UNCHANGED <<rows, job, eventRow, told>>
      /\ DOMAIN events \subseteq DOMAIN events'
      /\ \A i \in DOMAIN events : events'[i] = events[i]
  BY EnvironmentAppends, EnvironmentPreserves DEF SerialInv
<1>2. \A w \in Worker : job[w].pc # "idle" => Handled(w)' = Handled(w)
  <2>1. \A w \in Worker : job[w].pc # "idle" => job[w].event \in DOMAIN events
    BY <1>1 DEF IInv, JobsOK, HandlesEvent
  <2>2. QED
    BY <1>1, <2>1 DEF Handled
<1>3. \A w \in Worker : ReadIsFresh(w)' /\ WriteIsDone(w)'
  BY <1>1, <1>2 DEF SerialInv, ReadIsFresh, WriteIsDone, CaughtUp
<1>4. \A i \in DOMAIN events' : Processed(i)' => CaughtUp(events[i])'
  <2>1. DOMAIN events' \subseteq EventId
    BY <1>1, ParameterAssumption DEF IInv, TypeOK, EventId
  <2>2. \A i \in DOMAIN events' : Processed(i)' => i \in DOMAIN events
    BY <1>1, <2>1 DEF SerialInv, Processed, Unseen
  <2>3. QED
    BY <1>1, <2>2 DEF SerialInv, Processed, CaughtUp
<1>5. Unseen'
  BY <1>1 DEF SerialInv, Unseen, Processed
<1>6. QED
  BY <1>1, <1>3, <1>4, <1>5 DEF SerialInv

LEMMA SerialInductive ==
  ASSUME Serial
  PROVE  Spec => []SerialInv
<1>1. Init => SerialInv
  <2>1. Init => /\ \A w \in Worker : job[w] = idle
                /\ DOMAIN events = {}
    BY DEF Init
  <2>2. Init => Unseen
    BY DEF Init, Unseen, Processed
  <2>3. QED
    BY <2>1, <2>2, InitIInv DEF SerialInv, ReadIsFresh, WriteIsDone, idle
<1>2. SerialInv /\ [Next]_vars => SerialInv'
  <2> SUFFICES ASSUME SerialInv, [Next]_vars PROVE SerialInv'
    OBVIOUS
  <2>1. CASE Environment
    BY <2>1, SerialEnvironment
  <2>2. ASSUME NEW w \in Worker,
               (\E i \in EventId : Deliver(w, i)) \/ Progress(w) \/ Fault(w)
        PROVE  SerialInv'
    BY <2>2, SerialStep
  <2>3. CASE UNCHANGED vars
    <3>1. IInv'
      BY <2>3, StepIInv DEF SerialInv
    <3>2. \A w \in Worker : ReadIsFresh(w)' /\ WriteIsDone(w)'
      BY <2>3 DEF vars, SerialInv, ReadIsFresh, WriteIsDone, Handled, CaughtUp
    <3>3. QED
      BY <2>3, <3>1, <3>2 DEF vars, SerialInv, Processed, CaughtUp, Unseen
  <2>4. QED
    BY <2>1, <2>2, <2>3 DEF Next, SkipProcessed
<1>3. QED
  BY <1>1, <1>2, PTL DEF Spec

\* With one delivery at a time, whatever the order, the repetitions and the
\* faults, no event recorded PROCESSED is newer than its row.
THEOREM SerialNewest ==
  ASSUME Serial
  PROVE  Spec => []NewestEventWins
<1>1. SerialInv => NewestEventWins
  <2> SUFFICES ASSUME SerialInv, NEW i \in DOMAIN events, Processed(i),
                      events[i].kind = "subscription", Owner[events[i].sub] # None
               PROVE  rows[events[i].sub] # None /\ rows[events[i].sub].lastEventAt >= events[i].created
    BY DEF NewestEventWins
  <2>1. QED
    BY DEF SerialInv, CaughtUp
<1>2. QED
  BY <1>1, SerialInductive, PTL

-----------------------------------------------------------------------------
(* One delivery at a time implements the ledger *)

\* The upsert opens an entry, advances it, or renews it.
LEMMA UpsertRefines ==
  ASSUME SerialInv, NEW w \in Worker, UpsertSubscription(w)
  PROVE  Ledger!Next
<1> DEFINE e == Handled(w)
           s == e.sub
<1>1. /\ IInv /\ job[w].pc = "write" /\ e.kind = "subscription"
      /\ e \in Event /\ s \in Sub /\ e.status \in Status
      /\ job[w].existing = rows[s] /\ ~ isOutOfOrder(rows[s], e)
  BY WorkerFacts DEF SerialInv, UpsertSubscription, At, ReadIsFresh
<1>2. /\ e.created \in Date /\ e.currentPeriodEnd \in Date \cup {None}
      /\ rows[s] # None => rows[s] \in SubscriptionRow
  BY <1>1 DEF Event, IInv, TypeOK
<1>3. rows[s] # None => e.created >= rows[s].lastEventAt
  BY <1>1, <1>2, MaxDateAssumption DEF isOutOfOrder, SubscriptionRow, Date
<1>4. rows' = [rows EXCEPT ![s] =
        [status |-> e.status, currentPeriodEnd |-> e.currentPeriodEnd,
         lastEventAt |-> e.created,
         revokedAt |-> revocationAfterUpsert(w, rows[s]).revokedAt,
         revokedReason |-> revocationAfterUpsert(w, rows[s]).revokedReason]]
  BY DEF UpsertSubscription
<1>5. CASE rows[s] = None
  <2>1. revocationAfterUpsert(w, rows[s]) = NO_REVOCATION
    BY <1>5 DEF revocationAfterUpsert
  <2>2. Ledger!Open(s, e.status, e.currentPeriodEnd, e.created)
    BY <1>4, <1>5, <2>1
       DEF Ledger!Open, Ledger!SetEntry, Ledger!NO_REVOCATION, NO_REVOCATION
  <2>3. QED
    BY <1>1, <1>2, <2>2 DEF Ledger!Next, Ledger!Status, Ledger!Date, Status, Date
<1>6. CASE rows[s] # None /\ releasesRevocation(rows[s], e)
  <2>1. revocationAfterUpsert(w, rows[s]) = NO_REVOCATION
    BY <1>1, <1>6 DEF revocationAfterUpsert
  <2>2. Ledger!Renew(s, e.status, e.currentPeriodEnd, e.created)
    BY <1>3, <1>4, <1>6, <2>1
       DEF Ledger!Renew, Ledger!SetEntry, Ledger!NO_REVOCATION, NO_REVOCATION,
           releasesRevocation, REVOKE_REASON_REFUND, Ledger!REVOKE_REASON_REFUND,
           STRIPE_ACTIVE_STATUSES, Ledger!STRIPE_ACTIVE_STATUSES
  <2>3. QED
    BY <1>1, <1>2, <2>2 DEF Ledger!Next, Ledger!Status, Ledger!Date, Status, Date
<1>7. CASE rows[s] # None /\ ~ releasesRevocation(rows[s], e)
  <2>1. revocationAfterUpsert(w, rows[s]) =
          [revokedAt |-> rows[s].revokedAt, revokedReason |-> rows[s].revokedReason]
    BY <1>1, <1>7 DEF revocationAfterUpsert
  <2>2. Ledger!Advance(s, e.status, e.currentPeriodEnd, e.created)
    BY <1>3, <1>4, <1>7, <2>1 DEF Ledger!Advance, Ledger!SetEntry
  <2>3. QED
    BY <1>1, <1>2, <2>2 DEF Ledger!Next, Ledger!Status, Ledger!Date, Status, Date
<1>8. QED
  BY <1>5, <1>6, <1>7

\* A charge event withdraws access or restores it.
LEMMA RevocationRefines ==
  ASSUME SerialInv, RevocationsTraceToCharges, NEW w \in Worker, UpdateRevocation(w)
  PROVE  Ledger!Next
<1> DEFINE e == Handled(w)
           s == e.sub
           plan == planForCharge(rows[s], e)
<1>1. /\ IInv /\ job[w].pc = "write" /\ e \in Event /\ s \in Sub
      /\ e.kind \in ChargeKind /\ e.kind \notin IgnoredKind
      /\ job[w].existing = rows[s] /\ rows[s] # None /\ plan # None
  BY WorkerFacts DEF SerialInv, UpdateRevocation, At, ReadIsFresh, HasPlan, HasOwner
<1>2. rows' = [rows EXCEPT ![s].revokedAt = plan.revokedAt, ![s].revokedReason = plan.revokedReason]
  BY <1>1 DEF UpdateRevocation
<1>3. /\ rows[s] \in SubscriptionRow /\ e.created \in Date
      /\ rows[s].revokedAt # None => rows[s].revokedReason \in RevokeReason
  BY <1>1 DEF IInv, TypeOK, Event, RevocationsTraceToCharges, RevokeReason
<1>4. CASE e.kind = "dispute_won"
  <2>1. plan = NO_REVOCATION /\ rows[s].revokedReason = REVOKE_REASON_CHARGEBACK
    BY <1>1, <1>4 DEF planForCharge, planDisputeWonRelease
  <2> HIDE DEF plan
  <2>2. Ledger!Restore(s)
    BY <1>1, <1>2, <2>1 DEF Ledger!Restore, NO_REVOCATION, REVOKE_REASON_CHARGEBACK,
         Ledger!REVOKE_REASON_CHARGEBACK
  <2>3. QED
    BY <1>1, <2>2 DEF Ledger!Next
<1>5. CASE e.kind # "dispute_won"
  <2> DEFINE reason == IF e.kind = "refund" THEN REVOKE_REASON_REFUND ELSE REVOKE_REASON_CHARGEBACK
  <2>1. plan = planRevocation(rows[s], reason, e.created)
    BY <1>5 DEF planForCharge
  <2>2. /\ plan = [revokedAt |-> e.created, revokedReason |-> reason]
        /\ \/ rows[s].revokedAt = None
           \/ reason = REVOKE_REASON_CHARGEBACK /\ rows[s].revokedReason # REVOKE_REASON_CHARGEBACK
    BY <1>1, <2>1 DEF planRevocation
  <2>3. reason \in RevokeReason
    BY DEF RevokeReason
  <2> HIDE DEF plan, reason
  <2>4. Ledger!Withdraw(s, reason, e.created)
    BY <1>1, <1>2, <1>3, <2>2 DEF Ledger!Withdraw, RevokeReason, REVOKE_REASON_CHARGEBACK,
         REVOKE_REASON_REFUND, Ledger!REVOKE_REASON_CHARGEBACK, Ledger!REVOKE_REASON_REFUND
  <2>5. QED
    BY <1>1, <1>3, <2>3, <2>4 DEF Ledger!Next, Ledger!RevokeReason, Ledger!Date, RevokeReason, Date,
         Ledger!REVOKE_REASON_CHARGEBACK, Ledger!REVOKE_REASON_REFUND,
         REVOKE_REASON_CHARGEBACK, REVOKE_REASON_REFUND
<1>6. QED
  BY <1>4, <1>5

\* With one delivery at a time the stored rows implement SubscriptionLedger: no
\* order, repetition, fault or operator moves a row in any other way.
THEOREM SerialRefinement ==
  ASSUME Serial
  PROVE  Spec => LedgerSpec
<1>1. Init => Ledger!Init
  BY DEF Init, Ledger!Init
<1>2. SerialInv /\ RevocationsTraceToCharges /\ [Next]_vars => [Ledger!Next]_rows
  <2> SUFFICES ASSUME SerialInv, RevocationsTraceToCharges, [Next]_vars
               PROVE  Ledger!Next \/ UNCHANGED rows
    BY DEF Ledger!Next
  <2>1. ASSUME NEW w \in Worker, UpsertSubscription(w) \/ UpdateRevocation(w)
        PROVE  Ledger!Next
    BY <2>1, UpsertRefines, RevocationRefines
  <2>2. Environment => UNCHANGED rows
    BY EnvironmentAppends DEF SerialInv
  <2>3. QED
    BY <2>1, <2>2, QuietSteps DEF Next, vars
<1>3. QED
  BY <1>1, <1>2, SerialInductive, RevocationsTraced, PTL DEF Spec, LedgerSpec, Ledger!Spec

-----------------------------------------------------------------------------
(* Nobody pays without a member unnoticed                                    *)

\* Whatever an alert left its stamp on, the alert went out; a delivery about to
\* record a live event of a subscription without an owner saw it go out.
JobAlerted(w) ==
  /\ job[w].alertedSubscriptionId # None => alerts[job[w].alertedSubscriptionId] >= 1
  /\ /\ job[w].pc \in {"write", "readEntitlement", "readSubscriptions", "writeEntitlement", "record"}
     /\ Handled(w).kind = "subscription"
     /\ Owner[Handled(w).sub] = None
     /\ Handled(w).status \in STRIPE_ACTIVE_STATUSES
     => alerts[Handled(w).sub] >= 1

StampsAlerted ==
  \A i \in EventId : eventRow[i].stripeSubscriptionId # None =>
    alerts[eventRow[i].stripeSubscriptionId] >= 1

AlertInv ==
  /\ IInv
  /\ \A w \in Worker : JobAlerted(w)
  /\ StampsAlerted
  /\ Unseen
  /\ UnmatchedNeverSilent

\* A delivery without an owner goes from its read to its record.
LEMMA UnownedEnds ==
  ASSUME IInv, NEW w \in Worker, Owner[Handled(w).sub] = None
  PROVE  job[w].pc \notin {"write", "readEntitlement", "readSubscriptions", "writeEntitlement"}
BY ParameterAssumption DEF IInv, JobsOK, HasOwner

\* What a step of one worker has to leave for the invariant to hold.
LEMMA AlertedStep ==
  ASSUME AlertInv, IInv', UNCHANGED events, NEW w \in Worker,
         \A v \in Worker \ {w} : job'[v] = job[v],
         \A s \in Sub : alerts'[s] >= alerts[s],
         JobAlerted(w)',
         \/ UNCHANGED eventRow
         \/ /\ job[w].pc # "idle"
            /\ \E new \in EventRow :
                 /\ eventRow' = [eventRow EXCEPT ![job[w].event] = new]
                 /\ new.status = "PROCESSED" => job[w].pc = "record"
                 /\ new.stripeSubscriptionId \in {None, job[w].alertedSubscriptionId}
  PROVE  AlertInv'
<1>1. /\ IInv /\ \A v \in Worker : job[v] \in Job
      /\ \A i \in EventId : eventRow[i] \in EventRow
      /\ \A s \in Sub : alerts[s] \in Nat /\ alerts'[s] \in Nat
      /\ DOMAIN events \subseteq EventId /\ \A i \in DOMAIN events : events[i] \in Event
  BY ParameterAssumption DEF AlertInv, IInv, TypeOK, EventId
<1>2. \A v \in Worker : JobAlerted(v) /\ (job[v].pc # "idle" => job[v].event \in DOMAIN events)
  BY <1>1 DEF AlertInv, IInv, JobsOK, HandlesEvent
<1>3. ASSUME NEW v \in Worker PROVE JobAlerted(v)'
  <2>1. CASE v = w
    BY <2>1
  <2>2. CASE v # w
    <3>1. job'[v] = job[v] /\ Handled(v)' = Handled(v)
      BY <2>2 DEF Handled
    <3>2. job[v].alertedSubscriptionId \in Sub \cup {None}
      BY <1>1 DEF Job
    <3>3. job[v].pc # "idle" /\ Handled(v).kind = "subscription" => Handled(v).sub \in Sub
      BY <1>1, WorkerFacts
    <3> QED BY <1>1, <1>2, <3>1, <3>2, <3>3 DEF JobAlerted
  <2> QED BY <2>1, <2>2
<1>4. CASE UNCHANGED eventRow
  <2>1. StampsAlerted'
    BY <1>1, <1>4 DEF AlertInv, StampsAlerted, EventRow
  <2>2. Unseen'
    BY <1>4 DEF AlertInv, Unseen, Processed
  <2>3. UnmatchedNeverSilent'
    BY <1>1, <1>4 DEF AlertInv, UnmatchedNeverSilent, Processed, IInv, EventsOK
  <2> QED BY <1>3, <2>1, <2>2, <2>3 DEF AlertInv
<1>5. CASE /\ job[w].pc # "idle"
           /\ \E new \in EventRow :
                /\ eventRow' = [eventRow EXCEPT ![job[w].event] = new]
                /\ new.status = "PROCESSED" => job[w].pc = "record"
                /\ new.stripeSubscriptionId \in {None, job[w].alertedSubscriptionId}
  <2>1. PICK new \in EventRow :
          /\ eventRow' = [eventRow EXCEPT ![job[w].event] = new]
          /\ new.status = "PROCESSED" => job[w].pc = "record"
          /\ new.stripeSubscriptionId \in {None, job[w].alertedSubscriptionId}
    BY <1>5
  <2>2. job[w].event \in DOMAIN events /\ job[w].event \in EventId
    BY <1>1, <1>2, <1>5
  <2>3. /\ eventRow'[job[w].event] = new
        /\ \A i \in EventId \ {job[w].event} : eventRow'[i] = eventRow[i]
    BY <2>1, <2>2 DEF AlertInv, IInv, TypeOK
  <2>4. StampsAlerted'
    <3>1. new.stripeSubscriptionId # None => alerts'[new.stripeSubscriptionId] >= 1
      BY <1>1, <1>2, <2>1 DEF JobAlerted, Job
    <3> QED BY <1>1, <2>3, <3>1 DEF AlertInv, StampsAlerted, EventRow
  <2>5. Unseen'
    BY <2>2, <2>3 DEF AlertInv, Unseen, Processed
  <2>6. UnmatchedNeverSilent'
    <3> SUFFICES ASSUME NEW i \in DOMAIN events, Processed(i)', events[i].kind = "subscription",
                        Owner[events[i].sub] = None, events[i].status \in STRIPE_ACTIVE_STATUSES
                 PROVE  alerts'[events[i].sub] >= 1
      BY DEF UnmatchedNeverSilent
    <3>1. events[i].sub \in Sub
      BY <1>1 DEF IInv, EventsOK
    <3>2. CASE i # job[w].event
      <4>1. Processed(i)
        BY <1>1, <2>3, <3>2 DEF Processed
      <4> QED BY <1>1, <3>1, <4>1 DEF AlertInv, UnmatchedNeverSilent
    <3>3. CASE i = job[w].event
      <4>1. job[w].pc = "record"
        BY <2>1, <2>3, <3>3 DEF Processed
      <4> QED BY <1>1, <1>2, <3>1, <3>3, <4>1 DEF JobAlerted, Handled
    <3> QED BY <3>2, <3>3
  <2> QED BY <1>3, <2>4, <2>5, <2>6 DEF AlertInv
<1> QED BY <1>4, <1>5

LEMMA AlertedWorker ==
  ASSUME AlertInv, NEW w \in Worker,
         \/ \E i \in EventId : Deliver(w, i)
         \/ Progress(w) \/ Fault(w)
  PROVE  AlertInv'
<1>1. IInv /\ IInv' /\ job[w] \in Job /\ job = [v \in Worker |-> job[v]] /\ JobAlerted(w)
  BY StepIInv DEF AlertInv, Next, vars, IInv, TypeOK
<1>2. /\ \A v \in Worker \ {w} : job'[v] = job[v]
      /\ UNCHANGED events
  BY <1>1 DEF Deliver, Fault, Throw, Crash, Progress, IgnoreEvent, AlertUnmatchedSubscription,
         ReadSubscription, UpsertSubscription, ReadChargedSubscription, UpdateRevocation,
         ReadEntitlement, ReadSubscriptions, WriteEntitlement, RecordProcessed, RecordFailed
<1>3. \A s \in Sub : alerts[s] \in Nat
  BY <1>1 DEF IInv, TypeOK
<1>4. CASE (\E i \in EventId : Deliver(w, i)) \/ Fault(w)
  <2>1. job'[w].pc \in {"read", "fail", "idle"} /\ job'[w].alertedSubscriptionId = None
    <3>1. ASSUME NEW i \in EventId, Deliver(w, i)
          PROVE  job'[w].pc = "read" /\ job'[w].alertedSubscriptionId = None
      BY <1>1, <3>1 DEF Deliver, idle
    <3>2. ASSUME Throw(w) PROVE job'[w].pc = "fail" /\ job'[w].alertedSubscriptionId = None
      BY <1>1, <3>2 DEF Throw, idle
    <3>3. ASSUME Crash(w) PROVE job'[w].pc = "idle" /\ job'[w].alertedSubscriptionId = None
      BY <1>1, <3>3 DEF Crash, idle
    <3> QED BY <1>4, <3>1, <3>2, <3>3 DEF Fault
  <2>2. JobAlerted(w)'
    BY <2>1 DEF JobAlerted
  <2>3. UNCHANGED <<alerts, eventRow>>
    BY <1>4 DEF Deliver, Fault, Throw, Crash
  <2> QED BY <1>1, <1>2, <1>3, <2>2, <2>3, AlertedStep
<1>5. CASE RecordProcessed(w) \/ RecordFailed(w)
  <2>1. job'[w] = idle
    BY <1>1, <1>5 DEF RecordProcessed, RecordFailed
  <2>2. JobAlerted(w)'
    BY <2>1 DEF JobAlerted, idle
  <2>3. CASE RecordProcessed(w)
    <3> DEFINE new == [status |-> "PROCESSED", stripeSubscriptionId |-> job[w].alertedSubscriptionId]
    <3>1. new \in EventRow
      BY <1>1 DEF EventRow, Job
    <3>2. /\ eventRow' = [eventRow EXCEPT ![job[w].event] = new] /\ job[w].pc = "record"
          /\ UNCHANGED alerts
      BY <2>3 DEF RecordProcessed, At
    <3>3. new.stripeSubscriptionId = job[w].alertedSubscriptionId
      OBVIOUS
    <3> HIDE DEF new
    <3>4. \E n \in EventRow :
            /\ eventRow' = [eventRow EXCEPT ![job[w].event] = n]
            /\ n.status = "PROCESSED" => job[w].pc = "record"
            /\ n.stripeSubscriptionId \in {None, job[w].alertedSubscriptionId}
      BY <3>1, <3>2, <3>3
    <3>5. job[w].pc # "idle" /\ \A s \in Sub : alerts'[s] >= alerts[s]
      BY <1>3, <3>2
    <3> QED BY <1>1, <1>2, <2>2, <3>4, <3>5, AlertedStep
  <2>4. CASE RecordFailed(w)
    <3> DEFINE new == [status |-> "FAILED", stripeSubscriptionId |-> None]
    <3>1. new \in EventRow /\ new.status # "PROCESSED" /\ new.stripeSubscriptionId = None
      BY DEF EventRow
    <3>2. /\ eventRow' = [eventRow EXCEPT ![job[w].event] = new] /\ job[w].pc = "fail"
          /\ UNCHANGED alerts
      BY <2>4 DEF RecordFailed, At
    <3> HIDE DEF new
    <3>3. \E n \in EventRow :
            /\ eventRow' = [eventRow EXCEPT ![job[w].event] = n]
            /\ n.status = "PROCESSED" => job[w].pc = "record"
            /\ n.stripeSubscriptionId \in {None, job[w].alertedSubscriptionId}
      BY <3>1, <3>2
    <3>4. job[w].pc # "idle" /\ \A s \in Sub : alerts'[s] >= alerts[s]
      BY <1>3, <3>2
    <3> QED BY <1>1, <1>2, <2>2, <3>3, <3>4, AlertedStep
  <2> QED BY <1>5, <2>3, <2>4
<1>6. CASE AlertUnmatchedSubscription(w)
  <2> DEFINE e == Handled(w)
             due == /\ e.status \in STRIPE_ACTIVE_STATUSES
                    /\ \A i \in EventId : eventRow[i].stripeSubscriptionId # e.sub
  <2>1. e.sub \in Sub /\ e.sub # None
    BY <1>1, <1>6, WorkerFacts, ParameterAssumption DEF AlertUnmatchedSubscription, At
  <2>2. CASE due
    <3>1. /\ alerts' = [alerts EXCEPT ![e.sub] = @ + 1]
          /\ job' = [job EXCEPT ![w].pc = "record", ![w].alertedSubscriptionId = e.sub]
      BY <1>6, <2>2 DEF AlertUnmatchedSubscription
    <3>2. alerts'[e.sub] >= 1 /\ \A s \in Sub : alerts'[s] >= alerts[s]
      BY <1>1, <1>3, <2>1, <3>1 DEF IInv, TypeOK
    <3>3. /\ job'[w].event = job[w].event /\ job'[w].alertedSubscriptionId = e.sub
      BY <1>1, <3>1 DEF Job
    <3>4. Handled(w)' = e
      BY <1>2, <3>3 DEF Handled
    <3> HIDE DEF e, due
    <3>5. JobAlerted(w)'
      BY <3>2, <3>3, <3>4 DEF JobAlerted
    <3> QED BY <1>1, <1>2, <1>6, <3>2, <3>5, AlertedStep DEF AlertUnmatchedSubscription
  <2>3. CASE ~ due
    <3>1. job' = [job EXCEPT ![w].pc = "record"] /\ UNCHANGED alerts
      BY <1>6, <2>3 DEF AlertUnmatchedSubscription
    <3>2. e.status \in STRIPE_ACTIVE_STATUSES => alerts[e.sub] >= 1
      BY <2>1, <2>3 DEF AlertInv, StampsAlerted
    <3>3. /\ job'[w].event = job[w].event
          /\ job'[w].alertedSubscriptionId = job[w].alertedSubscriptionId
      BY <1>1, <3>1 DEF Job
    <3>4. Handled(w)' = e
      BY <1>2, <3>3 DEF Handled
    <3> HIDE DEF e, due
    <3>5. JobAlerted(w)'
      BY <1>1, <3>1, <3>2, <3>3, <3>4 DEF JobAlerted
    <3> QED BY <1>1, <1>2, <1>3, <1>6, <3>1, <3>5, AlertedStep DEF AlertUnmatchedSubscription
  <2> QED BY <2>2, <2>3
<1>7. CASE \/ IgnoreEvent(w) \/ ReadSubscription(w) \/ ReadChargedSubscription(w)
           \/ UpsertSubscription(w) \/ UpdateRevocation(w)
           \/ ReadEntitlement(w) \/ ReadSubscriptions(w) \/ WriteEntitlement(w)
  <2>1. Handled(w).kind # "subscription" \/ Owner[Handled(w).sub] # None
    BY <1>1, <1>7, UnownedEnds DEF IgnoreEvent, IgnoredKind, ReadSubscription,
           ReadChargedSubscription, ChargeKind, MoneyBackKind, UpsertSubscription,
           UpdateRevocation, ReadEntitlement, ReadSubscriptions, WriteEntitlement, At
  <2>2. UNCHANGED <<alerts, eventRow>>
    BY <1>7 DEF IgnoreEvent, ReadSubscription, ReadChargedSubscription, UpsertSubscription,
           UpdateRevocation, ReadEntitlement, ReadSubscriptions, WriteEntitlement
  <2>3. /\ job'[w].event = job[w].event
        /\ job'[w].alertedSubscriptionId = job[w].alertedSubscriptionId
    BY <1>1, <1>7 DEF IgnoreEvent, ReadSubscription, ReadChargedSubscription, UpsertSubscription,
           UpdateRevocation, ReadEntitlement, ReadSubscriptions, WriteEntitlement, Job
  <2>4. Handled(w)' = Handled(w)
    BY <1>2, <2>3 DEF Handled
  <2>5. JobAlerted(w)'
    BY <1>1, <2>1, <2>2, <2>3, <2>4 DEF JobAlerted
  <2> QED BY <1>1, <1>2, <1>3, <2>2, <2>5, AlertedStep
<1> QED BY <1>4, <1>5, <1>6, <1>7 DEF Progress

LEMMA AlertedEnvironment ==
  ASSUME AlertInv, Environment
  PROVE  AlertInv'
<1>1. /\ IInv /\ IInv'
      /\ UNCHANGED <<job, eventRow>>
      /\ DOMAIN events \subseteq DOMAIN events'
      /\ \A i \in DOMAIN events : events'[i] = events[i]
  BY EnvironmentAppends, EnvironmentPreserves DEF AlertInv
<1>2. UNCHANGED alerts
  BY DEF Environment, StripeUpdatesSubscription, StripeReportsCharge, Tick, GrantManually
<1>3. \A w \in Worker : job[w].pc # "idle" => Handled(w)' = Handled(w)
  <2>1. \A w \in Worker : job[w].pc # "idle" => job[w].event \in DOMAIN events
    BY <1>1 DEF IInv, JobsOK, HandlesEvent
  <2> QED BY <1>1, <2>1 DEF Handled
<1>4. \A w \in Worker : JobAlerted(w)'
  BY <1>1, <1>2, <1>3 DEF AlertInv, JobAlerted
<1>5. StampsAlerted' /\ Unseen'
  BY <1>1, <1>2 DEF AlertInv, StampsAlerted, Unseen, Processed
<1>6. UnmatchedNeverSilent'
  <2>1. DOMAIN events' \subseteq EventId
    BY <1>1, ParameterAssumption DEF IInv, TypeOK, EventId
  <2>2. \A i \in DOMAIN events' : Processed(i)' => i \in DOMAIN events
    BY <1>1, <2>1 DEF AlertInv, Processed, Unseen
  <2> QED BY <1>1, <1>2, <2>2 DEF AlertInv, UnmatchedNeverSilent, Processed
<1> QED BY <1>1, <1>4, <1>5, <1>6 DEF AlertInv

\* However deliveries interleave, fail and repeat, a live event of a subscription without
\* a member is recorded PROCESSED only after a human was told (alertUnmatchedSubscription,
\* its stamp on the event record).
THEOREM UnmatchedAlerted == Spec => []UnmatchedNeverSilent
<1>1. Init => AlertInv
  <2> SUFFICES ASSUME Init PROVE AlertInv
    OBVIOUS
  <2>1. \A w \in Worker : JobAlerted(w)
    BY DEF Init, JobAlerted, idle
  <2>2. StampsAlerted /\ Unseen /\ UnmatchedNeverSilent
    BY DEF Init, StampsAlerted, Unseen, Processed, UnmatchedNeverSilent
  <2> QED BY <2>1, <2>2, InitIInv DEF AlertInv
<1>2. AlertInv /\ [Next]_vars => AlertInv'
  <2> SUFFICES ASSUME AlertInv, [Next]_vars PROVE AlertInv'
    OBVIOUS
  <2>1. CASE UNCHANGED vars
    <3>1. IInv'
      BY <2>1, StepIInv DEF AlertInv
    <3>2. \A w \in Worker : JobAlerted(w)'
      BY <2>1 DEF AlertInv, JobAlerted, Handled, vars
    <3> QED BY <2>1, <3>1, <3>2
            DEF AlertInv, StampsAlerted, Unseen, Processed, UnmatchedNeverSilent, vars
  <2> QED BY <2>1, AlertedWorker, AlertedEnvironment DEF Next, SkipProcessed
<1>3. AlertInv => UnmatchedNeverSilent
  BY DEF AlertInv
<1> QED BY <1>1, <1>2, <1>3, PTL DEF Spec

-----------------------------------------------------------------------------
(* Money that went back                                                      *)

\* A subscription whose money went back is revoked, or something gave access back.
Answered(s) ==
  s \in Sub /\ (RestoringEvent(s) \/ (rows[s] # None /\ rows[s].revokedAt # None))

\* From its write on, a delivery of a refund or dispute has an answer.
JobAnswers(w) ==
  /\ job[w].pc \in {"readEntitlement", "readSubscriptions", "writeEntitlement", "record"}
  /\ Handled(w).kind \in MoneyBackKind
  => job[w].event \in told \/ Answered(Handled(w).sub)

AnsweredEvents ==
  \A i \in DOMAIN events : Processed(i) /\ events[i].kind \in MoneyBackKind =>
    i \in told \/ Answered(events[i].sub)

MoneyInv == SerialInv /\ AnsweredEvents /\ \A w \in Worker : JobAnswers(w)

\* What restores access goes on existing.
LEMMA RestoringStays ==
  ASSUME IInv, DOMAIN events \subseteq DOMAIN events',
         \A i \in DOMAIN events : events'[i] = events[i],
         NEW s, RestoringEvent(s)
  PROVE  RestoringEvent(s)'
<1>1. \A kinds : Generated(s, kinds) \subseteq Generated(s, kinds)'
  BY DEF Generated
<1>2. \A kinds : \A i \in Generated(s, kinds) : events'[i] = events[i]
  BY DEF Generated
<1> QED BY <1>1, <1>2 DEF RestoringEvent

LEMMA AnswersStay ==
  ASSUME IInv, UNCHANGED rows, DOMAIN events \subseteq DOMAIN events',
         \A i \in DOMAIN events : events'[i] = events[i]
  PROVE  \A s : Answered(s) => Answered(s)'
BY RestoringStays DEF Answered

\* A renewal that releases a refund is the later period that gave access back.
LEMMA ReleaseRestores ==
  ASSUME IInv, RowsTraceToEvents, RevocationsTraceToCharges, NEW s \in Sub, rows[s] # None,
         NEW j \in Generated(s, {"subscription"}), releasesRevocation(rows[s], events[j])
  PROVE  RestoringEvent(s)
<1>1. PICK i \in Generated(s, {"subscription"}) : rows[s].currentPeriodEnd = events[i].currentPeriodEnd
  BY DEF RowsTraceToEvents
<1>2. PICK k \in Generated(s, MoneyBackKind) :
        /\ rows[s].revokedAt = events[k].created
        /\ rows[s].revokedReason = IF events[k].kind = "refund" THEN REVOKE_REASON_REFUND
                                                                ELSE REVOKE_REASON_CHARGEBACK
  BY DEF RevocationsTraceToCharges, releasesRevocation
<1>3. k \in Generated(s, {"refund"})
  BY <1>2 DEF releasesRevocation, REVOKE_REASON_REFUND, REVOKE_REASON_CHARGEBACK, Generated,
              MoneyBackKind
<1> QED BY <1>1, <1>2, <1>3 DEF RestoringEvent, releasesRevocation

LEMMA UpsertAnswers ==
  ASSUME SerialInv, RowsTraceToEvents, RevocationsTraceToCharges,
         NEW w \in Worker, UpsertSubscription(w), NEW s, Answered(s)
  PROVE  Answered(s)'
<1> USE WorkerFacts
<1> DEFINE e == Handled(w)
           revocation == revocationAfterUpsert(w, rows[e.sub])
<1>1. /\ IInv /\ UNCHANGED events
      /\ job[w].event \in Generated(e.sub, {"subscription"}) /\ e = events[job[w].event]
      /\ e.sub \in Sub
  BY DEF SerialInv, UpsertSubscription, At, HandlesEvent, Generated, Handled
<1>2. RestoringEvent(s) => RestoringEvent(s)'
  BY <1>1, RestoringStays
<1>3. CASE s # e.sub
  BY <1>1, <1>2, <1>3 DEF UpsertSubscription, IInv, TypeOK, Answered
<1>4. CASE s = e.sub /\ ~ RestoringEvent(s)
  <2>1. rows[s] # None /\ rows[s].revokedAt # None
    BY <1>4 DEF Answered
  <2>2. job[w].existing = rows[s]
    BY <1>4 DEF SerialInv, ReadIsFresh, UpsertSubscription, At
  <2>3. ~ releasesRevocation(rows[s], e)
    BY <1>1, <1>4, <2>1, ReleaseRestores
  <2>4. revocation.revokedAt = rows[s].revokedAt
    BY <1>4, <2>1, <2>2, <2>3 DEF revocationAfterUpsert
  <2> HIDE DEF revocation
  <2>5. rows'[s] # None /\ rows'[s].revokedAt = revocation.revokedAt
    <3>1. rows'[s] = [status |-> e.status, currentPeriodEnd |-> e.currentPeriodEnd,
                      lastEventAt |-> e.created, revokedAt |-> revocation.revokedAt,
                      revokedReason |-> revocation.revokedReason]
      BY <1>1, <1>4 DEF UpsertSubscription, IInv, TypeOK, revocation
    <3>2. rows'[s] # None
      BY <1>1, <1>4, <2>1, RowWritePreserves
    <3> QED BY <3>1, <3>2
  <2> QED BY <1>1, <1>4, <2>1, <2>4, <2>5 DEF Answered
<1> QED BY <1>1, <1>2, <1>3, <1>4 DEF Answered

\* A refund or dispute leaves its row revoked; a release is that of a won dispute.
LEMMA RevocationAnswers ==
  ASSUME SerialInv, NEW w \in Worker, UpdateRevocation(w)
  PROVE  /\ \A s : Answered(s) => Answered(s)'
         /\ Answered(Handled(w).sub)'
<1> USE WorkerFacts
<1> DEFINE e == Handled(w)
           plan == planForCharge(job[w].existing, e)
<1>1. /\ IInv /\ UNCHANGED events
      /\ job[w].event \in DOMAIN events /\ e = events[job[w].event]
      /\ e \in Event /\ e.sub \in Sub /\ e.kind \in ChargeKind \ IgnoredKind
      /\ rows[e.sub] # None /\ plan # None
  BY DEF SerialInv, UpdateRevocation, At, HandlesEvent, HasOwner, HasPlan, Handled
<1>2. e.created # None
  BY <1>1, NoneAssumption DEF Event, Date
<1>3. e.kind \in MoneyBackKind => plan.revokedAt # None
  BY <1>1, <1>2 DEF planForCharge, planRevocation, MoneyBackKind
<1>4. e.kind \notin MoneyBackKind => job[w].event \in Generated(e.sub, {"dispute_won"})
  BY <1>1 DEF Generated, ChargeKind, IgnoredKind, MoneyBackKind
<1> HIDE DEF plan
<1>5. /\ rows'[e.sub] # None /\ rows'[e.sub].revokedAt = plan.revokedAt
      /\ \A s \in Sub \ {e.sub} : rows'[s] = rows[s]
  <2>1. rows[e.sub] \in SubscriptionRow
    BY <1>1 DEF IInv, TypeOK
  <2>2. rows'[e.sub] # None
    BY <1>1, RowWritePreserves
  <2> QED BY <1>1, <2>1, <2>2 DEF UpdateRevocation, IInv, TypeOK, SubscriptionRow, plan
<1>6. \A s : RestoringEvent(s) => RestoringEvent(s)'
  BY <1>1, RestoringStays
<1>7. PICK sub \in Sub : sub = e.sub
  BY <1>1
<1>8. Handled(w)' = e
  <2>1. job'[w].event = job[w].event
    BY <1>1 DEF UpdateRevocation, IInv, TypeOK, Job
  <2> QED BY <1>1, <2>1 DEF Handled
<1>9. Answered(sub)'
  <2>1. CASE e.kind \in MoneyBackKind
    BY <1>3, <1>5, <1>7, <2>1 DEF Answered
  <2>2. CASE e.kind \notin MoneyBackKind
    <3>1. RestoringEvent(sub)
      BY <1>4, <1>7, <2>2 DEF RestoringEvent
    <3> QED BY <1>6, <3>1 DEF Answered
  <2> QED BY <2>1, <2>2
<1>10. ASSUME NEW s, Answered(s) PROVE Answered(s)'
  <2>1. CASE s = sub
    BY <1>9, <2>1
  <2>2. CASE s # sub
    BY <1>5, <1>6, <1>7, <1>10, <2>2 DEF Answered
  <2> QED BY <2>1, <2>2
<1>11. Answered(Handled(w).sub)'
  BY <1>7, <1>8, <1>9
<1> QED BY <1>10, <1>11

\* What a step of the one worker has to leave.
LEMMA MoneyStep ==
  ASSUME MoneyInv, SerialInv', UNCHANGED events, told \subseteq told',
         \A s : Answered(s) => Answered(s)',
         NEW w \in Worker, \A v \in Worker : v = w, JobAnswers(w)',
         \A i \in EventId : Processed(i)' =>
           Processed(i) \/ (i = job[w].event /\ At(w, "record"))
  PROVE  MoneyInv'
<1>1. DOMAIN events \subseteq EventId
  BY ParameterAssumption DEF MoneyInv, SerialInv, IInv, TypeOK, EventId
<1>2. AnsweredEvents'
  <2> SUFFICES ASSUME NEW i \in DOMAIN events, Processed(i)', events[i].kind \in MoneyBackKind
               PROVE  i \in told' \/ Answered(events[i].sub)'
    BY DEF AnsweredEvents
  <2>1. CASE Processed(i)
    BY <2>1 DEF MoneyInv, AnsweredEvents
  <2>2. CASE i = job[w].event /\ At(w, "record")
    BY <2>2 DEF MoneyInv, JobAnswers, At, Handled
  <2> QED BY <1>1, <2>1, <2>2
<1>3. \A v \in Worker : JobAnswers(v)'
  OBVIOUS
<1> QED BY <1>2, <1>3 DEF MoneyInv

LEMMA MoneyWorker ==
  ASSUME Serial, MoneyInv, RowsTraceToEvents, RevocationsTraceToCharges, NEW w \in Worker,
         \/ \E i \in EventId : Deliver(w, i)
         \/ Progress(w) \/ Fault(w)
  PROVE  MoneyInv'
<1> DEFINE e == Handled(w)
<1>1. /\ SerialInv /\ SerialInv' /\ IInv /\ job[w] \in Job /\ job = [v \in Worker |-> job[v]]
      /\ JobAnswers(w)
  BY SerialStep DEF MoneyInv, SerialInv, IInv, TypeOK
<1>2. /\ \A v \in Worker : v = w
      /\ UNCHANGED events
  BY DEF Serial, Deliver, Fault, Throw, Crash, Progress, IgnoreEvent, AlertUnmatchedSubscription,
         ReadSubscription, UpsertSubscription, ReadChargedSubscription, UpdateRevocation,
         ReadEntitlement, ReadSubscriptions, WriteEntitlement, RecordProcessed, RecordFailed
<1>3. UNCHANGED rows => \A s : Answered(s) => Answered(s)'
  BY <1>1, <1>2, AnswersStay
<1>4. CASE (\E i \in EventId : Deliver(w, i)) \/ Fault(w)
  <2>1. job'[w].pc \in {"read", "fail", "idle"}
    <3>1. ASSUME NEW i \in EventId, Deliver(w, i) PROVE job'[w].pc = "read"
      BY <1>1, <3>1 DEF Deliver, idle
    <3>2. ASSUME Throw(w) PROVE job'[w].pc = "fail"
      BY <1>1, <3>2 DEF Throw, idle
    <3>3. ASSUME Crash(w) PROVE job'[w].pc = "idle"
      BY <1>1, <3>3 DEF Crash, idle
    <3> QED BY <1>4, <3>1, <3>2, <3>3 DEF Fault
  <2>2. JobAnswers(w)' /\ UNCHANGED <<rows, told, eventRow>>
    BY <1>4, <2>1 DEF JobAnswers, Deliver, Fault, Throw, Crash
  <2> QED BY <1>1, <1>2, <1>3, <2>2, MoneyStep DEF Processed
<1>5. CASE RecordProcessed(w) \/ RecordFailed(w)
  <2>1. job'[w] = idle /\ UNCHANGED <<rows, told>>
    BY <1>1, <1>5 DEF RecordProcessed, RecordFailed
  <2>2. JobAnswers(w)'
    BY <2>1 DEF JobAnswers, idle
  <2>3. \A i \in EventId : Processed(i)' => Processed(i) \/ (i = job[w].event /\ At(w, "record"))
    BY <1>1, <1>5 DEF RecordProcessed, RecordFailed, Processed, IInv, TypeOK
  <2> QED BY <1>1, <1>2, <1>3, <2>1, <2>2, <2>3, MoneyStep
<1>6. CASE UpsertSubscription(w)
  <2>1. \A s : Answered(s) => Answered(s)'
    BY <1>1, <1>6, UpsertAnswers
  <2>2. job'[w].event = job[w].event /\ e.kind = "subscription" /\ UNCHANGED <<told, eventRow>>
    BY <1>1, <1>6 DEF UpsertSubscription, Job
  <2>3. JobAnswers(w)'
    BY <1>2, <2>2 DEF JobAnswers, Handled, MoneyBackKind
  <2> QED BY <1>1, <1>2, <2>1, <2>2, <2>3, MoneyStep DEF Processed
<1>7. CASE UpdateRevocation(w)
  <2>1. (\A s : Answered(s) => Answered(s)') /\ Answered(Handled(w).sub)'
    BY <1>1, <1>7, RevocationAnswers
  <2>2. job'[w].event = job[w].event /\ UNCHANGED <<told, eventRow>>
    BY <1>1, <1>7 DEF UpdateRevocation, Job
  <2>3. JobAnswers(w)'
    BY <2>1 DEF JobAnswers
  <2> QED BY <1>1, <1>2, <2>1, <2>2, <2>3, MoneyStep DEF Processed
<1>8. CASE ReadChargedSubscription(w)
  <2>1. /\ UNCHANGED <<rows, eventRow>> /\ told \subseteq told'
        /\ job'[w].event = job[w].event
    BY <1>1, <1>8 DEF ReadChargedSubscription, Job
  <2>2. Handled(w)' = e
    BY <1>2, <2>1 DEF Handled
  <2>3. JobAnswers(w)'
    <3>1. CASE job[w].event \in told'
      BY <2>1, <3>1 DEF JobAnswers
    <3>2. CASE /\ e.sub # None /\ rows[e.sub] # None
               /\ planForCharge(rows[e.sub], e) = None
      <4>1. e \in Event /\ e.sub \in Sub /\ rows[e.sub] \in SubscriptionRow
        BY <1>1, <1>8, <3>2, WorkerFacts DEF ReadChargedSubscription, At, Event, IInv, TypeOK
      <4>2. e.kind \in MoneyBackKind => rows[e.sub].revokedAt # None
        BY <3>2, <4>1, NullRecordAssumption
           DEF planForCharge, planRevocation, MoneyBackKind, Revocation, RevokeReason, Event,
               REVOKE_REASON_REFUND, REVOKE_REASON_CHARGEBACK
      <4>3. e.kind \in MoneyBackKind => Answered(e.sub)
        BY <3>2, <4>1, <4>2 DEF Answered
      <4>4. Answered(e.sub) => Answered(Handled(w).sub)'
        BY <1>3, <2>1, <2>2
      <4> QED BY <2>2, <4>3, <4>4 DEF JobAnswers
    <3>3. CASE job' = [job EXCEPT ![w].pc = "write", ![w].existing = rows[e.sub]]
      BY <1>1, <3>3 DEF JobAnswers, Job
    <3> QED BY <1>8, <3>1, <3>2, <3>3 DEF ReadChargedSubscription
  <2> QED BY <1>1, <1>2, <1>3, <2>1, <2>3, MoneyStep DEF Processed
<1>9. CASE IgnoreEvent(w) \/ AlertUnmatchedSubscription(w) \/ ReadSubscription(w)
  <2>1. e.kind \notin MoneyBackKind /\ UNCHANGED <<rows, told, eventRow>>
    BY <1>9 DEF IgnoreEvent, IgnoredKind, AlertUnmatchedSubscription, ReadSubscription, MoneyBackKind
  <2>2. job'[w].event = job[w].event
    BY <1>1, <1>9 DEF IgnoreEvent, AlertUnmatchedSubscription, ReadSubscription, Job
  <2>3. JobAnswers(w)'
    BY <1>2, <2>1, <2>2 DEF JobAnswers, Handled
  <2> QED BY <1>1, <1>2, <1>3, <2>1, <2>3, MoneyStep DEF Processed
<1>10. CASE ReadEntitlement(w) \/ ReadSubscriptions(w) \/ WriteEntitlement(w)
  <2>1. /\ job[w].pc \in {"readEntitlement", "readSubscriptions", "writeEntitlement"}
        /\ UNCHANGED <<rows, told, eventRow>>
    BY <1>10 DEF ReadEntitlement, ReadSubscriptions, WriteEntitlement, At
  <2>2. job'[w].event = job[w].event
    BY <1>1, <1>10 DEF ReadEntitlement, ReadSubscriptions, WriteEntitlement, Job
  <2>3. Handled(w)' = e
    BY <1>2, <2>2 DEF Handled
  <2>4. e.kind \in MoneyBackKind => job[w].event \in told \/ Answered(e.sub)
    BY <1>1, <2>1 DEF JobAnswers
  <2>5. Answered(e.sub) => Answered(Handled(w).sub)'
    BY <1>3, <2>1, <2>3
  <2>6. JobAnswers(w)'
    BY <2>1, <2>2, <2>3, <2>4, <2>5 DEF JobAnswers
  <2> QED BY <1>1, <1>2, <1>3, <2>1, <2>6, MoneyStep DEF Processed
<1> QED BY <1>4, <1>5, <1>6, <1>7, <1>8, <1>9, <1>10 DEF Progress

LEMMA MoneyEnvironment ==
  ASSUME MoneyInv, Environment
  PROVE  MoneyInv'
<1>1. /\ IInv /\ IInv' /\ SerialInv'
      /\ UNCHANGED <<rows, job, eventRow, told>>
      /\ DOMAIN events \subseteq DOMAIN events'
      /\ \A i \in DOMAIN events : events'[i] = events[i]
  BY SerialEnvironment, EnvironmentAppends, EnvironmentPreserves DEF MoneyInv, SerialInv
<1>2. \A s : Answered(s) => Answered(s)'
  BY <1>1, AnswersStay
<1>3. ASSUME NEW w \in Worker PROVE JobAnswers(w)'
  <2>1. job[w].pc # "idle" => Handled(w)' = Handled(w)
    BY <1>1 DEF IInv, JobsOK, HandlesEvent, Handled
  <2>2. JobAnswers(w)
    BY DEF MoneyInv
  <2>3. job[w].pc # "idle" /\ Answered(Handled(w).sub) => Answered(Handled(w).sub)'
    BY <1>2, <2>1
  <2> QED BY <1>1, <2>1, <2>2, <2>3 DEF JobAnswers
<1>4. AnsweredEvents'
  <2>1. DOMAIN events' \subseteq EventId
    BY <1>1, ParameterAssumption DEF IInv, TypeOK, EventId
  <2>2. \A i \in DOMAIN events' : Processed(i)' => i \in DOMAIN events /\ Processed(i)
    BY <1>1, <2>1 DEF MoneyInv, SerialInv, Processed, Unseen
  <2> SUFFICES ASSUME NEW i \in DOMAIN events', Processed(i)', events'[i].kind \in MoneyBackKind
               PROVE  i \in told' \/ Answered(events[i].sub)'
    BY DEF AnsweredEvents
  <2>3. i \in DOMAIN events /\ Processed(i) /\ events'[i] = events[i]
    BY <1>1, <2>2
  <2>4. i \in told \/ Answered(events[i].sub)
    BY <2>3 DEF MoneyInv, AnsweredEvents
  <2>5. Answered(events[i].sub) => Answered(events[i].sub)'
    BY <1>2, <2>3
  <2> QED BY <1>1, <2>4, <2>5
<1> QED BY <1>1, <1>3, <1>4 DEF MoneyInv

\* With one delivery at a time, whatever the order, the repetitions and the faults, a
\* refund or dispute recorded PROCESSED has revoked its subscription or told a human,
\* unless Stripe reported something that gives access back (revokeAccessForCharge,
\* releasesRevocation, planDisputeWonRelease).
THEOREM SerialMoneyBack ==
  ASSUME Serial
  PROVE  Spec => []MoneyBackHolds
<1>1. Init => MoneyInv
  <2> SUFFICES ASSUME Init PROVE MoneyInv
    OBVIOUS
  <2>1. SerialInv
    BY InitIInv DEF Init, SerialInv, ReadIsFresh, WriteIsDone, idle, Unseen, Processed
  <2>2. AnsweredEvents /\ \A w \in Worker : JobAnswers(w)
    BY DEF Init, AnsweredEvents, JobAnswers, idle
  <2> QED BY <2>1, <2>2 DEF MoneyInv
<1>2. MoneyInv /\ SerialInv' /\ RowsTraceToEvents /\ RevocationsTraceToCharges /\ [Next]_vars
      => MoneyInv'
  <2> SUFFICES ASSUME MoneyInv, SerialInv', RowsTraceToEvents, RevocationsTraceToCharges,
                      [Next]_vars
               PROVE  MoneyInv'
    OBVIOUS
  <2>1. CASE UNCHANGED vars
    BY <2>1 DEF MoneyInv, AnsweredEvents, JobAnswers, Answered, RestoringEvent, Generated,
                Handled, Processed, vars
  <2> QED BY <2>1, MoneyWorker, MoneyEnvironment DEF Next, SkipProcessed
<1>3. MoneyInv => MoneyBackHolds
  BY DEF MoneyInv, AnsweredEvents, MoneyBackHolds, Answered
<1> QED BY <1>1, <1>2, <1>3, SerialInductive, RowsTraced, RevocationsTraced, PTL DEF Spec

-----------------------------------------------------------------------------
(* Grants by hand                                                            *)

LiveGrant(granted) == granted.source = "MANUAL" /\ isEntitlementActive(granted, now)

\* A delivery that went on found no live grant, and none it found comes alive.
SawNoGrant(w) ==
  job[w].pc \in {"readSubscriptions", "writeEntitlement"} =>
    job[w].granted \in Entitlement /\ ~ LiveGrant(job[w].granted)

LEMMA SawNoGrantStep ==
  ASSUME IInv, NEW w \in Worker, SawNoGrant(w), [Next]_vars
  PROVE  SawNoGrant(w)'
<1>1. /\ job = [v \in Worker |-> job[v]] /\ job[w] \in Job
      /\ entitlement \in [Member -> Entitlement] /\ now \in Nat
  BY MaxDateAssumption DEF IInv, TypeOK, Date
<1>2. CASE Tick
  <2>1. \A g \in Entitlement : ~ LiveGrant(g) => ~ LiveGrant(g)'
    BY <1>1, <1>2 DEF Tick, LiveGrant, isEntitlementActive, Entitlement, Date
  <2> QED BY <1>2, <2>1 DEF Tick, SawNoGrant
<1>3. CASE UNCHANGED <<job, now>>
  BY <1>3 DEF SawNoGrant, LiveGrant
<1>4. CASE ReadEntitlement(w)
  <2> DEFINE m == Owner[Handled(w).sub]
  <2>1. m \in Member /\ entitlement[m] \in Entitlement
    BY <1>1, <1>4, WorkerFacts DEF ReadEntitlement, At, HasOwner
  <2>2. UNCHANGED now
    BY <1>4 DEF ReadEntitlement
  <2>3. CASE LiveGrant(entitlement[m])
    <3>1. job' = [job EXCEPT ![w].pc = "record"]
      BY <1>4, <2>3 DEF ReadEntitlement, LiveGrant
    <3> QED BY <1>1, <3>1 DEF SawNoGrant, Job
  <2>4. CASE ~ LiveGrant(entitlement[m])
    <3>1. job' = [job EXCEPT ![w].pc = "readSubscriptions", ![w].granted = entitlement[m]]
      BY <1>4, <2>4 DEF ReadEntitlement, LiveGrant
    <3>2. job'[w].granted = entitlement[m]
      BY <1>1, <3>1 DEF Job
    <3>3. PICK g \in Entitlement : g = entitlement[m]
      BY <2>1
    <3>4. ~ LiveGrant(g) /\ (LiveGrant(g)' <=> LiveGrant(g))
      BY <2>2, <2>4, <3>3 DEF LiveGrant
    <3> HIDE DEF m
    <3> QED BY <3>2, <3>3, <3>4 DEF SawNoGrant, LiveGrant
  <2> QED BY <2>3, <2>4
<1>5. CASE ReadSubscriptions(w)
  <2>1. /\ job[w].pc = "readSubscriptions" /\ UNCHANGED now
        /\ job'[w].granted = job[w].granted
    BY <1>1, <1>5 DEF ReadSubscriptions, At, Job
  <2> QED BY <2>1 DEF SawNoGrant, LiveGrant
<1>6. ASSUME \/ \E i \in EventId : Deliver(w, i)
             \/ Fault(w)
             \/ Progress(w) /\ ~ ReadEntitlement(w) /\ ~ ReadSubscriptions(w)
      PROVE  SawNoGrant(w)'
  <2>1. ASSUME NEW i \in EventId, Deliver(w, i) PROVE job'[w].pc = "read"
    BY <1>1, <2>1 DEF Deliver, idle
  <2>2. ASSUME Throw(w) PROVE job'[w].pc = "fail"
    BY <1>1, <2>2 DEF Throw, idle
  <2>3. ASSUME Crash(w) \/ RecordProcessed(w) \/ RecordFailed(w) PROVE job'[w].pc = "idle"
    BY <1>1, <2>3 DEF Crash, RecordProcessed, RecordFailed, idle
  <2>4. ASSUME \/ IgnoreEvent(w) \/ AlertUnmatchedSubscription(w) \/ ReadSubscription(w)
               \/ UpsertSubscription(w) \/ ReadChargedSubscription(w) \/ UpdateRevocation(w)
               \/ WriteEntitlement(w)
        PROVE  job'[w].pc \in {"record", "write", "readEntitlement"}
    BY <1>1, <2>4 DEF IgnoreEvent, AlertUnmatchedSubscription, ReadSubscription,
           UpsertSubscription, ReadChargedSubscription, UpdateRevocation, WriteEntitlement, Job
  <2> QED BY <1>6, <2>1, <2>2, <2>3, <2>4 DEF Fault, Progress, SawNoGrant
<1>7. ASSUME NEW v \in Worker \ {w}, (\E i \in EventId : Deliver(v, i)) \/ Progress(v) \/ Fault(v)
      PROVE  job'[w] = job[w] /\ UNCHANGED now
  BY <1>1, <1>7 DEF Deliver, Fault, Throw, Crash, Progress, IgnoreEvent,
         AlertUnmatchedSubscription, ReadSubscription, UpsertSubscription,
         ReadChargedSubscription, UpdateRevocation, ReadEntitlement, ReadSubscriptions,
         WriteEntitlement, RecordProcessed, RecordFailed
<1>8. ASSUME NEW v \in Worker \ {w}, (\E i \in EventId : Deliver(v, i)) \/ Progress(v) \/ Fault(v)
      PROVE  SawNoGrant(w)'
  BY <1>7, <1>8 DEF SawNoGrant, LiveGrant
<1>9. Environment => Tick \/ UNCHANGED <<job, now>>
  BY DEF Environment, StripeUpdatesSubscription, StripeReportsCharge, GrantManually
<1> QED BY <1>2, <1>3, <1>4, <1>5, <1>6, <1>8, <1>9 DEF Next, SkipProcessed, vars

\* For any number of overlapping deliveries, a live grant made by hand is replaced only by
\* a delivery that looked before it was made (syncEntitlementFromSubscriptions).
THEOREM GrantsSurvive == Spec => LiveGrantSurvives
<1> DEFINE SawInv == \A w \in Worker : SawNoGrant(w)
           Replaced(m) == LiveGrant(entitlement[m]) /\ entitlement'[m] # entitlement[m]
           Looked(m) == \E w \in Worker : /\ At(w, "writeEntitlement")
                                          /\ job'[w].pc = "record"
                                          /\ job[w].granted # entitlement[m]
<1>1. Init => SawInv
  BY DEF Init, SawNoGrant, idle
<1>2. IInv /\ SawInv /\ [Next]_vars => SawInv'
  BY SawNoGrantStep
<1>3. IInv /\ SawInv /\ [Next]_vars =>
        [\A m \in Member :
           /\ entitlement[m].source = "MANUAL"
           /\ isEntitlementActive(entitlement[m], now)
           /\ entitlement'[m] # entitlement[m]
           => \E w \in Worker :
                /\ At(w, "writeEntitlement")
                /\ job'[w].pc = "record"
                /\ job[w].granted # entitlement[m]]_vars
  <2> SUFFICES ASSUME IInv, SawInv, Next, NEW m \in Member, Replaced(m) PROVE Looked(m)
    BY DEF LiveGrant, vars
  <2>1. entitlement \in [Member -> Entitlement] /\ job = [v \in Worker |-> job[v]]
    BY DEF IInv, TypeOK
  <2>2. ASSUME NEW w \in Worker, WriteEntitlement(w) PROVE Looked(m)
    <3>1. At(w, "writeEntitlement") /\ ~ LiveGrant(job[w].granted)
      BY <2>2 DEF WriteEntitlement, At, SawNoGrant
    <3>2. job'[w].pc = "record"
      <4>1. job[w] \in Job
        BY DEF IInv, TypeOK
      <4> QED BY <2>1, <2>2, <4>1 DEF WriteEntitlement, Job
    <3> QED BY <3>1, <3>2
  <2>3. ASSUME NEW n \in Member, NEW until \in GrantUntil, GrantManually(n, until) PROVE FALSE
    BY <2>1, <2>3 DEF GrantManually, LiveGrant, isEntitlementActive
  <2>4. ASSUME ~ \E w \in Worker : WriteEntitlement(w),
               ~ \E n \in Member, until \in GrantUntil : GrantManually(n, until)
        PROVE  UNCHANGED entitlement
    BY <2>4 DEF Next, vars, Environment, StripeUpdatesSubscription, StripeReportsCharge, Tick,
           Deliver, SkipProcessed, Fault, Throw, Crash, Progress, IgnoreEvent,
           AlertUnmatchedSubscription, ReadSubscription, UpsertSubscription,
           ReadChargedSubscription, UpdateRevocation, ReadEntitlement, ReadSubscriptions,
           RecordProcessed, RecordFailed
  <2> QED BY <2>2, <2>3, <2>4
<1> QED BY <1>1, <1>2, <1>3, InductiveInvariant, PTL DEF Spec, LiveGrantSurvives

-----------------------------------------------------------------------------
(* An alert is repeated only after a fault                                   *)

\* Neither a record nor a delivery on its way to one carries the stamp of s.
Unstamped(s) ==
  /\ \A i \in EventId : eventRow[i].stripeSubscriptionId # s
  /\ \A w \in Worker : job[w].alertedSubscriptionId # s

\* A stamp is carried from the alert to the record, and stays in a record that is
\* not written again.
StampsStay ==
  /\ \A w \in Worker : job[w].pc # "record" => job[w].alertedSubscriptionId = None
  /\ \A w \in Worker : job[w].pc # "idle" => ~ Processed(job[w].event)
  /\ \A i \in EventId : eventRow[i].stripeSubscriptionId # None => Processed(i)

\* Every alert but the one whose stamp is carried or kept cost a fault.
AlertsPaid ==
  \A s \in Sub : alerts[s] <= 1 + faults /\ (Unstamped(s) => alerts[s] <= faults)

RepeatInv == IInv /\ StampsStay /\ AlertsPaid

LEMMA RepeatStep ==
  ASSUME Serial, RepeatInv, NEW w \in Worker,
         \/ \E i \in EventId : Deliver(w, i)
         \/ Progress(w) \/ Fault(w)
  PROVE  StampsStay' /\ AlertsPaid'
<1>1. /\ IInv /\ StampsStay /\ AlertsPaid /\ job[w] \in Job /\ \A v \in Worker : v = w
      /\ w \in Worker /\ DOMAIN job = Worker
      /\ faults \in Nat /\ \A s \in Sub : alerts[s] \in Nat
      /\ DOMAIN eventRow = EventId /\ \A i \in EventId : eventRow[i] \in EventRow
      /\ job[w].pc # "idle" => job[w].event \in EventId
  BY ParameterAssumption DEF RepeatInv, Serial, IInv, TypeOK, JobsOK, HandlesEvent, EventId
<1>s. None \notin Sub
  BY ParameterAssumption
<1>2. ASSUME UNCHANGED <<eventRow, alerts>>, faults' \in Nat, faults' >= faults,
             job'[w].alertedSubscriptionId = job[w].alertedSubscriptionId \/ faults' = faults + 1,
             job'[w].pc # "record" => job'[w].alertedSubscriptionId = None,
             job'[w].pc # "idle" => ~ Processed(job'[w].event)
      PROVE  StampsStay' /\ AlertsPaid'
  <2>1. StampsStay'
    BY <1>1, <1>2 DEF StampsStay, Processed
  <2>2. ASSUME NEW s \in Sub
        PROVE  alerts'[s] <= 1 + faults' /\ (Unstamped(s)' => alerts'[s] <= faults')
    <3>1. alerts'[s] = alerts[s] /\ alerts[s] \in Nat /\ alerts[s] <= 1 + faults
      BY <1>1, <1>2 DEF AlertsPaid
    <3>2. CASE faults' = faults + 1
      BY <1>1, <3>1, <3>2
    <3>3. CASE job'[w].alertedSubscriptionId = job[w].alertedSubscriptionId
      <4>1. Unstamped(s)' => Unstamped(s)
        BY <1>1, <1>2, <3>3 DEF Unstamped
      <4>2. Unstamped(s) => alerts[s] <= faults
        BY <1>1 DEF AlertsPaid
      <4> QED BY <1>1, <1>2, <3>1, <4>1, <4>2
    <3> QED BY <1>2, <3>2, <3>3
  <2> QED BY <2>1, <2>2 DEF AlertsPaid
<1>3. CASE \E i \in EventId : Deliver(w, i)
  <2>1. PICK i \in EventId : Deliver(w, i)
    BY <1>3
  <2>2. job'[w] = [idle EXCEPT !.pc = "read", !.event = i]
    BY <1>1, <2>1 DEF Deliver
  <2>3. job'[w].pc = "read" /\ job'[w].event = i /\ job'[w].alertedSubscriptionId = None
    BY <2>2 DEF idle
  <2>4. job[w].alertedSubscriptionId = None
    BY <1>1, <2>1 DEF Deliver, At, StampsStay
  <2>5. UNCHANGED <<eventRow, alerts, faults>> /\ ~ Processed(i)
    BY <2>1 DEF Deliver, Processed
  <2> QED BY <1>1, <1>2, <2>3, <2>4, <2>5
<1>4. CASE Fault(w)
  <2>1. /\ UNCHANGED <<eventRow, alerts>> /\ faults' = faults + 1
        /\ job[w].pc # "idle"
        /\ job'[w] = idle \/ job'[w] = [idle EXCEPT !.pc = "fail", !.event = job[w].event]
    BY <1>1, <1>4 DEF Fault, Throw, Crash, At
  <2>2. /\ job'[w].alertedSubscriptionId = None
        /\ job'[w].pc = "idle" \/ job'[w].event = job[w].event
    <3>1. CASE job'[w] = idle
      BY <3>1 DEF idle
    <3>2. CASE job'[w] = [idle EXCEPT !.pc = "fail", !.event = job[w].event]
      BY <3>2 DEF idle
    <3> QED BY <2>1, <3>1, <3>2
  <2>3. ~ Processed(job[w].event)
    BY <1>1, <2>1 DEF StampsStay
  <2> QED BY <1>1, <1>2, <2>1, <2>2, <2>3
<1>5. CASE RecordProcessed(w)
  <2>1. /\ job[w].pc = "record" /\ job[w].event \in EventId
        /\ eventRow' = [eventRow EXCEPT ![job[w].event] =
             [status |-> "PROCESSED", stripeSubscriptionId |-> job[w].alertedSubscriptionId]]
        /\ job'[w] = idle /\ UNCHANGED <<alerts, faults>>
    BY <1>1, <1>5 DEF RecordProcessed, At
  <2>2. job'[w].pc = "idle" /\ job'[w].alertedSubscriptionId = None
    BY <2>1 DEF idle
  <2>3. StampsStay'
    BY <1>1, <2>1, <2>2 DEF StampsStay, Processed
  <2>4. ASSUME NEW s \in Sub, Unstamped(s)' PROVE Unstamped(s)
    <3>1. job[w].alertedSubscriptionId # s
      BY <1>1, <2>1, <2>4 DEF Unstamped
    <3>2. ASSUME NEW i \in EventId PROVE eventRow[i].stripeSubscriptionId # s
      <4>1. CASE i = job[w].event
        BY <1>1, <1>s, <2>1, <4>1 DEF StampsStay
      <4>2. CASE i # job[w].event
        BY <1>1, <2>1, <2>4, <4>2 DEF Unstamped
      <4> QED BY <4>1, <4>2
    <3> QED BY <1>1, <3>1, <3>2 DEF Unstamped
  <2> QED BY <1>1, <2>1, <2>3, <2>4 DEF AlertsPaid
<1>6. CASE RecordFailed(w)
  <2>1. /\ job[w].pc = "fail" /\ job[w].event \in EventId
        /\ eventRow' = [eventRow EXCEPT ![job[w].event] =
             [status |-> "FAILED", stripeSubscriptionId |-> None]]
        /\ job'[w] = idle /\ UNCHANGED <<alerts, faults>>
    BY <1>1, <1>6 DEF RecordFailed, At
  <2>2. job'[w].pc = "idle" /\ job'[w].alertedSubscriptionId = None
    BY <2>1 DEF idle
  <2>3. ~ Processed(job[w].event) /\ job[w].alertedSubscriptionId = None
    BY <1>1, <2>1 DEF StampsStay
  <2>4. StampsStay'
    BY <1>1, <2>1, <2>2 DEF StampsStay, Processed
  <2>5. ASSUME NEW s \in Sub, Unstamped(s)' PROVE Unstamped(s)
    <3>1. ASSUME NEW i \in EventId PROVE eventRow[i].stripeSubscriptionId # s
      <4>1. CASE i = job[w].event
        BY <1>1, <1>s, <2>3, <4>1 DEF StampsStay
      <4>2. CASE i # job[w].event
        BY <1>1, <2>1, <2>5, <4>2 DEF Unstamped
      <4> QED BY <4>1, <4>2
    <3> QED BY <1>1, <1>s, <2>3, <3>1 DEF Unstamped
  <2> QED BY <1>1, <2>1, <2>4, <2>5 DEF AlertsPaid
<1>7. CASE AlertUnmatchedSubscription(w)
  <2> DEFINE e == Handled(w)
             due == /\ e.status \in STRIPE_ACTIVE_STATUSES
                    /\ \A i \in EventId : eventRow[i].stripeSubscriptionId # e.sub
  <2>1. e.sub \in Sub /\ job[w].pc = "read" /\ UNCHANGED <<eventRow, faults>>
    BY <1>1, <1>7, WorkerFacts DEF AlertUnmatchedSubscription, At
  <2>2. job[w].alertedSubscriptionId = None /\ ~ Processed(job[w].event)
    BY <1>1, <2>1 DEF StampsStay
  <2>3. CASE due
    <3>1. /\ alerts' = [alerts EXCEPT ![e.sub] = @ + 1]
          /\ job' = [job EXCEPT ![w].pc = "record", ![w].alertedSubscriptionId = e.sub]
      BY <1>7, <2>3 DEF AlertUnmatchedSubscription
    <3>2. job'[w].pc = "record" /\ job'[w].event = job[w].event /\ job'[w].alertedSubscriptionId = e.sub
      BY <1>1, <3>1 DEF Job
    <3>3. StampsStay'
      BY <1>1, <2>1, <2>2, <3>2 DEF StampsStay, Processed
    <3>4. PICK s \in Sub : s = e.sub
      BY <2>1
    <3>5. Unstamped(s)
      BY <1>1, <1>s, <2>2, <2>3, <3>4 DEF Unstamped
    <3>6. DOMAIN alerts = Sub
      BY <1>1 DEF IInv, TypeOK
    <3> HIDE DEF e, due
    <3>7. alerts'[s] = alerts[s] + 1 /\ \A t \in Sub \ {s} : alerts'[t] = alerts[t]
      BY <3>1, <3>4, <3>6
    <3>8. alerts[s] <= faults
      BY <1>1, <3>5 DEF AlertsPaid
    <3>9. ~ Unstamped(s)'
      BY <1>1, <3>2, <3>4 DEF Unstamped
    <3>10. ASSUME NEW t \in Sub, t # s, Unstamped(t)' PROVE Unstamped(t)
      BY <1>1, <1>s, <2>1, <2>2, <3>10 DEF Unstamped
    <3>11. ASSUME NEW t \in Sub
           PROVE  alerts'[t] <= 1 + faults /\ (Unstamped(t)' => alerts'[t] <= faults)
      <4>1. CASE t = s
        BY <1>1, <3>7, <3>8, <3>9, <4>1
      <4>2. CASE t # s
        BY <1>1, <3>7, <3>10, <4>2 DEF AlertsPaid
      <4> QED BY <4>1, <4>2
    <3> QED BY <2>1, <3>3, <3>11 DEF AlertsPaid
  <2>4. CASE ~ due
    <3>1. job' = [job EXCEPT ![w].pc = "record"] /\ UNCHANGED alerts
      BY <1>7, <2>4 DEF AlertUnmatchedSubscription
    <3>2. /\ job'[w].pc = "record" /\ job'[w].event = job[w].event
          /\ job'[w].alertedSubscriptionId = job[w].alertedSubscriptionId
      BY <1>1, <3>1 DEF Job
    <3> QED BY <1>1, <1>2, <2>1, <2>2, <3>1, <3>2
  <2> QED BY <2>3, <2>4
<1>8. CASE \/ IgnoreEvent(w) \/ ReadSubscription(w) \/ ReadChargedSubscription(w)
           \/ UpsertSubscription(w) \/ UpdateRevocation(w)
           \/ ReadEntitlement(w) \/ ReadSubscriptions(w) \/ WriteEntitlement(w)
  <2>1. UNCHANGED <<eventRow, alerts, faults>>
    BY <1>8 DEF IgnoreEvent, ReadSubscription, ReadChargedSubscription, UpsertSubscription,
           UpdateRevocation, ReadEntitlement, ReadSubscriptions, WriteEntitlement
  <2>2. job[w].pc \in {"read", "write", "readEntitlement", "readSubscriptions", "writeEntitlement"}
    BY <1>8 DEF IgnoreEvent, ReadSubscription, ReadChargedSubscription, UpsertSubscription,
           UpdateRevocation, ReadEntitlement, ReadSubscriptions, WriteEntitlement, At
  <2>3. job'[w].event = job[w].event /\ job'[w].alertedSubscriptionId = job[w].alertedSubscriptionId
    BY <1>1, <1>8 DEF IgnoreEvent, ReadSubscription, ReadChargedSubscription, UpsertSubscription,
           UpdateRevocation, ReadEntitlement, ReadSubscriptions, WriteEntitlement, Job
  <2>4. job[w].alertedSubscriptionId = None /\ ~ Processed(job[w].event)
    BY <1>1, <2>2 DEF StampsStay
  <2> QED BY <1>1, <1>2, <2>1, <2>3, <2>4
<1> QED BY <1>3, <1>4, <1>5, <1>6, <1>7, <1>8 DEF Progress

LEMMA SerialRepeatInv ==
  ASSUME Serial
  PROVE  Spec => []RepeatInv
<1>1. Init => StampsStay /\ AlertsPaid
  BY ParameterAssumption DEF Init, StampsStay, AlertsPaid, idle, Processed
<1>2. RepeatInv /\ IInv' /\ [Next]_vars => RepeatInv'
  <2> SUFFICES ASSUME RepeatInv, IInv', [Next]_vars PROVE StampsStay' /\ AlertsPaid'
    BY DEF RepeatInv
  <2>1. ASSUME UNCHANGED <<job, eventRow, alerts, faults>> PROVE StampsStay' /\ AlertsPaid'
    BY <2>1 DEF RepeatInv, StampsStay, AlertsPaid, Unstamped, Processed
  <2>2. CASE Environment
    BY <2>1, <2>2 DEF Environment, StripeUpdatesSubscription, StripeReportsCharge, Tick,
                      GrantManually
  <2>3. CASE (\E w \in Worker, i \in EventId : SkipProcessed(w, i)) \/ UNCHANGED vars
    BY <2>1, <2>3 DEF SkipProcessed, vars
  <2> QED BY <2>2, <2>3, RepeatStep DEF Next
<1>3. Init /\ IInv => RepeatInv
  BY <1>1 DEF RepeatInv
<1> QED BY <1>2, <1>3, InductiveInvariant, PTL DEF Spec

\* With one delivery at a time, nothing but a fault between an alert and the record
\* that carries its stamp makes the alert repeat (alertUnmatchedSubscription).
THEOREM SerialAlertOnce ==
  ASSUME Serial
  PROVE  Spec => []AlertRepeatsOnlyAfterFault
<1>1. RepeatInv => AlertRepeatsOnlyAfterFault
  BY DEF RepeatInv, AlertsPaid, AlertRepeatsOnlyAfterFault
<1> QED BY <1>1, SerialRepeatInv, PTL

-----------------------------------------------------------------------------
(* An entitlement Stripe wrote is the one the rows support                   *)

Supported(m) == entitlement[m].source = "STRIPE" => entitlement[m] = derivedEntitlement(m)

\* Between the write of a row and the write of the entitlement.
Deriving(w) == job[w].pc \in {"readEntitlement", "readSubscriptions", "writeEntitlement"}

BeingDerived(m) == \E w \in Worker : Deriving(w) /\ Owner[Handled(w).sub] = m

\* Event i is delivered again, and its delivery will not stop at the row.
Rederives(i) ==
  /\ ~ Processed(i)
  /\ events[i].kind = "subscription"
  /\ ~ isOutOfOrder(rows[events[i].sub], events[i])

Owed(m) == \E i \in DOMAIN events : Rederives(i) /\ Owner[events[i].sub] = m

Derived(w) ==
  job[w].pc = "writeEntitlement" => job[w].derived = derivedEntitlement(Owner[Handled(w).sub])

\* A subscription event is not older than the row its delivery has written.
WroteNewest(w) ==
  Deriving(w) /\ Handled(w).kind = "subscription" =>
    ~ isOutOfOrder(rows[Handled(w).sub], Handled(w))

\* What is about to be recorded PROCESSED owes nothing any more.
LeavesSupported(w) ==
  /\ job[w].pc = "record"
  /\ Handled(w).kind = "subscription"
  /\ Owner[Handled(w).sub] # None
  /\ ~ isOutOfOrder(rows[Handled(w).sub], Handled(w))
  => Supported(Owner[Handled(w).sub])

JobDerives(w) == Derived(w) /\ WroteNewest(w) /\ LeavesSupported(w)

\* A member whose entitlement has fallen behind the rows is the one a delivery is
\* deriving it for, or is owed the derivation by an event Stripe delivers again.
EntitlementInv ==
  /\ \A m \in Member : Supported(m) \/ BeingDerived(m) \/ Owed(m)
  /\ \A w \in Worker : JobDerives(w)

\* Only the rows of a member count for the member.
LEMMA OthersRowsDoNotCount ==
  ASSUME NEW s \in Sub, NEW m \in Member, Owner[s] # m,
         \A t \in Sub \ {s} : rows'[t] = rows[t]
  PROVE  derivedEntitlement(m)' = derivedEntitlement(m)
<1>1. \A t \in Sub : Owner[t] = m => rows'[t] = rows[t]
  OBVIOUS
<1>2. rowsOf(m)' = rowsOf(m)
  BY <1>1 DEF rowsOf
<1>3. QED
  BY <1>2 DEF derivedEntitlement

\* A step that changes no row and records nothing PROCESSED takes no derivation
\* away that is owed.
LEMMA OwedStays ==
  ASSUME UNCHANGED rows, DOMAIN events \subseteq DOMAIN events',
         \A i \in DOMAIN events : events'[i] = events[i] /\ (Processed(i)' => Processed(i)),
         NEW m, Owed(m)
  PROVE  Owed(m)'
<1>1. PICK i \in DOMAIN events : Rederives(i) /\ Owner[events[i].sub] = m
  BY DEF Owed
<1>2. i \in DOMAIN events' /\ events'[i] = events[i] /\ ~ Processed(i)'
  BY <1>1 DEF Rederives
<1>3. Rederives(i)'
  BY <1>1, <1>2 DEF Rederives, isOutOfOrder
<1>4. QED
  BY <1>1, <1>2, <1>3 DEF Owed

\* A step of the one worker that changes no row and no entitlement, records nothing
\* PROCESSED and leaves no derivation behind.
LEMMA QuietDerivation ==
  ASSUME Serial, EntitlementInv, NEW w \in Worker,
         UNCHANGED <<events, rows, entitlement>>,
         \A i \in DOMAIN events : Processed(i)' => Processed(i),
         ~ Deriving(w) \/ (Deriving(w)' /\ UNCHANGED Handled(w)),
         JobDerives(w)'
  PROVE  EntitlementInv'
<1>1. \A m : derivedEntitlement(m)' = derivedEntitlement(m)
  BY DEF derivedEntitlement, rowsOf
<1>2. \A m : Supported(m)' <=> Supported(m)
  BY <1>1 DEF Supported
<1>3. \A v \in Worker : v = w
  BY DEF Serial
<1>4. \A m \in Member : BeingDerived(m) => BeingDerived(m)'
  BY <1>3 DEF BeingDerived
<1>5. \A m \in Member : Owed(m) => Owed(m)'
  BY OwedStays
<1>6. QED
  BY <1>2, <1>3, <1>4, <1>5 DEF EntitlementInv

\* The write of a row starts a derivation for the member who owns it.
LEMMA RowWriteDerives ==
  ASSUME Serial, IInv, EntitlementInv, NEW w \in Worker,
         UpsertSubscription(w) \/ UpdateRevocation(w)
  PROVE  EntitlementInv'
<1> DEFINE e == Handled(w)
<1>1. /\ job[w] \in Job /\ job \in [Worker -> Job]
      /\ job[w].pc = "write" /\ e.sub \in Sub /\ Owner[e.sub] \in Member
      /\ e.created \in Nat
      /\ rows \in [Sub -> SubscriptionRow \cup {None}]
  BY WorkerFacts, MaxDateAssumption
     DEF UpsertSubscription, UpdateRevocation, At, HasOwner, IInv, TypeOK, Event, Date
<1>2. /\ job'[w].pc = "readEntitlement"
      /\ Handled(w)' = e
      /\ UNCHANGED <<events, entitlement, eventRow>>
      /\ \A t \in Sub \ {e.sub} : rows'[t] = rows[t]
  BY <1>1 DEF UpsertSubscription, UpdateRevocation, Handled, Job
<1>3. e.kind = "subscription" => ~ isOutOfOrder(rows'[e.sub], e)
  <2>1. CASE UpsertSubscription(w)
    <3>1. rows'[e.sub].lastEventAt = e.created
      BY <1>1, <2>1 DEF UpsertSubscription
    <3>2. QED
      BY <1>1, <3>1 DEF isOutOfOrder
  <2>2. CASE UpdateRevocation(w)
    BY <2>2 DEF UpdateRevocation, ChargeKind, MoneyBackKind
  <2>3. QED
    BY <2>1, <2>2
<1>4. JobDerives(w)' /\ Deriving(w)' /\ ~ Deriving(w)
  BY <1>1, <1>2, <1>3 DEF JobDerives, Derived, WroteNewest, LeavesSupported, Deriving, isOutOfOrder
<1>5. \A v \in Worker : v = w
  BY DEF Serial
<1>6. ASSUME NEW m \in Member, Owner[e.sub] # m, Supported(m) \/ Owed(m)
      PROVE  Supported(m)' \/ Owed(m)'
  <2>1. CASE Supported(m)
    <3>1. derivedEntitlement(m)' = derivedEntitlement(m)
      BY <1>1, <1>2, <1>6, OthersRowsDoNotCount
    <3>2. QED
      BY <1>2, <2>1, <3>1 DEF Supported
  <2>2. ASSUME NEW i \in DOMAIN events, Rederives(i), Owner[events[i].sub] = m
        PROVE  Owed(m)'
    <3>1. events[i].sub \in Sub \ {e.sub}
      BY <1>6, <2>2 DEF Rederives, IInv, EventsOK
    <3>2. rows'[events[i].sub] = rows[events[i].sub]
      BY <1>2, <3>1
    <3>3. Rederives(i)'
      BY <1>2, <2>2, <3>2 DEF Rederives, Processed, isOutOfOrder
    <3>4. QED
      BY <1>2, <2>2, <3>3 DEF Owed
  <2>3. QED
    BY <1>6, <2>1, <2>2 DEF Owed
<1>7. \A m \in Member : Owner[e.sub] = m => BeingDerived(m)'
  BY <1>2, <1>4 DEF BeingDerived
<1>8. \A m \in Member : ~ BeingDerived(m)
  BY <1>4, <1>5 DEF BeingDerived
<1>9. QED
  BY <1>4, <1>5, <1>6, <1>7, <1>8 DEF EntitlementInv

\* A derivation ends with the entitlement the rows support, or with a live
\* grant made by hand left alone.
LEMMA DerivationEnds ==
  ASSUME Serial, IInv, EntitlementInv, NEW w \in Worker,
         ReadEntitlement(w) \/ ReadSubscriptions(w) \/ WriteEntitlement(w)
  PROVE  EntitlementInv'
<1> PICK owner : owner = Owner[Handled(w).sub]
  OBVIOUS
<1>1. /\ job[w] \in Job /\ job \in [Worker -> Job] /\ Deriving(w) /\ JobDerives(w)
      /\ owner \in Member /\ entitlement \in [Member -> Entitlement]
  BY WorkerFacts DEF ReadEntitlement, ReadSubscriptions, WriteEntitlement, At, HasOwner,
                     Deriving, IInv, TypeOK, EntitlementInv
<1>2. UNCHANGED <<events, rows, eventRow, Handled(w)>>
  BY <1>1 DEF ReadEntitlement, ReadSubscriptions, WriteEntitlement, Handled, Job
<1>3. \A m : derivedEntitlement(m)' = derivedEntitlement(m)
  BY <1>2 DEF derivedEntitlement, rowsOf
<1>4. \A v \in Worker : v = w
  BY DEF Serial
<1>5. WroteNewest(w)' /\ \A i \in DOMAIN events : Processed(i)' => Processed(i)
  BY <1>1, <1>2 DEF JobDerives, WroteNewest, isOutOfOrder, Processed
<1>6. CASE ReadSubscriptions(w)
  <2>1. /\ job'[w].pc = "writeEntitlement" /\ UNCHANGED entitlement
        /\ job'[w].derived = derivedEntitlement(owner)
    BY <1>1, <1>6 DEF ReadSubscriptions, Job
  <2>2. JobDerives(w)' /\ Deriving(w)'
    BY <1>2, <1>3, <1>5, <2>1 DEF JobDerives, Derived, LeavesSupported, Deriving
  <2>3. QED
    BY <1>2, <1>5, <2>1, <2>2, QuietDerivation
<1>7. CASE ReadEntitlement(w) /\ ~ LiveGrant(entitlement[owner])
  <2>1. job'[w].pc = "readSubscriptions" /\ UNCHANGED entitlement
    BY <1>1, <1>7 DEF ReadEntitlement, LiveGrant, Job
  <2>2. JobDerives(w)' /\ Deriving(w)'
    BY <1>5, <2>1 DEF JobDerives, Derived, LeavesSupported, Deriving
  <2>3. QED
    BY <1>2, <1>5, <2>1, <2>2, QuietDerivation
<1>8. ASSUME job'[w].pc = "record", Supported(owner)',
             \A m \in Member \ {owner} : Supported(m) => Supported(m)'
      PROVE  EntitlementInv'
  <2>1. Owner[Handled(w).sub]' = owner
    BY <1>2
  <2>2. JobDerives(w)'
    BY <1>5, <1>8, <2>1 DEF JobDerives, Derived, LeavesSupported
  <2>3. \A m \in Member \ {owner} : ~ BeingDerived(m)
    BY <1>4 DEF BeingDerived
  <2>4. \A m \in Member : Owed(m) => Owed(m)'
    BY <1>2, <1>5, OwedStays
  <2>5. QED
    BY <1>4, <1>8, <2>2, <2>3, <2>4 DEF EntitlementInv
<1>9. CASE ReadEntitlement(w) /\ LiveGrant(entitlement[owner])
  <2>1. job'[w].pc = "record" /\ UNCHANGED entitlement /\ entitlement[owner].source # "STRIPE"
    BY <1>1, <1>9 DEF ReadEntitlement, LiveGrant, Job
  <2>2. \A m : Supported(m)' <=> Supported(m)
    BY <1>3, <2>1 DEF Supported
  <2>3. QED
    BY <1>8, <2>1, <2>2 DEF Supported
<1>10. CASE WriteEntitlement(w)
  <2>1. /\ job[w].pc = "writeEntitlement"
        /\ job'[w].pc = "record"
        /\ entitlement' = [entitlement EXCEPT ![owner] = job[w].derived]
    BY <1>1, <1>10 DEF WriteEntitlement, At, Job
  <2>2. Supported(owner)'
    <3>1. job[w].derived = derivedEntitlement(owner)
      BY <1>1, <2>1 DEF JobDerives, Derived
    <3>2. QED
      BY <1>1, <1>3, <2>1, <3>1 DEF Supported
  <2>3. \A m \in Member \ {owner} : Supported(m) => Supported(m)'
    BY <1>1, <1>3, <2>1 DEF Supported
  <2>4. QED
    BY <1>8, <2>1, <2>2, <2>3
<1>11. QED
  BY <1>6, <1>7, <1>9, <1>10

\* A fault that loses no derivation leaves the event to be delivered again.
LEMMA FaultOwes ==
  ASSUME Serial, IInv, StampsStay, EntitlementInv, NEW w \in Worker,
         Fault(w), ~ LosesDerivation(w)
  PROVE  EntitlementInv'
<1>1. /\ job[w] \in Job /\ job \in [Worker -> Job] /\ JobDerives(w)
      /\ job[w].pc # "idle" =>
           job[w].event \in DOMAIN events /\ Handled(w) \in Event /\ ~ Processed(job[w].event)
      /\ Deriving(w) => Owner[Handled(w).sub] \in Member
  BY WorkerFacts DEF IInv, TypeOK, EntitlementInv, HandlesEvent, HasOwner, StampsStay, Deriving
<1>2. /\ UNCHANGED <<events, rows, entitlement, eventRow>>
      /\ job'[w].pc \in {"idle", "fail"}
  <2>1. CASE Throw(w)
    BY <1>1, <2>1 DEF Throw, idle
  <2>2. CASE Crash(w)
    BY <1>1, <2>2 DEF Crash, idle
  <2>3. QED
    BY <2>1, <2>2 DEF Fault
<1>3. JobDerives(w)'
  BY <1>2 DEF JobDerives, Derived, WroteNewest, LeavesSupported, Deriving
<1>4. \A i \in DOMAIN events : Processed(i)' => Processed(i)
  BY <1>2 DEF Processed
<1>5. CASE ~ Deriving(w)
  BY <1>2, <1>3, <1>4, <1>5, QuietDerivation
<1>6. CASE Deriving(w)
  <2>1. Handled(w).kind = "subscription"
    BY <1>1, <1>6 DEF LosesDerivation, Deriving, Event
  <2>2. Rederives(job[w].event)
    BY <1>1, <1>6, <2>1 DEF JobDerives, WroteNewest, Deriving, Rederives, Handled
  <2>3. job[w].event \in DOMAIN events
    BY <1>1, <1>6 DEF Deriving
  <2>4. Owed(Owner[Handled(w).sub])
    BY <2>2, <2>3 DEF Owed, Handled
  <2>5. \A v \in Worker : v = w
    BY DEF Serial
  <2>6. \A m \in Member : BeingDerived(m) => Owed(m)
    BY <2>4, <2>5 DEF BeingDerived
  <2>7. \A m \in Member : Owed(m) => Owed(m)'
    BY <1>2, <1>4, OwedStays
  <2>8. \A m \in Member : Supported(m) => Supported(m)'
    BY <1>2 DEF Supported, derivedEntitlement, rowsOf
  <2>9. QED
    BY <1>3, <2>5, <2>6, <2>7, <2>8 DEF EntitlementInv
<1>7. QED
  BY <1>5, <1>6

\* A record PROCESSED takes a derivation away only from a member who needs none.
LEMMA RecordSettles ==
  ASSUME Serial, IInv, EntitlementInv, NEW w \in Worker, RecordProcessed(w)
  PROVE  EntitlementInv'
<1>1. /\ job[w] \in Job /\ job \in [Worker -> Job] /\ JobDerives(w)
      /\ job[w].pc = "record" /\ eventRow \in [EventId -> EventRow]
  BY WorkerFacts DEF RecordProcessed, At, IInv, TypeOK, EntitlementInv
<1>2. /\ UNCHANGED <<events, rows, entitlement>>
      /\ job'[w].pc = "idle"
      /\ \A i \in EventId \ {job[w].event} : Processed(i)' <=> Processed(i)
  BY <1>1 DEF RecordProcessed, idle, Processed
<1>3. JobDerives(w)'
  BY <1>2 DEF JobDerives, Derived, WroteNewest, LeavesSupported, Deriving
<1>4. \A v \in Worker : v = w
  BY DEF Serial
<1>5. \A m \in Member : ~ BeingDerived(m)
  BY <1>1, <1>4 DEF BeingDerived, Deriving
<1>6. \A m \in Member : Supported(m) <=> Supported(m)'
  BY <1>2 DEF Supported, derivedEntitlement, rowsOf
<1>7. ASSUME NEW m \in Member, Owed(m)
      PROVE  Supported(m)' \/ Owed(m)'
  <2>1. PICK i \in DOMAIN events : Rederives(i) /\ Owner[events[i].sub] = m
    BY <1>7 DEF Owed
  <2>2. CASE i = job[w].event
    <3>1. m # None
      BY ParameterAssumption
    <3>2. Supported(m)
      BY <1>1, <2>1, <2>2, <3>1 DEF JobDerives, LeavesSupported, Rederives, Handled
    <3>3. QED
      BY <1>6, <3>2
  <2>3. CASE i # job[w].event
    <3>1. i \in EventId
      BY ParameterAssumption DEF IInv, TypeOK, EventId
    <3>2. Rederives(i)'
      BY <1>2, <2>1, <2>3, <3>1 DEF Rederives, isOutOfOrder
    <3>3. QED
      BY <1>2, <2>1, <3>2 DEF Owed
  <2>4. QED
    BY <2>2, <2>3
<1>8. QED
  BY <1>3, <1>4, <1>5, <1>6, <1>7 DEF EntitlementInv

\* What happens before a row is written, and the record of a failure, leave every
\* derivation where it was.
LEMMA ReadsDerive ==
  ASSUME Serial, IInv, EntitlementInv, NEW w \in Worker,
         \/ \E i \in EventId : Deliver(w, i)
         \/ IgnoreEvent(w) \/ AlertUnmatchedSubscription(w) \/ ReadSubscription(w)
         \/ ReadChargedSubscription(w) \/ RecordFailed(w)
  PROVE  EntitlementInv'
<1>1. /\ job[w] \in Job /\ job \in [Worker -> Job]
      /\ eventRow \in [EventId -> EventRow] /\ DOMAIN events \subseteq EventId
  BY ParameterAssumption DEF IInv, TypeOK, EventId
<1>2. ASSUME NEW i \in EventId, Deliver(w, i)
      PROVE  /\ job[w].pc = "idle" /\ job'[w].pc = "read"
             /\ UNCHANGED <<events, rows, entitlement, eventRow>>
  BY <1>1, <1>2 DEF Deliver, At, idle
<1>3. CASE RecordFailed(w)
  <2>1. /\ job[w].pc = "fail" /\ job'[w].pc = "idle"
        /\ UNCHANGED <<events, rows, entitlement>>
        /\ \A i \in EventId : Processed(i)' => Processed(i)
    BY <1>1, <1>3 DEF RecordFailed, At, idle, Processed
  <2>2. ~ Deriving(w) /\ JobDerives(w)'
    BY <2>1 DEF JobDerives, Derived, WroteNewest, LeavesSupported, Deriving
  <2>3. QED
    BY <1>1, <2>1, <2>2, QuietDerivation
<1>4. ASSUME job[w].pc \in {"idle", "read"}, job'[w].pc \in {"read", "record", "write"},
             UNCHANGED <<events, rows, entitlement, eventRow>>,
             LeavesSupported(w)'
      PROVE  EntitlementInv'
  <2>1. ~ Deriving(w) /\ JobDerives(w)'
    BY <1>4 DEF JobDerives, Derived, WroteNewest, Deriving
  <2>2. \A i \in DOMAIN events : Processed(i)' => Processed(i)
    BY <1>4 DEF Processed
  <2>3. QED
    BY <1>4, <2>1, <2>2, QuietDerivation
<1>5. CASE \E i \in EventId : Deliver(w, i)
  <2>1. /\ job[w].pc = "idle" /\ job'[w].pc = "read"
        /\ UNCHANGED <<events, rows, entitlement, eventRow>>
    BY <1>2, <1>5
  <2>2. LeavesSupported(w)'
    BY <2>1 DEF LeavesSupported
  <2>3. QED
    BY <1>4, <2>1, <2>2
<1>6. CASE \/ IgnoreEvent(w) \/ AlertUnmatchedSubscription(w) \/ ReadSubscription(w)
           \/ ReadChargedSubscription(w)
  <2>1. /\ job[w].pc = "read" /\ job'[w].pc \in {"record", "write"}
        /\ UNCHANGED <<events, rows, entitlement, eventRow, Handled(w)>>
    BY <1>1, <1>6 DEF IgnoreEvent, AlertUnmatchedSubscription, ReadSubscription,
           ReadChargedSubscription, At, Handled, Job
  <2>2. \/ Handled(w).kind # "subscription"
        \/ Owner[Handled(w).sub] = None
        \/ isOutOfOrder(rows[Handled(w).sub], Handled(w))
        \/ job'[w].pc = "write"
    BY <1>1, <1>6 DEF IgnoreEvent, AlertUnmatchedSubscription, ReadSubscription,
           ReadChargedSubscription, IgnoredKind, ChargeKind, MoneyBackKind, Job
  <2>3. LeavesSupported(w)'
    BY <2>1, <2>2 DEF LeavesSupported, isOutOfOrder
  <2>4. QED
    BY <1>4, <2>1, <2>3
<1>7. QED
  BY <1>3, <1>5, <1>6

\* Stripe, time and the operator leave every row and every derived entitlement
\* alone; a grant made by hand is not Stripe's.
LEMMA EnvironmentDerives ==
  ASSUME IInv, EntitlementInv, Environment
  PROVE  EntitlementInv'
<1>1. /\ UNCHANGED <<rows, job, eventRow>>
      /\ DOMAIN events \subseteq DOMAIN events'
      /\ \A i \in DOMAIN events : events'[i] = events[i]
  BY EnvironmentAppends
<1>2. \A w \in Worker : job[w].pc # "idle" => Handled(w)' = Handled(w)
  <2>1. \A w \in Worker : job[w].pc # "idle" => job[w].event \in DOMAIN events
    BY DEF IInv, JobsOK, HandlesEvent
  <2>2. QED
    BY <1>1, <2>1 DEF Handled
<1>3. \A m : derivedEntitlement(m)' = derivedEntitlement(m)
  BY <1>1 DEF derivedEntitlement, rowsOf
<1>4. \A m \in Member : Supported(m) => Supported(m)'
  <2>1. CASE UNCHANGED entitlement
    BY <1>3, <2>1 DEF Supported
  <2>2. ASSUME NEW n \in Member, NEW until \in GrantUntil, GrantManually(n, until)
        PROVE  \A m \in Member : Supported(m) => Supported(m)'
    <3>1. entitlement \in [Member -> Entitlement]
      BY DEF IInv, TypeOK
    <3>2. QED
      BY <1>3, <2>2, <3>1 DEF GrantManually, Supported
  <2>3. QED
    BY <2>1, <2>2 DEF Environment, StripeUpdatesSubscription, StripeReportsCharge, Tick
<1>5. ASSUME NEW m \in Member, BeingDerived(m) PROVE BeingDerived(m)'
  <2>1. PICK w \in Worker : Deriving(w) /\ Owner[Handled(w).sub] = m
    BY <1>5 DEF BeingDerived
  <2>2. Deriving(w)' /\ Handled(w)' = Handled(w)
    BY <1>1, <1>2, <2>1 DEF Deriving
  <2>3. Owner[Handled(w).sub]' = Owner[Handled(w).sub]
    BY <2>2
  <2>4. QED
    BY <2>1, <2>2, <2>3 DEF BeingDerived
<1>6. \A m \in Member : Owed(m) => Owed(m)'
  <2>1. \A i \in DOMAIN events : Processed(i)' => Processed(i)
    BY <1>1 DEF Processed
  <2>2. QED
    BY <1>1, <2>1, OwedStays
<1>7. ASSUME NEW w \in Worker PROVE JobDerives(w)'
  <2>1. JobDerives(w)
    BY DEF EntitlementInv
  <2>2. CASE job[w].pc = "idle"
    BY <1>1, <2>2 DEF JobDerives, Derived, WroteNewest, LeavesSupported, Deriving
  <2>3. CASE job[w].pc # "idle"
    <3> DEFINE owner == Owner[Handled(w).sub]
    <3>1. Handled(w)' = Handled(w)
      BY <1>2, <2>3
    <3>2. owner' = owner
      BY <3>1
    <3>3. Derived(w)'
      BY <1>1, <1>3, <2>1, <3>2 DEF JobDerives, Derived
    <3>4. WroteNewest(w)'
      BY <1>1, <2>1, <3>1 DEF JobDerives, WroteNewest, Deriving, isOutOfOrder
    <3>5. LeavesSupported(w)'
      <4>1. SUFFICES ASSUME job[w].pc = "record", Handled(w).kind = "subscription",
                            owner # None, ~ isOutOfOrder(rows[Handled(w).sub], Handled(w))
                     PROVE  Supported(owner)'
        BY <1>1, <3>1, <3>2 DEF LeavesSupported, isOutOfOrder
      <4>2. owner \in Member
        BY <4>1, WorkerFacts, ParameterAssumption
      <4>3. Supported(owner)
        BY <2>1, <4>1 DEF JobDerives, LeavesSupported
      <4>4. PICK m \in Member : m = owner
        BY <4>2
      <4>5. Supported(m)'
        BY <1>4, <4>3, <4>4
      <4>6. QED
        BY <3>2, <4>4, <4>5
    <3>6. QED
      BY <3>3, <3>4, <3>5 DEF JobDerives, LeavesSupported
  <2>4. QED
    BY <2>2, <2>3
<1>8. QED
  BY <1>4, <1>5, <1>6, <1>7 DEF EntitlementInv

\* A step keeps the derivations owed, unless a charge's delivery dies between the
\* row and the entitlement.
LEMMA EntitlementStep ==
  ASSUME Serial, IInv, StampsStay, EntitlementInv, [Next]_vars,
         \A w \in Worker : ~ LosesDerivation(w)
  PROVE  EntitlementInv'
<1>1. CASE Environment
  BY <1>1, EnvironmentDerives
<1>2. CASE UNCHANGED vars
  <2>1. \A w \in Worker : Handled(w)' = Handled(w)
    BY <1>2 DEF vars, Handled
  <2>2. \A m : derivedEntitlement(m)' = derivedEntitlement(m)
    BY <1>2 DEF vars, derivedEntitlement, rowsOf
  <2>3. \A w \in Worker : JobDerives(w) => JobDerives(w)'
    BY <1>2, <2>1, <2>2
       DEF vars, JobDerives, Derived, WroteNewest, LeavesSupported, Deriving, isOutOfOrder, Supported
  <2>4. \A m \in Member : Owed(m) => Owed(m)'
    BY <1>2, OwedStays DEF vars, Processed
  <2>5. \A m \in Member : BeingDerived(m) => BeingDerived(m)'
    BY <1>2, <2>1 DEF vars, BeingDerived, Deriving
  <2>6. \A m \in Member : Supported(m) => Supported(m)'
    BY <1>2, <2>2 DEF vars, Supported
  <2>7. QED
    BY <2>3, <2>4, <2>5, <2>6 DEF EntitlementInv
<1>3. ASSUME NEW w \in Worker, (\E i \in EventId : Deliver(w, i)) \/ Progress(w) \/ Fault(w)
      PROVE  EntitlementInv'
  <2>1. CASE Fault(w)
    BY <2>1, FaultOwes
  <2>2. CASE UpsertSubscription(w) \/ UpdateRevocation(w)
    BY <2>2, RowWriteDerives
  <2>3. CASE ReadEntitlement(w) \/ ReadSubscriptions(w) \/ WriteEntitlement(w)
    BY <2>3, DerivationEnds
  <2>4. CASE RecordProcessed(w)
    BY <2>4, RecordSettles
  <2>5. CASE \/ \E i \in EventId : Deliver(w, i)
             \/ IgnoreEvent(w) \/ AlertUnmatchedSubscription(w) \/ ReadSubscription(w)
             \/ ReadChargedSubscription(w) \/ RecordFailed(w)
    BY <2>5, ReadsDerive
  <2>6. QED
    BY <1>3, <2>1, <2>2, <2>3, <2>4, <2>5 DEF Progress
<1>4. QED
  BY <1>1, <1>2, <1>3 DEF Next, SkipProcessed

LEMMA EntitlementInit == Init => EntitlementInv
BY DEF Init, EntitlementInv, Supported, FreeAccount, JobDerives, Derived, WroteNewest,
       LeavesSupported, Deriving, idle

\* Settled, no delivery is deriving and none is owed.
LEMMA SettledIsSupported == EntitlementInv => SettledEntitlement
BY DEF EntitlementInv, SettledEntitlement, Settled, At, BeingDerived, Deriving, Owed, Rederives,
       Supported

\* With one delivery at a time, whatever the order, the repetitions and the failures,
\* and whoever is granted access by hand meanwhile, the settled entitlement of a
\* paying member is the one the stored rows support, as long as no charge's delivery
\* dies between the row and the entitlement (syncEntitlementFromSubscriptions).
THEOREM SerialEntitlement ==
  ASSUME Serial
  PROVE  RetriedSpec => []SettledEntitlement
<1>1. IInv /\ StampsStay /\ EntitlementInv /\ [Next /\ \A w \in Worker : ~ LosesDerivation(w)]_vars
      => EntitlementInv'
  <2>1. IInv => faults \in Nat
    BY ParameterAssumption DEF IInv, TypeOK
  <2>2. IInv /\ UNCHANGED vars => \A w \in Worker : ~ LosesDerivation(w)
    BY <2>1 DEF vars, LosesDerivation, Fault, Throw, Crash
  <2>3. QED
    BY <2>2, EntitlementStep
<1>2. [Next /\ \A w \in Worker : ~ LosesDerivation(w)]_vars => [Next]_vars
  OBVIOUS
<1>3. RepeatInv => IInv /\ StampsStay
  BY DEF RepeatInv
<1>4. QED
  BY <1>1, <1>2, <1>3, EntitlementInit, SettledIsSupported, SerialRepeatInv, PTL
     DEF RetriedSpec, Spec

\* The same without a condition on the failures, until the first of them.
THEOREM FaultlessEntitlement ==
  ASSUME Serial
  PROVE  Spec => [](faults = 0 => SettledEntitlement)
<1> DEFINE FaultlessInv == faults = 0 => EntitlementInv
<1>1. IInv /\ StampsStay /\ FaultlessInv /\ [Next]_vars => FaultlessInv'
  <2> SUFFICES ASSUME IInv, StampsStay, FaultlessInv, [Next]_vars, faults' = 0
               PROVE  EntitlementInv'
    OBVIOUS
  <2>1. faults \in Nat
    BY ParameterAssumption DEF IInv, TypeOK
  <2>2. \A w \in Worker : ~ Fault(w)
    BY <2>1 DEF Fault, Throw, Crash
  <2>3. UNCHANGED faults
    BY <2>2 DEF Next, vars, Environment, StripeUpdatesSubscription, StripeReportsCharge, Tick,
           GrantManually, Deliver, SkipProcessed, Progress, IgnoreEvent,
           AlertUnmatchedSubscription, ReadSubscription, UpsertSubscription,
           ReadChargedSubscription, UpdateRevocation, ReadEntitlement, ReadSubscriptions,
           WriteEntitlement, RecordProcessed, RecordFailed
  <2>4. QED
    BY <2>2, <2>3, EntitlementStep DEF LosesDerivation
<1>2. RepeatInv => IInv /\ StampsStay
  BY DEF RepeatInv
<1>3. Init => FaultlessInv
  BY EntitlementInit
<1>4. FaultlessInv => (faults = 0 => SettledEntitlement)
  BY SettledIsSupported
<1> HIDE DEF FaultlessInv
<1>5. QED
  BY <1>1, <1>2, <1>3, <1>4, SerialRepeatInv, PTL DEF Spec

=============================================================================
