---------------------------- MODULE BillingRules ----------------------------
(***************************************************************************)
(* The pure rules of the billing path: which stored subscription row       *)
(* grants access (common/entitlement.ts) and what a refund, a chargeback,  *)
(* a won dispute or a renewal writes to a row (subscription-revocation.ts).*)
(* A row, a revocation and an entitlement are records; a missing date or   *)
(* reason is None.                                                         *)
(***************************************************************************)
EXTENDS Naturals, FiniteSetsExt

CONSTANTS
  None,      \* a database null
  MaxDate    \* bound on the instants of a run

ASSUME MaxDateAssumption == MaxDate \in Nat

Date == 0 .. MaxDate

\* One representative of each way the code branches on a Stripe status:
\* "past_due" is live although not "active", "incomplete" is not live yet,
\* "canceled" is over.
Status == {"incomplete", "trialing", "active", "past_due", "canceled"}

STRIPE_ACTIVE_STATUSES == {"trialing", "active", "past_due"}

REVOKE_REASON_REFUND == "refund"
REVOKE_REASON_CHARGEBACK == "chargeback"
RevokeReason == {REVOKE_REASON_REFUND, REVOKE_REASON_CHARGEBACK}

\* Null is told apart from every value a nullable column holds.
ASSUME NoneAssumption == None \notin Nat \cup Status \cup RevokeReason

Revocation ==
  [revokedAt : Date \cup {None}, revokedReason : RevokeReason \cup {None}]

NO_REVOCATION == [revokedAt |-> None, revokedReason |-> None]

Entitlement ==
  [tier : {"FREE", "PREMIUM"},
   validUntil : Date \cup {None},
   source : {"MANUAL", "STRIPE"}]

-----------------------------------------------------------------------------
(* Access *)

isEntitlementActive(entitlement, now) ==
  /\ entitlement.tier = "PREMIUM"
  /\ entitlement.validUntil = None \/ entitlement.validUntil > now

isLiveStripeSubscription(row) ==
  row.revokedAt = None /\ row.status \in STRIPE_ACTIVE_STATUSES

\* The tier and the end date a member's stored rows support.
resolveStripeEntitlement(subscriptions) ==
  LET granting   == {row \in subscriptions : isLiveStripeSubscription(row)}
      periodEnds == {row.currentPeriodEnd : row \in granting} \ {None}
  IN  [tier       |-> IF granting = {} THEN "FREE" ELSE "PREMIUM",
       validUntil |-> IF periodEnds = {} THEN None ELSE Max(periodEnds)]

-----------------------------------------------------------------------------
(* Revocation.  A plan is the revocation to write, or None for "nothing to  *)
(* do".                                                                     *)

\* Mutants of planRevocation: the newest reason always wins; an upgrade to a
\* chargeback keeps the refund's date.
planRevocationLatest(current, reason, at) == [revokedAt |-> at, revokedReason |-> reason]
planRevocationRedated(current, reason, at) ==
  IF \/ current.revokedAt = None
     \/ /\ reason = REVOKE_REASON_CHARGEBACK
        /\ current.revokedReason # REVOKE_REASON_CHARGEBACK
  THEN [revokedAt |-> IF current.revokedAt = None THEN at ELSE current.revokedAt,
        revokedReason |-> reason]
  ELSE None

planRevocation(current, reason, at) ==
  IF \/ current.revokedAt = None
     \/ /\ reason = REVOKE_REASON_CHARGEBACK
        /\ current.revokedReason # REVOKE_REASON_CHARGEBACK
  THEN [revokedAt |-> at, revokedReason |-> reason]
  ELSE None

planDisputeWonRelease(current) ==
  IF current.revokedAt # None /\ current.revokedReason = REVOKE_REASON_CHARGEBACK
  THEN NO_REVOCATION
  ELSE None

\* Mutant of releasesRevocation: any live event counts as proof of payment.
releasesOnLiveStatus(current, incoming) ==
  /\ current.revokedAt # None
  /\ current.revokedReason = REVOKE_REASON_REFUND
  /\ incoming.status \in STRIPE_ACTIVE_STATUSES

\* Only a refund is undone by a renewal, and only by an event generated after
\* it, with a live status, whose paid period moved strictly forward.
releasesRevocation(current, incoming) ==
  /\ current.revokedAt # None
  /\ current.revokedReason = REVOKE_REASON_REFUND
  /\ incoming.created > current.revokedAt
  /\ incoming.status \in STRIPE_ACTIVE_STATUSES
  /\ current.currentPeriodEnd # None
  /\ incoming.currentPeriodEnd # None
  /\ incoming.currentPeriodEnd > current.currentPeriodEnd

=============================================================================
