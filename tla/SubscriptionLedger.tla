------------------------- MODULE SubscriptionLedger -------------------------
(***************************************************************************)
(* What a Subscription row promises, with no deliveries, workers or reads: *)
(* an entry moves only forward along Stripe's timeline, and its revocation *)
(* changes only by a money-back event, a won dispute or a paid renewal.    *)
(***************************************************************************)
EXTENDS BillingRules

CONSTANT Sub

VARIABLE ledger

Init == ledger = [s \in Sub |-> None]

SetEntry(s, status, end, at, revocation) ==
  ledger' = [ledger EXCEPT ![s] =
    [status |-> status, currentPeriodEnd |-> end, lastEventAt |-> at,
     revokedAt |-> revocation.revokedAt, revokedReason |-> revocation.revokedReason]]

Open(s, status, end, at) ==
  /\ ledger[s] = None
  /\ SetEntry(s, status, end, at, NO_REVOCATION)

\* A newer Stripe state is recorded; a revocation stays.
Advance(s, status, end, at) ==
  /\ ledger[s] # None
  /\ at >= ledger[s].lastEventAt
  /\ SetEntry(s, status, end, at, ledger[s])

\* The one state change that also clears a revocation: a renewal was paid.
Renew(s, status, end, at) ==
  /\ ledger[s] # None
  /\ at >= ledger[s].lastEventAt
  /\ ledger[s].revokedReason = REVOKE_REASON_REFUND
  /\ at > ledger[s].revokedAt
  /\ status \in STRIPE_ACTIVE_STATUSES
  /\ ledger[s].currentPeriodEnd # None /\ end # None
  /\ end > ledger[s].currentPeriodEnd
  /\ SetEntry(s, status, end, at, NO_REVOCATION)

\* Money went back.  A chargeback outranks a refund and nothing outranks a
\* chargeback.
Withdraw(s, reason, at) ==
  /\ ledger[s] # None
  /\ \/ ledger[s].revokedAt = None
     \/ ledger[s].revokedReason = REVOKE_REASON_REFUND /\ reason = REVOKE_REASON_CHARGEBACK
  /\ ledger' = [ledger EXCEPT ![s].revokedAt = at, ![s].revokedReason = reason]

\* A dispute was won.
Restore(s) ==
  /\ ledger[s] # None
  /\ ledger[s].revokedReason = REVOKE_REASON_CHARGEBACK
  /\ ledger' = [ledger EXCEPT ![s].revokedAt = None, ![s].revokedReason = None]

Next ==
  \E s \in Sub :
    \/ \E status \in Status, end \in Date \cup {None}, at \in Date :
         \/ Open(s, status, end, at)
         \/ Advance(s, status, end, at)
         \/ Renew(s, status, end, at)
    \/ \E reason \in RevokeReason, at \in Date : Withdraw(s, reason, at)
    \/ Restore(s)

Spec == Init /\ [][Next]_ledger

=============================================================================
