-------------------------- MODULE MCStripeWebhooks --------------------------
(* Instances of StripeWebhooks for TLC. *)
EXTENDS StripeWebhooks, TLC

CONSTANTS m1, s1, s2, w1, w2

\* One member with one subscription, with two, and a subscription nobody owns.
OneSub == s1 :> m1
TwoSubs == s1 :> m1 @@ s2 :> m1
Unowned == s1 :> None
HalfOwned == s1 :> m1 @@ s2 :> None

SubscriptionOnly == {"subscription"}
Refunds == {"subscription", "refund"}
MoneyBack == {"subscription", "refund", "dispute"}
Disputes == {"subscription", "dispute", "dispute_won"}
RefundAndDispute == Disputes \cup {"refund"}
AllKinds == {"subscription"} \cup ChargeKind

Lifecycle == {"active", "canceled"}
DelayedCard == {"incomplete", "active", "canceled"}
ActiveOnly == {"active"}

NoGrants == {}
OpenEndedGrant == {None}
ShortGrant == {1}

=============================================================================
