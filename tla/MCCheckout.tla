----------------------------- MODULE MCCheckout -----------------------------
(* Instances of Checkout for TLC: one member, two tabs, up to two cancels. *)
EXTENDS Checkout, TLC

CONSTANTS m1, a, b, c, d, s1, s2, s3

OneMember == [r \in Request |-> m1]

Symmetry ==
  Permutations(SessionId) \cup Permutations(Tab) \cup Permutations(Canceller)

SessionSymmetry == Permutations(SessionId)

=============================================================================
