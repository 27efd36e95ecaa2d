----------------------------- MODULE MCAccounts -----------------------------
(* Instances of Accounts for TLC. *)
EXTENDS Accounts, TLC

CONSTANTS m1, m2, dev, out, c1, c2

\* Any bypass and wall, a server or not by either account, all secrets or none.
Everywhere ==
  {e \in Environment :
    /\ e.nodeEnv \in {"unset", "production"}
    /\ e.nodeEnv = "production" => e.database # "unparseable"
    /\ e.secrets \in {Secret, {}}}

=============================================================================
