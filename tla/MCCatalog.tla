------------------------------ MODULE MCCatalog ------------------------------
EXTENDS Catalog, TLC

CONSTANTS l1, l2, l3, c1, c2, c3

Requests == Permutations({c1, c2, c3})

\* One discipline with a skill, and one with two phases.
TwoDisciplines ==
  [bjj |-> [phases |-> <<"fundamentals">>, tracks |-> [fundamentals |-> <<"guard">>],
            skills |-> <<"escape">>, levels |-> <<"core">>],
   haganah |-> [phases |-> <<"foundations", "advanced">>,
                tracks |-> [foundations |-> <<"stance">>, advanced |-> <<"weapons">>],
                skills |-> <<>>, levels |-> <<"intro">>]]

TwoOrders == l1 :> 1 @@ l2 :> 2

BothBjj == l1 :> createDefaultCurriculum("bjj") @@ l2 :> createDefaultCurriculum("bjj")

=============================================================================
