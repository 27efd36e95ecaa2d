------------------------------ MODULE Accounts ------------------------------
(***************************************************************************)
(* A device that signs members in and out, and the API its requests reach: *)
(* a request of the device carries the token of the session it holds.      *)
(* Other clients - a visitor, the marketing site - call at the same time.  *)
(***************************************************************************)
EXTENDS SignIn, Members

ASSUME AccountsAssumption == Account \subseteq Member

vars == <<screen, attempt, session, env, user, entitlement, call, halfMade>>

Init == SignInInit /\ MembersInit

\* useApiClient: the token, or the development user's header, or neither.
DeviceCalls(c, route) ==
  \/ session # None /\ Arrive(c, route, session, DevUser)
  \/ isDevAuthBypassEnabled(env) /\ Arrive(c, route, Absent, DevUser)

VisitorCalls(c) == Arrive(c, "lesson", Absent, DevUser)

Next ==
  \/ SignInNext /\ UNCHANGED memberVars
  \/ /\ \/ \E c \in Call, route \in Route : DeviceCalls(c, route)
        \/ \E c \in Call : VisitorCalls(c)
        \/ \E c \in Call, id \in Member : ArriveInternal(c, id)
        \/ \E c \in Call : Serve(c)
        \/ Webhook
     /\ UNCHANGED signInVars

Spec == Init /\ [][Next]_vars

\* A call to Clerk ends: with an answer, or as one that was not heard.
Fairness == WF_vars(ClerkAnswers /\ UNCHANGED memberVars)

FairSpec == Spec /\ Fairness

=============================================================================
