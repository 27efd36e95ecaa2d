------------------------------- MODULE Members -------------------------------
(***************************************************************************)
(* Who a request to the API is served as, and how a member first appears   *)
(* in the database (auth.service.ts, the guards, me.service.ts).           *)
(*                                                                         *)
(* ensureUser's upsert carries a nested create, so Prisma reads and then   *)
(* inserts, and a concurrent insert makes it fail; the upserts of          *)
(* getEntitlementsByClerkUserId are single statements.  Every database     *)
(* call may fail.                                                          *)
(***************************************************************************)
EXTENDS Deployment

CONSTANTS
  Absent,
  Configured, \* environments somebody tries to start the API in
  Member,     \* Clerk ids of members
  DevUser,    \* the seeded admin
  Call        \* requests in flight

ASSUME MembersAssumption ==
  /\ DevUser \notin Member
  /\ Absent \notin Member \cup {DevUser}
  /\ Absent \notin {"STUDENT", "ADMIN", "FREE", "PREMIUM"}
  /\ Configured \subseteq Environment

VARIABLES
  env,          \* what the API was started with
  user,         \* the role on a member's row, Absent without a row
  entitlement,  \* the tier on a member's row, Absent without a row
  call,         \* the requests in flight
  halfMade      \* members whose first entitlements call broke between its upserts

memberVars == <<env, user, entitlement, call, halfMade>>

Id == Member \cup {DevUser}

\* "lesson" has an optional caller, "internal" is the marketing site's, "admin" is
\* for staff, "entitlements" and "own" are a member's (/me/entitlements; /me,
\* progress, favorites, billing).
Route == {"lesson", "own", "entitlements", "admin", "internal"}

Request ==
  [route : Route,
   token : Member \cup {Absent},
   subject : Id \cup {Absent},       \* whose rows it is about, once that is known
   role : {"STUDENT", "ADMIN", Absent},
   pc : {"verify", "ensure", "insert", "handle", "staff", "upsertUser", "upsertEntitlement"}]

ASSUME NullRequestAssumption == Absent \notin Request

MembersInit ==
  /\ env \in {e \in Configured : validateApiEnv(e)}
  /\ user = [id \in Id |-> IF id = DevUser THEN "ADMIN" ELSE Absent]
  /\ entitlement = [id \in Id |-> IF id = DevUser THEN "PREMIUM" ELSE Absent]
  /\ call = [c \in Call |-> Absent]
  /\ halfMade = {}

goes(c, pc) == call' = [call EXCEPT ![c].pc = pc]
done(c) == call' = [call EXCEPT ![c] = Absent]

\* A caller who could not be told: anonymous where that is allowed, refused elsewhere.
unidentified(c, r) ==
  call' = [call EXCEPT ![c] =
    IF r.route = "lesson" THEN [r EXCEPT !.subject = Absent, !.role = Absent, !.pc = "handle"]
    ELSE Absent]

-----------------------------------------------------------------------------
(* Arriving *)

wallPath(route) == IF route = "internal" THEN "internal" ELSE "guarded"

\* Somebody calls a member's route, with a token or without.  Without one the bypass
\* takes the id of the x-dev-user-id header.
Arrive(c, route, token, header) ==
  LET r == [route |-> route, token |-> token, subject |-> Absent, role |-> Absent, pc |-> "verify"]
  IN  /\ call[c] = Absent
      /\ route # "internal"
      /\ ~ behindWall(env, wallPath(route))
      /\ IF isDevAuthBypassEnabled(env) /\ token = Absent
         THEN call' = [call EXCEPT ![c] = [r EXCEPT !.subject = header, !.pc = "ensure"]]
         ELSE IF token = Absent \/ ~ has(env, "CLERK_SECRET_KEY")
         THEN unidentified(c, r)
         ELSE call' = [call EXCEPT ![c] = r]
      /\ UNCHANGED <<env, user, entitlement, halfMade>>

\* getUserEntitlements: the marketing site asks about any id, with the internal key.
ArriveInternal(c, id) ==
  /\ call[c] = Absent
  /\ has(env, "DIAZ_INTERNAL_API_KEY")
  /\ ~ behindWall(env, wallPath("internal"))
  /\ call' = [call EXCEPT ![c] = [route |-> "internal", token |-> Absent, subject |-> id,
                                  role |-> Absent, pc |-> "upsertUser"]]
  /\ UNCHANGED <<env, user, entitlement, halfMade>>

At(c, pc) == call[c] # Absent /\ call[c].pc = pc

\* verifyToken: the token may have expired.
VerifyToken(c) ==
  /\ At(c, "verify")
  /\ \/ call' = [call EXCEPT ![c].subject = call[c].token, ![c].pc = "ensure"]
     \/ unidentified(c, call[c])
  /\ UNCHANGED <<env, user, entitlement, halfMade>>

-----------------------------------------------------------------------------
(* ensureUser *)

identified(c, role) == call' = [call EXCEPT ![c].role = role, ![c].pc = "handle"]

EnsureRead(c) ==
  LET id == call[c].subject
  IN  /\ At(c, "ensure")
      /\ IF user[id] # Absent THEN identified(c, user[id]) ELSE goes(c, "insert")
      /\ UNCHANGED <<env, user, entitlement, halfMade>>

\* Mutant of EnsureInsert: the nested entitlement is forgotten.
EnsureInsertUserOnly(c) ==
  LET id == call[c].subject
  IN  /\ At(c, "insert")
      /\ IF user[id] # Absent
         THEN unidentified(c, call[c]) /\ UNCHANGED user
         ELSE identified(c, "STUDENT") /\ user' = [user EXCEPT ![id] = "STUDENT"]
      /\ UNCHANGED <<env, entitlement, halfMade>>

\* The user and its FREE entitlement are inserted together, unless another request
\* inserted the user since: the unique violation escapes the guard as a 500, and
\* getOptionalUser takes it for no caller.
EnsureInsert(c) ==
  LET id == call[c].subject
  IN  /\ At(c, "insert")
      /\ IF user[id] # Absent
         THEN unidentified(c, call[c]) /\ UNCHANGED <<user, entitlement>>
         ELSE /\ identified(c, "STUDENT")
              /\ user' = [user EXCEPT ![id] = "STUDENT"]
              /\ entitlement' = [entitlement EXCEPT ![id] = "FREE"]
      /\ UNCHANGED <<env, halfMade>>

EnsureFails(c) ==
  /\ At(c, "ensure") \/ At(c, "insert")
  /\ unidentified(c, call[c])
  /\ UNCHANGED <<env, user, entitlement, halfMade>>

-----------------------------------------------------------------------------
(* The handlers *)

\* RolesGuard refuses a member the staff routes.
admits(r) == r.route = "admin" => r.role = "ADMIN"

\* An entitlements call goes on to write; staff routes are the subject of LessonVideo
\* and Catalog, the others read or write the caller's own rows.
Handle(c) ==
  /\ At(c, "handle")
  /\ IF admits(call[c]) /\ call[c].route = "entitlements" THEN goes(c, "upsertUser")
     ELSE IF admits(call[c]) /\ call[c].route = "admin" THEN goes(c, "staff")
     ELSE done(c)
  /\ UNCHANGED <<env, user, entitlement, halfMade>>

StaffDone(c) ==
  /\ At(c, "staff")
  /\ done(c)
  /\ UNCHANGED <<env, user, entitlement, halfMade>>

\* getEntitlementsByClerkUserId
UpsertUser(c) ==
  LET id == call[c].subject
  IN  /\ At(c, "upsertUser")
      /\ user' = [user EXCEPT ![id] = IF @ = Absent THEN "STUDENT" ELSE @]
      /\ goes(c, "upsertEntitlement")
      /\ UNCHANGED <<env, entitlement, halfMade>>

\* Mutant of UpsertEntitlement: the update branch writes what the create branch does.
UpsertEntitlementResetting(c) ==
  LET id == call[c].subject
  IN  /\ At(c, "upsertEntitlement")
      /\ entitlement' = [entitlement EXCEPT ![id] = "FREE"]
      /\ halfMade' = halfMade \ {id}
      /\ done(c)
      /\ UNCHANGED <<env, user>>

UpsertEntitlement(c) ==
  LET id == call[c].subject
  IN  /\ At(c, "upsertEntitlement")
      /\ entitlement' = [entitlement EXCEPT ![id] = IF @ = Absent THEN "FREE" ELSE @]
      /\ halfMade' = halfMade \ {id}
      /\ done(c)
      /\ UNCHANGED <<env, user>>

HandlerFails(c) ==
  /\ At(c, "upsertUser") \/ At(c, "upsertEntitlement")
  /\ halfMade' = halfMade \cup
       (IF At(c, "upsertEntitlement") THEN {call[c].subject} ELSE {})
  /\ done(c)
  /\ UNCHANGED <<env, user, entitlement>>

-----------------------------------------------------------------------------
(* The webhooks of StripeWebhooks, as far as they concern a member's row *)

WebhookSetsTier(id, tier) ==
  /\ user[id] # Absent
  /\ entitlement[id] # tier
  /\ entitlement' = [entitlement EXCEPT ![id] = tier]
  /\ halfMade' = halfMade \ {id}
  /\ UNCHANGED <<env, user, call>>

Webhook == \E id \in Member, tier \in {"FREE", "PREMIUM"} : WebhookSetsTier(id, tier)

Serve(c) ==
  \/ VerifyToken(c) \/ EnsureRead(c) \/ EnsureInsert(c) \/ EnsureFails(c)
  \/ Handle(c) \/ StaffDone(c) \/ UpsertUser(c) \/ UpsertEntitlement(c) \/ HandlerFails(c)

MembersNext ==
  \/ \E c \in Call, route \in Route, token \in Member \cup {Absent}, header \in Id :
       Arrive(c, route, token, header)
  \/ \E c \in Call, id \in Member : ArriveInternal(c, id)
  \/ \E c \in Call : Serve(c)
  \/ Webhook

MembersSpec == MembersInit /\ [][MembersNext]_memberVars

-----------------------------------------------------------------------------
(* Properties *)

\* Every variable has its type.
MembersTypeOK ==
  /\ env \in Environment
  /\ user \in [Id -> {"STUDENT", "ADMIN", Absent}]
  /\ entitlement \in [Id -> {"FREE", "PREMIUM", Absent}]
  /\ call \in [Call -> Request \cup {Absent}]
  /\ halfMade \subseteq Id

\* On a server a request is served as the member its token names or as nobody; the
\* marketing site's is the only one about somebody else (validateApiEnv against
\* isDevAuthBypassEnabled): "the bypass authenticates uncredentialed requests as an
\* admin, so it may only run against a local database".
NoCredentialNoIdentity ==
  env.nodeEnv = "production" \/ env.database # "loopback" =>
    \A c \in Call :
      call[c] # Absent /\ call[c].route # "internal" => call[c].subject \in {Absent, call[c].token}

\* However a member is seen first - a page, the app, the marketing site, at once -
\* the row it gets never takes back a tier the webhooks gave (update: {}).
FirstSightKeepsAccess ==
  [][~ Webhook =>
       \A id \in Id :
         /\ user[id] # Absent => user'[id] = user[id]
         /\ entitlement[id] # Absent => entitlement'[id] = entitlement[id]]_memberVars

\* A member has an entitlement as soon as it has a row, except between the two
\* upserts of an entitlements call or after one that broke there.
EntitlementWithUser ==
  \A id \in Id :
    user[id] # Absent /\ entitlement[id] = Absent =>
      \/ id \in halfMade
      \/ \E c \in Call : At(c, "upsertEntitlement") /\ call[c].subject = id

=============================================================================
