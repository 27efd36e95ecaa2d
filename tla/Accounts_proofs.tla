--------------------------- MODULE Accounts_proofs ---------------------------
(***************************************************************************)
(* What a device may sign in as, whom the API takes a request for, and     *)
(* what a member's first requests leave, for any accounts, members,        *)
(* configured environments and number of requests in flight.               *)
(***************************************************************************)
EXTENDS Accounts, TLAPS

USE SignInAssumption, NullAttemptAssumption, MembersAssumption, NullRequestAssumption, AccountsAssumption

-----------------------------------------------------------------------------
(* Signing in.  A prepared address is the one the device's attempt is for,  *)
(* from the moment a code may be entered to the moment a session exists.    *)

AttemptIsFor(address) == attempt # None /\ attempt.identifier = address

SignInInv ==
  /\ SignInTypeOK
  /\ screen.prepared # None => AttemptIsFor(screen.prepared)
  /\ screen.step = "code" \/ Waiting("creating") => screen.email # None
  /\ Waiting("creating") => screen.prepared = None
  /\ Waiting("preparing") \/ Waiting("attempting") \/ Waiting("activating") =>
       AttemptIsFor(screen.email)
  /\ session # None => screen.pc \in {"idle", "signingOut"}

LEMMA SignInStarts == SignInInit => SignInInv
BY DEF SignInInit, SignInInv, SignInTypeOK, mounted, Screen, AttemptIsFor, Waiting

LEMMA SignInStep == SignInInv /\ [SignInNext]_signInVars => SignInInv'
<1> SUFFICES ASSUME SignInInv, [SignInNext]_signInVars PROVE SignInInv'
  OBVIOUS
<1> USE DEF SignInInv, SignInTypeOK, AttemptIsFor, Waiting, Screen, Attempt, Address
<1>1. ASSUME NEW e \in Address, requestCode(e) PROVE SignInInv'
  BY <1>1 DEF requestCode
<1>2. ASSUME NEW c \in Account \cup {None}, verifyCode(c) PROVE SignInInv'
  BY <1>2 DEF verifyCode
<1>3. CASE useDifferentEmail
  BY <1>3 DEF useDifferentEmail
<1>4. CASE signOut
  BY <1>4 DEF signOut
<1>5. CASE SessionEnds \/ RestartApp
  BY <1>5 DEF SessionEnds, RestartApp, mounted
<1>6. CASE ClerkAnswers
  <2>1. CASE ClerkCreates
    <3>1. /\ screen.email \in Account
          /\ attempt' \in Attempt /\ attempt' # None /\ attempt'.identifier = screen.email
          /\ UNCHANGED session /\ session = None
      <4>1. /\ screen.email \in Account
            /\ attempt' \in Attempt /\ attempt'.identifier = screen.email
            /\ UNCHANGED session
        BY <2>1 DEF ClerkCreates
      <4>2. session = None
        BY <2>1 DEF ClerkCreates
      <4> HIDE DEF Attempt
      <4> QED BY <4>1, <4>2
    <3>2. CASE screen' = [screen EXCEPT !.pc = "preparing"]
      <4>1. screen' \in Screen /\ screen'.pc = "preparing" /\ screen'.email = screen.email
            /\ screen'.prepared = None
        BY <2>1, <3>2 DEF ClerkCreates
      <4> HIDE DEF Screen, Attempt
      <4> QED BY <3>1, <4>1
    <3>3. CASE screen' = [screen EXCEPT !.prepared = screen.email, !.step = "code", !.pc = "idle"]
      <4>1. screen' \in Screen /\ screen'.pc = "idle" /\ screen'.email = screen.email
            /\ screen'.prepared = screen.email
        BY <3>1, <3>3
      <4> HIDE DEF Screen, Attempt
      <4> QED BY <3>1, <4>1
    <3>4. \/ screen' = [screen EXCEPT !.pc = "preparing"]
          \/ screen' = [screen EXCEPT !.prepared = screen.email, !.step = "code", !.pc = "idle"]
      <4>1. ASSUME shows([screen EXCEPT !.prepared = screen.email, !.step = "code"])
            PROVE screen' = [screen EXCEPT !.prepared = screen.email, !.step = "code", !.pc = "idle"]
        BY <4>1 DEF shows
      <4> QED BY <2>1, <4>1 DEF ClerkCreates
    <3> QED BY <3>2, <3>3, <3>4
  <2>2. CASE ClerkPrepares
    BY <2>2 DEF ClerkPrepares, shows
  <2>3. CASE ClerkRefusesRequest
    BY <2>3 DEF ClerkRefusesRequest, shows
  <2>4. CASE RequestUnheard
    BY <2>4 DEF RequestUnheard, shows
  <2>5. CASE ClerkAccepts
    BY <2>5 DEF ClerkAccepts
  <2>6. CASE CodeRejected
    <3>1. screen' = [screen EXCEPT !.pc = "idle"] /\ attempt # None
      BY <2>6 DEF CodeRejected, shows
    <3>2. attempt' \in Attempt /\ attempt'.identifier = attempt.identifier
      BY <2>6, <3>1 DEF CodeRejected
    <3> QED BY <2>6, <3>1, <3>2 DEF CodeRejected
  <2>7. CASE SessionStarts
    BY <2>7 DEF SessionStarts, mounted
  <2>8. CASE SessionNotStarted
    BY <2>8 DEF SessionNotStarted, shows
  <2>9. CASE SignOutAnswered
    BY <2>9 DEF SignOutAnswered, shows
  <2> QED BY <1>6, <2>1, <2>2, <2>3, <2>4, <2>5, <2>6, <2>7, <2>8, <2>9 DEF ClerkAnswers
<1>7. CASE UNCHANGED signInVars
  BY <1>7 DEF signInVars
<1> QED BY <1>1, <1>2, <1>3, <1>4, <1>5, <1>6, <1>7 DEF SignInNext

\* Every step of the composition is one of the device or one of the API.
DeviceCall == \E c \in Call, route \in Route : DeviceCalls(c, route)

ApiStep ==
  \/ DeviceCall
  \/ \E c \in Call : VisitorCalls(c) \/ Serve(c)
  \/ \E c \in Call, id \in Member : ArriveInternal(c, id)
  \/ Webhook

LEMMA StepsApart ==
  ASSUME [Next]_vars
  PROVE  /\ [SignInNext]_signInVars
         /\ ApiStep \/ UNCHANGED memberVars
BY DEF Next, vars, signInVars, memberVars, ApiStep, DeviceCall

\* For any addresses and however requests for codes fail, a session begins only for the
\* address on screen (preparedIdentifier of SignInScreen).
THEOREM SignsInAddressOnScreen == Spec => CodeVerifiesItsAddress
<1>1. Init => SignInInv
  BY SignInStarts DEF Init
<1>2. SignInInv /\ [Next]_vars => SignInInv'
  BY SignInStep, StepsApart
<1>3. SignInInv /\ [Next]_vars =>
        [session' \notin {session, None} => session' = screen.email]_signInVars
  <2> SUFFICES ASSUME SignInInv, [SignInNext]_signInVars, session' \notin {session, None}
               PROVE  session' = screen.email
    BY StepsApart
  <2>1. CASE SessionStarts \/ RestartApp
    BY <2>1 DEF SessionStarts, RestartApp, SignInInv, AttemptIsFor, Waiting
  <2>2. CASE SessionEnds \/ SignOutAnswered
    BY <2>2 DEF SessionEnds, SignOutAnswered
  <2>3. CASE UNCHANGED session
    BY <2>3
  <2> QED
    BY <2>1, <2>2, <2>3 DEF SignInNext, ClerkAnswers, requestCode, verifyCode,
       useDifferentEmail, signOut, ClerkCreates, ClerkPrepares, ClerkRefusesRequest,
       RequestUnheard, ClerkAccepts, CodeRejected, SessionNotStarted, signInVars
<1> QED BY <1>1, <1>2, <1>3, PTL DEF Spec, CodeVerifiesItsAddress

-----------------------------------------------------------------------------
(* Requests and first sight.  A request past its identification has a       *)
(* subject unless it is an anonymous visitor's; on a server the subject is  *)
(* its token's; an entitlement never exists without its user.               *)

Live(c) == call[c] # Absent

OnServer == env.nodeEnv = "production" \/ env.database # "loopback"

Identified ==
  \A c \in Call : Live(c) =>
    /\ At(c, "verify") => call[c].token \in Member
    /\ ~ At(c, "verify") =>
         \/ call[c].subject \in Id
         \/ call[c].route = "lesson" /\ At(c, "handle")
    /\ OnServer /\ call[c].route # "internal" => call[c].subject \in {Absent, call[c].token}

UserFirst ==
  /\ \A id \in Id : entitlement[id] # Absent => user[id] # Absent
  /\ \A c \in Call : At(c, "upsertEntitlement") => user[call[c].subject] # Absent

MembersInv == MembersTypeOK /\ Identified /\ UserFirst /\ EntitlementWithUser

LEMMA MembersStart == MembersInit => MembersInv
<1> SUFFICES ASSUME MembersInit PROVE MembersInv
  OBVIOUS
<1>1. MembersTypeOK
  BY DEF MembersInit, MembersTypeOK, Id
<1>2. Identified /\ UserFirst /\ EntitlementWithUser
  BY DEF MembersInit, Identified, Live, UserFirst, EntitlementWithUser, At, Id
<1> QED BY <1>1, <1>2 DEF MembersInv

\* A step that leaves the rows alone and moves one request, not past its first upsert.
LEMMA RequestStep ==
  ASSUME MembersInv, NEW c \in Call, NEW r \in Request \cup {Absent},
         call' = [call EXCEPT ![c] = r],
         UNCHANGED <<env, user, entitlement, halfMade>>,
         ~ At(c, "upsertEntitlement"),
         r # Absent =>
           /\ r.pc # "upsertEntitlement"
           /\ r.pc = "verify" => r.token \in Member
           /\ r.pc # "verify" => r.subject \in Id \/ (r.route = "lesson" /\ r.pc = "handle")
           /\ OnServer /\ r.route # "internal" => r.subject \in {Absent, r.token}
  PROVE  MembersInv'
<1> USE DEF MembersInv
<1>1. MembersTypeOK'
  BY DEF MembersTypeOK
<1>2. call'[c] = r /\ \A d \in Call \ {c} : call'[d] = call[d]
  BY DEF MembersTypeOK
<1>3. Identified'
  BY <1>2 DEF Identified, Live, At, OnServer
<1>4. UserFirst'
  BY <1>2 DEF UserFirst, At
<1>5. EntitlementWithUser'
  BY <1>2 DEF EntitlementWithUser, At
<1> QED BY <1>1, <1>3, <1>4, <1>5

LEMMA UnidentifiedStep ==
  ASSUME MembersInv, NEW c \in Call, NEW r \in Request,
         unidentified(c, r),
         UNCHANGED <<env, user, entitlement, halfMade>>,
         ~ At(c, "upsertEntitlement")
  PROVE  MembersInv'
<1> DEFINE next == IF r.route = "lesson"
                   THEN [r EXCEPT !.subject = Absent, !.role = Absent, !.pc = "handle"]
                   ELSE Absent
<1>1. call' = [call EXCEPT ![c] = next]
  BY DEF unidentified
<1>2. next \in Request \cup {Absent}
  BY DEF Request
<1>3. next # Absent => next.pc = "handle" /\ next.route = "lesson" /\ next.subject = Absent
  BY DEF Request
<1> HIDE DEF next
<1> QED BY <1>1, <1>2, <1>3, RequestStep

LEMMA ArriveStep ==
  ASSUME MembersInv, NEW c \in Call, NEW route \in Route, NEW token \in Member \cup {Absent},
         NEW header \in Id, Arrive(c, route, token, header)
  PROVE  MembersInv'
<1> DEFINE r == [route |-> route, token |-> token, subject |-> Absent, role |-> Absent,
                 pc |-> "verify"]
<1>1. /\ r \in Request /\ r.token = token /\ r.subject = Absent /\ r.route = route
      /\ r.pc = "verify"
      /\ [r EXCEPT !.subject = header, !.pc = "ensure"] \in Request
      /\ [r EXCEPT !.subject = header, !.pc = "ensure"].subject = header
      /\ [r EXCEPT !.subject = header, !.pc = "ensure"].pc = "ensure"
  BY DEF Request, Id
<1>2. ~ At(c, "upsertEntitlement") /\ UNCHANGED <<env, user, entitlement, halfMade>>
  BY DEF Arrive, At
<1>3. CASE isDevAuthBypassEnabled(env) /\ token = Absent
  <2>1. call' = [call EXCEPT ![c] = [r EXCEPT !.subject = header, !.pc = "ensure"]]
    BY <1>3 DEF Arrive
  <2>2. ~ OnServer
    BY <1>3 DEF OnServer, isDevAuthBypassEnabled, isDeployment, isLoopbackDatabaseUrl
  <2> HIDE DEF r
  <2> QED BY <1>1, <1>2, <2>1, <2>2, RequestStep
<1>4. CASE ~ (isDevAuthBypassEnabled(env) /\ token = Absent) /\ unidentified(c, r)
  <2> HIDE DEF r
  <2> QED BY <1>1, <1>2, <1>4, UnidentifiedStep
<1>5. CASE token # Absent /\ call' = [call EXCEPT ![c] = r]
  <2> HIDE DEF r
  <2> QED BY <1>1, <1>2, <1>5, RequestStep
<1>6. \/ isDevAuthBypassEnabled(env) /\ token = Absent
      \/ ~ (isDevAuthBypassEnabled(env) /\ token = Absent) /\ unidentified(c, r)
      \/ token # Absent /\ call' = [call EXCEPT ![c] = r]
  BY DEF Arrive
<1> QED BY <1>3, <1>4, <1>5, <1>6

LEMMA ServeStep ==
  ASSUME MembersInv, NEW c \in Call, Serve(c)
  PROVE  MembersInv'
<1> DEFINE r == call[c]
<1>l. Live(c)
  BY DEF Live, Serve, At, VerifyToken, EnsureRead, EnsureInsert,
     EnsureFails, Handle, StaffDone, UpsertUser, UpsertEntitlement, HandlerFails
<1>t. /\ user \in [Id -> {"STUDENT", "ADMIN", Absent}]
      /\ entitlement \in [Id -> {"FREE", "PREMIUM", Absent}]
      /\ call \in [Call -> Request \cup {Absent}] /\ halfMade \subseteq Id
      /\ env \in Environment
  BY DEF MembersInv, MembersTypeOK
<1>r. r \in Request
  BY <1>l, <1>t DEF Live
<1>s. OnServer /\ r.route # "internal" => r.subject \in {Absent, r.token}
  BY <1>l DEF MembersInv, Identified
<1>i. ~ At(c, "verify") => r.subject \in Id \/ (r.route = "lesson" /\ At(c, "handle"))
  BY <1>l DEF MembersInv, Identified
<1>v. At(c, "verify") => r.token \in Member
  BY <1>l DEF MembersInv, Identified
<1> DEFINE Kept == UNCHANGED <<env, user, entitlement, halfMade>>
\* Moving on to pc with the role that was read.
<1>m. ASSUME NEW role \in {"STUDENT", "ADMIN", Absent},
             NEW pc \in {"insert", "handle", "staff", "upsertUser"}, Kept,
             ~ At(c, "upsertEntitlement"), r.subject \in Id,
             call' = [call EXCEPT ![c].role = role, ![c].pc = pc]
      PROVE  MembersInv'
  <2> DEFINE next == [r EXCEPT !.role = role, !.pc = pc]
  <2>1. /\ next \in Request /\ next.pc = pc /\ next.subject = r.subject
        /\ next.token = r.token /\ next.route = r.route
    BY <1>r DEF Request
  <2>2. call' = [call EXCEPT ![c] = next]
    BY <1>m, <1>r, <1>t
  <2> HIDE DEF next
  <2> QED BY <1>m, <1>s, <2>1, <2>2, RequestStep
<1>g. ASSUME NEW pc \in {"insert", "handle", "staff", "upsertUser"}, Kept,
             ~ At(c, "upsertEntitlement"), r.subject \in Id, goes(c, pc)
      PROVE  MembersInv'
  <2>1. call' = [call EXCEPT ![c].role = r.role, ![c].pc = pc] /\ r.role \in {"STUDENT", "ADMIN", Absent}
    BY <1>g, <1>r, <1>t DEF goes, Request
  <2> QED BY <1>g, <1>m, <2>1
<1>d. ASSUME Kept, ~ At(c, "upsertEntitlement"), done(c) PROVE MembersInv'
  BY <1>d, RequestStep DEF done
<1>u. ASSUME Kept, ~ At(c, "upsertEntitlement"), unidentified(c, r) PROVE MembersInv'
  BY <1>r, <1>u, UnidentifiedStep
<1>1. CASE VerifyToken(c)
  <2>1. CASE call' = [call EXCEPT ![c].subject = call[c].token, ![c].pc = "ensure"]
    <3> DEFINE next == [r EXCEPT !.subject = r.token, !.pc = "ensure"]
    <3>1. r.token \in Member /\ Member \subseteq Id
      BY <1>1, <1>v DEF VerifyToken, Id
    <3>2. /\ next \in Request /\ next.pc = "ensure" /\ next.subject = r.token
          /\ next.token = r.token /\ next.route = r.route
      BY <1>r, <3>1 DEF Request
    <3>3. call' = [call EXCEPT ![c] = next]
      BY <1>r, <1>t, <2>1
    <3> HIDE DEF next
    <3> QED BY <1>1, <3>1, <3>2, <3>3, RequestStep DEF VerifyToken, At
  <2>2. CASE unidentified(c, r)
    BY <1>1, <1>u, <2>2 DEF VerifyToken, At
  <2> QED BY <1>1, <2>1, <2>2 DEF VerifyToken
<1>2. CASE EnsureRead(c)
  <2>1. r.subject \in Id /\ ~ At(c, "upsertEntitlement") /\ Kept
    BY <1>2, <1>i DEF EnsureRead, At
  <2>2. CASE user[r.subject] # Absent
    BY <1>2, <1>m, <1>t, <2>1, <2>2 DEF EnsureRead, identified
  <2>3. CASE user[r.subject] = Absent
    BY <1>2, <1>g, <2>1, <2>3 DEF EnsureRead
  <2> QED BY <2>2, <2>3
<1>3. CASE EnsureInsert(c)
  <2>1. r.subject \in Id /\ ~ At(c, "upsertEntitlement")
    BY <1>3, <1>i DEF EnsureInsert, At
  <2>2. CASE user[r.subject] # Absent
    BY <1>3, <1>u, <2>1, <2>2 DEF EnsureInsert
  <2>3. CASE user[r.subject] = Absent
    <3> DEFINE id == r.subject
               next == [r EXCEPT !.role = "STUDENT", !.pc = "handle"]
    <3>1. /\ next \in Request /\ next.pc = "handle" /\ next.subject = id
          /\ next.token = r.token /\ next.route = r.route
      BY <1>r DEF Request
    <3>2. call' = [call EXCEPT ![c] = next]
      BY <1>3, <1>r, <1>t, <2>3 DEF EnsureInsert, identified
    <3>3. /\ user' = [user EXCEPT ![id] = "STUDENT"]
          /\ entitlement' = [entitlement EXCEPT ![id] = "FREE"]
          /\ UNCHANGED <<env, halfMade>>
      BY <1>3, <2>3 DEF EnsureInsert
    <3> HIDE DEF next
    <3>4. call'[c] = next /\ \A d \in Call \ {c} : call'[d] = call[d]
      BY <1>t, <3>2
    <3>5. MembersTypeOK'
      BY <1>t, <2>1, <3>1, <3>2, <3>3 DEF MembersTypeOK
    <3>6. Identified'
      BY <1>s, <2>1, <3>1, <3>3, <3>4 DEF MembersInv, Identified, Live, At, OnServer
    <3>7. UserFirst'
      BY <1>t, <2>1, <3>1, <3>3, <3>4 DEF MembersInv, UserFirst, At
    <3>8. EntitlementWithUser'
      BY <1>t, <2>1, <3>1, <3>3, <3>4 DEF MembersInv, EntitlementWithUser, At
    <3> QED BY <3>5, <3>6, <3>7, <3>8 DEF MembersInv
  <2> QED BY <2>2, <2>3
<1>4. CASE EnsureFails(c)
  BY <1>4, <1>u DEF EnsureFails, At
<1>5. CASE Handle(c)
  <2>1. ~ At(c, "upsertEntitlement") /\ Kept
    BY <1>5 DEF Handle, At
  <2>2. CASE r.route \in {"entitlements", "admin"}
    <3>1. r.subject \in Id
      BY <1>5, <1>i, <2>2 DEF Handle, At
    <3> QED BY <1>5, <1>d, <1>g, <2>1, <3>1 DEF Handle
  <2>3. CASE r.route \notin {"entitlements", "admin"}
    BY <1>5, <1>d, <2>1, <2>3 DEF Handle
  <2> QED BY <2>2, <2>3
<1>6. CASE StaffDone(c)
  BY <1>6, <1>d DEF StaffDone, At
<1>7. CASE UpsertUser(c)
  <2> DEFINE id == r.subject
             next == [r EXCEPT !.pc = "upsertEntitlement"]
  <2>1. id \in Id /\ ~ At(c, "upsertEntitlement")
    BY <1>7, <1>i DEF UpsertUser, At
  <2>2. /\ next \in Request /\ next.pc = "upsertEntitlement" /\ next.subject = id
        /\ next.token = r.token /\ next.route = r.route
    BY <1>r DEF Request
  <2>3. call' = [call EXCEPT ![c] = next]
    BY <1>7, <1>r, <1>t DEF UpsertUser, goes
  <2>4. /\ user' = [user EXCEPT ![id] = IF @ = Absent THEN "STUDENT" ELSE @]
        /\ UNCHANGED <<env, entitlement, halfMade>>
    BY <1>7 DEF UpsertUser
  <2> HIDE DEF next
  <2>5. call'[c] = next /\ \A d \in Call \ {c} : call'[d] = call[d]
    BY <1>t, <2>3
  <2>6. user'[id] # Absent /\ \A x \in Id \ {id} : user'[x] = user[x]
    BY <1>t, <2>1, <2>4
  <2>7. MembersTypeOK'
    BY <1>t, <2>1, <2>2, <2>3, <2>4 DEF MembersTypeOK
  <2>8. Identified'
    BY <1>s, <2>1, <2>2, <2>4, <2>5 DEF MembersInv, Identified, Live, At, OnServer
  <2>9. UserFirst'
    <3>1. \A x \in Id : entitlement'[x] # Absent => user'[x] # Absent
      BY <2>4, <2>6 DEF MembersInv, UserFirst
    <3>2. ASSUME NEW d \in Call, At(d, "upsertEntitlement")' PROVE (user[call[d].subject])' # Absent
      <4>1. CASE d = c
        BY <2>2, <2>5, <2>6, <4>1
      <4>2. CASE d # c
        <5>1. At(d, "upsertEntitlement") /\ call'[d] = call[d]
          BY <2>5, <3>2, <4>2 DEF At
        <5>2. user[call[d].subject] # Absent /\ call[d].subject \in Id
          BY <5>1 DEF MembersInv, UserFirst, Identified, At, Live
        <5> QED BY <2>6, <5>1, <5>2
      <4> QED BY <4>1, <4>2
    <3> QED BY <3>1, <3>2 DEF UserFirst
  <2>10. EntitlementWithUser'
    <3>1. At(c, "upsertEntitlement")' /\ call'[c].subject = id
      BY <2>2, <2>5 DEF At
    <3>2. \A d \in Call : At(d, "upsertEntitlement") => At(d, "upsertEntitlement")' /\ call'[d] = call[d]
      BY <2>1, <2>5 DEF At
    <3> QED BY <2>4, <2>6, <3>1, <3>2 DEF MembersInv, EntitlementWithUser
  <2> QED BY <2>7, <2>8, <2>9, <2>10 DEF MembersInv
<1>8. CASE UpsertEntitlement(c) \/ HandlerFails(c)
  <2> DEFINE id == r.subject
  <2>1. /\ call' = [call EXCEPT ![c] = Absent] /\ UNCHANGED <<env, user>>
        /\ id \in Id
    BY <1>8, <1>i DEF UpsertEntitlement, HandlerFails, done, At
  <2>2. \/ /\ entitlement' = [entitlement EXCEPT ![id] = IF @ = Absent THEN "FREE" ELSE @]
           /\ halfMade' = halfMade \ {id} /\ user[id] # Absent
        \/ /\ UNCHANGED entitlement
           /\ halfMade' = halfMade \cup (IF At(c, "upsertEntitlement") THEN {id} ELSE {})
    BY <1>8 DEF UpsertEntitlement, HandlerFails, MembersInv, UserFirst
  <2>3. call'[c] = Absent /\ \A d \in Call \ {c} : call'[d] = call[d]
    BY <1>t, <2>1
  <2>4. MembersTypeOK'
    BY <1>t, <2>1, <2>2 DEF MembersTypeOK
  <2>5. Identified'
    BY <2>1, <2>3 DEF MembersInv, Identified, Live, At, OnServer
  <2>6. UserFirst'
    BY <1>t, <2>1, <2>2, <2>3 DEF MembersInv, UserFirst, At
  <2>7. EntitlementWithUser'
    <3> SUFFICES ASSUME NEW x \in Id, user'[x] # Absent, entitlement'[x] = Absent,
                        x \notin halfMade'
                 PROVE  \E d \in Call : At(d, "upsertEntitlement")' /\ call'[d].subject = x
      BY DEF EntitlementWithUser
    <3>1. user[x] # Absent /\ entitlement[x] = Absent /\ x \notin halfMade
          /\ ~ (At(c, "upsertEntitlement") /\ id = x)
      BY <1>t, <1>8, <2>1, <2>2 DEF UpsertEntitlement
    <3>2. PICK d \in Call : At(d, "upsertEntitlement") /\ call[d].subject = x
      BY <3>1 DEF MembersInv, EntitlementWithUser
    <3> QED BY <2>3, <3>1, <3>2 DEF At
  <2> QED BY <2>4, <2>5, <2>6, <2>7 DEF MembersInv
<1> QED BY <1>1, <1>2, <1>3, <1>4, <1>5, <1>6, <1>7, <1>8 DEF Serve

LEMMA MembersStep ==
  ASSUME MembersInv, SignInInv, [Next]_vars
  PROVE  MembersInv'
<1>1. ASSUME NEW c \in Call, NEW route \in Route, DeviceCalls(c, route) PROVE MembersInv'
  <2>1. session # None => session \in Member
    BY DEF SignInInv, SignInTypeOK
  <2> QED BY <1>1, <2>1, ArriveStep DEF DeviceCalls, Id
<1>2. ASSUME NEW c \in Call, VisitorCalls(c) PROVE MembersInv'
  BY <1>2, ArriveStep DEF VisitorCalls, Id, Route
<1>3. ASSUME NEW c \in Call, NEW id \in Member, ArriveInternal(c, id) PROVE MembersInv'
  <2> DEFINE next == [route |-> "internal", token |-> Absent, subject |-> id,
                      role |-> Absent, pc |-> "upsertUser"]
  <2>1. /\ next \in Request /\ next.route = "internal" /\ next.pc = "upsertUser"
        /\ next.subject = id /\ id \in Id
    BY DEF Request, Id, Route
  <2>2. call' = [call EXCEPT ![c] = next] /\ UNCHANGED <<env, user, entitlement, halfMade>>
        /\ ~ At(c, "upsertEntitlement")
    BY <1>3 DEF ArriveInternal, At
  <2> HIDE DEF next
  <2> QED BY <2>1, <2>2, RequestStep
<1>4. ASSUME NEW c \in Call, Serve(c) PROVE MembersInv'
  BY <1>4, ServeStep
<1>5. CASE Webhook
  <2>1. PICK id \in Member, tier \in {"FREE", "PREMIUM"} : WebhookSetsTier(id, tier)
    BY <1>5 DEF Webhook
  <2>2. /\ id \in Id /\ user[id] # Absent /\ halfMade' = halfMade \ {id}
        /\ entitlement' = [entitlement EXCEPT ![id] = tier] /\ UNCHANGED <<env, user, call>>
    BY <2>1 DEF WebhookSetsTier, Id
  <2>3. entitlement \in [Id -> {"FREE", "PREMIUM", Absent}]
    BY DEF MembersInv, MembersTypeOK
  <2>4. MembersTypeOK'
    BY <2>2, <2>3 DEF MembersInv, MembersTypeOK
  <2>5. Identified' /\ UserFirst'
    BY <2>2, <2>3 DEF MembersInv, Identified, UserFirst, Live, At, OnServer
  <2>6. EntitlementWithUser'
    BY <2>2, <2>3 DEF MembersInv, EntitlementWithUser, At
  <2> QED BY <2>4, <2>5, <2>6 DEF MembersInv
<1>6. CASE UNCHANGED memberVars
  BY <1>6 DEF memberVars, MembersInv, MembersTypeOK, Identified, UserFirst, EntitlementWithUser,
     Live, At, OnServer
<1> QED BY <1>1, <1>2, <1>3, <1>4, <1>5, <1>6, StepsApart DEF ApiStep, DeviceCall

LEMMA AccountsInvariant == Spec => [](SignInInv /\ MembersInv)
<1>1. Init => SignInInv /\ MembersInv
  BY SignInStarts, MembersStart DEF Init
<1>2. SignInInv /\ MembersInv /\ [Next]_vars => (SignInInv /\ MembersInv)'
  BY SignInStep, MembersStep, StepsApart
<1> QED BY <1>1, <1>2, PTL DEF Spec

\* Devices, requests and rows are well typed, for any number of requests in flight.
THEOREM TypeCorrect == Spec => [](SignInTypeOK /\ MembersTypeOK)
<1>1. SignInInv /\ MembersInv => SignInTypeOK /\ MembersTypeOK
  BY DEF SignInInv, MembersInv
<1> QED BY <1>1, AccountsInvariant, PTL

\* Wherever the API was configured to start on a server, a request is served as the member
\* its token names or as nobody (isDevAuthBypassEnabled, getOptionalUser).
THEOREM IdentityFromCredential == Spec => []NoCredentialNoIdentity
<1>1. MembersInv => NoCredentialNoIdentity
  BY DEF MembersInv, Identified, NoCredentialNoIdentity, Live, OnServer
<1> QED BY <1>1, AccountsInvariant, PTL

\* However many first requests of a member overlap and fail, its entitlement comes with its
\* row (ensureUser, getEntitlementsByClerkUserId).
THEOREM EntitledAtFirstSight == Spec => []EntitlementWithUser
<1>1. MembersInv => EntitlementWithUser
  BY DEF MembersInv
<1> QED BY <1>1, AccountsInvariant, PTL

\* No request takes back a role or a tier (update: {}).
THEOREM AccessIsKept == Spec => FirstSightKeepsAccess
<1> DEFINE Keeps ==
      \A id \in Id :
        /\ user[id] # Absent => user'[id] = user[id]
        /\ entitlement[id] # Absent => entitlement'[id] = entitlement[id]
<1>1. ASSUME MembersInv, [Next]_vars, ~ Webhook PROVE Keeps
  <2>t. /\ user \in [Id -> {"STUDENT", "ADMIN", Absent}]
        /\ entitlement \in [Id -> {"FREE", "PREMIUM", Absent}]
        /\ \A id \in Id : entitlement[id] # Absent => user[id] # Absent
    BY <1>1 DEF MembersInv, MembersTypeOK, UserFirst
  <2>1. CASE UNCHANGED <<user, entitlement>>
    BY <2>1
  <2>2. ASSUME NEW c \in Call,
               EnsureInsert(c) \/ UpsertUser(c) \/ UpsertEntitlement(c) PROVE Keeps
    BY <2>2, <2>t DEF EnsureInsert, UpsertUser, UpsertEntitlement
  <2>3. ASSUME NEW c \in Call, Serve(c) PROVE Keeps
    BY <2>1, <2>2, <2>3 DEF Serve, VerifyToken, EnsureRead, EnsureFails, Handle, StaffDone,
       HandlerFails
  <2>4. ASSUME NEW c \in Call, NEW route, NEW token, NEW header, Arrive(c, route, token, header)
        PROVE  UNCHANGED <<user, entitlement>>
    BY <2>4 DEF Arrive
  <2>5. ASSUME NEW c \in Call, NEW id \in Member, ArriveInternal(c, id)
        PROVE  UNCHANGED <<user, entitlement>>
    BY <2>5 DEF ArriveInternal
  <2>6. CASE UNCHANGED memberVars
    BY <2>1, <2>6 DEF memberVars
  <2> HIDE DEF Keeps
  <2> QED BY <1>1, <2>1, <2>3, <2>4, <2>5, <2>6, StepsApart
       DEF ApiStep, DeviceCall, DeviceCalls, VisitorCalls
<1>2. MembersInv /\ [Next]_vars => [~ Webhook => Keeps]_memberVars
  BY <1>1
<1> QED BY <1>2, AccountsInvariant, PTL DEF Spec, FirstSightKeepsAccess

=============================================================================
