------------------------------- MODULE SignIn -------------------------------
(***************************************************************************)
(* Signing in on a device (sign-in-screen.tsx), the gate that shows the    *)
(* screen (App.tsx) and signing out (AccountScreen).                       *)
(*                                                                         *)
(* Clerk's client keeps one sign-in attempt on the device; a create that   *)
(* fails leaves the previous one there.  Clerk answers a call, refuses it, *)
(* or is not heard from, and what it did in the last case is unknown.  An  *)
(* address stands for what is typed with blanks and case removed, a code   *)
(* for the address it was mailed to, None for any other code.              *)
(***************************************************************************)
CONSTANTS
  None,
  Account,    \* addresses that have an account
  Stranger    \* addresses that have none

ASSUME SignInAssumption == None \notin Account \cup Stranger

VARIABLES
  screen,     \* the sign-in screen, or the account screen's sign-out
  attempt,    \* the attempt on Clerk's resource: whose, and whether a code went out
  session     \* whose session the device holds

signInVars == <<screen, attempt, session>>

Address == Account \cup Stranger

Screen ==
  [step : {"email", "code"},
   email : Address \cup {None},
   prepared : Address \cup {None},      \* preparedIdentifier
   code : Account \cup {None},
   pc : {"idle", "creating", "preparing", "attempting", "activating", "signingOut"}]

Attempt == [identifier : Account, sent : BOOLEAN]

ASSUME NullAttemptAssumption == None \notin Attempt

\* The screen as it mounts.
mounted == [step |-> "email", email |-> None, prepared |-> None, code |-> None, pc |-> "idle"]

SignInInit ==
  /\ screen = mounted
  /\ attempt = None
  /\ session = None

Waiting(pc) == screen.pc = pc
shows(s) == screen' = [s EXCEPT !.pc = "idle"]

-----------------------------------------------------------------------------
(* Asking for a code *)

requestCode(e) ==
  /\ session = None
  /\ Waiting("idle") /\ screen.step = "email"
  /\ screen' = [screen EXCEPT !.email = e, !.prepared = None, !.pc = "creating"]
  /\ UNCHANGED <<attempt, session>>

\* An account may have no address to mail to; the screen then counts as prepared.
ClerkCreates ==
  /\ Waiting("creating")
  /\ screen.email \in Account
  /\ attempt' = [identifier |-> screen.email, sent |-> FALSE]
  /\ \/ screen' = [screen EXCEPT !.pc = "preparing"]
     \/ shows([screen EXCEPT !.prepared = screen.email, !.step = "code"])
  /\ UNCHANGED session

ClerkPrepares ==
  /\ Waiting("preparing")
  /\ attempt' = [attempt EXCEPT !.sent = TRUE]
  /\ shows([screen EXCEPT !.prepared = screen.email, !.step = "code"])
  /\ UNCHANGED session

\* Whatever Clerk answers lands on the code screen, an address nobody has included.
ClerkRefusesRequest ==
  /\ Waiting("creating") \/ Waiting("preparing")
  /\ shows([screen EXCEPT !.step = "code"])
  /\ UNCHANGED <<attempt, session>>

\* Mutant of RequestUnheard: the early return leaves the screen submitting.
RequestUnheardBusy ==
  /\ Waiting("creating") \/ Waiting("preparing")
  /\ screen' = [screen EXCEPT !.pc = "submitting"]
  /\ UNCHANGED <<attempt, session>>

\* Only a failure Clerk never answered keeps the screen where it is.
RequestUnheard ==
  /\ Waiting("creating") \/ Waiting("preparing")
  /\ \/ UNCHANGED attempt
     \/ Waiting("preparing") /\ attempt' = [attempt EXCEPT !.sent = TRUE]
  /\ shows(screen)
  /\ UNCHANGED session

\* "Use a different email"
useDifferentEmail ==
  /\ session = None
  /\ Waiting("idle") /\ screen.step = "code"
  /\ screen' = [screen EXCEPT !.prepared = None, !.step = "email", !.code = None]
  /\ UNCHANGED <<attempt, session>>

-----------------------------------------------------------------------------
(* Entering it *)

\* Mutant of verifyCode: the code goes to whatever attempt the resource holds.
verifyAnyAttempt(c) ==
  /\ session = None
  /\ Waiting("idle") /\ screen.step = "code"
  /\ screen' = [screen EXCEPT !.code = c, !.pc = "attempting"]
  /\ UNCHANGED <<attempt, session>>

\* Without an attempt prepared for the address on screen, the code is rejected here.
verifyCode(c) ==
  /\ session = None
  /\ Waiting("idle") /\ screen.step = "code"
  /\ screen.prepared = screen.email
  /\ screen' = [screen EXCEPT !.code = c, !.pc = "attempting"]
  /\ UNCHANGED <<attempt, session>>

accepted == attempt # None /\ attempt.sent /\ attempt.identifier = screen.code

\* Clerk accepts the code: the session exists and is to be made the device's.
ClerkAccepts ==
  /\ Waiting("attempting")
  /\ accepted
  /\ attempt' = [attempt EXCEPT !.sent = FALSE]
  /\ screen' = [screen EXCEPT !.pc = "activating"]
  /\ UNCHANGED session

\* It rejects it, or wants a factor this screen does not have, or is not heard from.
CodeRejected ==
  /\ Waiting("attempting")
  /\ \/ UNCHANGED attempt
     \/ accepted /\ attempt' = [attempt EXCEPT !.sent = FALSE]
  /\ shows(screen)
  /\ UNCHANGED session

\* setActive: the gate replaces the screen by the application.
SessionStarts ==
  /\ Waiting("activating")
  /\ session' = attempt.identifier
  /\ screen' = mounted
  /\ UNCHANGED attempt

SessionNotStarted ==
  /\ Waiting("activating")
  /\ shows(screen)
  /\ UNCHANGED <<attempt, session>>

-----------------------------------------------------------------------------
(* Leaving *)

signOut ==
  /\ session # None
  /\ Waiting("idle")
  /\ screen' = [screen EXCEPT !.pc = "signingOut"]
  /\ UNCHANGED <<attempt, session>>

\* A sign-out that fails keeps the session, and says so.
SignOutAnswered ==
  /\ Waiting("signingOut")
  /\ shows(screen)
  /\ session' \in {None, session}
  /\ UNCHANGED attempt

\* Clerk ends a session on its own: expired, or revoked elsewhere.
SessionEnds ==
  /\ session # None
  /\ session' = None
  /\ screen' = mounted
  /\ UNCHANGED attempt

\* The device restarts the application: the session is in its secure store, the
\* screen and Clerk's resource are gone.
RestartApp ==
  /\ screen' = mounted
  /\ attempt' = None
  /\ session' \in {session} \cup (IF Waiting("activating") THEN {attempt.identifier} ELSE {})

-----------------------------------------------------------------------------
ClerkAnswers ==
  \/ ClerkCreates \/ ClerkPrepares \/ ClerkRefusesRequest \/ RequestUnheard
  \/ ClerkAccepts \/ CodeRejected
  \/ SessionStarts \/ SessionNotStarted
  \/ SignOutAnswered

SignInNext ==
  \/ \E e \in Address : requestCode(e)
  \/ \E c \in Account \cup {None} : verifyCode(c)
  \/ useDifferentEmail
  \/ signOut
  \/ SessionEnds
  \/ RestartApp
  \/ ClerkAnswers

SignInSpec == SignInInit /\ [][SignInNext]_signInVars

-----------------------------------------------------------------------------
(* Properties *)

\* Every variable has its type.
SignInTypeOK ==
  /\ screen \in Screen
  /\ attempt \in Attempt \cup {None}
  /\ session \in Account \cup {None}

\* A session begins only for the address on screen, whatever was asked for before
\* and whatever of it failed (preparedIdentifier): "a code minted for one address
\* must never verify another".
CodeVerifiesItsAddress ==
  [][session' \notin {session, None} => session' = screen.email]_signInVars

\* Clerk being heard or not, the screen is not left submitting.
ScreenRecovers == (screen.pc # "idle") ~> (screen.pc = "idle")

=============================================================================
