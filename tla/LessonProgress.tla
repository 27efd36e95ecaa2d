---------------------------- MODULE LessonProgress ----------------------------
(***************************************************************************)
(* One member watching lessons on the web lesson page                      *)
(* (app/lesson/[id]/page.tsx) and in the mobile LessonScreen               *)
(* (mobile-app.tsx), and the progress rows both save to                    *)
(* (progress.service.ts).                                                  *)
(*                                                                         *)
(* Saves carry neither a number nor a time: the server applies them in the *)
(* order they arrive and the last one wins; equal ones are one.  The web   *)
(* page has as many in flight as its timer and its member start; a mobile  *)
(* screen has one, and remembers that it owes another.                     *)
(***************************************************************************)
EXTENDS Progression

CONSTANTS
  Provider,     \* MUX or YOUTUBE, of each lesson
  PlayerTime,   \* the times a lesson's player reports, in tenths of a second
  Tab,          \* lesson pages open in browsers
  Screen,       \* lesson screens of the mobile application
  MobileLesson, \* bound: the lessons watched on the mobile application
  TurnsBack,    \* bound: whether a page may return to a lesson before the player shown reports
  MaxOpen,      \* bound on the pages open and the screens open or still saving at once
  MaxInFlight,  \* bound on the saves in flight at once
  MaxFaults     \* bound on lost requests and lost answers

ASSUME WatchingAssumption ==
  /\ Provider \in [Lesson -> {"MUX", "YOUTUBE"}]
  /\ PlayerTime \in [Lesson -> SUBSET Nat]
  /\ None \notin Lesson
  /\ Tab \cap Screen = {}
  /\ MobileLesson \subseteq Lesson /\ TurnsBack \in BOOLEAN
  /\ MaxOpen \in Nat /\ MaxInFlight \in Nat /\ MaxFaults \in Nat

VARIABLES
  row,       \* the progress rows of the member
  recent,    \* the lessons with a row, the newest update first
  inFlight,  \* the POST /progress requests on their way or not yet answered
  web,       \* the lesson pages
  screen,    \* the lesson screens
  faults     \* failures spent

vars == <<row, recent, inFlight, web, screen, faults>>

Save ==
  [by : Tab \cup Screen, lesson : Lesson,
   lastPositionSeconds : Nat, completed : BOOLEAN,
   status : {"sent", "applied", "abandoned"}]

\* param: the lesson of the URL; lesson: the one shown; playerLessonId: the lesson whose
\* player last reported; time: its currentTime.
Page ==
  [param : Lesson \cup {None}, loading : {"no", "lesson", "lists"},
   failed : BOOLEAN, lesson : Lesson \cup {None},
   time : Nat, playerLessonId : Lesson \cup {None}, saveState : {"idle", "saving", "saved", "error"}]

\* position and duration are the refs; sent is the last position put in a request, kept
\* for the properties.
MobileScreen ==
  [lesson : Lesson \cup {None}, mounted : BOOLEAN,
   loading : {"no", "lesson", "progress", "failed"},
   position : Nat \cup {None}, duration : Nat, saveInFlight : BOOLEAN,
   pendingSave : BOOLEAN, sent : Nat \cup {None}]

closedPage ==
  [param |-> None, loading |-> "no", failed |-> FALSE, lesson |-> None, time |-> 0,
   playerLessonId |-> None, saveState |-> "idle"]

closedScreen ==
  [lesson |-> None, mounted |-> FALSE, loading |-> "no", position |-> None,
   duration |-> 0, saveInFlight |-> FALSE, pendingSave |-> FALSE, sent |-> None]

Init ==
  /\ row = [l \in Lesson |-> None]
  /\ recent = <<>>
  /\ inFlight = {}
  /\ web = [t \in Tab |-> closedPage]
  /\ screen = [m \in Screen |-> closedScreen]
  /\ faults = 0

-----------------------------------------------------------------------------
(* The API *)

CanSend == Cardinality(inFlight) < MaxInFlight

\* apiFetch sends a POST /progress/:lessonId.
Post(by, l, position, completed) ==
  inFlight' = inFlight \cup
    {[by |-> by, lesson |-> l, lastPositionSeconds |-> position,
      completed |-> completed, status |-> "sent"]}

\* The newest update comes first.
updateFirst(seq, l) ==
  <<l>> \o (IF l \in ToSet(seq) THEN RemoveAt(seq, CHOOSE i \in DOMAIN seq : seq[i] = l) ELSE seq)

\* ProgressService.upsert: whatever arrives overwrites the row.
upsert(l, position, completed) ==
  /\ row' = [row EXCEPT ![l] = [lastPositionSeconds |-> position, completed |-> completed]]
  /\ recent' = updateFirst(recent, l)

\* The request arrives.  One whose client gave up on it may arrive all the same.
ApplySave(s) ==
  /\ s.status \in {"sent", "abandoned"}
  /\ upsert(s.lesson, s.lastPositionSeconds, s.completed)
  /\ inFlight' = (inFlight \ {s})
       \cup (IF s.status = "sent" THEN {[s EXCEPT !.status = "applied"]} ELSE {})
  /\ UNCHANGED <<web, screen, faults>>

LoseSave(s) ==
  /\ s.status = "abandoned"
  /\ inFlight' = inFlight \ {s}
  /\ UNCHANGED <<row, recent, web, screen, faults>>

-----------------------------------------------------------------------------
(* The web lesson page *)

\* A YouTube lesson and an error card unmount the player, and React clears its ref.
playerMounted(p) == p.lesson # None /\ ~ p.failed /\ Provider[p.lesson] = "MUX"

\* Mutant of saveProgress: the player is not checked to be the current lesson's.
SaveWhateverPlays(t) ==
  LET p == web[t] IN
  IF ~ playerMounted(p) \/ p.playerLessonId = None
  THEN UNCHANGED inFlight
  ELSE Post(t, p.param, floorSeconds(p.time),
            isComplete(MediaDuration[p.playerLessonId], 10 * floorSeconds(p.time)))

\* Whether saveProgress gets past its guard: a player is mounted, and the last to report was
\* that of the lesson of the URL.
canSaveProgress(p) == playerMounted(p) /\ p.playerLessonId # None /\ p.playerLessonId = p.param

saveProgress(t) ==
  LET p == web[t] IN
  IF ~ canSaveProgress(p)
  THEN UNCHANGED inFlight
  ELSE Post(t, p.param, floorSeconds(p.time),
            isComplete(MediaDuration[p.param], 10 * floorSeconds(p.time)))

CanOpen ==
  Cardinality({t \in Tab : web[t] # closedPage} \cup {m \in Screen : screen[m] # closedScreen})
    < MaxOpen

OpenPage(t, l) ==
  /\ CanOpen
  /\ web[t].param = None
  /\ web' = [web EXCEPT ![t] = [closedPage EXCEPT !.param = l, !.loading = "lesson"]]
  /\ UNCHANGED <<row, recent, inFlight, screen, faults>>

\* The player shown has not reported, and the last to report was the one of the lesson l.
unreported(p, l) == p.playerLessonId = l /\ p.lesson \notin {None, l} /\ Provider[p.lesson] = "MUX"

\* The parameter changes under the page: every cleanup runs before any effect, so the
\* last save is still the old lesson's; a load under way is ignored when it answers.
FollowLink(t, l) ==
  /\ web[t].param \notin {None, l}
  /\ TurnsBack \/ ~ unreported(web[t], l)
  /\ CanSend \/ ~ canSaveProgress(web[t])
  /\ saveProgress(t)
  /\ web' = [web EXCEPT ![t].param = l, ![t].loading = "lesson", ![t].failed = FALSE,
                        ![t].saveState = "idle",
                        ![t].time = IF web[t].failed THEN 0 ELSE web[t].time]
  /\ UNCHANGED <<row, recent, screen, faults>>

\* Leaving for another page, or closing the tab.  The cleanup or beforeunload saves, unless
\* the player's element and its ref went first.
LeavePage(t) ==
  /\ web[t].param # None
  /\ \/ UNCHANGED inFlight
     \/ CanSend /\ saveProgress(t)
  /\ web' = [web EXCEPT ![t] = closedPage]
  /\ UNCHANGED <<row, recent, screen, faults>>

\* GET /lessons/:id answers, then the lists; either may fail, and the page says why: a 402
\* shows the locked card, a 401 of the lesson the sign-in card.
PageGetsLesson(t) ==
  /\ web[t].loading = "lesson"
  /\ web' = [web EXCEPT ![t].loading = "lists"]
  /\ UNCHANGED <<row, recent, inFlight, screen, faults>>

PageLoadFails(t) ==
  /\ web[t].loading # "no"
  /\ faults < MaxFaults
  /\ web' = [web EXCEPT ![t].loading = "no", ![t].failed = TRUE]
  /\ faults' = faults + 1
  /\ UNCHANGED <<row, recent, inFlight, screen>>

\* A new source starts at the resume position; playerLessonId waits for its first report.
PageShowsLesson(t) ==
  LET l == web[t].param IN
  /\ web[t].loading = "lists"
  /\ web' = [web EXCEPT ![t].loading = "no", ![t].lesson = l,
       ![t].time = IF l = web[t].lesson THEN @
                   ELSE 10 * getResumePositionSeconds(StoredDuration[l], row[l])]
  /\ UNCHANGED <<row, recent, inFlight, screen, faults>>

\* onTimeUpdate of the player shown, which is the old lesson's while the new one loads.
TimeUpdate(t) ==
  LET p == web[t] IN
  /\ playerMounted(p)
  /\ \E time \in PlayerTime[p.lesson] :
       web' = [web EXCEPT ![t].time = time, ![t].playerLessonId = p.lesson]
  /\ UNCHANGED <<row, recent, inFlight, screen, faults>>

\* Mutant of Autosave: the timer is cleared by the first failure.
AutosaveUntilError(t) ==
  /\ CanSend
  /\ canSaveProgress(web[t]) /\ web[t].saveState # "error"
  /\ saveProgress(t)
  /\ web' = [web EXCEPT ![t].saveState = "saving"]
  /\ UNCHANGED <<row, recent, screen, faults>>

\* Every ten seconds.
Autosave(t) ==
  /\ CanSend
  /\ canSaveProgress(web[t])
  /\ saveProgress(t)
  /\ web' = [web EXCEPT ![t].saveState = "saving"]
  /\ UNCHANGED <<row, recent, screen, faults>>

\* The button exists for YouTube lessons only.  Without a stored duration the position is
\* the one in the page's list of records, which the row may be ahead of.
markLessonComplete(t) ==
  LET p == web[t] IN
  /\ CanSend
  /\ p.lesson # None /\ ~ p.failed /\ Provider[p.lesson] = "YOUTUBE"
  /\ \E known \in {0} \cup (IF row[p.lesson] = None THEN {} ELSE {row[p.lesson].lastPositionSeconds}) :
       Post(t, p.lesson,
            IF StoredDuration[p.lesson] # None THEN StoredDuration[p.lesson] ELSE Max({known, 1}),
            TRUE)
  /\ web' = [web EXCEPT ![t].saveState = "saving"]
  /\ UNCHANGED <<row, recent, screen, faults>>

\* The promise settles; the page may show another lesson by now, or be gone.
PageHears(s, saved) ==
  web' = IF web[s.by].param = None THEN web
         ELSE [web EXCEPT ![s.by].saveState = IF saved THEN "saved" ELSE "error"]

-----------------------------------------------------------------------------
(* The mobile lesson screen *)

OpenScreen(m, l) ==
  /\ CanOpen
  /\ l \in MobileLesson
  /\ screen[m] = closedScreen
  /\ screen' = [screen EXCEPT ![m] =
       [closedScreen EXCEPT !.lesson = l, !.mounted = TRUE, !.loading = "lesson"]]
  /\ UNCHANGED <<row, recent, inFlight, web, faults>>

ScreenGetsLesson(m) ==
  /\ screen[m].mounted /\ screen[m].loading = "lesson"
  /\ screen' = [screen EXCEPT ![m].loading = "progress"]
  /\ UNCHANGED <<row, recent, inFlight, web, faults>>

ScreenLoadFails(m) ==
  /\ screen[m].mounted /\ screen[m].loading = "lesson"
  /\ faults < MaxFaults
  /\ screen' = [screen EXCEPT ![m].loading = "failed"]
  /\ faults' = faults + 1
  /\ UNCHANGED <<row, recent, inFlight, web>>

\* A failed GET /progress counts as no records; the position is seeded either way.
ScreenShowsLesson(m, answered) ==
  LET l == screen[m].lesson IN
  /\ screen[m].mounted /\ screen[m].loading = "progress"
  /\ answered \/ faults < MaxFaults
  /\ screen' = [screen EXCEPT ![m].loading = "no",
       ![m].position = IF answered
                       THEN 10 * getResumePositionSeconds(StoredDuration[l], row[l]) ELSE 0]
  /\ faults' = IF answered THEN faults ELSE faults + 1
  /\ UNCHANGED <<row, recent, inFlight, web>>

\* onPlaybackStatusUpdate of a loaded source.
StatusUpdate(m) ==
  LET l == screen[m].lesson IN
  /\ screen[m].mounted /\ screen[m].loading = "no" /\ Provider[l] = "MUX"
  /\ \E time \in PlayerTime[l] :
       screen' = [screen EXCEPT ![m].position = time, ![m].duration = MediaDuration[l]]
  /\ UNCHANGED <<row, recent, inFlight, web, faults>>

\* The request of a screen that has none in flight, and the refs it leaves.
SendFrom(m, next) ==
  /\ inFlight' = next.others \cup
       {[by |-> m, lesson |-> next.refs.lesson,
         lastPositionSeconds |-> floorSeconds(next.refs.position),
         completed |-> isComplete(next.refs.duration, next.refs.position), status |-> "sent"]}
  /\ screen' = [screen EXCEPT ![m] =
       [next.refs EXCEPT !.saveInFlight = TRUE, !.pendingSave = FALSE,
                         !.sent = floorSeconds(next.refs.position)]]

\* Mutant of SaveFromScreen: a save that fires before the ref is seeded goes out.
SaveUnseeded(m, refs) ==
  IF refs.saveInFlight
  THEN screen' = [screen EXCEPT ![m] = [refs EXCEPT !.pendingSave = TRUE]] /\ UNCHANGED inFlight
  ELSE /\ inFlight' = inFlight \cup
            {[by |-> m, lesson |-> refs.lesson, completed |-> FALSE, status |-> "sent",
              lastPositionSeconds |-> IF refs.position = None THEN None
                                      ELSE floorSeconds(refs.position)]}
       /\ screen' = [screen EXCEPT ![m] = [refs EXCEPT !.saveInFlight = TRUE]]

\* saveProgress with the refs as they are: skipped until seeded, owed while one is in flight.
SaveFromScreen(m, refs) ==
  CASE refs.position = None -> screen' = [screen EXCEPT ![m] = refs] /\ UNCHANGED inFlight
    [] refs.position # None /\ refs.saveInFlight ->
         screen' = [screen EXCEPT ![m] = [refs EXCEPT !.pendingSave = TRUE]] /\ UNCHANGED inFlight
    [] OTHER -> SendFrom(m, [refs |-> refs, others |-> inFlight])

\* The ten-second timer, and the application going to the background.
ScreenSaves(m) ==
  /\ screen[m].mounted /\ screen[m].position # None
  /\ CanSend
  /\ SaveFromScreen(m, screen[m])
  /\ UNCHANGED <<row, recent, web, faults>>

\* Backing out: the effect's cleanup saves.
CloseScreen(m) ==
  /\ screen[m].mounted
  /\ CanSend \/ screen[m].position = None \/ screen[m].saveInFlight
  /\ SaveFromScreen(m, IF screen[m].position = None THEN closedScreen
                        ELSE [screen[m] EXCEPT !.mounted = FALSE])
  /\ UNCHANGED <<row, recent, web, faults>>

\* Mutant of ScreenHears: the save that is owed is forgotten.
HearWithoutResaving(s, others) ==
  /\ screen' = [screen EXCEPT ![s.by] =
       IF @.mounted THEN [@ EXCEPT !.saveInFlight = FALSE, !.pendingSave = FALSE] ELSE closedScreen]
  /\ inFlight' = others

\* The finally block: the save that is owed goes out at once.  A screen that is gone and owes
\* nothing is forgotten.
ScreenHears(s, others) ==
  LET m == s.by
      refs == [screen[m] EXCEPT !.saveInFlight = FALSE]
  IN IF refs.pendingSave
     THEN SendFrom(m, [refs |-> refs, others |-> others])
     ELSE /\ screen' = [screen EXCEPT ![m] = IF refs.mounted THEN refs ELSE closedScreen]
          /\ inFlight' = others

-----------------------------------------------------------------------------
(* Answers *)

Hear(s, saved, others) ==
  \/ s.by \in Tab /\ PageHears(s, saved) /\ inFlight' = others /\ UNCHANGED screen
  \/ s.by \in Screen /\ ScreenHears(s, others) /\ UNCHANGED web

Answer(s) ==
  /\ s.status = "applied"
  /\ Hear(s, TRUE, inFlight \ {s})
  /\ UNCHANGED <<row, recent, faults>>

\* The client hears of a failure: the request is lost, still under way, or was applied.
AnswerLost(s) ==
  /\ s.status \in {"sent", "applied"}
  /\ faults < MaxFaults
  /\ LET others == (inFlight \ {s})
           \cup (IF s.status = "sent" THEN {[s EXCEPT !.status = "abandoned"]} ELSE {})
     IN /\ \A m \in Screen : s.by = m /\ screen[m].pendingSave => Cardinality(others) < MaxInFlight
        /\ Hear(s, FALSE, others)
  /\ faults' = faults + 1
  /\ UNCHANGED <<row, recent>>

Next ==
  \/ \E s \in inFlight : ApplySave(s) \/ LoseSave(s) \/ Answer(s) \/ AnswerLost(s)
  \/ \E t \in Tab :
       \/ \E l \in Lesson : OpenPage(t, l) \/ FollowLink(t, l)
       \/ LeavePage(t) \/ PageGetsLesson(t) \/ PageLoadFails(t) \/ PageShowsLesson(t)
       \/ TimeUpdate(t) \/ Autosave(t) \/ markLessonComplete(t)
  \/ \E m \in Screen :
       \/ \E l \in Lesson : OpenScreen(m, l)
       \/ ScreenGetsLesson(m) \/ ScreenLoadFails(m)
       \/ \E answered \in BOOLEAN : ScreenShowsLesson(m, answered)
       \/ StatusUpdate(m) \/ ScreenSaves(m) \/ CloseScreen(m)

Spec == Init /\ [][Next]_vars

\* Timers keep firing and the network keeps delivering; members owe nothing.
Fairness ==
  /\ WF_vars(\E s \in inFlight : ApplySave(s))
  /\ WF_vars(\E s \in inFlight : Answer(s))
  /\ \A t \in Tab : SF_vars(Autosave(t))

FairSpec == Spec /\ Fairness

-----------------------------------------------------------------------------
(* Properties *)

\* Rows, requests, pages and screens are what the code keeps.
TypeOK ==
  /\ row \in [Lesson -> Record \cup {None}]
  /\ recent \in Seq(Lesson)
  /\ inFlight \subseteq Save
  /\ web \in [Tab -> Page]
  /\ screen \in [Screen -> MobileScreen]
  /\ faults \in 0..MaxFaults

\* A row holds a place of that lesson's own player, or a manual mark, and says completed
\* exactly when that place was within the margin of the end (the mobile screen compares the
\* fraction of a second it does not save), whichever client saved it and however the player,
\* the URL and the requests overlapped (saveProgress of the lesson page and of LessonScreen).
\* Does not hold where TurnsBack: the README says how.
RowsAreOfTheirLesson ==
  \A l \in Lesson : row[l] # None =>
    LET position == row[l].lastPositionSeconds
        mark == IF StoredDuration[l] = None THEN 1 ELSE StoredDuration[l]
    IN IF Provider[l] = "YOUTUBE"
       THEN row[l].completed => position = mark
       ELSE /\ position \in {0} \cup {floorSeconds(time) : time \in PlayerTime[l]}
            /\ row[l].completed => isComplete(MediaDuration[l], 10 * position + 9)
            /\ ~ row[l].completed => ~ isComplete(MediaDuration[l], 10 * position)

\* A lesson whose stored duration was measured, or never was, resumes at exactly the place
\* saved as unfinished and restarts when saved as finished: the two durations the rules
\* compare never disagree by their rounding (getResumePositionSeconds, saveProgress).
ResumeAgreesWithCompletion ==
  \A l \in Lesson :
    row[l] # None /\ StoredDuration[l] \in {None, roundSeconds(MediaDuration[l])} =>
      getResumePositionSeconds(StoredDuration[l], row[l])
        = IF row[l].completed THEN 0 ELSE row[l].lastPositionSeconds

\* A lesson screen that is gone falls silent only after a save of the very place where it
\* stopped (saveInFlightRef and pendingSaveRef of LessonScreen).
LastPositionSent ==
  [][\A m \in Screen :
       /\ ~ screen[m].mounted /\ screen[m].position # None
       /\ ~ screen'[m].saveInFlight
       => screen[m].sent = floorSeconds(screen[m].position)]_vars

\* Whatever was watched, the lesson marked Next, the one to continue and the one recommended
\* are unfinished while any lesson of the course is, and a course is left for the next one
\* only when all of it is finished (buildCourseProgress, buildLessonQueue,
\* buildRecommendation).
WhatNextIsUnfinished ==
  \A k \in DOMAIN Courses :
    LET course == Courses[k]
        open == {l \in ToSet(course) : ~ isFinished(row, l)}
        summary == buildCourseProgress(course, row, recent)
        advice == buildRecommendation(k, row, recent)
    IN /\ open # {} => {summary.continueLessonId, summary.nextLessonId, advice.lessonId} \subseteq open
       /\ advice.reason = "next_course" => open = {}
       /\ \A l \in Lesson :
            LET queue == buildLessonQueue(course, row, l)
            IN \A i \in DOMAIN course : queue[i].isNext => course[i] \in open \ {l}

\* The library offers to continue exactly the lessons that would resume somewhere
\* (buildContinueWatching, getResumePositionSeconds).
ContinueIsResumable ==
  buildContinueWatching(row, recent) =
    {l \in Lesson : getResumePositionSeconds(StoredDuration[l], row[l]) > 0}

\* "Progress save failed. We will retry automatically.": a page whose player still reports
\* saves again (getPlaybackStatusMessage, the ten-second timer).
RetriedAutomatically ==
  \A t \in Tab :
    (web[t].saveState = "error" /\ canSaveProgress(web[t]))
      ~> (web[t].saveState = "saved" \/ ~ canSaveProgress(web[t]))

\* Does not hold; the README says how.  mobile-app.tsx: a save that fires before the first
\* status update "either does nothing or writes the position being resumed, never 0 over it".
BackingOutKeepsRecord ==
  \A s \in inFlight :
    s.by \in Screen /\ screen[s.by].duration = 0 /\ row[s.lesson] # None /\ s.status = "sent"
      => s.lastPositionSeconds = row[s.lesson].lastPositionSeconds

=============================================================================
