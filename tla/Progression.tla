----------------------------- MODULE Progression -----------------------------
(***************************************************************************)
(* The rules that read a member's progress records: percentages, where a   *)
(* lesson resumes, what comes next (packages/shared/src/progression.ts and *)
(* the library page's student-ui.ts), and the completion rule the players  *)
(* of both applications save by.                                           *)
(*                                                                         *)
(* A record is [lastPositionSeconds, completed]; progress maps the lessons *)
(* to records or None; recent lists the lessons with a record, the newest  *)
(* update first, which stands for updatedAt.                               *)
(***************************************************************************)
EXTENDS Naturals, Sequences, FiniteSets, SequencesExt

CONSTANTS
  None,
  Lesson,
  Courses,         \* the courses of a program in order, each the sequence of its lessons
  MediaDuration,   \* what the player measures, in tenths of a second
  StoredDuration   \* durationSeconds of the lesson row, or None

LESSON_COMPLETION_MARGIN_SECONDS == 10
STARTED_LESSON_FALLBACK_PERCENT == 35

Record == [lastPositionSeconds : Nat, completed : BOOLEAN]

\* None is neither a number nor a record.
ASSUME ProgressionAssumption ==
  /\ None \notin Nat \cup Record
  /\ MediaDuration \in [Lesson -> Nat]
  /\ StoredDuration \in [Lesson -> Nat \cup {None}]
  /\ Courses \in Seq(Seq(Lesson))

\* Math.floor and Math.round of a number of tenths; Math.round of a / b.
floorSeconds(tenths) == tenths \div 10
roundSeconds(tenths) == (tenths + 5) \div 10
roundRatio(a, b) == (2 * a + b) \div (2 * b)

\* The save path: fewer than the margin remain of the player's duration, 0 before the
\* media reports one.
isComplete(duration, position) ==
  /\ duration > 0
  /\ duration < position + 10 * LESSON_COMPLETION_MARGIN_SECONDS

\* Mutant of getResumePositionSeconds: the boundary itself counts as finished.
resumeBoundaryIncluded(duration, entry) ==
  IF \/ entry = None
     \/ entry # None /\ entry.completed
     \/ entry # None /\ duration \notin {None, 0}
          /\ entry.lastPositionSeconds + LESSON_COMPLETION_MARGIN_SECONDS >= duration
  THEN 0 ELSE entry.lastPositionSeconds

\* From the beginning without a record, when complete, or inside the margin of the
\* stored duration.
getResumePositionSeconds(duration, entry) ==
  IF \/ entry = None
     \/ entry # None /\ entry.completed
     \/ entry # None /\ duration \notin {None, 0}
          /\ entry.lastPositionSeconds + LESSON_COMPLETION_MARGIN_SECONDS > duration
  THEN 0 ELSE entry.lastPositionSeconds

getLessonProgressPercent(duration, entry) ==
  CASE entry = None -> 0
    [] entry # None /\ entry.completed -> 100
    [] entry # None /\ ~ entry.completed /\ duration \notin {None, 0} ->
         Max({4, Min({99, roundRatio(100 * entry.lastPositionSeconds, duration)})})
    [] OTHER -> IF entry.lastPositionSeconds > 0 THEN STARTED_LESSON_FALLBACK_PERCENT ELSE 0

-----------------------------------------------------------------------------
(* What comes next in a course *)

percentOf(progress, l) == getLessonProgressPercent(StoredDuration[l], progress[l])
isFinished(progress, l) == progress[l] # None /\ progress[l].completed
unfinished(progress) == {l \in Lesson : ~ isFinished(progress, l)}

\* The first lesson of seq that is in wanted.
firstIn(seq, wanted) ==
  LET found == {i \in DOMAIN seq : seq[i] \in wanted}
  IN IF found = {} THEN None ELSE seq[Min(found)]

\* Mutant of inProgressLesson: a record is enough.
anyStartedLesson(course, progress, recent) ==
  firstIn(recent, ToSet(course))

\* The started lesson of the course whose record is newest.
inProgressLesson(course, progress, recent) ==
  firstIn(recent, {l \in ToSet(course) \cap unfinished(progress) : percentOf(progress, l) > 0})

nextLesson(course, progress) == firstIn(course, unfinished(progress))

totalPercent(course, progress) ==
  FoldLeft(LAMBDA sum, l : sum + percentOf(progress, l), 0, course)

buildCourseProgress(course, progress, recent) ==
  LET current == inProgressLesson(course, progress, recent)
      next == nextLesson(course, progress)
  IN [percent |-> IF course = <<>> THEN 0 ELSE roundRatio(totalPercent(course, progress), Len(course)),
      completedLessons |-> Cardinality({l \in ToSet(course) : isFinished(progress, l)}),
      inProgressLessonId |-> current,
      nextLessonId |-> next,
      continueLessonId |->
        CASE current # None -> current
          [] current = None /\ next # None -> next
          [] OTHER -> IF course = <<>> THEN None ELSE Head(course)]

\* The marks of the queue beside the player.
buildLessonQueue(course, progress, currentLessonId) ==
  LET next == nextLesson(course, progress)   \* nextLessonId of buildCourseProgress
  IN [i \in DOMAIN course |->
       [id |-> course[i],
        isCompleted |-> isFinished(progress, course[i]),
        isCurrent |-> course[i] = currentLessonId,
        isNext |-> course[i] = next /\ course[i] # currentLessonId]]

\* Mutant of buildRecommendation: the next course only once every lesson was started.
recommendFromStarted(k, progress, recent) ==
  LET course == Courses[k]
      summary == buildCourseProgress(course, progress, recent)
  IN CASE summary.inProgressLessonId # None ->
            [lessonId |-> summary.inProgressLessonId, reason |-> "resume_lesson"]
       [] OTHER ->
            IF k < Len(Courses) /\ summary.completedLessons > 0
            THEN [lessonId |-> firstIn(Courses[k + 1], Lesson), reason |-> "next_course"]
            ELSE [lessonId |-> summary.nextLessonId, reason |-> "none"]

\* What the library and course pages recommend to somebody in the k-th course.
buildRecommendation(k, progress, recent) ==
  LET course == Courses[k]
      summary == buildCourseProgress(course, progress, recent)
  IN CASE summary.inProgressLessonId # None ->
            [lessonId |-> summary.inProgressLessonId, reason |-> "resume_lesson"]
       [] summary.inProgressLessonId = None /\ summary.nextLessonId # None ->
            [lessonId |-> summary.nextLessonId,
             reason |-> IF summary.percent > 0 THEN "next_lesson" ELSE "start_course"]
       [] OTHER ->
            IF k < Len(Courses)
            THEN [lessonId |-> firstIn(Courses[k + 1], Lesson), reason |-> "next_course"]
            ELSE [lessonId |-> None, reason |-> "none"]

\* Mutant of buildContinueWatching: any record counts as begun.
continueWatchingAnyRecord(progress, recent) ==
  {l \in ToSet(recent) : percentOf(progress, l) < 100}

\* The lessons of the library's "Continue watching" row, which keeps the order of recent:
\* begun, and below 100 percent.
buildContinueWatching(progress, recent) ==
  {l \in ToSet(recent) :
    /\ progress[l].completed \/ progress[l].lastPositionSeconds > 0
    /\ percentOf(progress, l) < 100}

=============================================================================
