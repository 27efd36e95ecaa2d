------------------------ MODULE LessonProgress_proofs ------------------------
(***************************************************************************)
(* What a progress row says of its lesson, and what a mobile screen has    *)
(* sent when it falls silent, for any lessons, pages, screens, player      *)
(* times and number of requests in flight.                                 *)
(***************************************************************************)
EXTENDS LessonProgress, FiniteSetTheorems, SequenceTheorems, WellFoundedInduction, TLAPS

-----------------------------------------------------------------------------
(* Lists of lessons.                                                         *)

\* The numbers of S below n.
below(S, n) == {e \in S : e < n}

\* A nonempty set of numbers has a least one: nothing is below it.
LEMMA LeastNumber ==
  ASSUME NEW S, S \subseteq Nat, S # {}
  PROVE  Min(S) \in S /\ \A n \in S : Min(S) =< n
<1> DEFINE heads == {below(S, n) : n \in S}
<1>1. heads \subseteq FiniteSubsetsOf(S) /\ heads # {}
  <2>1. ASSUME NEW n \in S PROVE below(S, n) \in FiniteSubsetsOf(S)
    <3>1. IsFiniteSet(0 .. n)
      BY FS_Interval
    <3>2. below(S, n) \subseteq 0 .. n
      <4>1. \A e \in S : e < n => e \in 0 .. n
        OBVIOUS
      <4> QED BY <4>1 DEF below
    <3>3. IsFiniteSet(below(S, n))
      BY <3>1, <3>2, FS_Subset
    <3>4. below(S, n) \in SUBSET S
      BY DEF below
    <3> QED BY <3>3, <3>4 DEF FiniteSubsetsOf
  <2> QED BY <2>1
<1>2. PICK lowest \in heads : \A h \in heads : <<h, lowest>> \notin StrictSubsetOrdering(S)
  <2>1. IsWellFoundedOn(StrictSubsetOrdering(S), FiniteSubsetsOf(S))
    BY FS_StrictSubsetOrderingWellFounded
  <2> HIDE DEF heads
  <2> QED BY <1>1, <2>1, WFMin
<1>3. PICK least \in S : lowest = below(S, least)
  BY <1>2
<1>4. ASSUME NEW n \in S, n < least PROVE FALSE
  <2>1. /\ \A e \in S : e < n => e < least
        /\ n \in below(S, least) /\ n \notin below(S, n)
    BY <1>4 DEF below
  <2>2. <<below(S, n), below(S, least)>> \in StrictSubsetOrdering(S)
    <3>1. below(S, n) \subseteq below(S, least) /\ below(S, least) \subseteq S
      BY <2>1 DEF below
    <3> QED BY <2>1, <3>1 DEF StrictSubsetOrdering
  <2> QED BY <1>2, <1>3, <2>2
<1>5. least \in Nat /\ \A n \in S : n \in Nat /\ least =< n
  BY <1>4
<1> QED BY <1>5 DEF Min

\* The search of a list finds something wanted whenever the list holds it.
LEMMA FirstIn ==
  ASSUME NEW seq \in Seq(Lesson), NEW wanted
  PROVE  IF ToSet(seq) \cap wanted = {} THEN firstIn(seq, wanted) = None
         ELSE firstIn(seq, wanted) \in ToSet(seq) \cap wanted
<1> DEFINE found == {i \in DOMAIN seq : seq[i] \in wanted}
<1>1. found \subseteq Nat /\ (found = {} <=> ToSet(seq) \cap wanted = {})
  BY DEF ToSet
<1>2. found # {} => Min(found) \in found
  BY <1>1, LeastNumber
<1> QED BY <1>1, <1>2 DEF firstIn, ToSet

\* What a concatenation holds.
LEMMA ConcatHolds ==
  ASSUME NEW s \in Seq(Lesson), NEW t \in Seq(Lesson)
  PROVE  s \o t \in Seq(Lesson) /\ ToSet(s \o t) = ToSet(s) \cup ToSet(t)
<1> DEFINE all == s \o t
<1>1. /\ all \in Seq(Lesson) /\ DOMAIN all = 1 .. Len(s) + Len(t)
      /\ DOMAIN s = 1 .. Len(s) /\ DOMAIN t = 1 .. Len(t) /\ Len(s) \in Nat /\ Len(t) \in Nat
      /\ \A i \in 1 .. Len(s) + Len(t) : all[i] = IF i <= Len(s) THEN s[i] ELSE t[i - Len(s)]
  BY ConcatProperties, LenProperties
<1> HIDE DEF all
<1>2. ASSUME NEW i \in DOMAIN all PROVE all[i] \in ToSet(s) \cup ToSet(t)
  <2>1. CASE i <= Len(s)
    BY <1>1, <2>1 DEF ToSet
  <2>2. CASE ~ i <= Len(s)
    <3>1. i - Len(s) \in DOMAIN t /\ all[i] = t[i - Len(s)]
      BY <1>1, <2>2
    <3> QED BY <3>1 DEF ToSet
  <2> QED BY <2>1, <2>2
<1>3. ASSUME NEW i \in DOMAIN s PROVE s[i] \in ToSet(all)
  BY <1>1 DEF ToSet
<1>4. ASSUME NEW i \in DOMAIN t PROVE t[i] \in ToSet(all)
  <2>1. i + Len(s) \in DOMAIN all /\ all[i + Len(s)] = t[i]
    BY <1>1
  <2> QED BY <2>1 DEF ToSet
<1>5. ToSet(all) = ToSet(s) \cup ToSet(t)
  BY <1>2, <1>3, <1>4 DEF ToSet
<1> QED BY <1>1, <1>5 DEF all

\* What a subsequence holds.
LEMMA PieceHolds ==
  ASSUME NEW seq \in Seq(Lesson), NEW m \in 1 .. Len(seq) + 1, NEW n \in 0 .. Len(seq)
  PROVE  /\ SubSeq(seq, m, n) \in Seq(Lesson)
         /\ ToSet(SubSeq(seq, m, n)) = {seq[i] : i \in m .. n}
<1> DEFINE piece == SubSeq(seq, m, n)
<1>1. Len(seq) \in Nat /\ m \in Int /\ n \in Int /\ \A i \in m .. n : seq[i] \in Lesson
  BY ElementOfSeq, LenProperties
<1>2. /\ piece \in Seq(Lesson) /\ Len(piece) = IF m <= n THEN n - m + 1 ELSE 0
      /\ \A i \in 1 .. n - m + 1 : piece[i] = seq[m + i - 1]
  BY <1>1, SubSeqProperties
<1>3. DOMAIN piece = 1 .. n - m + 1
  BY <1>1, <1>2, LenProperties
<1> HIDE DEF piece
<1>4. ASSUME NEW i \in m .. n PROVE seq[i] \in ToSet(piece)
  <2> HIDE DEF piece
  <2>1. i - m + 1 \in 1 .. n - m + 1 /\ m + (i - m + 1) - 1 = i
    BY <1>1
  <2>2. i - m + 1 \in DOMAIN piece /\ piece[i - m + 1] = seq[i]
    BY <1>2, <1>3, <2>1
  <2> QED BY <2>2 DEF ToSet
<1>5. ASSUME NEW i \in DOMAIN piece PROVE piece[i] \in {seq[j] : j \in m .. n}
  <2>1. i \in 1 .. n - m + 1 /\ m + i - 1 \in m .. n
    BY <1>1, <1>3
  <2> QED BY <1>2, <2>1
<1>6. ToSet(piece) = {seq[i] : i \in m .. n}
  BY <1>4, <1>5 DEF ToSet
<1> QED BY <1>2, <1>6 DEF piece

\* The newest update comes first, and nothing is lost.
LEMMA UpdateFirst ==
  ASSUME NEW seq \in Seq(Lesson), NEW l \in Lesson
  PROVE  updateFirst(seq, l) \in Seq(Lesson) /\ ToSet(updateFirst(seq, l)) = ToSet(seq) \cup {l}
<1>1. <<l>> \in Seq(Lesson) /\ ToSet(<<l>>) = {l}
  BY DEF ToSet
<1>2. CASE l \notin ToSet(seq)
  <2>1. updateFirst(seq, l) = <<l>> \o seq
    BY <1>2 DEF updateFirst
  <2>2. ToSet(<<l>> \o seq) = ToSet(<<l>>) \cup ToSet(seq) /\ <<l>> \o seq \in Seq(Lesson)
    BY <1>1, ConcatHolds
  <2> QED BY <1>1, <2>1, <2>2
<1>3. CASE l \in ToSet(seq)
  <2> DEFINE i == CHOOSE j \in DOMAIN seq : seq[j] = l
             before == SubSeq(seq, 1, i - 1)
             behind == SubSeq(seq, i + 1, Len(seq))
  <2>1. i \in DOMAIN seq /\ seq[i] = l
    BY <1>3 DEF ToSet
  <2>2. updateFirst(seq, l) = <<l>> \o (before \o behind)
    BY <1>3 DEF updateFirst, RemoveAt
  <2>3. DOMAIN seq = 1 .. Len(seq) /\ Len(seq) \in Nat
    BY LenProperties
  <2> HIDE DEF i
  <2>4. /\ before \in Seq(Lesson) /\ ToSet(before) = {seq[j] : j \in 1 .. i - 1}
        /\ behind \in Seq(Lesson) /\ ToSet(behind) = {seq[j] : j \in i + 1 .. Len(seq)}
    <3>1. 1 \in 1 .. Len(seq) + 1 /\ i - 1 \in 0 .. Len(seq) /\ i + 1 \in 1 .. Len(seq) + 1
          /\ Len(seq) \in 0 .. Len(seq)
      BY <2>1, <2>3
    <3> QED BY <3>1, PieceHolds
  <2>5. ToSet(seq) = ToSet(before) \cup ToSet(behind) \cup {l}
    <3>1. ToSet(seq) = {seq[j] : j \in 1 .. Len(seq)}
      BY <2>3 DEF ToSet
    <3>2. 1 .. Len(seq) = (1 .. i - 1) \cup (i + 1 .. Len(seq)) \cup {i}
      BY <2>1, <2>3
    <3> QED BY <2>1, <2>4, <3>1, <3>2
  <2> HIDE DEF before, behind
  <2>6. before \o behind \in Seq(Lesson) /\ ToSet(before \o behind) = ToSet(before) \cup ToSet(behind)
    BY <2>4, ConcatHolds
  <2>7. /\ <<l>> \o (before \o behind) \in Seq(Lesson)
        /\ ToSet(<<l>> \o (before \o behind)) = ToSet(<<l>>) \cup ToSet(before \o behind)
    BY <1>1, <2>6, ConcatHolds
  <2> QED BY <1>1, <2>2, <2>5, <2>6, <2>7
<1> QED BY <1>2, <1>3

USE ProgressionAssumption, WatchingAssumption

\* No film is so short that it is complete before it starts.
FilmsAreLong == \A l \in Lesson : MediaDuration[l] = 0 \/ MediaDuration[l] >= 100

-----------------------------------------------------------------------------
(* Whole seconds.  A place of a lesson is a second its player reported, or   *)
(* the start.                                                                *)

Place(l) == {0} \cup {floorSeconds(time) : time \in PlayerTime[l]}
Mark(l) == IF StoredDuration[l] = None THEN 1 ELSE StoredDuration[l]

LEMMA Floor ==
  ASSUME NEW tenths \in Nat
  PROVE  /\ floorSeconds(tenths) \in Nat
         /\ 10 * floorSeconds(tenths) =< tenths
         /\ tenths =< 10 * floorSeconds(tenths) + 9
BY DEF floorSeconds

LEMMA FloorOfSeconds ==
  ASSUME NEW n \in Nat
  PROVE  10 * n \in Nat /\ floorSeconds(10 * n) = n
BY DEF floorSeconds

LEMMA PlaceIsNat ==
  ASSUME NEW l \in Lesson, NEW n \in Place(l)
  PROVE  n \in Nat
BY Floor DEF Place

LEMMA MaxOfTwo ==
  ASSUME NEW a \in {0, 1}
  PROVE  Max({a, 1}) = 1
<1>1. \E x \in {a, 1} : \A y \in {a, 1} : x >= y
  BY DEF Max
<1>2. Max({a, 1}) \in {a, 1} /\ \A y \in {a, 1} : Max({a, 1}) >= y
  BY <1>1 DEF Max
<1> QED BY <1>2

-----------------------------------------------------------------------------
(* The invariant.  A record of a lesson, on its way or stored, is a place of *)
(* its player or a mark, and complete exactly there.                         *)

Sound(l, position, completed) ==
  IF Provider[l] = "YOUTUBE"
  THEN position = IF completed THEN Mark(l) ELSE 0
  ELSE /\ position \in Place(l)
       /\ completed => isComplete(MediaDuration[l], 10 * position + 9)
       /\ ~ completed => ~ isComplete(MediaDuration[l], 10 * position)

RowsInv ==
  /\ row \in [Lesson -> Record \cup {None}]
  /\ \A l \in Lesson : row[l] # None =>
       Sound(l, row[l].lastPositionSeconds, row[l].completed)

SavesInv ==
  /\ inFlight \subseteq Save
  /\ \A s \in inFlight : Sound(s.lesson, s.lastPositionSeconds, s.completed)

\* The player shown is where its lesson may be; and when the last to report was the URL's
\* lesson's, that is the one shown.
PageInv(p) ==
  /\ p \in Page
  /\ p.loading # "no" => p.param \in Lesson
  /\ playerMounted(p) => floorSeconds(p.time) \in Place(p.lesson)
  /\ canSaveProgress(p) => p.lesson = p.playerLessonId

PagesInv ==
  /\ web \in [Tab -> Page]
  /\ \A t \in Tab : PageInv(web[t])

\* A screen with a position has one of its lesson, and a duration unless the player has not
\* reported.
Seeded(s) ==
  /\ s.lesson \in Lesson /\ s.position \in Nat
  /\ Provider[s.lesson] = "YOUTUBE" => s.position = 0 /\ s.duration = 0
  /\ Provider[s.lesson] = "MUX" =>
       /\ floorSeconds(s.position) \in Place(s.lesson)
       /\ \/ s.duration = MediaDuration[s.lesson]
          \/ /\ s.duration = 0
             /\ ~ isComplete(MediaDuration[s.lesson], 10 * floorSeconds(s.position))

RefsInv(s) ==
  /\ s \in MobileScreen
  /\ s.mounted => s.lesson \in Lesson
  /\ s.loading # "no" => s.position = None /\ s.duration = 0
  /\ s.position # None => Seeded(s)
  /\ s.pendingSave => s.position # None

\* Once gone it owes that position or has sent it.
ScreenInv(s) ==
  /\ RefsInv(s)
  /\ s.pendingSave => s.saveInFlight
  /\ ~ s.mounted /\ s.position # None => s.pendingSave \/ s.sent = floorSeconds(s.position)

ScreensInv ==
  /\ screen \in [Screen -> MobileScreen]
  /\ \A m \in Screen : ScreenInv(screen[m])

WatchingInv == RowsInv /\ SavesInv /\ PagesInv /\ ScreensInv

LEMMA WatchingStarts == Init => WatchingInv
<1> SUFFICES ASSUME Init PROVE WatchingInv
  OBVIOUS
<1>1. RowsInv /\ SavesInv
  BY DEF Init, RowsInv, SavesInv
<1>2. closedPage \in Page /\ PageInv(closedPage)
  BY DEF closedPage, Page, PageInv, playerMounted, canSaveProgress
<1>3. closedScreen \in MobileScreen /\ ScreenInv(closedScreen)
  BY DEF closedScreen, MobileScreen, ScreenInv, RefsInv
<1> QED BY <1>1, <1>2, <1>3 DEF Init, WatchingInv, PagesInv, ScreensInv

-----------------------------------------------------------------------------
(* What the clients read and send is sound.                                  *)

LEMMA StartIsSound ==
  ASSUME FilmsAreLong, NEW l \in Lesson
  PROVE  0 \in Place(l) /\ ~ isComplete(MediaDuration[l], 10 * 0)
BY DEF isComplete, FilmsAreLong, LESSON_COMPLETION_MARGIN_SECONDS, Place

LEMMA ResumeIsSound ==
  ASSUME FilmsAreLong, RowsInv, NEW l \in Lesson
  PROVE  LET resume == getResumePositionSeconds(StoredDuration[l], row[l]) IN
         /\ resume \in Nat
         /\ Provider[l] = "YOUTUBE" => resume = 0
         /\ Provider[l] = "MUX" =>
              resume \in Place(l) /\ ~ isComplete(MediaDuration[l], 10 * resume)
<1> DEFINE resume == getResumePositionSeconds(StoredDuration[l], row[l])
<1>1. resume = 0
      \/ /\ row[l] # None /\ resume = row[l].lastPositionSeconds
         /\ row[l].completed = FALSE
  <2>1. row[l] # None => row[l].completed \in BOOLEAN
    BY DEF RowsInv, Record
  <2> QED BY <2>1 DEF getResumePositionSeconds
<1> HIDE DEF resume
<1>2. CASE resume = 0
  <2>1. ~ isComplete(MediaDuration[l], 10 * 0) /\ 0 \in Place(l)
    BY StartIsSound
  <2>2. /\ resume \in Nat
        /\ resume \in Place(l) /\ ~ isComplete(MediaDuration[l], 10 * resume)
    BY <1>2, <2>1
  <2> QED BY <1>2, <2>2 DEF resume
<1>3. CASE resume # 0
  <2>1. resume \in Nat /\ Sound(l, resume, FALSE)
    BY <1>1, <1>3 DEF RowsInv, Record
  <2>2. /\ Provider[l] = "YOUTUBE" => resume = 0
        /\ Provider[l] = "MUX" =>
             resume \in Place(l) /\ ~ isComplete(MediaDuration[l], 10 * resume)
    BY <2>1 DEF Sound
  <2> QED BY <2>1, <2>2 DEF resume
<1> QED BY <1>2, <1>3

\* A save of the web page.
LEMMA PageSavesSound ==
  ASSUME NEW p, PageInv(p), canSaveProgress(p)
  PROVE  /\ p.param \in Lesson /\ floorSeconds(p.time) \in Nat
         /\ Sound(p.param, floorSeconds(p.time),
                  isComplete(MediaDuration[p.param], 10 * floorSeconds(p.time)))
<1> DEFINE seconds == floorSeconds(p.time)
<1>1. /\ p.param \in Lesson /\ Provider[p.param] = "MUX" /\ p.time \in Nat
      /\ seconds \in Place(p.param)
  BY DEF PageInv, canSaveProgress, playerMounted, Page
<1>2. seconds \in Nat
  BY <1>1, Floor
<1> HIDE DEF seconds
<1>3. isComplete(MediaDuration[p.param], 10 * seconds)
        => isComplete(MediaDuration[p.param], 10 * seconds + 9)
  BY <1>1, <1>2 DEF isComplete, LESSON_COMPLETION_MARGIN_SECONDS
<1>4. Sound(p.param, seconds, isComplete(MediaDuration[p.param], 10 * seconds))
  BY <1>1, <1>3 DEF Sound
<1> QED BY <1>1, <1>2, <1>4 DEF seconds

\* A save of the mobile screen, which compares the tenths it does not send.
LEMMA ScreenSavesSound ==
  ASSUME NEW s, s.duration \in Nat, Seeded(s)
  PROVE  /\ floorSeconds(s.position) \in Nat
         /\ Sound(s.lesson, floorSeconds(s.position), isComplete(s.duration, s.position))
<1> DEFINE seconds == floorSeconds(s.position)
<1>1. /\ seconds \in Nat /\ s.position \in Nat
      /\ 10 * seconds =< s.position /\ s.position =< 10 * seconds + 9
  BY Floor DEF Seeded
<1>2. CASE Provider[s.lesson] = "YOUTUBE"
  <2>1. s.position = 0 /\ ~ isComplete(s.duration, s.position)
    BY <1>2 DEF Seeded, isComplete
  <2>2. seconds = 0
    BY <1>1, <2>1
  <2> QED BY <1>2, <2>1, <2>2 DEF Sound
<1>3. CASE Provider[s.lesson] = "MUX"
  <2>1. /\ s.lesson \in Lesson /\ seconds \in Place(s.lesson)
        /\ \/ s.duration = MediaDuration[s.lesson]
           \/ s.duration = 0 /\ ~ isComplete(MediaDuration[s.lesson], 10 * seconds)
    BY <1>3 DEF Seeded
  <2> HIDE DEF seconds
  <2>2. isComplete(s.duration, s.position)
          => isComplete(MediaDuration[s.lesson], 10 * seconds + 9)
    BY <1>1, <2>1 DEF isComplete, LESSON_COMPLETION_MARGIN_SECONDS
  <2>3. ~ isComplete(s.duration, s.position)
          => ~ isComplete(MediaDuration[s.lesson], 10 * seconds)
    BY <1>1, <2>1 DEF isComplete, LESSON_COMPLETION_MARGIN_SECONDS
  <2>4. Sound(s.lesson, seconds, isComplete(s.duration, s.position))
    BY <1>3, <2>1, <2>2, <2>3 DEF Sound
  <2> QED BY <1>1, <2>4 DEF seconds
<1>4. Provider[s.lesson] \in {"MUX", "YOUTUBE"}
  BY DEF Seeded
<1> QED BY <1>2, <1>3, <1>4

-----------------------------------------------------------------------------
(* The steps, one part of the invariant at a time.                           *)

LEMMA RowsStep == RowsInv /\ SavesInv /\ [Next]_vars => RowsInv'
<1> SUFFICES ASSUME RowsInv, SavesInv, [Next]_vars PROVE RowsInv'
  OBVIOUS
<1>1. ASSUME NEW s \in inFlight, ApplySave(s) PROVE RowsInv'
  <2>1. /\ s.lesson \in Lesson /\ s.lastPositionSeconds \in Nat /\ s.completed \in BOOLEAN
        /\ Sound(s.lesson, s.lastPositionSeconds, s.completed)
    BY DEF SavesInv, Save
  <2> DEFINE entry == [lastPositionSeconds |-> s.lastPositionSeconds, completed |-> s.completed]
  <2>2. row' = [row EXCEPT ![s.lesson] = entry]
    BY <1>1 DEF ApplySave, upsert
  <2>3. entry \in Record /\ Sound(s.lesson, entry.lastPositionSeconds, entry.completed)
    BY <2>1 DEF Record
  <2> HIDE DEF entry
  <2> QED BY <2>1, <2>2, <2>3 DEF RowsInv
<1>2. CASE UNCHANGED row
  BY <1>2 DEF RowsInv, Sound
<1>3. (\E s \in inFlight : ApplySave(s)) \/ UNCHANGED row
  BY DEF Next, vars, LoseSave, Answer, AnswerLost, OpenPage, FollowLink, LeavePage,
         PageGetsLesson, PageLoadFails, PageShowsLesson, TimeUpdate, Autosave,
         markLessonComplete, OpenScreen, ScreenGetsLesson, ScreenLoadFails,
         ScreenShowsLesson, StatusUpdate, ScreenSaves, CloseScreen
<1> QED BY <1>1, <1>2, <1>3

\* A page that changes alone.
LEMMA OnePage ==
  ASSUME PagesInv, NEW t \in Tab, NEW p, PageInv(p), web' = [web EXCEPT ![t] = p]
  PROVE  PagesInv'
BY DEF PagesInv, PageInv, Page, playerMounted, canSaveProgress

LEMMA SaveStateOnly ==
  ASSUME PagesInv, NEW t \in Tab, NEW state \in {"saving", "saved", "error"},
         web' = [web EXCEPT ![t] = [web[t] EXCEPT !.saveState = state]]
  PROVE  PagesInv'
<1>1. PageInv(web[t])
  BY DEF PagesInv
<1>2. PageInv([web[t] EXCEPT !.saveState = state])
  BY <1>1 DEF PageInv, Page, playerMounted, canSaveProgress
<1> QED BY <1>2, OnePage

LEMMA PagesStep ==
  ASSUME ~ TurnsBack, FilmsAreLong
  PROVE  RowsInv /\ SavesInv /\ PagesInv /\ [Next]_vars => PagesInv'
<1> SUFFICES ASSUME RowsInv, SavesInv, PagesInv, [Next]_vars PROVE PagesInv'
  OBVIOUS
<1> USE DEF PageInv, Page, playerMounted, canSaveProgress
<1>1. ASSUME NEW t \in Tab, NEW l \in Lesson, OpenPage(t, l) PROVE PagesInv'
  <2> DEFINE p == [closedPage EXCEPT !.param = l, !.loading = "lesson"]
  <2>1. PageInv(p)
    BY DEF closedPage
  <2>2. web' = [web EXCEPT ![t] = p]
    BY <1>1 DEF OpenPage
  <2> QED BY <2>1, <2>2, OnePage
<1>2. ASSUME NEW t \in Tab, NEW l \in Lesson, FollowLink(t, l) PROVE PagesInv'
  <2> DEFINE p == [web[t] EXCEPT !.param = l, !.loading = "lesson", !.failed = FALSE,
                                 !.saveState = "idle",
                                 !.time = IF web[t].failed THEN 0 ELSE web[t].time]
  <2>1. PageInv(web[t])
    BY DEF PagesInv
  <2>2. ~ unreported(web[t], l)
    BY <1>2 DEF FollowLink
  <2>3. p.lesson # None => floorSeconds(0) \in Place(p.lesson)
    BY DEF floorSeconds, Place
  <2>4. PageInv(p)
    BY <2>1, <2>2, <2>3 DEF unreported
  <2>5. web' = [web EXCEPT ![t] = p]
    BY <1>2 DEF FollowLink, PagesInv
  <2> QED BY <2>4, <2>5, OnePage
<1>3. ASSUME NEW t \in Tab, LeavePage(t) PROVE PagesInv'
  <2>1. PageInv(closedPage)
    BY DEF closedPage
  <2> QED BY <1>3, <2>1, OnePage DEF LeavePage
<1>4. ASSUME NEW t \in Tab, PageGetsLesson(t) \/ PageLoadFails(t) PROVE PagesInv'
  <2>1. PageInv(web[t])
    BY DEF PagesInv
  <2>2. CASE PageGetsLesson(t)
    <3>1. PageInv([web[t] EXCEPT !.loading = "lists"])
      BY <2>1, <2>2 DEF PageGetsLesson
    <3>2. web' = [web EXCEPT ![t] = [web[t] EXCEPT !.loading = "lists"]]
      BY <2>2 DEF PageGetsLesson, PagesInv
    <3> QED BY <3>1, <3>2, OnePage
  <2>3. CASE PageLoadFails(t)
    <3>1. PageInv([web[t] EXCEPT !.loading = "no", !.failed = TRUE])
      BY <2>1
    <3>2. web' = [web EXCEPT ![t] = [web[t] EXCEPT !.loading = "no", !.failed = TRUE]]
      BY <2>3 DEF PageLoadFails, PagesInv
    <3> QED BY <3>1, <3>2, OnePage
  <2> QED BY <1>4, <2>2, <2>3
<1>5. ASSUME NEW t \in Tab, PageShowsLesson(t) PROVE PagesInv'
  <2> DEFINE l == web[t].param
             resume == getResumePositionSeconds(StoredDuration[l], row[l])
             time == IF l = web[t].lesson THEN web[t].time ELSE 10 * resume
             p == [web[t] EXCEPT !.loading = "no", !.lesson = l, !.time = time]
  <2>1. PageInv(web[t])
    BY DEF PagesInv
  <2>2. web' = [web EXCEPT ![t] = p]
    BY <1>5 DEF PageShowsLesson, PagesInv
  <2>3. l \in Lesson => resume \in Nat /\ (Provider[l] = "MUX" => resume \in Place(l))
    BY ResumeIsSound
  <2> HIDE DEF resume
  <2>4. l \in Lesson /\ Provider[l] = "MUX" => floorSeconds(10 * resume) \in Place(l)
    BY <2>3, FloorOfSeconds
  <2>5. l \in Lesson
    BY <1>5, <2>1 DEF PageShowsLesson
  <2>6. time \in Nat
    BY <2>1, <2>3, <2>5
  <2>7. ~ p.failed /\ Provider[l] = "MUX" => floorSeconds(time) \in Place(l)
    BY <2>1, <2>4, <2>5
  <2> HIDE DEF time
  <2>8. PageInv(p)
    BY <2>1, <2>5, <2>6, <2>7
  <2> QED BY <2>2, <2>8, OnePage
<1>6. ASSUME NEW t \in Tab, TimeUpdate(t) PROVE PagesInv'
  <2>1. PageInv(web[t]) /\ web[t].lesson \in Lesson
    BY <1>6 DEF PagesInv, TimeUpdate
  <2>2. PICK time \in PlayerTime[web[t].lesson] :
          web' = [web EXCEPT ![t] = [web[t] EXCEPT !.time = time, !.playerLessonId = web[t].lesson]]
    BY <1>6 DEF TimeUpdate, PagesInv
  <2>3. time \in Nat /\ floorSeconds(time) \in Place(web[t].lesson)
    BY <2>1 DEF Place
  <2>4. PageInv([web[t] EXCEPT !.time = time, !.playerLessonId = web[t].lesson])
    BY <2>1, <2>3
  <2> QED BY <2>2, <2>4, OnePage
<1>7. ASSUME NEW t \in Tab, Autosave(t) \/ markLessonComplete(t) PROVE PagesInv'
  <2>1. web' = [web EXCEPT ![t] = [web[t] EXCEPT !.saveState = "saving"]]
    BY <1>7 DEF PagesInv, Autosave, markLessonComplete
  <2> QED BY <2>1, SaveStateOnly
<1>8. ASSUME NEW s \in inFlight, Answer(s) \/ AnswerLost(s) PROVE PagesInv'
  <2>1. CASE UNCHANGED web
    BY <2>1 DEF PagesInv
  <2>2. ASSUME NEW saved \in BOOLEAN, s.by \in Tab, PageHears(s, saved) PROVE PagesInv'
    <3>1. \/ UNCHANGED web
          \/ \E state \in {"saved", "error"} :
               web' = [web EXCEPT ![s.by] = [web[s.by] EXCEPT !.saveState = state]]
      BY <2>2 DEF PagesInv, PageHears
    <3> QED BY <3>1, <2>1, <2>2, SaveStateOnly
  <2> QED BY <1>8, <2>1, <2>2 DEF Answer, AnswerLost, Hear
<1>9. CASE UNCHANGED web
  BY <1>9 DEF PagesInv
<1>10. ASSUME NEW s \in inFlight, ApplySave(s) \/ LoseSave(s) PROVE UNCHANGED web
  BY <1>10 DEF ApplySave, LoseSave
<1>11. ASSUME NEW m \in Screen,
              \/ \E l \in Lesson : OpenScreen(m, l)
              \/ ScreenGetsLesson(m) \/ ScreenLoadFails(m)
              \/ \E answered \in BOOLEAN : ScreenShowsLesson(m, answered)
              \/ StatusUpdate(m) \/ ScreenSaves(m) \/ CloseScreen(m)
       PROVE  UNCHANGED web
  BY <1>11 DEF OpenScreen, ScreenGetsLesson, ScreenLoadFails, ScreenShowsLesson, StatusUpdate,
              ScreenSaves, CloseScreen
<1> QED BY <1>1, <1>2, <1>3, <1>4, <1>5, <1>6, <1>7, <1>8, <1>9, <1>10, <1>11 DEF Next, vars

\* What a set of saves needs to be as the invariant has it.
SoundSaves(saves) ==
  saves \subseteq Save /\ \A s \in saves : Sound(s.lesson, s.lastPositionSeconds, s.completed)

LEMMA OneScreen ==
  ASSUME ScreensInv, NEW m \in Screen, NEW refs, ScreenInv(refs),
         screen' = [screen EXCEPT ![m] = refs]
  PROVE  ScreensInv'
BY DEF ScreensInv, ScreenInv, RefsInv, Seeded, Place

LEMMA SendIsSound ==
  ASSUME ScreensInv, NEW m \in Screen, NEW refs, RefsInv(refs), refs.position # None,
         NEW others, SoundSaves(others), SendFrom(m, [refs |-> refs, others |-> others])
  PROVE  ScreensInv' /\ SoundSaves(inFlight')
<1> DEFINE seconds == floorSeconds(refs.position)
           complete == isComplete(refs.duration, refs.position)
           save == [by |-> m, lesson |-> refs.lesson, lastPositionSeconds |-> seconds,
                    completed |-> complete, status |-> "sent"]
           sent == [refs EXCEPT !.saveInFlight = TRUE, !.pendingSave = FALSE, !.sent = seconds]
<1>1. inFlight' = others \cup {save} /\ screen' = [screen EXCEPT ![m] = sent]
  BY DEF SendFrom
<1>2. Seeded(refs) /\ refs \in MobileScreen
  BY DEF RefsInv
<1>3. seconds \in Nat /\ Sound(refs.lesson, seconds, complete)
  BY <1>2, ScreenSavesSound DEF MobileScreen
<1>4. complete \in BOOLEAN /\ refs.lesson \in Lesson
  BY <1>2 DEF isComplete, Seeded
<1> HIDE DEF complete
<1>5. SoundSaves(inFlight')
  <2>1. save \in Save
    BY <1>3, <1>4 DEF Save
  <2>2. Sound(save.lesson, save.lastPositionSeconds, save.completed)
    BY <1>3
  <2> HIDE DEF save
  <2> QED BY <1>1, <2>1, <2>2 DEF SoundSaves
<1>6. ScreenInv(sent)
  <2>1. sent \in MobileScreen
    BY <1>2, <1>3 DEF MobileScreen
  <2>2. /\ sent.lesson = refs.lesson /\ sent.position = refs.position
        /\ sent.duration = refs.duration /\ sent.mounted = refs.mounted
        /\ sent.loading = refs.loading
        /\ sent.saveInFlight = TRUE /\ sent.pendingSave = FALSE
        /\ sent.sent = floorSeconds(sent.position)
    BY <1>2 DEF MobileScreen
  <2> HIDE DEF sent
  <2> QED BY <2>1, <2>2 DEF ScreenInv, RefsInv, Seeded
<1> QED BY <1>1, <1>5, <1>6, OneScreen

\* saveProgress of the screen as it is and as it goes.
LEMMA SaveIsSound ==
  ASSUME ScreensInv, SoundSaves(inFlight), NEW m \in Screen,
         NEW refs, RefsInv(refs), refs.position = None => ScreenInv(refs), SaveFromScreen(m, refs)
  PROVE  ScreensInv' /\ SoundSaves(inFlight')
<1>1. CASE refs.position = None
  BY <1>1, OneScreen DEF SaveFromScreen
<1>2. CASE refs.position # None /\ refs.saveInFlight
  <2>1. /\ screen' = [screen EXCEPT ![m] = [refs EXCEPT !.pendingSave = TRUE]]
        /\ UNCHANGED inFlight
    BY <1>2 DEF SaveFromScreen
  <2>2. ScreenInv([refs EXCEPT !.pendingSave = TRUE])
    BY <1>2 DEF ScreenInv, RefsInv, Seeded, MobileScreen
  <2> QED BY <2>1, <2>2, OneScreen
<1>3. CASE refs.position # None /\ ~ refs.saveInFlight
  BY <1>3, SendIsSound DEF SaveFromScreen
<1> QED BY <1>1, <1>2, <1>3

\* A save of the web page goes out, or none does.
LEMMA PostIsSound ==
  ASSUME SoundSaves(inFlight), NEW t \in Tab, NEW l \in Lesson, NEW position \in Nat,
         NEW completed \in BOOLEAN, Sound(l, position, completed), Post(t, l, position, completed)
  PROVE  SoundSaves(inFlight')
<1> DEFINE save == [by |-> t, lesson |-> l, lastPositionSeconds |-> position,
                    completed |-> completed, status |-> "sent"]
<1>1. inFlight' = inFlight \cup {save}
  BY DEF Post
<1>2. save \in Save /\ Sound(save.lesson, save.lastPositionSeconds, save.completed)
  BY DEF Save
<1> HIDE DEF save
<1> QED BY <1>1, <1>2 DEF SoundSaves

LEMMA PageSaveIsSound ==
  ASSUME PagesInv, SoundSaves(inFlight), NEW t \in Tab, saveProgress(t) \/ UNCHANGED inFlight
  PROVE  SoundSaves(inFlight')
<1>1. CASE UNCHANGED inFlight
  BY <1>1
<1>2. CASE canSaveProgress(web[t]) /\ saveProgress(t)
  <2> DEFINE seconds == floorSeconds(web[t].time)
             complete == isComplete(MediaDuration[web[t].param], 10 * seconds)
  <2>1. Post(t, web[t].param, seconds, complete)
    BY <1>2 DEF saveProgress
  <2>2. /\ web[t].param \in Lesson /\ seconds \in Nat
        /\ Sound(web[t].param, seconds, complete)
    BY <1>2, PageSavesSound DEF PagesInv
  <2>3. complete \in BOOLEAN
    BY DEF isComplete
  <2> HIDE DEF seconds, complete
  <2> QED BY <2>1, <2>2, <2>3, PostIsSound
<1> QED BY <1>1, <1>2 DEF saveProgress

LEMMA MarkIsSound ==
  ASSUME RowsInv, PagesInv, SoundSaves(inFlight), NEW t \in Tab, markLessonComplete(t)
  PROVE  SoundSaves(inFlight')
<1> DEFINE l == web[t].lesson
<1>1. l \in Lesson /\ Provider[l] = "YOUTUBE"
  BY DEF markLessonComplete, PagesInv, PageInv, Page
<1>2. PICK known \in {0} \cup (IF row[l] = None THEN {} ELSE {row[l].lastPositionSeconds}) :
        Post(t, l, IF StoredDuration[l] # None THEN StoredDuration[l] ELSE Max({known, 1}), TRUE)
  BY DEF markLessonComplete
<1>3. StoredDuration[l] = None => known \in {0, 1}
  <2>1. row[l] # None =>
          /\ Sound(l, row[l].lastPositionSeconds, row[l].completed)
          /\ row[l].completed \in BOOLEAN
    BY <1>1 DEF RowsInv, Record
  <2> QED BY <1>1, <1>2, <2>1 DEF Sound, Mark
<1>4. Post(t, l, Mark(l), TRUE)
  BY <1>2, <1>3, MaxOfTwo DEF Mark
<1>5. Mark(l) \in Nat /\ Sound(l, Mark(l), TRUE)
  BY <1>1 DEF Mark, Sound
<1> HIDE DEF l
<1> QED BY <1>1, <1>4, <1>5, PostIsSound

\* An answer, heard or lost.
LEMMA HearIsSound ==
  ASSUME ScreensInv, SoundSaves(inFlight), NEW s \in inFlight, NEW saved \in BOOLEAN,
         NEW others, SoundSaves(others), Hear(s, saved, others)
  PROVE  ScreensInv' /\ SoundSaves(inFlight')
<1>1. CASE inFlight' = others /\ UNCHANGED screen
  BY <1>1 DEF ScreensInv
<1>2. CASE s.by \in Screen /\ ScreenHears(s, others)
  <2> DEFINE m == s.by
             refs == [screen[m] EXCEPT !.saveInFlight = FALSE]
  <2>1. ScreenInv(screen[m])
    BY <1>2 DEF ScreensInv
  <2>2. RefsInv(refs) /\ (~ refs.pendingSave => ScreenInv(refs))
    BY <2>1 DEF ScreenInv, RefsInv, Seeded, MobileScreen
  <2>3. CASE refs.pendingSave
    <3>1. SendFrom(m, [refs |-> refs, others |-> others])
      BY <1>2, <2>3 DEF ScreenHears
    <3>2. refs.position # None
      BY <2>2, <2>3 DEF RefsInv
    <3> HIDE DEF refs
    <3> QED BY <1>2, <2>2, <3>1, <3>2, SendIsSound
  <2>4. CASE ~ refs.pendingSave
    <3>1. /\ screen' = [screen EXCEPT ![m] = IF refs.mounted THEN refs ELSE closedScreen]
          /\ inFlight' = others
      BY <1>2, <2>4 DEF ScreenHears
    <3>2. ScreenInv(closedScreen)
      BY DEF closedScreen, MobileScreen, ScreenInv, RefsInv
    <3> HIDE DEF refs
    <3>3. ScreenInv(IF refs.mounted THEN refs ELSE closedScreen)
      BY <2>2, <2>4, <3>2
    <3> QED BY <1>2, <3>1, <3>3, OneScreen
  <2> QED BY <2>3, <2>4
<1> QED BY <1>1, <1>2 DEF Hear

LEMMA RequestsStep ==
  ASSUME FilmsAreLong
  PROVE  RowsInv /\ SavesInv /\ PagesInv /\ ScreensInv /\ [Next]_vars
           => SavesInv' /\ ScreensInv'
<1> SUFFICES ASSUME RowsInv, SavesInv, PagesInv, ScreensInv, [Next]_vars
             PROVE  SoundSaves(inFlight') /\ ScreensInv'
  BY DEF SavesInv, SoundSaves, Sound, Save
<1>1. SoundSaves(inFlight)
  BY DEF SavesInv, SoundSaves
<1>2. CASE UNCHANGED <<inFlight, screen>>
  BY <1>1, <1>2 DEF ScreensInv
<1>3. ASSUME NEW s \in inFlight, ApplySave(s) \/ LoseSave(s)
      PROVE  SoundSaves(inFlight') /\ ScreensInv'
  <2>1. inFlight' \subseteq inFlight \cup {[s EXCEPT !.status = "applied"]} /\ UNCHANGED screen
    BY <1>3 DEF ApplySave, LoseSave
  <2>2. SoundSaves({[s EXCEPT !.status = "applied"]})
    BY <1>1 DEF SoundSaves, Save
  <2> QED BY <1>1, <2>1, <2>2 DEF SoundSaves, ScreensInv
<1>4. ASSUME NEW s \in inFlight, Answer(s) \/ AnswerLost(s)
      PROVE  SoundSaves(inFlight') /\ ScreensInv'
  <2>1. SoundSaves(inFlight \ {s}) /\ SoundSaves({[s EXCEPT !.status = "abandoned"]})
    BY <1>1 DEF SoundSaves, Save
  <2>2. PICK saved \in BOOLEAN,
             others \in {inFlight \ {s},
                        (inFlight \ {s}) \cup {[s EXCEPT !.status = "abandoned"]}} :
          Hear(s, saved, others)
    BY <1>4 DEF Answer, AnswerLost
  <2>3. SoundSaves(others)
    BY <2>1, <2>2 DEF SoundSaves
  <2> QED BY <1>1, <2>2, <2>3, HearIsSound
<1>5. ASSUME NEW t \in Tab, UNCHANGED screen, saveProgress(t) \/ UNCHANGED inFlight
      PROVE  SoundSaves(inFlight') /\ ScreensInv'
  BY <1>1, <1>5, PageSaveIsSound DEF ScreensInv
<1>6. ASSUME NEW t \in Tab, markLessonComplete(t)
      PROVE  SoundSaves(inFlight') /\ ScreensInv'
  <2>1. UNCHANGED screen
    BY <1>6 DEF markLessonComplete
  <2> QED BY <1>1, <1>6, <2>1, MarkIsSound DEF ScreensInv
<1>7. ASSUME NEW t \in Tab,
             \/ \E l \in Lesson : OpenPage(t, l) \/ FollowLink(t, l)
             \/ LeavePage(t) \/ PageGetsLesson(t) \/ PageLoadFails(t) \/ PageShowsLesson(t)
             \/ TimeUpdate(t) \/ Autosave(t)
      PROVE  UNCHANGED screen /\ (saveProgress(t) \/ UNCHANGED inFlight)
  BY <1>7 DEF OpenPage, FollowLink, LeavePage, PageGetsLesson, PageLoadFails, PageShowsLesson,
              TimeUpdate, Autosave
<1>8. ASSUME NEW m \in Screen, NEW l \in Lesson, OpenScreen(m, l)
      PROVE  SoundSaves(inFlight') /\ ScreensInv'
  <2> DEFINE refs == [closedScreen EXCEPT !.lesson = l, !.mounted = TRUE, !.loading = "lesson"]
  <2>1. ScreenInv(refs)
    BY DEF closedScreen, MobileScreen, ScreenInv, RefsInv
  <2>2. screen' = [screen EXCEPT ![m] = refs] /\ UNCHANGED inFlight
    BY <1>8 DEF OpenScreen
  <2> QED BY <1>1, <2>1, <2>2, OneScreen
<1>9. ASSUME NEW m \in Screen, ScreenGetsLesson(m) \/ ScreenLoadFails(m)
      PROVE  SoundSaves(inFlight') /\ ScreensInv'
  <2>1. ScreenInv(screen[m]) /\ screen[m].loading # "no"
    BY <1>9 DEF ScreensInv, ScreenGetsLesson, ScreenLoadFails
  <2>2. PICK state \in {"progress", "failed"} :
          screen' = [screen EXCEPT ![m] = [screen[m] EXCEPT !.loading = state]] /\ UNCHANGED inFlight
    BY <1>9 DEF ScreenGetsLesson, ScreenLoadFails, ScreensInv
  <2>3. ScreenInv([screen[m] EXCEPT !.loading = state])
    BY <2>1 DEF ScreenInv, RefsInv, Seeded, MobileScreen
  <2> QED BY <1>1, <2>2, <2>3, OneScreen
<1>10. ASSUME NEW m \in Screen, NEW answered \in BOOLEAN, ScreenShowsLesson(m, answered)
       PROVE  SoundSaves(inFlight') /\ ScreensInv'
  <2> DEFINE l == screen[m].lesson
             resume == getResumePositionSeconds(StoredDuration[l], row[l])
             position == IF answered THEN 10 * resume ELSE 0
             refs == [screen[m] EXCEPT !.loading = "no", !.position = position]
  <2>1. /\ ScreenInv(screen[m]) /\ screen[m].mounted /\ l \in Lesson
        /\ screen[m].duration = 0
    BY <1>10 DEF ScreensInv, ScreenInv, RefsInv, ScreenShowsLesson
  <2>2. screen' = [screen EXCEPT ![m] = refs] /\ UNCHANGED inFlight
    BY <1>10 DEF ScreenShowsLesson, ScreensInv
  <2>3. /\ resume \in Nat /\ 10 * resume \in Nat /\ floorSeconds(10 * resume) = resume
        /\ Provider[l] = "YOUTUBE" => resume = 0
        /\ Provider[l] = "MUX" =>
             resume \in Place(l) /\ ~ isComplete(MediaDuration[l], 10 * resume)
    BY <2>1, ResumeIsSound, FloorOfSeconds
  <2>4. 0 \in Place(l) /\ floorSeconds(0) = 0 /\ ~ isComplete(MediaDuration[l], 10 * 0)
    <3>1. floorSeconds(0) = 0
      BY DEF floorSeconds
    <3> QED BY <2>1, <3>1, StartIsSound
  <2> HIDE DEF resume
  <2>5. /\ position \in Nat
        /\ Provider[l] = "YOUTUBE" => position = 0
        /\ Provider[l] = "MUX" =>
             /\ floorSeconds(position) \in Place(l)
             /\ ~ isComplete(MediaDuration[l], 10 * floorSeconds(position))
    <3>1. CASE answered
      BY <3>1, <2>3
    <3>2. CASE ~ answered
      BY <3>2, <2>4
    <3> QED BY <3>1, <3>2
  <2> HIDE DEF position
  <2>6. ScreenInv(refs)
    BY <2>1, <2>5 DEF ScreenInv, RefsInv, Seeded, MobileScreen
  <2> QED BY <1>1, <2>2, <2>6, OneScreen
<1>11. ASSUME NEW m \in Screen, StatusUpdate(m)
       PROVE  SoundSaves(inFlight') /\ ScreensInv'
  <2> DEFINE l == screen[m].lesson
  <2>1. /\ ScreenInv(screen[m]) /\ screen[m].mounted /\ screen[m].loading = "no"
        /\ l \in Lesson /\ Provider[l] = "MUX"
    BY <1>11 DEF ScreensInv, ScreenInv, RefsInv, StatusUpdate
  <2>2. PICK time \in PlayerTime[l] :
          /\ screen' = [screen EXCEPT ![m] =
                          [screen[m] EXCEPT !.position = time, !.duration = MediaDuration[l]]]
          /\ UNCHANGED inFlight
    BY <1>11 DEF StatusUpdate, ScreensInv
  <2>3. time \in Nat /\ floorSeconds(time) \in Place(l) /\ MediaDuration[l] \in Nat
    BY <2>1 DEF Place
  <2>4. ScreenInv([screen[m] EXCEPT !.position = time, !.duration = MediaDuration[l]])
    BY <2>1, <2>3 DEF ScreenInv, RefsInv, Seeded, MobileScreen
  <2> QED BY <1>1, <2>2, <2>4, OneScreen
<1>12. ASSUME NEW m \in Screen, ScreenSaves(m) \/ CloseScreen(m)
       PROVE  SoundSaves(inFlight') /\ ScreensInv'
  <2>1. ScreenInv(screen[m]) /\ ScreenInv(closedScreen) /\ closedScreen.position = None
    BY DEF ScreensInv, closedScreen, MobileScreen, ScreenInv, RefsInv
  <2> DEFINE gone == [screen[m] EXCEPT !.mounted = FALSE]
  <2>2. CASE screen[m].position # None
    <3>1. RefsInv(screen[m]) /\ RefsInv(gone) /\ gone.position = screen[m].position
      BY <2>1 DEF ScreenInv, RefsInv, Seeded, MobileScreen
    <3>2. SaveFromScreen(m, screen[m]) \/ SaveFromScreen(m, gone)
      BY <1>12, <2>2 DEF ScreenSaves, CloseScreen
    <3> HIDE DEF gone
    <3> QED BY <1>1, <2>2, <3>1, <3>2, SaveIsSound
  <2>3. CASE screen[m].position = None
    <3>1. SaveFromScreen(m, closedScreen)
      BY <1>12, <2>3 DEF ScreenSaves, CloseScreen
    <3> QED BY <1>1, <2>1, <3>1, SaveIsSound DEF ScreenInv
  <2> QED BY <2>2, <2>3
<1> QED BY <1>2, <1>3, <1>4, <1>5, <1>6, <1>7, <1>8, <1>9, <1>10, <1>11, <1>12 DEF Next, vars

-----------------------------------------------------------------------------
(* What the parts keep whatever the films and the pages: their types, the    *)
(* list of updates, and what a screen remembers of the save it owes.         *)

RecentInv == recent \in Seq(Lesson) /\ ToSet(recent) = {l \in Lesson : row[l] # None}

ScreenKeeps(s) ==
  /\ s \in MobileScreen
  /\ s.mounted \/ s.position # None => s.lesson \in Lesson
  /\ s.pendingSave => s.position # None /\ s.saveInFlight
  /\ ~ s.mounted /\ s.position # None => s.pendingSave \/ s.sent = floorSeconds(s.position)

ScreensKeep == screen \in [Screen -> MobileScreen] /\ \A m \in Screen : ScreenKeeps(screen[m])

PagesKeep ==
  /\ web \in [Tab -> Page]
  /\ \A t \in Tab : web[t].loading # "no" => web[t].param \in Lesson

KeepsInv ==
  /\ row \in [Lesson -> Record \cup {None}] /\ RecentInv
  /\ inFlight \subseteq Save
  /\ PagesKeep /\ ScreensKeep
  /\ faults \in 0..MaxFaults

LEMMA KeepingStarts == Init => KeepsInv
<1> SUFFICES ASSUME Init PROVE KeepsInv
  OBVIOUS
<1>1. RecentInv
  BY DEF Init, RecentInv, ToSet
<1>2. closedPage \in Page /\ closedPage.loading = "no"
  BY DEF closedPage, Page
<1>3. ScreenKeeps(closedScreen) /\ closedScreen \in MobileScreen
  BY DEF closedScreen, MobileScreen, ScreenKeeps
<1> QED BY <1>1, <1>2, <1>3 DEF Init, KeepsInv, PagesKeep, ScreensKeep

LEMMA ResumeIsNat ==
  ASSUME NEW entry \in Record \cup {None}, NEW duration
  PROVE  getResumePositionSeconds(duration, entry) \in Nat
BY DEF getResumePositionSeconds, Record

LEMMA RowsKept == KeepsInv /\ [Next]_vars => row' \in [Lesson -> Record \cup {None}] /\ RecentInv'
<1> SUFFICES ASSUME KeepsInv, [Next]_vars
             PROVE  row' \in [Lesson -> Record \cup {None}] /\ RecentInv'
  OBVIOUS
<1>1. ASSUME NEW s \in inFlight, ApplySave(s)
      PROVE  row' \in [Lesson -> Record \cup {None}] /\ RecentInv'
  <2>1. s.lesson \in Lesson /\ s.lastPositionSeconds \in Nat /\ s.completed \in BOOLEAN
    BY DEF KeepsInv, Save
  <2> DEFINE entry == [lastPositionSeconds |-> s.lastPositionSeconds, completed |-> s.completed]
  <2>2. row' = [row EXCEPT ![s.lesson] = entry] /\ recent' = updateFirst(recent, s.lesson)
    BY <1>1 DEF ApplySave, upsert
  <2>3. entry \in Record
    BY <2>1 DEF Record
  <2> HIDE DEF entry
  <2>4. recent' \in Seq(Lesson) /\ ToSet(recent') = ToSet(recent) \cup {s.lesson}
    BY <2>1, <2>2, UpdateFirst DEF KeepsInv, RecentInv
  <2>5. {l \in Lesson : row'[l] # None} = {l \in Lesson : row[l] # None} \cup {s.lesson}
    BY <2>1, <2>2, <2>3 DEF KeepsInv
  <2> QED BY <2>1, <2>2, <2>3, <2>4, <2>5 DEF KeepsInv, RecentInv
<1>2. CASE UNCHANGED <<row, recent>>
  BY <1>2 DEF KeepsInv, RecentInv
<1>3. (\E s \in inFlight : ApplySave(s)) \/ UNCHANGED <<row, recent>>
  BY DEF Next, vars, LoseSave, Answer, AnswerLost, OpenPage, FollowLink, LeavePage,
         PageGetsLesson, PageLoadFails, PageShowsLesson, TimeUpdate, Autosave,
         markLessonComplete, OpenScreen, ScreenGetsLesson, ScreenLoadFails,
         ScreenShowsLesson, StatusUpdate, ScreenSaves, CloseScreen
<1> QED BY <1>1, <1>2, <1>3

LEMMA PagesKept == KeepsInv /\ [Next]_vars => PagesKeep'
<1> SUFFICES ASSUME KeepsInv, [Next]_vars PROVE PagesKeep'
  OBVIOUS
<1>1. ASSUME NEW t \in Tab, NEW p \in Page, p.loading # "no" => p.param \in Lesson,
             web' = [web EXCEPT ![t] = p]
      PROVE  PagesKeep'
  <2>1. web \in [Tab -> Page] /\ \A u \in Tab : web[u].loading # "no" => web[u].param \in Lesson
    BY DEF KeepsInv, PagesKeep
  <2>2. \A u \in Tab : web'[u] = IF u = t THEN p ELSE web[u]
    BY <1>1, <2>1
  <2> QED BY <1>1, <2>1, <2>2 DEF PagesKeep
<1>2. ASSUME NEW t \in Tab
      PROVE  /\ web \in [Tab -> Page] /\ web[t] \in Page
             /\ web[t].loading # "no" => web[t].param \in Lesson
  BY DEF KeepsInv, PagesKeep
<1>3. ASSUME NEW t \in Tab, NEW l \in Lesson, OpenPage(t, l) PROVE PagesKeep'
  <2> DEFINE p == [closedPage EXCEPT !.param = l, !.loading = "lesson"]
  <2>1. p \in Page /\ p.param = l
    BY DEF closedPage, Page
  <2>2. web' = [web EXCEPT ![t] = p]
    BY <1>3 DEF OpenPage
  <2> QED BY <1>1, <2>1, <2>2
<1>4. ASSUME NEW t \in Tab, NEW l \in Lesson, FollowLink(t, l) PROVE PagesKeep'
  <2> DEFINE p == [web[t] EXCEPT !.param = l, !.loading = "lesson", !.failed = FALSE,
                                 !.saveState = "idle",
                                 !.time = IF web[t].failed THEN 0 ELSE web[t].time]
  <2>1. p \in Page /\ p.param = l
    BY <1>2 DEF Page
  <2>2. web' = [web EXCEPT ![t] = p]
    BY <1>2, <1>4 DEF FollowLink
  <2> QED BY <1>1, <2>1, <2>2
<1>5. ASSUME NEW t \in Tab, LeavePage(t) PROVE PagesKeep'
  <2>1. closedPage \in Page /\ closedPage.loading = "no"
    BY DEF closedPage, Page
  <2> QED BY <1>1, <1>5, <2>1 DEF LeavePage
<1>6. ASSUME NEW t \in Tab, PageGetsLesson(t) PROVE PagesKeep'
  <2> DEFINE p == [web[t] EXCEPT !.loading = "lists"]
  <2>1. p \in Page /\ p.param \in Lesson /\ web' = [web EXCEPT ![t] = p]
    BY <1>2, <1>6 DEF Page, PageGetsLesson
  <2> QED BY <1>1, <2>1
<1>7. ASSUME NEW t \in Tab, PageLoadFails(t) PROVE PagesKeep'
  <2> DEFINE p == [web[t] EXCEPT !.loading = "no", !.failed = TRUE]
  <2>1. p \in Page /\ p.loading = "no" /\ web' = [web EXCEPT ![t] = p]
    BY <1>2, <1>7 DEF Page, PageLoadFails
  <2> QED BY <1>1, <2>1
<1>8. ASSUME NEW t \in Tab, PageShowsLesson(t) PROVE PagesKeep'
  <2> DEFINE l == web[t].param
             resume == getResumePositionSeconds(StoredDuration[l], row[l])
             time == IF l = web[t].lesson THEN web[t].time ELSE 10 * resume
             p == [web[t] EXCEPT !.loading = "no", !.lesson = l, !.time = time]
  <2>1. l \in Lesson
    BY <1>2, <1>8 DEF PageShowsLesson
  <2>2. resume \in Nat
    BY <2>1, ResumeIsNat DEF KeepsInv
  <2>3. web' = [web EXCEPT ![t] = p]
    BY <1>2, <1>8 DEF PageShowsLesson
  <2> HIDE DEF resume
  <2>4. web[t].time \in Nat /\ web[t] \in Page
    BY <1>2 DEF Page
  <2>5. time \in Nat
    BY <2>2, <2>4
  <2> HIDE DEF time
  <2>6. p \in Page /\ p.loading = "no"
    BY <2>1, <2>4, <2>5 DEF Page
  <2> HIDE DEF p
  <2> QED BY <1>1, <2>3, <2>6
<1>9. ASSUME NEW t \in Tab, TimeUpdate(t) PROVE PagesKeep'
  <2>1. web[t].lesson \in Lesson
    BY <1>2, <1>9 DEF TimeUpdate, playerMounted, Page
  <2>2. PICK time \in PlayerTime[web[t].lesson] :
          web' = [web EXCEPT ![t] = [web[t] EXCEPT !.time = time, !.playerLessonId = web[t].lesson]]
    BY <1>2, <1>9 DEF TimeUpdate
  <2> DEFINE p == [web[t] EXCEPT !.time = time, !.playerLessonId = web[t].lesson]
  <2>3. time \in Nat
    BY <2>1
  <2>4. p \in Page /\ (p.loading # "no" => p.param \in Lesson)
    BY <1>2, <2>1, <2>3 DEF Page
  <2> QED BY <1>1, <2>2, <2>4
<1>10. ASSUME NEW t \in Tab, NEW state \in {"saving", "saved", "error"},
              web' = [web EXCEPT ![t] = [web[t] EXCEPT !.saveState = state]]
       PROVE  PagesKeep'
  <2> DEFINE p == [web[t] EXCEPT !.saveState = state]
  <2>1. p \in Page /\ (p.loading # "no" => p.param \in Lesson)
    BY <1>2 DEF Page
  <2> QED BY <1>1, <1>10, <2>1
<1>11. ASSUME NEW t \in Tab, Autosave(t) \/ markLessonComplete(t) PROVE PagesKeep'
  <2>1. web' = [web EXCEPT ![t] = [web[t] EXCEPT !.saveState = "saving"]]
    BY <1>2, <1>11 DEF Autosave, markLessonComplete
  <2> QED BY <1>10, <2>1
<1>12. CASE UNCHANGED web
  BY <1>12 DEF KeepsInv, PagesKeep
<1>13. ASSUME NEW s \in inFlight, Answer(s) \/ AnswerLost(s) PROVE PagesKeep'
  <2>1. ASSUME NEW saved \in BOOLEAN, s.by \in Tab, PageHears(s, saved) PROVE PagesKeep'
    <3>1. \/ UNCHANGED web
          \/ \E state \in {"saved", "error"} :
               web' = [web EXCEPT ![s.by] = [web[s.by] EXCEPT !.saveState = state]]
      BY <1>2, <2>1 DEF PageHears
    <3> QED BY <1>10, <1>12, <2>1, <3>1
  <2> QED BY <1>12, <1>13, <2>1 DEF Answer, AnswerLost, Hear
<1>14. ASSUME NEW s \in inFlight, ApplySave(s) \/ LoseSave(s) PROVE UNCHANGED web
  BY <1>14 DEF ApplySave, LoseSave
<1>15. ASSUME NEW m \in Screen,
              \/ \E l \in Lesson : OpenScreen(m, l)
              \/ ScreenGetsLesson(m) \/ ScreenLoadFails(m)
              \/ \E answered \in BOOLEAN : ScreenShowsLesson(m, answered)
              \/ StatusUpdate(m) \/ ScreenSaves(m) \/ CloseScreen(m)
       PROVE  UNCHANGED web
  BY <1>15 DEF OpenScreen, ScreenGetsLesson, ScreenLoadFails, ScreenShowsLesson, StatusUpdate,
              ScreenSaves, CloseScreen
<1> QED BY <1>3, <1>4, <1>5, <1>6, <1>7, <1>8, <1>9, <1>11, <1>12, <1>13, <1>14, <1>15 DEF Next, vars

LEMMA ScreenKept ==
  ASSUME ScreensKeep, NEW m \in Screen, NEW refs, ScreenKeeps(refs),
         screen' = [screen EXCEPT ![m] = refs]
  PROVE  ScreensKeep'
<1>1. screen \in [Screen -> MobileScreen] /\ refs \in MobileScreen
  BY DEF ScreensKeep, ScreenKeeps
<1>2. screen' \in [Screen -> MobileScreen] /\ \A n \in Screen : screen'[n] = IF n = m THEN refs ELSE screen[n]
  BY <1>1
<1>3. \A n \in Screen : ScreenKeeps(screen[n])
  BY DEF ScreensKeep
<1> HIDE DEF ScreensKeep
<1>4. ASSUME NEW n \in Screen PROVE ScreenKeeps(screen'[n])
  <2>1. CASE n = m
    BY <1>2, <2>1
  <2>2. CASE n # m
    <3>1. screen'[n] = screen[n]
      BY <1>2, <2>2
    <3> QED BY <1>3, <3>1
  <2> QED BY <2>1, <2>2
<1> QED BY <1>2, <1>4 DEF ScreensKeep, ScreenKeeps

LEMMA SendKept ==
  ASSUME ScreensKeep, NEW m \in Screen, NEW refs \in MobileScreen,
         refs.lesson \in Lesson, refs.position # None,
         NEW others \in SUBSET Save, SendFrom(m, [refs |-> refs, others |-> others])
  PROVE  inFlight' \subseteq Save /\ ScreensKeep'
<1> DEFINE seconds == floorSeconds(refs.position)
           complete == isComplete(refs.duration, refs.position)
           save == [by |-> m, lesson |-> refs.lesson, lastPositionSeconds |-> seconds,
                    completed |-> complete, status |-> "sent"]
           sent == [refs EXCEPT !.saveInFlight = TRUE, !.pendingSave = FALSE, !.sent = seconds]
<1>1. inFlight' = others \cup {save} /\ screen' = [screen EXCEPT ![m] = sent]
  BY DEF SendFrom
<1>2. refs.position \in Nat
  BY DEF MobileScreen
<1>3. seconds \in Nat
  BY <1>2, Floor
<1>4. complete \in BOOLEAN
  BY DEF isComplete
<1> HIDE DEF complete
<1>5. inFlight' \subseteq Save
  <2>1. save \in Save
    BY <1>3, <1>4 DEF Save
  <2> HIDE DEF save
  <2> QED BY <1>1, <2>1
<1>6. ScreenKeeps(sent)
  <2>1. /\ sent \in MobileScreen
        /\ sent.lesson = refs.lesson /\ sent.position = refs.position
        /\ sent.pendingSave = FALSE /\ sent.sent = seconds
    BY <1>3 DEF MobileScreen
  <2> HIDE DEF sent
  <2> QED BY <2>1 DEF ScreenKeeps
<1> HIDE DEF sent
<1> QED BY <1>1, <1>5, <1>6, ScreenKept

\* What may be handed to a save of the screen: it keeps its own, or has just gone.
LEMMA SaveKept ==
  ASSUME ScreensKeep, inFlight \subseteq Save, NEW m \in Screen, NEW refs \in MobileScreen,
         refs.mounted \/ refs.position # None => refs.lesson \in Lesson,
         refs.position = None => ~ refs.pendingSave, SaveFromScreen(m, refs)
  PROVE  inFlight' \subseteq Save /\ ScreensKeep'
<1>1. CASE refs.position = None
  <2>1. ScreenKeeps(refs)
    BY <1>1 DEF ScreenKeeps
  <2> QED BY <1>1, <2>1, ScreenKept DEF SaveFromScreen
<1>2. CASE refs.position # None /\ refs.saveInFlight
  <2>1. /\ screen' = [screen EXCEPT ![m] = [refs EXCEPT !.pendingSave = TRUE]]
        /\ UNCHANGED inFlight
    BY <1>2 DEF SaveFromScreen
  <2>2. ScreenKeeps([refs EXCEPT !.pendingSave = TRUE])
    BY <1>2 DEF ScreenKeeps, MobileScreen
  <2> QED BY <2>1, <2>2, ScreenKept
<1>3. CASE refs.position # None /\ ~ refs.saveInFlight
  <2>1. SendFrom(m, [refs |-> refs, others |-> inFlight])
    BY <1>3 DEF SaveFromScreen
  <2> QED BY <1>3, <2>1, SendKept
<1> QED BY <1>1, <1>2, <1>3

LEMMA PostKept ==
  ASSUME inFlight \subseteq Save, NEW t \in Tab, NEW l \in Lesson, NEW position \in Nat,
         NEW completed \in BOOLEAN, Post(t, l, position, completed)
  PROVE  inFlight' \subseteq Save
BY DEF Post, Save

LEMMA PageSaveKept ==
  ASSUME PagesKeep, inFlight \subseteq Save, NEW t \in Tab, saveProgress(t)
  PROVE  inFlight' \subseteq Save
<1>1. CASE UNCHANGED inFlight
  BY <1>1
<1>2. CASE canSaveProgress(web[t])
  <2> DEFINE seconds == floorSeconds(web[t].time)
             complete == isComplete(MediaDuration[web[t].param], 10 * seconds)
  <2>1. Post(t, web[t].param, seconds, complete)
    BY <1>2 DEF saveProgress
  <2>2. web[t] \in Page
    BY DEF PagesKeep
  <2>3. web[t].param \in Lesson /\ web[t].time \in Nat
    BY <1>2, <2>2 DEF canSaveProgress, Page
  <2>4. seconds \in Nat
    BY <2>3, Floor
  <2>5. complete \in BOOLEAN
    BY DEF isComplete
  <2> HIDE DEF seconds, complete
  <2> QED BY <2>1, <2>3, <2>4, <2>5, PostKept
<1> QED BY <1>1, <1>2 DEF saveProgress

LEMMA MarkKept ==
  ASSUME KeepsInv, NEW t \in Tab, markLessonComplete(t)
  PROVE  inFlight' \subseteq Save
<1> DEFINE l == web[t].lesson
<1>1. l \in Lesson /\ row[l] \in Record \cup {None}
  <2>1. web[t] \in Page
    BY DEF KeepsInv, PagesKeep
  <2> QED BY <2>1 DEF markLessonComplete, KeepsInv, Page
<1>2. PICK known \in {0} \cup (IF row[l] = None THEN {} ELSE {row[l].lastPositionSeconds}) :
        Post(t, l, IF StoredDuration[l] # None THEN StoredDuration[l] ELSE Max({known, 1}), TRUE)
  BY DEF markLessonComplete
<1>3. known \in Nat
  BY <1>1, <1>2 DEF Record
<1>4. Max({known, 1}) \in Nat
  <2>1. \E x \in {known, 1} : \A y \in {known, 1} : x >= y
    BY <1>3
  <2>2. Max({known, 1}) \in {known, 1}
    BY <2>1 DEF Max
  <2> QED BY <1>3, <2>2
<1> DEFINE position == IF StoredDuration[l] # None THEN StoredDuration[l] ELSE Max({known, 1})
<1>5. position \in Nat
  BY <1>1, <1>4
<1> HIDE DEF position, l
<1>6. Post(t, l, position, TRUE)
  BY <1>2 DEF position, l
<1> QED BY <1>1, <1>5, <1>6, PostKept DEF KeepsInv

LEMMA HearKept ==
  ASSUME ScreensKeep, NEW s \in inFlight, NEW saved, NEW others \in SUBSET Save, Hear(s, saved, others)
  PROVE  inFlight' \subseteq Save /\ ScreensKeep'
<1>1. CASE inFlight' = others /\ UNCHANGED screen
  BY <1>1 DEF ScreensKeep
<1>2. CASE s.by \in Screen /\ ScreenHears(s, others)
  <2> DEFINE m == s.by
             refs == [screen[m] EXCEPT !.saveInFlight = FALSE]
  <2>1. ScreenKeeps(screen[m]) /\ screen[m] \in MobileScreen
    BY <1>2 DEF ScreensKeep
  <2>2. /\ refs \in MobileScreen /\ refs.lesson = screen[m].lesson
        /\ refs.position = screen[m].position /\ refs.pendingSave = screen[m].pendingSave
        /\ refs.mounted = screen[m].mounted /\ refs.sent = screen[m].sent
    BY <2>1 DEF MobileScreen
  <2>3. CASE refs.pendingSave
    <3>1. SendFrom(m, [refs |-> refs, others |-> others])
      BY <1>2, <2>3 DEF ScreenHears
    <3>2. refs.position # None /\ refs.lesson \in Lesson
      BY <2>1, <2>2, <2>3 DEF ScreenKeeps
    <3> HIDE DEF refs
    <3> QED BY <1>2, <2>2, <3>1, <3>2, SendKept
  <2>4. CASE ~ refs.pendingSave
    <3>1. /\ screen' = [screen EXCEPT ![m] = IF refs.mounted THEN refs ELSE closedScreen]
          /\ inFlight' = others
      BY <1>2, <2>4 DEF ScreenHears
    <3>2. ScreenKeeps(closedScreen)
      BY DEF closedScreen, MobileScreen, ScreenKeeps
    <3> HIDE DEF refs
    <3>3. ScreenKeeps(refs)
      BY <2>1, <2>2, <2>4 DEF ScreenKeeps
    <3> QED BY <1>2, <3>1, <3>2, <3>3, ScreenKept
  <2> QED BY <2>3, <2>4
<1> QED BY <1>1, <1>2 DEF Hear

LEMMA RequestsKept == KeepsInv /\ [Next]_vars => inFlight' \subseteq Save /\ ScreensKeep'
<1> SUFFICES ASSUME KeepsInv, [Next]_vars PROVE inFlight' \subseteq Save /\ ScreensKeep'
  OBVIOUS
<1>1. inFlight \subseteq Save /\ ScreensKeep /\ PagesKeep
  BY DEF KeepsInv
<1>2. CASE UNCHANGED <<inFlight, screen>>
  BY <1>1, <1>2 DEF ScreensKeep
<1>3. ASSUME NEW s \in inFlight, ApplySave(s) \/ LoseSave(s)
      PROVE  inFlight' \subseteq Save /\ ScreensKeep'
  <2>1. inFlight' \subseteq inFlight \cup {[s EXCEPT !.status = "applied"]} /\ UNCHANGED screen
    BY <1>3 DEF ApplySave, LoseSave
  <2>2. s \in Save => [s EXCEPT !.status = "applied"] \in Save
    BY DEF Save
  <2> QED BY <1>1, <2>1, <2>2 DEF ScreensKeep
<1>4. ASSUME NEW s \in inFlight, Answer(s) \/ AnswerLost(s)
      PROVE  inFlight' \subseteq Save /\ ScreensKeep'
  <2>1. s \in Save => [s EXCEPT !.status = "abandoned"] \in Save
    BY DEF Save
  <2>2. PICK saved \in BOOLEAN,
             others \in {inFlight \ {s},
                        (inFlight \ {s}) \cup {[s EXCEPT !.status = "abandoned"]}} :
          Hear(s, saved, others)
    BY <1>4 DEF Answer, AnswerLost
  <2>3. others \in SUBSET Save
    BY <1>1, <2>1, <2>2
  <2> QED BY <1>1, <2>2, <2>3, HearKept
<1>5. ASSUME NEW t \in Tab, UNCHANGED screen, saveProgress(t) \/ UNCHANGED inFlight
      PROVE  inFlight' \subseteq Save /\ ScreensKeep'
  BY <1>1, <1>5, PageSaveKept DEF ScreensKeep
<1>6. ASSUME NEW t \in Tab, markLessonComplete(t)
      PROVE  inFlight' \subseteq Save /\ ScreensKeep'
  <2>1. UNCHANGED screen
    BY <1>6 DEF markLessonComplete
  <2> QED BY <1>1, <1>6, <2>1, MarkKept DEF ScreensKeep
<1>7. ASSUME NEW t \in Tab,
             \/ \E l \in Lesson : OpenPage(t, l) \/ FollowLink(t, l)
             \/ LeavePage(t) \/ PageGetsLesson(t) \/ PageLoadFails(t) \/ PageShowsLesson(t)
             \/ TimeUpdate(t) \/ Autosave(t)
      PROVE  UNCHANGED screen /\ (saveProgress(t) \/ UNCHANGED inFlight)
  BY <1>7 DEF OpenPage, FollowLink, LeavePage, PageGetsLesson, PageLoadFails, PageShowsLesson,
              TimeUpdate, Autosave
<1>8. ASSUME NEW m \in Screen
      PROVE  ScreenKeeps(screen[m]) /\ screen[m] \in MobileScreen /\ screen \in [Screen -> MobileScreen]
  BY <1>1 DEF ScreensKeep
<1>9. ASSUME NEW m \in Screen, NEW l \in Lesson, OpenScreen(m, l)
      PROVE  inFlight' \subseteq Save /\ ScreensKeep'
  <2> DEFINE refs == [closedScreen EXCEPT !.lesson = l, !.mounted = TRUE, !.loading = "lesson"]
  <2>1. ScreenKeeps(refs)
    BY DEF closedScreen, MobileScreen, ScreenKeeps
  <2>2. screen' = [screen EXCEPT ![m] = refs] /\ UNCHANGED inFlight
    BY <1>9 DEF OpenScreen
  <2> QED BY <1>1, <2>1, <2>2, ScreenKept
<1>10. ASSUME NEW m \in Screen, ScreenGetsLesson(m) \/ ScreenLoadFails(m)
       PROVE  inFlight' \subseteq Save /\ ScreensKeep'
  <2>1. PICK state \in {"progress", "failed"} :
          screen' = [screen EXCEPT ![m] = [screen[m] EXCEPT !.loading = state]] /\ UNCHANGED inFlight
    BY <1>8, <1>10 DEF ScreenGetsLesson, ScreenLoadFails
  <2>2. ScreenKeeps([screen[m] EXCEPT !.loading = state])
    BY <1>8 DEF ScreenKeeps, MobileScreen
  <2> QED BY <1>1, <2>1, <2>2, ScreenKept
<1>11. ASSUME NEW m \in Screen, NEW answered \in BOOLEAN, ScreenShowsLesson(m, answered)
       PROVE  inFlight' \subseteq Save /\ ScreensKeep'
  <2> DEFINE l == screen[m].lesson
             resume == getResumePositionSeconds(StoredDuration[l], row[l])
             position == IF answered THEN 10 * resume ELSE 0
             refs == [screen[m] EXCEPT !.loading = "no", !.position = position]
  <2>1. screen[m].mounted /\ l \in Lesson
    BY <1>8, <1>11 DEF ScreenKeeps, ScreenShowsLesson
  <2>2. screen' = [screen EXCEPT ![m] = refs] /\ UNCHANGED inFlight
    BY <1>8, <1>11 DEF ScreenShowsLesson
  <2>3. resume \in Nat
    BY <2>1, ResumeIsNat DEF KeepsInv
  <2> HIDE DEF resume
  <2>4. position \in Nat
    BY <2>3
  <2> HIDE DEF position
  <2>5. ScreenKeeps(refs)
    BY <1>8, <2>1, <2>4 DEF ScreenKeeps, MobileScreen
  <2> QED BY <1>1, <2>2, <2>5, ScreenKept
<1>12. ASSUME NEW m \in Screen, StatusUpdate(m)
       PROVE  inFlight' \subseteq Save /\ ScreensKeep'
  <2> DEFINE l == screen[m].lesson
  <2>1. screen[m].mounted /\ l \in Lesson
    BY <1>8, <1>12 DEF ScreenKeeps, StatusUpdate
  <2>2. PICK time \in PlayerTime[l] :
          /\ screen' = [screen EXCEPT ![m] =
                          [screen[m] EXCEPT !.position = time, !.duration = MediaDuration[l]]]
          /\ UNCHANGED inFlight
    BY <1>8, <1>12 DEF StatusUpdate
  <2>3. time \in Nat /\ MediaDuration[l] \in Nat
    BY <2>1
  <2>4. ScreenKeeps([screen[m] EXCEPT !.position = time, !.duration = MediaDuration[l]])
    BY <1>8, <2>1, <2>3 DEF ScreenKeeps, MobileScreen
  <2> QED BY <1>1, <2>2, <2>4, ScreenKept
<1>13. ASSUME NEW m \in Screen, ScreenSaves(m) \/ CloseScreen(m)
       PROVE  inFlight' \subseteq Save /\ ScreensKeep'
  <2> DEFINE gone == [screen[m] EXCEPT !.mounted = FALSE]
  <2>1. CASE screen[m].position # None
    <3>1. /\ gone \in MobileScreen /\ gone.lesson = screen[m].lesson
          /\ gone.position = screen[m].position
          /\ screen[m].lesson \in Lesson
      BY <1>8, <2>1 DEF ScreenKeeps, MobileScreen
    <3>2. SaveFromScreen(m, screen[m]) \/ SaveFromScreen(m, gone)
      BY <1>13, <2>1 DEF ScreenSaves, CloseScreen
    <3> HIDE DEF gone
    <3> QED BY <1>1, <1>8, <2>1, <3>1, <3>2, SaveKept
  <2>2. CASE screen[m].position = None
    <3>1. SaveFromScreen(m, closedScreen)
      BY <1>13, <2>2 DEF ScreenSaves, CloseScreen
    <3>2. /\ closedScreen \in MobileScreen /\ ~ closedScreen.mounted
          /\ closedScreen.position = None /\ ~ closedScreen.pendingSave
      BY DEF closedScreen, MobileScreen
    <3> QED BY <1>1, <3>1, <3>2, SaveKept
  <2> QED BY <2>1, <2>2
<1> QED BY <1>2, <1>3, <1>4, <1>5, <1>6, <1>7, <1>9, <1>10, <1>11, <1>12, <1>13 DEF Next, vars

LEMMA KeepsInvariant == Spec => []KeepsInv
<1>1. KeepsInv /\ [Next]_vars => faults' \in 0..MaxFaults
  <2> SUFFICES ASSUME KeepsInv, [Next]_vars PROVE faults' \in 0..MaxFaults
    OBVIOUS
  <2>1. UNCHANGED faults \/ (faults < MaxFaults /\ faults' = faults + 1)
    <3>1. ASSUME NEW s \in inFlight, ApplySave(s) \/ LoseSave(s) \/ Answer(s) \/ AnswerLost(s)
          PROVE  UNCHANGED faults \/ (faults < MaxFaults /\ faults' = faults + 1)
      BY <3>1 DEF ApplySave, LoseSave, Answer, AnswerLost
    <3>2. ASSUME NEW t \in Tab,
                 \/ \E l \in Lesson : OpenPage(t, l) \/ FollowLink(t, l)
                 \/ LeavePage(t) \/ PageGetsLesson(t) \/ PageLoadFails(t)
                 \/ PageShowsLesson(t) \/ TimeUpdate(t) \/ Autosave(t) \/ markLessonComplete(t)
          PROVE  UNCHANGED faults \/ (faults < MaxFaults /\ faults' = faults + 1)
      BY <3>2 DEF OpenPage, FollowLink, LeavePage, PageGetsLesson, PageLoadFails, PageShowsLesson,
                  TimeUpdate, Autosave, markLessonComplete
    <3>3. ASSUME NEW m \in Screen,
                 \/ \E l \in Lesson : OpenScreen(m, l)
                 \/ ScreenGetsLesson(m) \/ ScreenLoadFails(m)
                 \/ \E answered \in BOOLEAN : ScreenShowsLesson(m, answered)
                 \/ StatusUpdate(m) \/ ScreenSaves(m) \/ CloseScreen(m)
          PROVE  UNCHANGED faults \/ (faults < MaxFaults /\ faults' = faults + 1)
      BY <3>3 DEF OpenScreen, ScreenGetsLesson, ScreenLoadFails, ScreenShowsLesson, StatusUpdate,
                  ScreenSaves, CloseScreen
    <3> QED BY <3>1, <3>2, <3>3 DEF Next, vars
  <2> QED BY <2>1 DEF KeepsInv
<1>2. KeepsInv /\ [Next]_vars => KeepsInv'
  BY <1>1, RowsKept, PagesKept, RequestsKept DEF KeepsInv
<1> QED BY <1>2, KeepingStarts, PTL DEF Spec

-----------------------------------------------------------------------------
(* The theorems.                                                             *)

\* For films of ten seconds and more, and pages that do not return to a lesson before the
\* player shown reports, what is stored and sent is sound.
LEMMA WatchingInvariant ==
  ASSUME ~ TurnsBack, FilmsAreLong
  PROVE  Spec => []WatchingInv
<1>1. WatchingInv /\ [Next]_vars => WatchingInv'
  BY RowsStep, PagesStep, RequestsStep DEF WatchingInv
<1> QED BY <1>1, WatchingStarts, PTL DEF Spec

\* Every row is a place its own lesson's player was at, or a mark, and complete exactly
\* there, whichever clients saved it and in whatever order the saves arrived
\* (saveProgress of the lesson page and of LessonScreen).
THEOREM RowsHold ==
  ASSUME ~ TurnsBack, FilmsAreLong
  PROVE  Spec => []RowsAreOfTheirLesson
<1>1. WatchingInv => RowsAreOfTheirLesson
  <2> SUFFICES ASSUME RowsInv PROVE RowsAreOfTheirLesson
    BY DEF WatchingInv
  <2>1. ASSUME NEW l \in Lesson, row[l] # None
        PROVE  /\ Sound(l, row[l].lastPositionSeconds, row[l].completed)
               /\ Provider[l] \in {"MUX", "YOUTUBE"}
    BY <2>1 DEF RowsInv
  <2> QED BY <2>1 DEF RowsAreOfTheirLesson, Sound, Place, Mark
<1> QED BY <1>1, WatchingInvariant, PTL

\* Rows, requests, pages and screens keep their types, whatever the films and however the
\* pages turn (the progress rows, the page's state, the screen's refs).
THEOREM WatchingTypes == Spec => []TypeOK
<1>1. KeepsInv => TypeOK
  BY DEF KeepsInv, RecentInv, PagesKeep, ScreensKeep, TypeOK
<1> QED BY <1>1, KeepsInvariant, PTL

\* A stored duration that was measured is the player's, rounded; a lesson may have none.
StoredAsMeasured ==
  \A l \in Lesson : Provider[l] = "MUX" =>
    StoredDuration[l] \in {None, roundSeconds(MediaDuration[l])}

\* An unfinished place leaves the margin of the rounded duration too.
LEMMA RoundingKeepsMargin ==
  ASSUME NEW media \in Nat, NEW position \in Nat, ~ isComplete(media, 10 * position), media > 0
  PROVE  roundSeconds(media) >= position + LESSON_COMPLETION_MARGIN_SECONDS
BY DEF isComplete, roundSeconds, LESSON_COMPLETION_MARGIN_SECONDS

LEMMA ResumesWhereSaved ==
  ASSUME RowsInv, NEW l \in Lesson, row[l] # None,
         \/ StoredDuration[l] \in {None, roundSeconds(MediaDuration[l])}
         \/ Provider[l] = "YOUTUBE"
  PROVE  getResumePositionSeconds(StoredDuration[l], row[l])
           = IF row[l].completed THEN 0 ELSE row[l].lastPositionSeconds
<1> DEFINE position == row[l].lastPositionSeconds
<1>1. /\ position \in Nat /\ row[l].completed \in BOOLEAN
      /\ Sound(l, position, row[l].completed)
  BY DEF RowsInv, Record
<1>2. CASE row[l].completed
  BY <1>2 DEF getResumePositionSeconds
<1>3. CASE ~ row[l].completed /\ Provider[l] = "YOUTUBE"
  BY <1>1, <1>3 DEF Sound, getResumePositionSeconds
<1>4. CASE ~ row[l].completed /\ Provider[l] # "YOUTUBE"
  <2>1. ~ isComplete(MediaDuration[l], 10 * position) /\ MediaDuration[l] \in Nat
    BY <1>1, <1>4 DEF Sound
  <2>2. StoredDuration[l] \in {None, roundSeconds(MediaDuration[l])}
    BY <1>4
  <2>3. CASE MediaDuration[l] = 0
    <3>1. roundSeconds(MediaDuration[l]) = 0
      BY <2>3 DEF roundSeconds
    <3> QED BY <1>4, <2>2, <3>1 DEF getResumePositionSeconds
  <2>4. CASE MediaDuration[l] > 0
    <3>1. roundSeconds(MediaDuration[l]) >= position + LESSON_COMPLETION_MARGIN_SECONDS
      BY <1>1, <2>1, <2>4, RoundingKeepsMargin
    <3>2. roundSeconds(MediaDuration[l]) \in Nat
      BY <2>1 DEF roundSeconds
    <3>3. ~ (StoredDuration[l] \notin {None, 0}
               /\ position + LESSON_COMPLETION_MARGIN_SECONDS > StoredDuration[l])
      BY <1>1, <2>2, <3>1, <3>2 DEF LESSON_COMPLETION_MARGIN_SECONDS
    <3> QED BY <1>4, <3>3 DEF getResumePositionSeconds
  <2> QED BY <2>1, <2>3, <2>4
<1> QED BY <1>1, <1>2, <1>3, <1>4

\* Where a lesson resumes never contradicts how it was saved (getResumePositionSeconds,
\* saveProgress).
THEOREM ResumeAgrees ==
  ASSUME ~ TurnsBack, FilmsAreLong
  PROVE  Spec => []ResumeAgreesWithCompletion
<1>1. WatchingInv => ResumeAgreesWithCompletion
  BY ResumesWhereSaved DEF WatchingInv, ResumeAgreesWithCompletion
<1> QED BY <1>1, WatchingInvariant, PTL

\* A percentage of an unfinished lesson stays below 100.
LEMMA PercentOfUnfinished ==
  ASSUME NEW entry \in Record, ~ entry.completed, NEW duration \in Nat \cup {None}
  PROVE  getLessonProgressPercent(duration, entry) < 100
<1>1. entry # None /\ entry.lastPositionSeconds \in Nat
  BY DEF Record
<1>2. CASE duration \notin {None, 0}
  <2> DEFINE ratio == roundRatio(100 * entry.lastPositionSeconds, duration)
             capped == Min({99, ratio})
  <2>1. duration \in Nat /\ 2 * duration > 0 /\ 2 * duration \in Nat
    BY <1>2
  <2>2. ratio \in Int
    <3>1. 2 * (100 * entry.lastPositionSeconds) + duration \in Nat
      BY <1>1, <2>1
    <3> QED BY <2>1, <3>1 DEF roundRatio
  <2> HIDE DEF ratio
  <2>3. capped \in Int /\ capped =< 99
    <3>1. \E x \in {99, ratio} : \A y \in {99, ratio} : x =< y
      BY <2>2
    <3>2. capped \in {99, ratio} /\ \A y \in {99, ratio} : capped =< y
      BY <3>1 DEF Min
    <3> QED BY <2>2, <3>2
  <2> HIDE DEF capped
  <2>4. Max({4, capped}) < 100
    <3>1. \E x \in {4, capped} : \A y \in {4, capped} : x >= y
      BY <2>3
    <3>2. Max({4, capped}) \in {4, capped}
      BY <3>1 DEF Max
    <3> QED BY <2>3, <3>2
  <2>5. getLessonProgressPercent(duration, entry) = Max({4, capped})
    BY <1>1, <1>2 DEF getLessonProgressPercent, capped, ratio
  <2> QED BY <2>4, <2>5
<1>3. CASE duration \in {None, 0}
  <2>1. getLessonProgressPercent(duration, entry)
          = IF entry.lastPositionSeconds > 0 THEN STARTED_LESSON_FALLBACK_PERCENT ELSE 0
    BY <1>1, <1>3 DEF getLessonProgressPercent
  <2> QED BY <2>1 DEF STARTED_LESSON_FALLBACK_PERCENT
<1> QED BY <1>2, <1>3

\* Where filmed lessons store the duration they have, the library offers to continue exactly
\* what resumes somewhere (buildContinueWatching, getResumePositionSeconds).
THEOREM ContinueResumes ==
  ASSUME ~ TurnsBack, FilmsAreLong, StoredAsMeasured
  PROVE  Spec => []ContinueIsResumable
<1> DEFINE resume(l) == getResumePositionSeconds(StoredDuration[l], row[l])
           begun(l) == /\ row[l].completed \/ row[l].lastPositionSeconds > 0
                       /\ percentOf(row, l) < 100
<1>1. WatchingInv /\ KeepsInv => ContinueIsResumable
  <2> SUFFICES ASSUME WatchingInv, KeepsInv PROVE ContinueIsResumable
    OBVIOUS
  <2>1. /\ ToSet(recent) = {l \in Lesson : row[l] # None}
        /\ row \in [Lesson -> Record \cup {None}] /\ RowsInv
    BY DEF WatchingInv, KeepsInv, RecentInv
  <2>2. ASSUME NEW l \in Lesson, row[l] # None PROVE begun(l) <=> resume(l) > 0
    <3>1. /\ row[l] \in Record /\ row[l].completed \in BOOLEAN /\ row[l].lastPositionSeconds \in Nat
          /\ StoredDuration[l] \in Nat \cup {None}
      BY <2>1, <2>2 DEF Record
    <3>2. resume(l) = IF row[l].completed THEN 0 ELSE row[l].lastPositionSeconds
      <4>1. \/ StoredDuration[l] \in {None, roundSeconds(MediaDuration[l])}
            \/ Provider[l] = "YOUTUBE"
        BY DEF StoredAsMeasured
      <4> QED BY <2>1, <2>2, <4>1, ResumesWhereSaved
    <3>3. CASE row[l].completed
      <4>1. percentOf(row, l) = 100
        BY <2>2, <3>3 DEF percentOf, getLessonProgressPercent
      <4> HIDE DEF resume
      <4> QED BY <3>2, <3>3, <4>1
    <3>4. CASE ~ row[l].completed
      <4>1. percentOf(row, l) < 100
        BY <3>1, <3>4, PercentOfUnfinished DEF percentOf
      <4> HIDE DEF resume
      <4> QED BY <3>1, <3>2, <3>4, <4>1
    <3> QED BY <3>1, <3>3, <3>4
  <2>3. ASSUME NEW l \in Lesson, row[l] = None PROVE resume(l) = 0
    BY <2>3 DEF getResumePositionSeconds
  <2> HIDE DEF begun, resume
  <2>4. {l \in ToSet(recent) : begun(l)} = {l \in Lesson : resume(l) > 0}
    BY <2>1, <2>2, <2>3
  <2> QED BY <2>4 DEF ContinueIsResumable, buildContinueWatching, begun, resume
<1> QED BY <1>1, WatchingInvariant, KeepsInvariant, PTL

\* Whatever was watched and wherever, the next, the continued and the recommended lesson are
\* unfinished while the course has one (buildCourseProgress, buildLessonQueue,
\* buildRecommendation).
THEOREM NextIsUnfinished == Spec => []WhatNextIsUnfinished
<1>1. KeepsInv => WhatNextIsUnfinished
  <2> SUFFICES ASSUME KeepsInv, NEW k \in DOMAIN Courses
               PROVE  LET course == Courses[k]
                          open == {l \in ToSet(course) : ~ isFinished(row, l)}
                          summary == buildCourseProgress(course, row, recent)
                          advice == buildRecommendation(k, row, recent)
                      IN /\ open # {} => {summary.continueLessonId, summary.nextLessonId,
                                          advice.lessonId} \subseteq open
                         /\ advice.reason = "next_course" => open = {}
                         /\ \A l \in Lesson :
                              LET queue == buildLessonQueue(course, row, l)
                              IN \A i \in DOMAIN course :
                                   queue[i].isNext => course[i] \in open \ {l}
    BY DEF WhatNextIsUnfinished
  <2> DEFINE course == Courses[k]
             open == {l \in ToSet(course) : ~ isFinished(row, l)}
             summary == buildCourseProgress(course, row, recent)
             advice == buildRecommendation(k, row, recent)
             begun == {l \in ToSet(course) \cap unfinished(row) : percentOf(row, l) > 0}
  <2>1. /\ course \in Seq(Lesson) /\ recent \in Seq(Lesson)
        /\ ToSet(course) \subseteq Lesson
    BY DEF KeepsInv, RecentInv, ToSet
  <2>2. ToSet(course) \cap unfinished(row) = open /\ begun \subseteq open /\ None \notin open
    BY <2>1 DEF unfinished
  <2>3. IF open = {} THEN nextLesson(course, row) = None ELSE nextLesson(course, row) \in open
    BY <2>1, <2>2, FirstIn DEF nextLesson
  <2>4. \/ inProgressLesson(course, row, recent) = None
        \/ inProgressLesson(course, row, recent) \in open
    BY <2>1, <2>2, FirstIn DEF inProgressLesson
  <2>5. /\ summary.inProgressLessonId = inProgressLesson(course, row, recent)
        /\ summary.nextLessonId = nextLesson(course, row)
        /\ summary.inProgressLessonId # None =>
             summary.continueLessonId = inProgressLesson(course, row, recent)
        /\ summary.inProgressLessonId = None /\ summary.nextLessonId # None =>
             summary.continueLessonId = nextLesson(course, row)
    BY DEF buildCourseProgress
  <2> HIDE DEF course, summary, open, begun
  <2>6. /\ summary.inProgressLessonId # None =>
             advice.lessonId = summary.inProgressLessonId /\ advice.reason = "resume_lesson"
        /\ summary.inProgressLessonId = None /\ summary.nextLessonId # None =>
             /\ advice.lessonId = summary.nextLessonId
             /\ advice.reason \in {"next_lesson", "start_course"}
    BY DEF buildRecommendation, summary, course
  <2> HIDE DEF advice
  <2>7. open # {} => {summary.continueLessonId, summary.nextLessonId, advice.lessonId} \subseteq open
    BY <2>2, <2>3, <2>4, <2>5, <2>6
  <2>8. advice.reason = "next_course" => open = {}
    BY <2>2, <2>3, <2>4, <2>5, <2>6
  <2>9. ASSUME NEW l \in Lesson, NEW i \in DOMAIN course, buildLessonQueue(course, row, l)[i].isNext
        PROVE  course[i] \in open \ {l}
    <3>1. course[i] = nextLesson(course, row) /\ course[i] # l
      BY <2>9 DEF buildLessonQueue
    <3>2. course[i] # None
      BY <2>1, <2>9 DEF ToSet
    <3> QED BY <2>3, <3>1, <3>2
  <2> QED BY <2>7, <2>8, <2>9 DEF course, open, summary, advice
<1> QED BY <1>1, KeepsInvariant, PTL

\* A screen that is gone has sent the very place where it stopped before it falls silent,
\* however its saves were answered (saveInFlightRef and pendingSaveRef of LessonScreen).
THEOREM LastPositionIsSent == Spec => LastPositionSent
<1>1. KeepsInv /\ [Next]_vars =>
        [\A m \in Screen :
           /\ ~ screen[m].mounted /\ screen[m].position # None
           /\ ~ screen'[m].saveInFlight
           => screen[m].sent = floorSeconds(screen[m].position)]_vars
  <2> SUFFICES ASSUME ScreensKeep, [Next]_vars, NEW m \in Screen,
                      ~ screen[m].mounted, screen[m].position # None,
                      ~ screen'[m].saveInFlight
               PROVE  ~ screen[m].pendingSave
    BY DEF KeepsInv, ScreensKeep, ScreenKeeps
  <2>1. screen \in [Screen -> MobileScreen] /\ ScreenKeeps(screen[m])
    BY DEF ScreensKeep
  <2>2. CASE screen'[m] = screen[m]
    BY <2>1, <2>2 DEF ScreenKeeps
  <2>3. ASSUME NEW s \in inFlight, NEW others, s.by = m, ScreenHears(s, others)
        PROVE  ~ screen[m].pendingSave
    <3> SUFFICES ASSUME screen[m].pendingSave PROVE FALSE
      OBVIOUS
    <3> DEFINE refs == [screen[m] EXCEPT !.saveInFlight = FALSE]
    <3>1. refs.pendingSave /\ refs \in MobileScreen
      BY <2>1 DEF MobileScreen
    <3>2. SendFrom(m, [refs |-> refs, others |-> others])
      BY <2>3, <3>1 DEF ScreenHears
    <3> HIDE DEF refs
    <3>3. screen'[m].saveInFlight = TRUE
      BY <2>1, <3>1, <3>2 DEF SendFrom, MobileScreen
    <3> QED BY <3>3
  <2>4. CASE UNCHANGED screen
    BY <2>2, <2>4
  <2>5. ASSUME NEW s \in inFlight, NEW saved, NEW others, Hear(s, saved, others)
        PROVE  ~ screen[m].pendingSave
    <3>1. CASE s.by = m /\ ScreenHears(s, others)
      BY <2>3, <3>1
    <3>2. CASE s.by # m /\ ScreenHears(s, others)
      <4>1. screen'[m] = screen[m]
        BY <2>1, <3>2 DEF ScreenHears, SendFrom
      <4> QED BY <2>2, <4>1
    <3> QED BY <2>4, <2>5, <3>1, <3>2 DEF Hear
  <2>6. ASSUME NEW s \in inFlight, Answer(s) \/ AnswerLost(s)
        PROVE  ~ screen[m].pendingSave
    BY <2>5, <2>6 DEF Answer, AnswerLost
  <2>7. ASSUME NEW n \in Screen, \E l \in Lesson : OpenScreen(n, l)
        PROVE  ~ screen[m].pendingSave
    BY <2>1, <2>2, <2>7 DEF OpenScreen, closedScreen
  <2>8. ASSUME NEW n \in Screen,
               \/ ScreenGetsLesson(n) \/ ScreenLoadFails(n)
               \/ \E answered \in BOOLEAN : ScreenShowsLesson(n, answered)
               \/ StatusUpdate(n) \/ ScreenSaves(n) \/ CloseScreen(n)
        PROVE  ~ screen[m].pendingSave
    <3>1. n # m
      BY <2>8 DEF ScreenGetsLesson, ScreenLoadFails, ScreenShowsLesson, StatusUpdate, ScreenSaves,
                  CloseScreen
    <3>2. screen'[m] = screen[m]
      BY <2>1, <2>8, <3>1 DEF ScreenGetsLesson, ScreenLoadFails, ScreenShowsLesson, StatusUpdate,
                  ScreenSaves, CloseScreen, SaveFromScreen, SendFrom
    <3> QED BY <2>2, <3>2
  <2>9. ASSUME NEW s \in inFlight, ApplySave(s) \/ LoseSave(s) PROVE UNCHANGED screen
    BY <2>9 DEF ApplySave, LoseSave
  <2>10. ASSUME NEW t \in Tab,
                \/ \E l \in Lesson : OpenPage(t, l) \/ FollowLink(t, l)
                \/ LeavePage(t) \/ PageGetsLesson(t) \/ PageLoadFails(t)
                \/ PageShowsLesson(t) \/ TimeUpdate(t) \/ Autosave(t) \/ markLessonComplete(t)
         PROVE  UNCHANGED screen
    BY <2>10 DEF OpenPage, FollowLink, LeavePage, PageGetsLesson, PageLoadFails, PageShowsLesson,
                 TimeUpdate, Autosave, markLessonComplete
  <2> QED BY <2>4, <2>6, <2>7, <2>8, <2>9, <2>10 DEF Next, vars
<1> QED BY <1>1, KeepsInvariant, PTL DEF Spec, LastPositionSent

=============================================================================
