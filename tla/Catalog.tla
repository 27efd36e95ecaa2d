------------------------------- MODULE Catalog -------------------------------
(***************************************************************************)
(* The lessons of one course as staff edit them: the order the course page *)
(* gives them, the curriculum the lesson editor saves as tags, and the     *)
(* seed script that resets both (admin.service.ts, the admin pages,        *)
(* seed.ts).                                                               *)
(*                                                                         *)
(* updateLesson and createLesson write the row first and then the tags,    *)
(* one statement after the other; a call may die between any two.  The     *)
(* seed dies the same way and is run again; it is not run while staff are  *)
(* at work.                                                                *)
(***************************************************************************)
EXTENDS Curriculum, Naturals

CONSTANTS
  Absent,
  Lesson,            \* lessons the course has or may get
  Seeded,            \* the lessons the seed knows
  SeedOrder,         \* and the place and curriculum it gives each
  SeedCurriculum,
  ProgramDiscipline, \* of the course's program
  Call,              \* API requests in flight
  Editor,            \* lesson editor pages
  Edited,            \* the lessons they are opened on
  MaxFaults          \* a bound on the calls and seeds that die

\* The keys of the tags that curriculum metadata owns.
Managed == {"discipline", "phase", "track", "skill", "level"}

Tag == Managed \X STRING

\* A lesson's row with its tags, what a request is about and has left to do, and the state
\* of an editor page.
Row == [order : Nat, tags : SUBSET Tag]

Request ==
  [lesson : Lesson, order : Nat \cup {None}, curriculum : CurriculumMetadata \cup {None},
   pc : {"row", "tags", "remove", "add"}, remove : SUBSET Tag, add : Seq(Tag)]

Form == [lesson : Lesson, saving : BOOLEAN, form : CurriculumMetadata]

ASSUME SeedAssumption ==
  /\ IsFiniteSet(Seeded)
  /\ Seeded \cup Edited \subseteq Lesson
  /\ SeedCurriculum \in [Seeded -> CurriculumMetadata]
  /\ SeedOrder \in [Seeded -> 1 .. Cardinality(Seeded)]
  /\ \A l, k \in Seeded : l # k => SeedOrder[l] # SeedOrder[k]

ASSUME ValueAssumption ==
  /\ ProgramDiscipline \in curriculumDisciplineKeys
  /\ None \notin CurriculumMetadata \cup Nat \cup Lesson
  /\ Absent \notin Row \cup Request \cup Form

VARIABLES
  lesson,     \* the rows, with their tags
  call,       \* the admin requests in flight
  page,       \* the course page: the orders it shows
  sent,       \* the orders sent last from what it shows
  editor,     \* the lesson editors
  seed,       \* the seed script
  told,       \* the curriculum the last writer of a lesson was told is saved
  faults,     \* how many died
  disturbed   \* an order was sent from an outdated page, or half of a move was lost

vars == <<lesson, call, page, sent, editor, seed, told, faults, disturbed>>

row(order, tags) == [order |-> order, tags |-> tags]
ordersOf(rows) == [l \in {k \in Lesson : rows[k] # Absent} |-> rows[l].order]

seedRests == [rows |-> {}, tags |-> {}, at |-> None, add |-> <<>>]
seedStarted == [seedRests EXCEPT !.rows = Seeded, !.tags = Seeded]

Init ==
  /\ lesson = [l \in Lesson |->
       IF l \in Seeded THEN row(SeedOrder[l], tagsOf(SeedCurriculum[l])) ELSE Absent]
  /\ call = [c \in Call |-> Absent]
  /\ page = ordersOf(lesson)
  /\ sent = {}
  /\ editor = [e \in Editor |-> Absent]
  /\ seed = seedRests
  /\ told = [l \in Lesson |-> None]
  /\ faults = 0
  /\ disturbed = FALSE

idle == {c \in Call : call[c] = Absent}
pending == {call[c] : c \in Call \ idle}

-----------------------------------------------------------------------------
(* The course page *)

\* `curriculum` None: the request does not mention it.
request(l, order, curriculum) ==
  [lesson |-> l, order |-> order, curriculum |-> curriculum, pc |-> "row",
   remove |-> {}, add |-> <<>>]

\* The page is opened; after its own requests it loads by itself (answers).
LoadCourse ==
  /\ pending = {}
  /\ seed = seedRests
  /\ page' = ordersOf(lesson)
  /\ sent' = {}
  /\ UNCHANGED <<lesson, call, editor, seed, told, disturbed, faults>>

\* The lessons next to l in the sorted list; ties are shown in any order.
neighbours(l) ==
  LET between(a, b) == {j \in DOMAIN page : page[a] < page[j] /\ page[j] < page[b]}
  IN  {k \in DOMAIN page \ {l} : between(l, k) = {} /\ between(k, l) = {}}

\* An order that is yet to be written.
ordering(r) == r.order # None /\ r.pc = "row"

\* Orders sent while others are under way, or computed from rows that changed since,
\* unless they repeat the click before (a double click).
outdated(requests) ==
  LET upToDate == page = ordersOf(lesson) /\ \A r \in pending : ~ ordering(r)
  IN  ~ upToDate /\ requests # sent

\* Mutant of moveLesson: only the lesson that was clicked is sent.
moveOneLesson(l, k) ==
  \E c \in idle :
    /\ call' = [call EXCEPT ![c] = request(l, page[k], None)]
    /\ disturbed' = (disturbed \/ outdated({request(l, page[k], None)}))
    /\ sent' = {request(l, page[k], None)}
    /\ UNCHANGED <<lesson, page, editor, seed, told, faults>>

\* Two PATCHes, sent together, exchange the orders of the neighbours as they are shown.
moveLesson(l, k) ==
  LET swap == {request(l, page[k], None), request(k, page[l], None)}
  IN  \E c, d \in idle :
        /\ c # d
        /\ call' = [call EXCEPT ![c] = request(l, page[k], None), ![d] = request(k, page[l], None)]
        /\ disturbed' = (disturbed \/ outdated(swap))
        /\ sent' = swap
        /\ UNCHANGED <<lesson, page, editor, seed, told, faults>>

MoveLesson ==
  \E l \in DOMAIN page : \E k \in neighbours(l) : moveLesson(l, k)

\* The metadata a new lesson starts with: that of the first lesson shown, whose tags
\* are taken as they are now.
getDefaultCurriculum ==
  LET first == {l \in DOMAIN page : \A k \in DOMAIN page : page[l] <= page[k]}
      default == createDefaultCurriculum(ProgramDiscipline)
  IN  IF first = {} THEN {default}
      ELSE {IF m = None THEN default ELSE m :
              m \in UNION {parseCurriculumTags(lesson[l].tags) : l \in first}}

\* A new lesson goes behind those the page shows.
createLesson(l) ==
  /\ lesson[l] = Absent
  /\ \A r \in pending : r.lesson # l
  /\ \E c \in idle, m \in getDefaultCurriculum :
       LET new == request(l, Cardinality(DOMAIN page) + 1, m)
       IN  /\ call' = [call EXCEPT ![c] = new]
           /\ disturbed' = (disturbed \/ outdated({new}))
           /\ sent' = {new}
  /\ UNCHANGED <<lesson, page, editor, seed, told, faults>>

-----------------------------------------------------------------------------
(* The lesson editor *)

\* One writer of a lesson's curriculum at a time: two at once would mix their tags.
alone(l) ==
  /\ seed = seedRests
  /\ \A r \in pending : r.lesson = l => r.curriculum = None
  /\ \A e \in Editor : editor[e] # Absent => editor[e].lesson # l

\* The form is filled once, from the row that arrives first.
OpenEditor(e, l) ==
  /\ editor[e] = Absent
  /\ lesson[l] # Absent
  /\ alone(l)
  /\ \E m \in parseCurriculumTags(lesson[l].tags) :
       editor' = [editor EXCEPT ![e] =
         [lesson |-> l, saving |-> FALSE,
          form |-> IF m = None THEN createDefaultCurriculum(ProgramDiscipline) ELSE m]]
  /\ UNCHANGED <<lesson, call, page, sent, seed, told, disturbed, faults>>

EditForm(e) ==
  /\ editor[e] # Absent
  /\ \E m \in edits(editor[e].form) : editor' = [editor EXCEPT ![e].form = m]
  /\ UNCHANGED <<lesson, call, page, sent, seed, told, disturbed, faults>>

save(e, c) ==
  /\ call' = [call EXCEPT ![c] = request(editor[e].lesson, None, editor[e].form)]
  /\ editor' = [editor EXCEPT ![e].saving = TRUE]
  /\ told' = [told EXCEPT ![editor[e].lesson] = None]
  /\ UNCHANGED <<lesson, page, sent, seed, disturbed, faults>>

\* Mutant of onSave: a second click saves again.
onSaveAgain(e) ==
  /\ editor[e] # Absent
  /\ \E c \in idle : save(e, c)

\* One click is the only save the form is describing.
onSave(e) ==
  /\ editor[e] # Absent
  /\ ~ editor[e].saving
  /\ \E c \in idle : save(e, c)

\* A page left while it saves is taken to stay until the save is over.
CloseEditor(e) ==
  /\ editor[e] # Absent
  /\ ~ editor[e].saving
  /\ editor' = [editor EXCEPT ![e] = Absent]
  /\ UNCHANGED <<lesson, call, page, sent, seed, told, disturbed, faults>>

-----------------------------------------------------------------------------
(* The API *)

At(c, pc) == call[c] # Absent /\ call[c].pc = pc

unlocked(c) ==
  [e \in Editor |->
     IF call[c].order = None /\ editor[e] # Absent /\ editor[e].lesson = call[c].lesson
     THEN [editor[e] EXCEPT !.saving = FALSE] ELSE editor[e]]

\* The call is over: the editor whose save it was may save again, the course page whose
\* requests have all been answered loads.
answers(c, rows) ==
  /\ call' = [call EXCEPT ![c] = Absent]
  /\ IF call[c].order # None /\ \A d \in Call \ (idle \cup {c}) : call[d].order = None
     THEN page' = ordersOf(rows) /\ sent' = {}
     ELSE UNCHANGED <<page, sent>>
  /\ editor' = unlocked(c)

written(c) ==
  LET l == call[c].lesson
  IN  IF call[c].order = None THEN lesson[l]
      ELSE row(call[c].order, IF lesson[l] = Absent THEN {} ELSE lesson[l].tags)

\* Mutant of WriteRow: a request that does not mention the curriculum clears it.
WriteRowAndTags(c) ==
  /\ At(c, "row")
  /\ lesson' = [lesson EXCEPT ![call[c].lesson] = written(c)]
  /\ call' = [call EXCEPT ![c].pc = "tags"]
  /\ UNCHANGED <<page, sent, editor, seed, told, disturbed, faults>>

\* lesson.create or lesson.update; the tags are left alone unless the request has them.
WriteRow(c) ==
  /\ At(c, "row")
  /\ lesson' = [lesson EXCEPT ![call[c].lesson] = written(c)]
  /\ IF call[c].curriculum = None THEN answers(c, lesson')
     ELSE call' = [call EXCEPT ![c].pc = "tags"] /\ UNCHANGED <<page, sent, editor>>
  /\ UNCHANGED <<seed, told, disturbed, faults>>

managedExisting(tags) == {t \in tags : t[1] \in Managed}

desiredNames(curriculum) == IF curriculum = None THEN <<>> ELSE createCurriculumTags(curriculum)

ReadTags(c) ==
  LET desired == desiredNames(call[c].curriculum)
      toRemove == managedExisting(lesson[call[c].lesson].tags) \ ToSet(desired)
  IN  /\ At(c, "tags")
      /\ call' = [call EXCEPT ![c].add = desired, ![c].remove = toRemove,
                              ![c].pc = IF toRemove = {} THEN "add" ELSE "remove"]
      /\ UNCHANGED <<lesson, page, sent, editor, seed, told, disturbed, faults>>

RemoveTags(c) ==
  /\ At(c, "remove")
  /\ lesson' = [lesson EXCEPT ![call[c].lesson].tags = @ \ call[c].remove]
  /\ call' = [call EXCEPT ![c].pc = "add", ![c].remove = {}]
  /\ UNCHANGED <<page, sent, editor, seed, told, disturbed, faults>>

AddTag(c) ==
  /\ At(c, "add")
  /\ call[c].add # <<>>
  /\ lesson' = [lesson EXCEPT ![call[c].lesson].tags = @ \cup {Head(call[c].add)}]
  /\ call' = [call EXCEPT ![c].add = Tail(@)]
  /\ UNCHANGED <<page, sent, editor, seed, told, disturbed, faults>>

TagsSynced(c) ==
  /\ At(c, "add")
  /\ call[c].add = <<>>
  /\ told' = [told EXCEPT ![call[c].lesson] = call[c].curriculum]
  /\ answers(c, lesson)
  /\ UNCHANGED <<lesson, seed, disturbed, faults>>

CallFails(c) ==
  /\ call[c] # Absent
  /\ faults < MaxFaults
  /\ faults' = faults + 1
  /\ call' = [call EXCEPT ![c] = Absent]
  /\ editor' = unlocked(c)
  /\ disturbed' = (disturbed \/ (ordering(call[c]) /\ lesson[call[c].lesson] # Absent))
  /\ UNCHANGED <<lesson, page, sent, seed, told>>

Serve(c) ==
  WriteRow(c) \/ ReadTags(c) \/ RemoveTags(c) \/ AddTag(c) \/ TagsSynced(c) \/ CallFails(c)

-----------------------------------------------------------------------------
(* The seed: first every row, then lesson by lesson the tags *)

SeedStarts ==
  /\ pending = {}
  /\ \A e \in Editor : editor[e] = Absent
  /\ seed = seedRests
  /\ seed' = seedStarted
  /\ sent' = {}
  /\ told' = [l \in Lesson |-> IF l \in Seeded THEN None ELSE told[l]]
  /\ disturbed' = (disturbed \/ \E l \in Lesson \ Seeded : lesson[l] # Absent)
  /\ UNCHANGED <<lesson, call, page, editor, faults>>

SeedRow(l) ==
  /\ l \in seed.rows
  /\ lesson' = [lesson EXCEPT ![l].order = SeedOrder[l]]
  /\ seed' = [seed EXCEPT !.rows = @ \ {l}]
  /\ UNCHANGED <<call, page, sent, editor, told, disturbed, faults>>

\* deleteMany of every tag the lesson is not seeded with.
SeedPrunes(l) ==
  /\ seed.rows = {}
  /\ seed.at = None
  /\ l \in seed.tags
  /\ lesson' = [lesson EXCEPT ![l].tags = @ \cap tagsOf(SeedCurriculum[l])]
  /\ seed' = [seed EXCEPT !.at = l, !.tags = @ \ {l}, !.add = createCurriculumTags(SeedCurriculum[l])]
  /\ UNCHANGED <<call, page, sent, editor, told, disturbed, faults>>

SeedAddsTag ==
  /\ seed.add # <<>>
  /\ lesson' = [lesson EXCEPT ![seed.at].tags = @ \cup {Head(seed.add)}]
  /\ seed' = [seed EXCEPT !.add = Tail(@), !.at = IF Len(seed.add) = 1 THEN None ELSE @]
  /\ told' = [told EXCEPT ![seed.at] = IF Len(seed.add) = 1 THEN SeedCurriculum[seed.at] ELSE @]
  /\ UNCHANGED <<call, page, sent, editor, disturbed, faults>>

\* Run again until it ends.
SeedDies ==
  /\ seed # seedRests
  /\ faults < MaxFaults
  /\ faults' = faults + 1
  /\ seed' = seedStarted
  /\ UNCHANGED <<lesson, call, page, sent, editor, told, disturbed>>

Seed == SeedStarts \/ SeedAddsTag \/ SeedDies \/ \E l \in Seeded : SeedRow(l) \/ SeedPrunes(l)

-----------------------------------------------------------------------------

Staff ==
  /\ seed = seedRests
  /\ \/ \E e \in Editor : onSave(e)
     \/ MoveLesson
     \/ \E l \in Lesson : createLesson(l)

Next ==
  \/ Staff \/ Seed \/ LoadCourse
  \/ \E e \in Editor, l \in Edited : OpenEditor(e, l)
  \/ \E e \in Editor : EditForm(e) \/ CloseEditor(e)
  \/ \E c \in Call : Serve(c)

Spec == Init /\ [][Next]_vars

\* Staff who wait for one move to show before they make another, and lose none of it.
CarefulSpec == Init /\ [][Next /\ ~ disturbed']_vars

-----------------------------------------------------------------------------
(* Properties of CarefulSpec *)

\* A lesson never has two tags of one kind, whatever died between two statements: what
\* members and staff read does not depend on the order of its tag rows, because
\* syncLessonCurriculumTags and the seed remove before they add.
TagsNeverContradict ==
  \A l \in Lesson : lesson[l] # Absent => Cardinality(parseCurriculumTags(lesson[l].tags)) = 1

\* What a save, a creation or the seed reported stays what is read back until somebody
\* saves the curriculum again: no move, no other lesson's save and no failed call before
\* it leaves anything behind.
SavedCurriculumReadsBack ==
  \A l \in Lesson : told[l] # None => parseCurriculumTags(lesson[l].tags) = {told[l]}

\* No sequence of selects, from whatever state a broken save left the lesson in, makes
\* metadata the API refuses, and neither does the default for a new lesson.
FormAlwaysAccepted ==
  /\ \A e \in Editor : editor[e] # Absent => curriculumMetadataSchema(editor[e].form)
  /\ \A m \in getDefaultCurriculum : curriculumMetadataSchema(m)

\* Once the orders sent have all arrived, in either order and however often the button
\* was clicked, no two lessons share a place, new ones and reseeded ones included.
OrderStaysStrict ==
  seed = seedRests /\ (\A r \in pending : ~ ordering(r)) =>
    \A l, k \in DOMAIN ordersOf(lesson) : l # k => lesson[l].order # lesson[k].order

=============================================================================
