--------------------------- MODULE MCLessonProgress ---------------------------
(* Instances of LessonProgress for TLC. *)
EXTENDS LessonProgress

CONSTANTS filmed, other, demo, t1, m1

\* Two courses: a filmed lesson and a demo, then another filmed lesson.
TwoCourses == <<<<filmed, demo>>, <<other>>>>
Kinds == (filmed :> "MUX") @@ (other :> "MUX") @@ (demo :> "YOUTUBE")

\* 12.4 seconds, stored as 12.  At 2.5 the last ten seconds have begun for a client that
\* compares tenths, the mobile screen, and not for the page, which compares seconds.
Media == (filmed :> 124) @@ (other :> 124) @@ (demo :> 0)
Measured == (filmed :> 12) @@ (other :> 12) @@ (demo :> None)
Times == (filmed :> {25}) @@ (other :> {124}) @@ (demo :> {})

=============================================================================
