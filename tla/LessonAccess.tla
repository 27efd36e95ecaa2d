---------------------------- MODULE LessonAccess ----------------------------
(***************************************************************************)
(* What members are answered about the lesson of LessonVideo, whatever row *)
(* its writers have left, in every environment the API starts in.          *)
(***************************************************************************)
EXTENDS LessonVideo, ContentAccess

\* The environments the API serves from, reduced to what its answers depend on.
Serving ==
  {[nodeEnv |-> e.nodeEnv, database |-> e.database, secrets |-> e.secrets \cap SigningPair] :
    e \in {env \in Environment : validateApiEnv(env)}}

\* A server, told by where its database is; NODE_ENV is often unset there.
onServer(env) == env.nodeEnv = "production" \/ env.database # "loopback"

\* The ids a caller is answered: those of a PAID lesson are withheld, and if the
\* separately deployed API still sent one, the page would have to leave it unused.
answeredId(row) == publicVideoIdentifiers(row).muxPlaybackId

\* A premium lesson's ids are kept out of the catalogue, only an entitled member is
\* answered its page, and on a server its Mux stream is only ever handed out as a link
\* that carries a token, whatever id the row holds (getLesson, mapLessonDetail,
\* publicVideoIdentifiers, validateApiEnv, the page's player): "an unsigned
\* stream.mux.com/<id>.m3u8 never expires and asks for nothing".  A premium YouTube
\* lesson is embedded without any token and is not covered.
PaidHandlesExpire ==
  lesson.accessLevel = "PAID" =>
    /\ mapLessonSummary(lesson).muxPlaybackId = None
    /\ mapLessonSummary(lesson).youtubeVideoId = None
    /\ \A env \in Serving, tier \in Tier :
         LET answer == getLesson(env, TRUE, lesson, tier)
         IN  /\ answer.status = "200" => tier = "PREMIUM"
             /\ onServer(env) /\ answer.status = "200" /\ answer.playbackUrl # None =>
                  \A id \in {None, lesson.muxPlaybackId} : handle(answer, id).token

\* What staff are told of a lesson: its state, unless a hint beside it says that the
\* stored id will not play.
toldPlayable(row) ==
  /\ resolveLessonVideoState(row) = "READY" \/ previousVideoStillPlays(row)
  /\ ~ hasUnplayableVideoIdentifier(row)

\* Staff are told that a published lesson has a video, new or still the previous one,
\* exactly when every entitled member's player is handed one, in every environment the
\* API starts in (resolveLessonVideoState and hasUnplayableVideoIdentifier on the
\* stored row against resolveVideoProvider on the member's): READY alone is 'Not "when
\* it plays"', and "every PAID lesson answered 500 with no boot-time signal" must not
\* come back.  Handed means a well-formed id: whether Mux knows it is not asked.
ReadyMeansPlayable ==
  \A env \in Serving :
    LET answer == getLesson(env, TRUE, lesson, "PREMIUM")
    IN  /\ answer.status = "200"
        /\ toldPlayable(mapAdminLessonSummary(lesson)) <=>
             handle(answer, answeredId(lesson)) # None

=============================================================================
