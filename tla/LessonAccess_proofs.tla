-------------------------- MODULE LessonAccess_proofs --------------------------
(***************************************************************************)
(* What members are answered about a lesson, for any uploads, assets,      *)
(* deliveries and pages that wrote its row, in every environment the API   *)
(* starts in.                                                              *)
(***************************************************************************)
EXTENDS LessonAccess, LessonVideo_proofs

USE VideoAssumption, LinkAssumption

\* A server that starts signs; where nothing signs, unsigned links are allowed.
LEMMA ServingSigns ==
  ASSUME NEW env \in Serving
  PROVE  createMuxPlaybackToken(env) \/ isUnsignedPaidPlaybackAllowed(env)
<1>1. PICK e \in Environment :
        /\ validateApiEnv(e)
        /\ env = [nodeEnv |-> e.nodeEnv, database |-> e.database,
                  secrets |-> e.secrets \cap SigningPair]
  BY DEF Serving
<1>2. signsPlayback(e) /\ isDeployment(env) = isDeployment(e)
  BY <1>1 DEF validateApiEnv, isDeployment
<1> QED BY <1>1, <1>2 DEF signsPlayback, createMuxPlaybackToken, isUnsignedPaidPlaybackAllowed

LEMMA ServerIsDeployment ==
  ASSUME NEW env \in Serving, onServer(env)
  PROVE  isDeployment(env)
BY DEF onServer, isDeployment, isLoopbackDatabaseUrl

\* A row the database stores holds the id of one provider, and names it; the id plays
\* when it has its provider's shape.
LEMMA StoredIdPlays ==
  ASSUME RowInv
  PROVE  /\ lesson.muxPlaybackId # None =>
              /\ lesson.youtubeVideoId = None
              /\ lesson.videoProvider = "MUX"
              /\ resolveVideoProvider(lesson) =
                   IF isValidMuxPlaybackId(lesson.muxPlaybackId) THEN "MUX" ELSE "NONE"
         /\ lesson.youtubeVideoId # None =>
              /\ lesson.muxPlaybackId = None
              /\ lesson.videoProvider = "YOUTUBE"
              /\ resolveVideoProvider(lesson) =
                   IF isValidYouTubeVideoId(lesson.youtubeVideoId) THEN "YOUTUBE" ELSE "NONE"
         /\ lesson.muxPlaybackId = None /\ lesson.youtubeVideoId = None =>
              resolveVideoProvider(lesson) = "NONE"
BY DEF RowInv, storable, resolveVideoProvider, isValidMuxPlaybackId, isValidYouTubeVideoId,
       YouTubeId, PlaybackId

\* Staff are told of a video exactly when the row holds an id of its provider's shape.
LEMMA ToldOfStoredId ==
  ASSUME RowInv
  PROVE  toldPlayable(mapAdminLessonSummary(lesson)) <=>
           \/ lesson.muxPlaybackId # None /\ isValidMuxPlaybackId(lesson.muxPlaybackId)
           \/ lesson.youtubeVideoId # None /\ isValidYouTubeVideoId(lesson.youtubeVideoId)
<1> DEFINE row == mapAdminLessonSummary(lesson)
<1>1. /\ row.videoProvider = lesson.videoProvider
      /\ row.muxPlaybackId = lesson.muxPlaybackId
      /\ row.youtubeVideoId = lesson.youtubeVideoId
      /\ row.muxAssetId = lesson.muxAssetId
      /\ row.muxUploadId = lesson.muxUploadId
      /\ row.muxVideoError = lesson.muxVideoError
  BY DEF mapAdminLessonSummary
<1> HIDE DEF row
<1>2. lesson.muxVideoError \in BOOLEAN
  BY DEF RowInv, Row
<1>3. resolveLessonVideoState(row) = "READY" \/ previousVideoStillPlays(row) <=>
        lesson.muxPlaybackId # None \/ lesson.youtubeVideoId # None
  <2>1. CASE lesson.muxVideoError = TRUE
    BY <1>1, <2>1 DEF resolveLessonVideoState, previousVideoStillPlays
  <2>2. CASE lesson.muxVideoError = FALSE /\ lesson.muxUploadId # None
    BY <1>1, <2>2 DEF resolveLessonVideoState, previousVideoStillPlays
  <2>3. CASE lesson.muxVideoError = FALSE /\ lesson.muxUploadId = None
    BY <1>1, <2>3 DEF resolveLessonVideoState, previousVideoStillPlays, isAwaitingMuxPlayback
  <2> QED BY <1>2, <2>1, <2>2, <2>3
<1>4. hasUnplayableVideoIdentifier(row) <=>
        \/ lesson.muxPlaybackId # None /\ ~ isValidMuxPlaybackId(lesson.muxPlaybackId)
        \/ lesson.youtubeVideoId # None /\ ~ isValidYouTubeVideoId(lesson.youtubeVideoId)
  BY <1>1, StoredIdPlays DEF hasUnplayableVideoIdentifier
<1>5. toldPlayable(row) <=>
           \/ lesson.muxPlaybackId # None /\ isValidMuxPlaybackId(lesson.muxPlaybackId)
           \/ lesson.youtubeVideoId # None /\ isValidYouTubeVideoId(lesson.youtubeVideoId)
  BY <1>3, <1>4, StoredIdPlays DEF toldPlayable
<1> QED BY <1>5 DEF row

LEMMA LinkIsSome ==
  ASSUME NEW id \in PlaybackId, NEW token \in BOOLEAN
  PROVE  playback(id, token) # None /\ playback(id, token).token = token
                                    /\ playback(id, token).id = id
BY DEF playback

\* An entitled member is handed a video exactly when the row holds an id of its
\* provider's shape.
LEMMA HandedStoredId ==
  ASSUME RowInv, NEW env \in Serving
  PROVE  LET answer == getLesson(env, TRUE, lesson, "PREMIUM") IN
         /\ answer.status = "200"
         /\ handle(answer, answeredId(lesson)) # None <=>
              \/ lesson.muxPlaybackId # None /\ isValidMuxPlaybackId(lesson.muxPlaybackId)
              \/ lesson.youtubeVideoId # None /\ isValidYouTubeVideoId(lesson.youtubeVideoId)
<1> DEFINE answer == mapLessonDetail(env, lesson)
<1>1. getLesson(env, TRUE, lesson, "PREMIUM") = answer
  BY DEF getLesson
<1>2. /\ lesson.accessLevel \in {"FREE", "PAID"}
      /\ lesson.muxPlaybackId \in PlaybackId \cup {None}
  BY DEF RowInv, Row
<1>3. answer.status = "200"
  BY <1>2, ServingSigns DEF mapLessonDetail
<1>4. CASE resolveVideoProvider(lesson) = "MUX"
  <2>1. lesson.muxPlaybackId # None /\ isValidMuxPlaybackId(lesson.muxPlaybackId)
    BY <1>4 DEF resolveVideoProvider, isValidMuxPlaybackId, PlaybackId
  <2>2. answer.playbackUrl \in {playback(lesson.muxPlaybackId, TRUE),
                                playback(lesson.muxPlaybackId, FALSE)}
    BY <1>2, <1>4, ServingSigns DEF mapLessonDetail
  <2>3. answer.playbackUrl # None /\ answer.playbackUrl.token \in BOOLEAN
    BY <1>2, <2>1, <2>2, LinkIsSome
  <2>4. answeredId(lesson) \in {None, lesson.muxPlaybackId}
    BY DEF answeredId, publicVideoIdentifiers
  <2> HIDE DEF answer
  <2>5. handle(answer, answeredId(lesson)) # None
    BY <1>2, <2>1, <2>3, <2>4, LinkIsSome DEF handle
  <2> QED BY <1>1, <1>3, <2>1, <2>5
<1>5. CASE resolveVideoProvider(lesson) # "MUX"
  <2>1. /\ answer.playbackUrl = None
        /\ answer.embedUrl = IF resolveVideoProvider(lesson) = "YOUTUBE"
                             THEN lesson.youtubeVideoId ELSE None
    BY <1>5 DEF mapLessonDetail
  <2>2. answeredId(lesson) = None
    BY <1>5 DEF answeredId, publicVideoIdentifiers
  <2> HIDE DEF answer
  <2>3. handle(answer, answeredId(lesson)) = answer.embedUrl
    BY <2>1, <2>2 DEF handle
  <2>4. lesson.muxPlaybackId # None => ~ isValidMuxPlaybackId(lesson.muxPlaybackId)
    BY <1>5, StoredIdPlays
  <2>5. answer.embedUrl # None <=>
          lesson.youtubeVideoId # None /\ isValidYouTubeVideoId(lesson.youtubeVideoId)
    BY <2>1, StoredIdPlays
  <2> QED BY <1>1, <1>3, <2>3, <2>4, <2>5
<1> QED BY <1>4, <1>5

-----------------------------------------------------------------------------
\* Whoever wrote the row last and whatever was typed into it, staff are told of a video
\* exactly when an entitled member is handed one, wherever the API starts
\* (resolveLessonVideoState, hasUnplayableVideoIdentifier, mapLessonDetail,
\* validateApiEnv).
THEOREM ReadyPlays == Spec => []ReadyMeansPlayable
<1>1. RowInv => ReadyMeansPlayable
  BY ToldOfStoredId, HandedStoredId DEF ReadyMeansPlayable
<1>2. VideoInv => RowInv
  BY DEF VideoInv
<1> QED BY <1>1, <1>2, VideoInvariant, PTL

\* Whatever the premium row holds, its ids are withheld, only an entitled member is
\* answered its page, and a server hands its Mux stream out only with a token (getLesson,
\* publicVideoIdentifiers, validateApiEnv, the lesson page's player).
THEOREM PaidHandedByToken == Spec => []PaidHandlesExpire
<1>1. ASSUME RowInv, lesson.accessLevel = "PAID" PROVE PaidHandlesExpire
  <2>1. /\ mapLessonSummary(lesson).muxPlaybackId = None
        /\ mapLessonSummary(lesson).youtubeVideoId = None
    BY <1>1 DEF mapLessonSummary, publicVideoIdentifiers, also
  <2>2. ASSUME NEW env \in Serving, NEW tier \in Tier
        PROVE  LET answer == getLesson(env, TRUE, lesson, tier) IN
               /\ answer.status = "200" => tier = "PREMIUM"
               /\ onServer(env) /\ answer.status = "200" /\ answer.playbackUrl # None =>
                    \A id \in {None, lesson.muxPlaybackId} : handle(answer, id).token
    <3> DEFINE answer == mapLessonDetail(env, lesson)
    <3>1. tier # "PREMIUM" => getLesson(env, TRUE, lesson, tier).status = "402"
      BY <1>1 DEF getLesson
    <3>2. tier = "PREMIUM" => getLesson(env, TRUE, lesson, tier) = answer
      BY DEF getLesson
    <3>3. ASSUME onServer(env), answer.status = "200", answer.playbackUrl # None
          PROVE  \A id \in {None, lesson.muxPlaybackId} : handle(answer, id).token
      <4>1. createMuxPlaybackToken(env)
        BY <3>3, ServingSigns, ServerIsDeployment DEF isUnsignedPaidPlaybackAllowed
      <4>2. answer.playbackUrl = playback(lesson.muxPlaybackId, TRUE)
        BY <1>1, <3>3, <4>1 DEF mapLessonDetail
      <4>3. answer.playbackUrl.token = TRUE
        BY <4>2 DEF playback
      <4> HIDE DEF answer
      <4> QED BY <3>3, <4>3 DEF handle
    <3> HIDE DEF answer
    <3> QED BY <3>1, <3>2, <3>3
  <2> QED BY <2>1, <2>2 DEF PaidHandlesExpire
<1>2. VideoInv => PaidHandlesExpire
  BY <1>1 DEF VideoInv, PaidHandlesExpire
<1> QED BY <1>2, VideoInvariant, PTL

=============================================================================
