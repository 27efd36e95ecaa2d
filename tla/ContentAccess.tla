---------------------------- MODULE ContentAccess ----------------------------
(***************************************************************************)
(* What a caller is told about a lesson: the catalogue, which anybody may  *)
(* read, and the lesson itself, behind the entitlement                     *)
(* (content.service.ts, lesson-presentation.ts), as functions of the row,  *)
(* the environment and the caller's tier.                                  *)
(*                                                                         *)
(* An identifier outside its provider's shape resolves to no provider at   *)
(* all.  One of the right shape is handed out, and whether the provider    *)
(* knows it is not asked.                                                  *)
(***************************************************************************)
EXTENDS VideoRules, Deployment

\* Mutant of resolveVideoProvider: any stored identifier resolves to its provider, as
\* before the seeded placeholders were recognised.
resolveStoredProvider(row) ==
  IF row.videoProvider = "YOUTUBE" /\ row.youtubeVideoId # None THEN "YOUTUBE"
  ELSE IF row.videoProvider = "MUX" /\ row.muxPlaybackId # None THEN "MUX"
  ELSE "NONE"

\* Which provider can play the row.  A provider of NULL, which counts as MUX, is not
\* in Row: the column is mandatory.
resolveVideoProvider(row) ==
  IF row.videoProvider = "YOUTUBE" /\ isValidYouTubeVideoId(row.youtubeVideoId) THEN "YOUTUBE"
  ELSE IF row.videoProvider = "MUX" /\ isValidMuxPlaybackId(row.muxPlaybackId) THEN "MUX"
  ELSE "NONE"

\* The asset id, which it never gives out, is left out.
publicVideoIdentifiers(row) ==
  LET withheld == row.accessLevel = "PAID"
      provider == resolveVideoProvider(row)
  IN  [muxPlaybackId |-> IF withheld \/ provider # "MUX" THEN None ELSE row.muxPlaybackId,
       youtubeVideoId |-> IF withheld \/ provider # "YOUTUBE" THEN None ELSE row.youtubeVideoId]

mapLessonSummary(row) ==
  also([accessLevel |-> row.accessLevel, videoProvider |-> resolveVideoProvider(row)],
       publicVideoIdentifiers(row))

\* Staff see the row as it is stored.
mapAdminLessonSummary(row) ==
  [f \in {"accessLevel", "videoProvider", "muxPlaybackId", "youtubeVideoId", "muxAssetId",
          "muxUploadId", "muxVideoError"} |-> row[f]]

createMuxPlaybackToken(env) == SigningPair \subseteq env.secrets

\* playbackUrl: the id it addresses and whether it carries a token.
playback(id, token) == [id |-> id, token |-> token]

ASSUME LinkAssumption == None \notin [id : PlaybackId, token : BOOLEAN]

mapLessonDetail(env, row) ==
  LET provider == resolveVideoProvider(row)
      signed == row.accessLevel = "PAID"
      unsigned == row.accessLevel = "FREE" \/ isUnsignedPaidPlaybackAllowed(env)
      embed == IF provider = "YOUTUBE" THEN row.youtubeVideoId ELSE None
      answer(url) == [status |-> "200", summary |-> mapLessonSummary(row),
                      playbackUrl |-> url, embedUrl |-> embed]
  IN  IF provider # "MUX" THEN answer(None)
      ELSE IF signed /\ createMuxPlaybackToken(env) THEN answer(playback(row.muxPlaybackId, TRUE))
      ELSE IF unsigned THEN answer(playback(row.muxPlaybackId, FALSE))
      ELSE [status |-> "500"]

Tier == {None, "FREE", "PREMIUM"}   \* None: the caller is anonymous

getLesson(env, isPublished, row, tier) ==
  IF ~ isPublished THEN [status |-> "404"]
  ELSE IF row.accessLevel = "PAID" /\ tier # "PREMIUM" THEN [status |-> "402"]
  ELSE mapLessonDetail(env, row)

\* What the lesson page's player plays: an id it is given wins over the url, and is
\* given only beside a url without token; a YouTube lesson plays in its embed.
handle(detail, id) ==
  IF detail.playbackUrl # None /\ detail.playbackUrl.token THEN detail.playbackUrl
  ELSE IF id # None THEN playback(id, FALSE)
  ELSE IF detail.playbackUrl # None THEN detail.playbackUrl ELSE detail.embedUrl

=============================================================================
