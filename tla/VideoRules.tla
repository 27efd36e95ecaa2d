----------------------------- MODULE VideoRules -----------------------------
(***************************************************************************)
(* The rules every writer and reader of a lesson's video columns shares    *)
(* (packages/shared/src/video-source.ts, the plans of admin.service.ts and *)
(* the policy rule of webhooks.service.ts).                                *)
(*                                                                         *)
(* A row is a record of the columns below; an identifier that is absent by *)
(* the database's definition (NULL or only spaces) is None, and one that   *)
(* is stored but no player can address is Malformed.  A write is a record  *)
(* of the columns it mentions.                                             *)
(***************************************************************************)
EXTENDS Naturals

CONSTANTS
  None,
  Malformed,   \* an identifier outside its provider's shape, or a seeded placeholder
  Upload,      \* Mux direct uploads; the asset an upload becomes has its name
  HandAsset,   \* assets made in the Mux dashboard, pasted in by an operator
  HandPolicy   \* the playback policies of such an asset

Policy == {"public", "signed"}
Asset == Upload \cup HandAsset

\* Mux issues a playback id for one policy of one asset.
IssuedId == [asset : Asset, policy : Policy]
PlaybackId == IssuedId \cup {Malformed}
YouTubeId == {"youtube", Malformed}

ASSUME VideoAssumption ==
  /\ Upload \cap HandAsset = {}
  /\ HandPolicy \in [HandAsset -> (SUBSET Policy) \ {{}}]
  /\ None \notin Policy \cup Asset \cup PlaybackId \cup YouTubeId
  /\ Malformed \notin IssuedId \cup {"youtube"}

Row ==
  [accessLevel : {"FREE", "PAID"},
   videoProvider : {"MUX", "YOUTUBE", "NONE"},
   muxAssetId : Asset \cup {None},
   muxPlaybackId : PlaybackId \cup {None},
   youtubeVideoId : YouTubeId \cup {None},
   muxUploadId : Upload \cup {None},
   muxVideoError : BOOLEAN]

\* The columns of the lesson editor's form.
FormField == {"accessLevel", "videoProvider", "muxAssetId", "muxPlaybackId", "youtubeVideoId"}

\* lesson_video_provider_consistency_chk.
storable(row) ==
  \/ /\ row.videoProvider = "MUX"
     /\ row.muxPlaybackId # None \/ row.muxAssetId # None
     /\ row.youtubeVideoId = None
  \/ /\ row.videoProvider = "YOUTUBE"
     /\ row.youtubeVideoId # None
     /\ row.muxPlaybackId = None
  \/ /\ row.videoProvider = "NONE"
     /\ row.muxPlaybackId = None
     /\ row.youtubeVideoId = None

\* The columns of a write over those of a row.
over(data, row) == [f \in DOMAIN row |-> IF f \in DOMAIN data THEN data[f] ELSE row[f]]

nothing == [f \in {} |-> None]
set(f, value) == [g \in {f} |-> value]
setIf(condition, f, value) == IF condition THEN set(f, value) ELSE nothing
also(d1, d2) ==
  [f \in DOMAIN d1 \cup DOMAIN d2 |-> IF f \in DOMAIN d2 THEN d2[f] ELSE d1[f]]

-----------------------------------------------------------------------------
(* Reading a row *)

isAwaitingMuxPlayback(row) ==
  row.muxAssetId # None /\ row.muxPlaybackId = None /\ row.youtubeVideoId = None

resolveLessonVideoState(row) ==
  LET playbackStored == row.muxPlaybackId # None \/ row.youtubeVideoId # None
  IN  CASE row.muxVideoError             -> "FAILED"
        [] ~ row.muxVideoError /\ row.muxUploadId # None -> "UPLOADING"
        [] ~ row.muxVideoError /\ row.muxUploadId = None /\ playbackStored -> "READY"
        [] ~ row.muxVideoError /\ row.muxUploadId = None /\ isAwaitingMuxPlayback(row) -> "PROCESSING"
        [] OTHER -> "NONE"

\* A replacement failed or is on its way while the lesson still holds its video.
previousVideoStillPlays(row) ==
  /\ resolveLessonVideoState(row) \in {"FAILED", "UPLOADING"}
  /\ row.muxPlaybackId # None \/ row.youtubeVideoId # None

\* The shape of an identifier, which says nothing of what it addresses.
isValidMuxPlaybackId(value) == value \in IssuedId
isValidYouTubeVideoId(value) == value = "youtube"

hasUnplayableVideoIdentifier(row) ==
  \/ /\ row.videoProvider = "MUX"
     /\ row.muxPlaybackId # None /\ ~ isValidMuxPlaybackId(row.muxPlaybackId)
  \/ /\ row.videoProvider = "YOUTUBE"
     /\ row.youtubeVideoId # None /\ ~ isValidYouTubeVideoId(row.youtubeVideoId)

-----------------------------------------------------------------------------
(* Playback policies *)

playbackPolicyForAccessLevel(accessLevel) ==
  IF accessLevel = "PAID" THEN "signed" ELSE "public"

\* Mutant of rejectMuxPlaybackPolicy: a signed id makes up for a public sibling.
rejectMissingPolicyOnly(accessLevel, policies) ==
  playbackPolicyForAccessLevel(accessLevel) \notin policies

\* PAID must be signed only; FREE must offer a public id.
rejectMuxPlaybackPolicy(accessLevel, policies) ==
  IF accessLevel = "PAID" THEN policies # {"signed"} ELSE "public" \notin policies

-----------------------------------------------------------------------------
(* What a save writes *)

nextStoredValue(data, f, row) == IF f \in DOMAIN data THEN data[f] ELSE row[f]

\* A FREE -> PAID save retires the playback id the row carried over; an id that
\* is new is a rotation and stays.
clearsMuxPlaybackIdOnPaidTransition(row, data) ==
  /\ row.accessLevel = "FREE"
  /\ nextStoredValue(data, "accessLevel", row) = "PAID"
  /\ row.muxPlaybackId # None
  /\ nextStoredValue(data, "muxPlaybackId", row) = row.muxPlaybackId

planPaidAccessTransition(row, data) ==
  IF clearsMuxPlaybackIdOnPaidTransition(row, data)
  THEN also(data, also(set("muxPlaybackId", None),
         setIf(/\ nextStoredValue(data, "videoProvider", row) = "MUX"
               /\ nextStoredValue(data, "muxAssetId", row) = None,
               "videoProvider", "NONE")))
  ELSE data

\* Mutant of planYouTubeUploadStateClear: the pending upload stays on the row.
keepUploadState(row, data) == data

planYouTubeUploadStateClear(row, data) ==
  IF nextStoredValue(data, "videoProvider", row) = "YOUTUBE"
  THEN also(data, also(setIf(row.muxUploadId # None, "muxUploadId", None),
                       setIf(row.muxVideoError, "muxVideoError", FALSE)))
  ELSE data

-----------------------------------------------------------------------------
(* The lesson editor's form *)

lessonEditorFieldsAfterSave(row) == [f \in FormField |-> row[f]]

\* Only what changed between two versions of the row is adopted by the form.
lessonEditorFieldsAfterRowChange(previous, next) ==
  [f \in {g \in FormField : previous[g] # next[g]} |-> next[f]]

showMuxAssetIdField(form, row) ==
  \/ form.videoProvider = "MUX"
  \/ isAwaitingMuxPlayback(row) /\ form.videoProvider # "YOUTUBE"

\* What a save sends for a form, given the row just read.
outgoing(form, fresh) ==
  [f \in FormField |->
    CASE f = "muxPlaybackId" ->
           IF form.videoProvider = "MUX" THEN form.muxPlaybackId ELSE None
      [] f = "muxAssetId" ->
           IF showMuxAssetIdField(form, fresh) THEN form.muxAssetId ELSE None
      [] f = "youtubeVideoId" ->
           IF form.videoProvider = "YOUTUBE" THEN form.youtubeVideoId ELSE None
      [] OTHER -> form[f]]

\* The saves the editor refuses to send.
acceptable(data) ==
  /\ data.videoProvider = "MUX" => data.muxPlaybackId # None \/ data.muxAssetId # None
  /\ data.videoProvider = "YOUTUBE" => data.youtubeVideoId # None

=============================================================================
