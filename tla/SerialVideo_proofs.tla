-------------------------- MODULE SerialVideo_proofs --------------------------
(***************************************************************************)
(* What the writers of a lesson's video columns promise one another, for   *)
(* any uploads, assets, typed identifiers, deliveries and pages, while     *)
(* requests do not overlap (SerialSpec) and, for premium lessons, no page  *)
(* loads a row behind its form (SerialInSyncSpec).                         *)
(***************************************************************************)
EXTENDS LessonVideo_proofs

USE VideoAssumption

-----------------------------------------------------------------------------
(* One request at a time.                                                    *)

LEMMA BusyRequests ==
  /\ \A w \in Worker : job[w].pc # "idle" => <<w, "webhook">> \in Busy
  /\ \A e \in Editor, k \in Kind : patch[e][k].pc # "idle" => <<e, k>> \in Busy
  /\ \A e \in Editor : post[e].pc # "idle" => <<e, "post">> \in Busy
<1>1. \A e \in Editor : patch[e]["save"].pc # "idle" => <<e, "save">> \in Busy
  BY DEF Busy, Patching
<1>2. \A e \in Editor : patch[e]["publish"].pc # "idle" => <<e, "publish">> \in Busy
  BY DEF Busy, Patching
<1> QED BY <1>1, <1>2 DEF Busy, Posting, Kind

LEMMA LonelyRequest ==
  ASSUME Alone, NEW x \in Busy
  PROVE  /\ \A w \in Worker : <<w, "webhook">> # x => job[w].pc = "idle"
         /\ \A e \in Editor, k \in Kind : <<e, k>> # x => patch[e][k].pc = "idle"
         /\ \A e \in Editor : <<e, "post">> # x => post[e].pc = "idle"
<1>1. \A y \in Busy : y = x
  BY DEF Alone
<1> QED BY <1>1, BusyRequests

LEMMA LonelyJob ==
  ASSUME Alone, NEW w \in Worker, job[w].pc # "idle"
  PROVE  /\ \A v \in Worker \ {w} : job[v].pc = "idle"
         /\ \A e \in Editor, k \in Kind : patch[e][k].pc = "idle"
         /\ \A e \in Editor : post[e].pc = "idle"
<1> DEFINE x == <<w, "webhook">>
<1>1. x \in Busy
  BY BusyRequests
<1>2. /\ \A v \in Worker \ {w} : <<v, "webhook">> # x
      /\ \A e \in Editor, k \in Kind : <<e, k>> # x
      /\ \A e \in Editor : <<e, "post">> # x
  BY DEF Kind
<1> HIDE DEF x
<1> QED BY <1>1, <1>2, LonelyRequest

LEMMA LonelyPatch ==
  ASSUME Alone, NEW e \in Editor, NEW k \in Kind, patch[e][k].pc # "idle"
  PROVE  /\ \A w \in Worker : job[w].pc = "idle"
         /\ \A d \in Editor, j \in Kind : d # e \/ j # k => patch[d][j].pc = "idle"
         /\ \A d \in Editor : post[d].pc = "idle"
<1> DEFINE x == <<e, k>>
<1>1. x \in Busy
  BY BusyRequests
<1>2. /\ \A w \in Worker : <<w, "webhook">> # x
      /\ \A d \in Editor, j \in Kind : d # e \/ j # k => <<d, j>> # x
      /\ \A d \in Editor : <<d, "post">> # x
  BY DEF Kind
<1> HIDE DEF x
<1> QED BY <1>1, <1>2, LonelyRequest

LEMMA LonelyPost ==
  ASSUME Alone, NEW e \in Editor, post[e].pc # "idle"
  PROVE  /\ \A w \in Worker : job[w].pc = "idle"
         /\ \A d \in Editor, j \in Kind : patch[d][j].pc = "idle"
         /\ \A d \in Editor \ {e} : post[d].pc = "idle"
<1> DEFINE x == <<e, "post">>
<1>1. x \in Busy
  BY BusyRequests
<1>2. /\ \A w \in Worker : <<w, "webhook">> # x
      /\ \A d \in Editor, j \in Kind : <<d, j>> # x
      /\ \A d \in Editor \ {e} : <<d, "post">> # x
  BY DEF Kind
<1> HIDE DEF x
<1> QED BY <1>1, <1>2, LonelyRequest

\* The row is written by deliveries, saves, publishes and uploads; any other step
\* leaves it alone.
LEMMA RowWriters ==
  ASSUME Next
  PROVE  \/ UNCHANGED lesson
         \/ \E w \in Worker : WriteFromWebhook(w)
         \/ \E e \in Editor : StoreUpload(e) \/ \E k \in Kind : WritePatch(e, k)
BY DEF Next, Mux, MuxReceives, MuxEndsUpload, MuxFinishes, Handle, bindMuxUploadAsset,
       recordMuxUploadFailure, recordMuxAssetFailure, syncMuxAsset, Begin, Operate, Reload, Edit,
       EditField, Poll, togglePublish, SaveReadsRow, RequestUpload, Continue, PlanSave,
       AnswerSave, LosePatch, Load, AnswerUpload, LoseUpload, Kind

\* The deliveries in flight change when one decides or one writes.
LEMMA JobWriters ==
  ASSUME Next
  PROVE  \/ UNCHANGED job
         \/ \E w \in Worker : Handle(w) \/ WriteFromWebhook(w)
BY DEF Next, Mux, MuxReceives, MuxEndsUpload, MuxFinishes, Operate, Reload, Edit,
       EditField, Poll, togglePublish, SaveReadsRow, RequestUpload, Continue, PlanSave, WritePatch,
       AnswerSave, LosePatch, Load, StoreUpload, AnswerUpload, LoseUpload, Kind

-----------------------------------------------------------------------------
(* What a delivery decides to write.                                         *)

LEMMA BindFacts ==
  ASSUME NEW u
  PROVE  /\ bindData(u)["muxUploadId"] = None
         /\ "accessLevel" \notin DOMAIN bindData(u)
         /\ IF "videoProvider" \in DOMAIN bindData(u) THEN bindData(u)["videoProvider"] = "MUX"
            ELSE lesson.videoProvider = "MUX"
         /\ IF "muxPlaybackId" \in DOMAIN bindData(u) THEN bindData(u)["muxPlaybackId"] = None
            ELSE lesson.muxPlaybackId = None
BY DEF bindData, also, set, setIf, nothing

LEMMA FailureFacts ==
  /\ DOMAIN uploadFailureData = {"muxUploadId", "muxVideoError"}
  /\ uploadFailureData["muxUploadId"] = None
  /\ \A a : /\ DOMAIN assetFailureData(a) \subseteq {"muxUploadId", "muxVideoError", "muxAssetId"}
            /\ "muxUploadId" \in DOMAIN assetFailureData(a) =>
                 assetFailureData(a)["muxUploadId"] = None /\ matchedByUpload(a)
<1>1. /\ DOMAIN uploadFailureData = {"muxUploadId", "muxVideoError"}
      /\ uploadFailureData["muxUploadId"] = None
  BY DEF uploadFailureData, also, set
<1>2. ASSUME NEW a
      PROVE  /\ DOMAIN assetFailureData(a) \subseteq {"muxUploadId", "muxVideoError", "muxAssetId"}
             /\ "muxUploadId" \in DOMAIN assetFailureData(a) =>
                  assetFailureData(a)["muxUploadId"] = None /\ matchedByUpload(a)
  BY DEF assetFailureData, also, set, setIf, nothing
<1> QED BY <1>1, <1>2

LEMMA SyncFacts ==
  ASSUME NEW a
  PROVE  /\ "muxUploadId" \in DOMAIN syncData(a) =>
              syncData(a)["muxUploadId"] = None /\ lesson.muxUploadId = a
         /\ "accessLevel" \notin DOMAIN syncData(a)
         /\ IF "videoProvider" \in DOMAIN syncData(a) THEN syncData(a)["videoProvider"] = "MUX"
            ELSE lesson.videoProvider = "MUX"
         /\ "muxPlaybackId" \in DOMAIN syncData(a) =>
              syncData(a)["muxPlaybackId"] = playbackIdFor(a)
BY DEF syncData, settles, also, set, setIf, nothing

-----------------------------------------------------------------------------
(* A YouTube lesson has nothing of Mux on its row; a delivery leaves no      *)
(* YouTube lesson and ends only the upload it is about; a save or a publish  *)
(* ends an upload only on a YouTube lesson; an upload starts on none.        *)

CleanYouTube(row) ==
  row.videoProvider = "YOUTUBE" =>
    row.muxAssetId = None /\ row.muxUploadId = None /\ ~ row.muxVideoError

JobSerial(row, j) ==
  j.pc = "write" =>
    /\ "muxUploadId" \in DOMAIN j.data => j.data["muxUploadId"] = None /\ j.about = row.muxUploadId
    /\ over(j.data, row).videoProvider # "YOUTUBE"

PatchSerial(row, p) ==
  /\ p.pc = "plan" =>
       /\ DOMAIN p.data = FormField
       /\ p.data["videoProvider"] = "YOUTUBE" => p.data["muxAssetId"] = None
  /\ p.pc = "write" =>
       /\ "muxUploadId" \in DOMAIN p.data => over(p.data, row).videoProvider = "YOUTUBE"
       /\ CleanYouTube(over(p.data, row))

PostSerial(row, p) == p.pc = "store" => row.videoProvider # "YOUTUBE"

SerialInv ==
  /\ VideoInv
  /\ Alone
  /\ CleanYouTube(lesson)
  /\ \A w \in Worker : JobSerial(lesson, job[w])
  /\ \A e \in Editor, k \in Kind : PatchSerial(lesson, patch[e][k])
  /\ \A e \in Editor : PostSerial(lesson, post[e])

LEMMA SerialStarts == Init => SerialInv
<1> SUFFICES ASSUME Init PROVE SerialInv
  OBVIOUS
<1>1. VideoInv
  BY VideoStarts
<1>2. Alone
  BY DEF Init, Alone, Busy, idleJob, Patching, Posting, idlePatch, idlePost
<1>3. CleanYouTube(lesson)
  <2>1. unfilmed.videoProvider = "NONE" /\ placeholder.videoProvider = "MUX"
    BY DEF unfilmed, placeholder
  <2> QED BY <2>1 DEF Init, CleanYouTube
<1>4. /\ \A w \in Worker : JobSerial(lesson, job[w])
      /\ \A e \in Editor, k \in Kind : PatchSerial(lesson, patch[e][k])
      /\ \A e \in Editor : PostSerial(lesson, post[e])
  BY DEF Init, JobSerial, idleJob, PatchSerial, idlePatch, PostSerial, idlePost, Kind
<1> QED BY <1>1, <1>2, <1>3, <1>4 DEF SerialInv

LEMMA NotYouTube ==
  ASSUME RowInv, lesson.youtubeVideoId = None
  PROVE  lesson.videoProvider # "YOUTUBE"
BY DEF RowInv, storable

LEMMA HandleSerial ==
  ASSUME RowInv, JobInv, CleanYouTube(lesson), \A v \in Worker : JobSerial(lesson, job[v]),
         NEW w \in Worker, Handle(w)
  PROVE  \A v \in Worker : JobSerial(lesson, job'[v])
<1> DEFINE Decides(data, about) ==
      /\ Begin(w, data, about)
      /\ "muxUploadId" \in DOMAIN data => data["muxUploadId"] = None /\ about = lesson.muxUploadId
      /\ over(data, lesson).videoProvider # "YOUTUBE"
<1>1. lesson \in Row /\ DOMAIN lesson = Column /\ "videoProvider" \in Column
  BY RowDomain DEF RowInv, Column
<1>2. \E data, about : Decides(data, about)
  <2>1. ASSUME NEW u \in Upload, bindMuxUploadAsset(w, u), Begin(w, bindData(u), u)
        PROVE  Decides(bindData(u), u)
    <3>1. u = lesson.muxUploadId
      BY <2>1 DEF bindMuxUploadAsset
    <3>2. over(bindData(u), lesson).videoProvider = "MUX"
      BY <1>1, BindFacts DEF over
    <3> QED BY <2>1, <3>1, <3>2, BindFacts
  <2>2. ASSUME NEW u \in Upload, recordMuxUploadFailure(w, u), Begin(w, uploadFailureData, u)
        PROVE  Decides(uploadFailureData, u)
    <3>1. u = lesson.muxUploadId /\ u # None
      BY <2>2 DEF recordMuxUploadFailure, Asset
    <3>2. over(uploadFailureData, lesson).videoProvider = lesson.videoProvider
      BY <1>1, FailureFacts DEF over
    <3> QED BY <2>2, <3>1, <3>2, FailureFacts DEF CleanYouTube
  <2>3. ASSUME NEW a \in Asset, recordMuxAssetFailure(w, a), Begin(w, assetFailureData(a), a)
        PROVE  Decides(assetFailureData(a), a)
    <3>1. a # None /\ (a = lesson.muxUploadId \/ a = lesson.muxAssetId)
      BY <2>3 DEF recordMuxAssetFailure, matchedByAsset, matchedByUpload
    <3>2. over(assetFailureData(a), lesson).videoProvider = lesson.videoProvider
      BY <1>1, FailureFacts DEF over
    <3> QED BY <2>3, <3>1, <3>2, FailureFacts DEF CleanYouTube, matchedByUpload
  <2>4. ASSUME NEW a \in Asset, syncMuxAsset(w, a), Begin(w, syncData(a), a)
        PROVE  Decides(syncData(a), a)
    <3>1. over(syncData(a), lesson).videoProvider = "MUX"
      BY <1>1, SyncFacts DEF over
    <3> QED BY <2>4, <3>1, SyncFacts
  <2> QED BY <2>1, <2>2, <2>3, <2>4, HandleData
<1>3. PICK data, about : Decides(data, about)
  BY <1>2
<1> QED BY <1>3 DEF JobSerial, JobInv, Begin

-----------------------------------------------------------------------------
(* What a save and a publish plan.                                           *)

LEMMA PaidFacts ==
  ASSUME NEW row, NEW data, DOMAIN data = FormField
  PROVE  LET paid == planPaidAccessTransition(row, data)
         IN  /\ DOMAIN paid = FormField
             /\ \A f \in {"accessLevel", "muxAssetId"} : paid[f] = data[f]
             /\ paid["videoProvider"] = "YOUTUBE" => data["videoProvider"] = "YOUTUBE"
             /\ paid["muxPlaybackId"] =
                  IF clearsMuxPlaybackIdOnPaidTransition(row, data) THEN None
                  ELSE data["muxPlaybackId"]
BY DEF planPaidAccessTransition, also, set, setIf, nothing, FormField

LEMMA NothingToPay == planPaidAccessTransition(lesson, nothing) = nothing
BY DEF planPaidAccessTransition, clearsMuxPlaybackIdOnPaidTransition, nextStoredValue, nothing

LEMMA ClearFacts ==
  ASSUME NEW row \in Row, NEW data, DOMAIN data \subseteq FormField
  PROVE  LET clear == planYouTubeUploadStateClear(row, data)
         IN  /\ DOMAIN clear \subseteq DOMAIN data \cup {"muxUploadId", "muxVideoError"}
             /\ DOMAIN data \subseteq DOMAIN clear
             /\ \A f \in DOMAIN data : clear[f] = data[f]
             /\ "muxUploadId" \in DOMAIN clear =>
                  over(clear, row).videoProvider = "YOUTUBE"
             /\ over(clear, row).videoProvider = "YOUTUBE" =>
                  over(clear, row).muxUploadId = None /\ ~ over(clear, row).muxVideoError
<1> DEFINE clear == planYouTubeUploadStateClear(row, data)
<1>1. /\ DOMAIN row = Column
      /\ {"videoProvider", "muxUploadId", "muxVideoError"} \subseteq Column
      /\ row.muxVideoError \in BOOLEAN
      /\ "muxUploadId" \notin DOMAIN data /\ "muxVideoError" \notin DOMAIN data
  BY RowDomain DEF Column, FormField, Row
<1>2. CASE nextStoredValue(data, "videoProvider", row) = "YOUTUBE"
  <2>1. /\ DOMAIN clear \subseteq DOMAIN data \cup {"muxUploadId", "muxVideoError"}
        /\ DOMAIN data \subseteq DOMAIN clear
        /\ \A f \in DOMAIN data : clear[f] = data[f]
        /\ row.muxUploadId # None => "muxUploadId" \in DOMAIN clear
        /\ "muxUploadId" \in DOMAIN clear => clear["muxUploadId"] = None
        /\ row.muxVideoError => "muxVideoError" \in DOMAIN clear
        /\ "muxVideoError" \in DOMAIN clear => clear["muxVideoError"] = FALSE
    BY <1>1, <1>2 DEF planYouTubeUploadStateClear, also, set, setIf, nothing
  <2> HIDE DEF clear
  <2>2. /\ over(clear, row).videoProvider = "YOUTUBE"
        /\ over(clear, row).muxUploadId = None
        /\ ~ over(clear, row).muxVideoError
    BY <1>1, <1>2, <2>1 DEF over, nextStoredValue
  <2> QED BY <2>1, <2>2 DEF clear
<1>3. CASE nextStoredValue(data, "videoProvider", row) # "YOUTUBE"
  <2>1. clear = data
    BY <1>3 DEF planYouTubeUploadStateClear
  <2>2. over(data, row).videoProvider # "YOUTUBE"
    BY <1>1, <1>3 DEF over, nextStoredValue
  <2> HIDE DEF clear
  <2> QED BY <1>1, <2>1, <2>2 DEF clear
<1> QED BY <1>2, <1>3

LEMMA SavePlanSerial ==
  ASSUME RowInv, NEW p, PatchSerial(lesson, p), p.pc = "plan"
  PROVE  PatchSerial(lesson, [pc |-> "write", data |-> plan(p.data), byHand |-> p.byHand])
<1> DEFINE paid == planPaidAccessTransition(lesson, p.data)
<1>1. lesson \in Row /\ DOMAIN lesson = Column /\ {"videoProvider", "muxAssetId"} \subseteq Column
  BY RowDomain DEF RowInv, Column
<1>2. /\ DOMAIN paid = FormField
      /\ paid["videoProvider"] = "YOUTUBE" => paid["muxAssetId"] = None
  BY PaidFacts DEF PatchSerial
<1>3. plan(p.data) = planYouTubeUploadStateClear(lesson, paid)
  BY DEF plan
<1> HIDE DEF paid
<1> DEFINE clear == planYouTubeUploadStateClear(lesson, paid)
<1>4. /\ DOMAIN paid \subseteq DOMAIN clear
      /\ \A f \in DOMAIN paid : clear[f] = paid[f]
      /\ "muxUploadId" \in DOMAIN clear => over(clear, lesson).videoProvider = "YOUTUBE"
      /\ over(clear, lesson).videoProvider = "YOUTUBE" =>
           over(clear, lesson).muxUploadId = None /\ ~ over(clear, lesson).muxVideoError
  BY <1>1, <1>2, ClearFacts
<1> HIDE DEF clear
<1>5. /\ over(clear, lesson).videoProvider = paid["videoProvider"]
      /\ over(clear, lesson).muxAssetId = paid["muxAssetId"]
  BY <1>1, <1>2, <1>4 DEF over, FormField
<1>6. CleanYouTube(over(clear, lesson))
  BY <1>2, <1>4, <1>5 DEF CleanYouTube
<1> QED BY <1>3, <1>4, <1>6 DEF PatchSerial, clear

LEMMA PublishPlanSerial ==
  ASSUME RowInv, CleanYouTube(lesson)
  PROVE  PatchSerial(lesson, [pc |-> "write", data |-> plan(nothing), byHand |-> FALSE])
<1> DEFINE clear == planYouTubeUploadStateClear(lesson, nothing)
<1>1. lesson \in Row /\ DOMAIN lesson = Column /\ {"videoProvider", "muxAssetId"} \subseteq Column
  BY RowDomain DEF RowInv, Column
<1>2. plan(nothing) = clear
  BY NothingToPay DEF plan
<1>3. /\ DOMAIN clear \subseteq {"muxUploadId", "muxVideoError"}
      /\ "muxUploadId" \in DOMAIN clear => over(clear, lesson).videoProvider = "YOUTUBE"
      /\ over(clear, lesson).videoProvider = "YOUTUBE" =>
           over(clear, lesson).muxUploadId = None /\ ~ over(clear, lesson).muxVideoError
  <2>1. DOMAIN nothing = {}
    BY DEF nothing
  <2> QED BY <1>1, <2>1, ClearFacts
<1> HIDE DEF clear
<1>4. /\ over(clear, lesson).videoProvider = lesson.videoProvider
      /\ over(clear, lesson).muxAssetId = lesson.muxAssetId
  BY <1>1, <1>3 DEF over
<1>5. CleanYouTube(over(clear, lesson))
  BY <1>3, <1>4 DEF CleanYouTube
<1> QED BY <1>2, <1>3, <1>5 DEF PatchSerial

-----------------------------------------------------------------------------
(* The invariant of SerialSpec is kept.                                      *)

\* While a request is in flight the row is whatever that request left.
LEMMA WebhookWriteSerial ==
  ASSUME SerialInv, NEW w \in Worker, WriteFromWebhook(w)
  PROVE  /\ \A v \in Worker : job'[v].pc = "idle"
         /\ \A e \in Editor, k \in Kind : patch'[e][k].pc = "idle"
         /\ \A e \in Editor : post'[e].pc = "idle"
         /\ CleanYouTube(lesson')
<1>1. /\ \A v \in Worker \ {w} : job[v].pc = "idle"
      /\ \A e \in Editor, k \in Kind : patch[e][k].pc = "idle"
      /\ \A e \in Editor : post[e].pc = "idle"
  BY LonelyJob DEF SerialInv, WriteFromWebhook
<1>2. UNCHANGED <<patch, post>> /\ job' = [job EXCEPT ![w] = idleJob] /\ UpdateLesson(job[w].data)
  BY DEF WriteFromWebhook, pages
<1>3. \A v \in Worker : job'[v].pc = "idle"
  BY <1>1, <1>2 DEF SerialInv, VideoInv, JobInv, idleJob
<1>4. over(job[w].data, lesson).videoProvider # "YOUTUBE"
  BY DEF SerialInv, JobSerial, WriteFromWebhook
<1>5. CleanYouTube(lesson')
  BY <1>2, <1>4 DEF UpdateLesson, SerialInv, CleanYouTube
<1> QED BY <1>1, <1>2, <1>3, <1>5

LEMMA PatchWriteSerial ==
  ASSUME SerialInv, NEW e \in Editor, NEW k \in Kind, WritePatch(e, k)
  PROVE  /\ \A w \in Worker : job'[w].pc = "idle"
         /\ \A d \in Editor, j \in Kind : patch'[d][j].pc \in {"idle", "answer"}
         /\ \A d \in Editor : post'[d].pc = "idle"
         /\ CleanYouTube(lesson')
<1>1. /\ \A w \in Worker : job[w].pc = "idle"
      /\ \A d \in Editor, j \in Kind : d # e \/ j # k => patch[d][j].pc = "idle"
      /\ \A d \in Editor : post[d].pc = "idle"
  BY LonelyPatch DEF SerialInv, WritePatch, Patching
<1>2. UNCHANGED <<job, post>> /\ UpdateLesson(patch[e][k].data) /\ patch[e][k].pc = "write"
  BY DEF WritePatch, Patching
<1>3. \A d \in Editor, j \in Kind : patch'[d][j].pc \in {"idle", "answer"}
  <2> DEFINE p == [idlePatch EXCEPT !.pc =
                     IF storable(over(patch[e][k].data, lesson)) THEN "answer" ELSE "idle"]
  <2>1. p.pc \in {"idle", "answer"}
    BY DEF idlePatch
  <2>2. PatchInv /\ patch' = [patch EXCEPT ![e][k] = p]
    BY DEF SerialInv, VideoInv, WritePatch
  <2> HIDE DEF p
  <2>3. \A d \in Editor, j \in Kind : patch'[d][j] = IF d = e /\ j = k THEN p ELSE patch[d][j]
    BY <2>2 DEF PatchInv, Kind
  <2> QED BY <1>1, <2>1, <2>3
<1>4. CleanYouTube(over(patch[e][k].data, lesson)) /\ CleanYouTube(lesson)
  BY <1>2 DEF SerialInv, PatchSerial
<1>5. CleanYouTube(lesson')
  BY <1>2, <1>4 DEF UpdateLesson
<1> QED BY <1>1, <1>2, <1>3, <1>5

LEMMA StoreSerial ==
  ASSUME SerialInv, NEW e \in Editor, StoreUpload(e)
  PROVE  /\ \A w \in Worker : job'[w].pc = "idle"
         /\ \A d \in Editor, j \in Kind : patch'[d][j].pc = "idle"
         /\ \A d \in Editor : post'[d].pc \in {"idle", "answer"}
         /\ lesson'.accessLevel = lesson.accessLevel
         /\ lesson'.muxPlaybackId = lesson.muxPlaybackId
         /\ lesson'.muxUploadId # None \/ lesson'.muxUploadId = lesson.muxUploadId
         /\ CleanYouTube(lesson')
<1>1. /\ \A w \in Worker : job[w].pc = "idle"
      /\ \A d \in Editor, j \in Kind : patch[d][j].pc = "idle"
      /\ \A d \in Editor \ {e} : post[d].pc = "idle"
  BY LonelyPost DEF SerialInv, StoreUpload, Posting
<1>2. UNCHANGED <<job, patch>> /\ post[e].pc = "store" /\ post[e].about \in Upload
  BY DEF StoreUpload, Posting, SerialInv, VideoInv, PostInv, PostFits
<1>3. \A d \in Editor : post'[d].pc \in {"idle", "answer"}
  BY <1>1 DEF StoreUpload, SerialInv, VideoInv, PostInv
<1> DEFINE data == also(set("muxUploadId", post[e].about), set("muxVideoError", FALSE))
<1>4. DOMAIN data = {"muxUploadId", "muxVideoError"} /\ data["muxUploadId"] # None
  BY <1>2 DEF also, set, Asset
<1>5. UpdateLesson(data)
  BY DEF StoreUpload
<1>6. DOMAIN lesson = Column /\ lesson.videoProvider # "YOUTUBE"
  BY <1>2, RowDomain DEF SerialInv, VideoInv, RowInv, PostSerial
<1> HIDE DEF data
<1>7. /\ lesson'.accessLevel = lesson.accessLevel
      /\ lesson'.muxPlaybackId = lesson.muxPlaybackId
      /\ lesson'.muxUploadId # None \/ lesson'.muxUploadId = lesson.muxUploadId
      /\ lesson'.videoProvider = lesson.videoProvider
  BY <1>4, <1>5, <1>6 DEF UpdateLesson, over, Column
<1>8. CleanYouTube(lesson')
  BY <1>6, <1>7 DEF CleanYouTube
<1> QED BY <1>1, <1>2, <1>3, <1>7, <1>8

\* A step that leaves the row alone plans what the invariant asks for.
LEMMA PatchPlansSerial ==
  ASSUME SerialInv, Next, UNCHANGED lesson
  PROVE  \A d \in Editor, j \in Kind : PatchSerial(lesson, patch'[d][j])
<1>1. RowInv /\ PatchInv /\ CleanYouTube(lesson)
  BY DEF SerialInv, VideoInv
<1>2. \A d \in Editor, j \in Kind : PatchSerial(lesson, patch[d][j])
  BY DEF SerialInv
<1>3. ASSUME NEW e \in Editor, NEW k \in Kind, NEW p, PatchSerial(lesson, p),
             patch' = [patch EXCEPT ![e][k] = p]
      PROVE  \A d \in Editor, j \in Kind : PatchSerial(lesson, patch'[d][j])
  <2>1. \A d \in Editor, j \in Kind : patch'[d][j] = IF d = e /\ j = k THEN p ELSE patch[d][j]
    BY <1>1, <1>3 DEF PatchInv, Kind
  <2> QED BY <1>2, <1>3, <2>1
<1>4. CASE UNCHANGED patch
  BY <1>2, <1>4
<1>5. ASSUME NEW e \in Editor, SaveReadsRow(e), ~ UNCHANGED patch
      PROVE  \A d \in Editor, j \in Kind : PatchSerial(lesson, patch'[d][j])
  <2> DEFINE adopted == lessonEditorFieldsAfterRowChange(editor[e].seen, lesson)
             fresh == IF adopted = nothing THEN editor[e] ELSE adopt(editor[e], lesson)
             data == outgoing(fresh.form, lesson)
             p == [pc |-> "plan", data |-> data, byHand |-> fresh.typed]
  <2>1. patch' = [patch EXCEPT ![e]["save"] = p]
    BY <1>5 DEF SaveReadsRow
  <2> HIDE DEF fresh
  <2>2. /\ DOMAIN data = FormField
        /\ data["videoProvider"] = "YOUTUBE" => data["muxAssetId"] = None
    BY DEF outgoing, showMuxAssetIdField, FormField
  <2> HIDE DEF data
  <2>3. PatchSerial(lesson, p)
    BY <2>2 DEF PatchSerial
  <2> HIDE DEF p
  <2> QED BY <1>3, <2>1, <2>3 DEF Kind
<1>6. ASSUME NEW e \in Editor, PlanSave(e)
      PROVE  \A d \in Editor, j \in Kind : PatchSerial(lesson, patch'[d][j])
  <2> DEFINE old == patch[e]["save"]
             p == [pc |-> "write", data |-> plan(old.data), byHand |-> old.byHand]
  <2>1. patch' = [patch EXCEPT ![e]["save"] = p]
    BY <1>6 DEF PlanSave
  <2>2. PatchSerial(lesson, p)
    <3>1. PatchSerial(lesson, old) /\ old.pc = "plan"
      BY <1>2, <1>6 DEF PlanSave, Patching, Kind
    <3> HIDE DEF old
    <3> QED BY <1>1, <3>1, SavePlanSerial
  <2> HIDE DEF p
  <2> QED BY <1>3, <2>1, <2>2 DEF Kind
<1>7. ASSUME NEW e \in Editor, togglePublish(e)
      PROVE  \A d \in Editor, j \in Kind : PatchSerial(lesson, patch'[d][j])
  <2> DEFINE p == [pc |-> "write", data |-> plan(nothing), byHand |-> FALSE]
  <2>1. patch' = [patch EXCEPT ![e]["publish"] = p]
    BY <1>7 DEF togglePublish
  <2>2. PatchSerial(lesson, p)
    BY <1>1, PublishPlanSerial
  <2> HIDE DEF p
  <2> QED BY <1>3, <2>1, <2>2 DEF Kind
<1>8. ASSUME NEW e \in Editor, NEW k \in Kind, NEW p, p.pc \notin {"plan", "write"},
             patch' = [patch EXCEPT ![e][k] = p]
      PROVE  \A d \in Editor, j \in Kind : PatchSerial(lesson, patch'[d][j])
  BY <1>3, <1>8 DEF PatchSerial
<1>9. ASSUME NEW e \in Editor, AnswerSave(e)
      PROVE  \A d \in Editor, j \in Kind : PatchSerial(lesson, patch'[d][j])
  <2> DEFINE p == [patch[e]["save"] EXCEPT !.pc = "load"]
  <2>1. patch' = [patch EXCEPT ![e]["save"] = p]
    BY <1>9 DEF AnswerSave
  <2>2. p.pc = "load"
    BY <1>1 DEF PatchInv, PatchFits, Kind
  <2> HIDE DEF p
  <2> QED BY <1>8, <2>1, <2>2 DEF Kind
<1>10. ASSUME NEW e \in Editor, NEW k \in Kind,
              \/ WritePatch(e, k) \/ LosePatch(e, k) \/ Load(e, k)
       PROVE  \A d \in Editor, j \in Kind : PatchSerial(lesson, patch'[d][j])
  <2>1. \A pc \in {"idle", "answer"} : [idlePatch EXCEPT !.pc = pc].pc = pc
    BY DEF idlePatch
  <2>2. idlePatch.pc = "idle"
    BY DEF idlePatch
  <2>3. \E p : p.pc \notin {"plan", "write"} /\ patch' = [patch EXCEPT ![e][k] = p]
    BY <1>10, <2>1, <2>2 DEF WritePatch, LosePatch, Load
  <2> QED BY <1>8, <2>3
<1>11. ASSUME Mux \/ (\E w \in Worker : Handle(w) \/ WriteFromWebhook(w)) PROVE UNCHANGED patch
  BY <1>11 DEF Mux, MuxReceives, MuxEndsUpload, MuxFinishes, Handle, bindMuxUploadAsset,
         recordMuxUploadFailure, recordMuxAssetFailure, syncMuxAsset, Begin, WriteFromWebhook, pages
<1>12. ASSUME NEW e \in Editor,
              \/ Reload(e) \/ Edit(e) \/ Poll(e) \/ StoreUpload(e) \/ AnswerUpload(e) \/ LoseUpload(e)
              \/ \E u \in Upload : RequestUpload(e, u)
       PROVE  UNCHANGED patch
  BY <1>12 DEF Reload, Edit, EditField, Poll, StoreUpload, AnswerUpload, LoseUpload, RequestUpload
<1> QED BY <1>4, <1>5, <1>6, <1>7, <1>9, <1>10, <1>11, <1>12 DEF Next, Operate, Continue, Kind

LEMMA PostStartsSerial ==
  ASSUME SerialInv, Next, UNCHANGED lesson
  PROVE  \A d \in Editor : PostSerial(lesson, post'[d])
<1>1. /\ RowInv /\ post = [e \in Editor |-> post[e]]
      /\ \A d \in Editor : PostSerial(lesson, post[d])
  BY DEF SerialInv, VideoInv, PostInv
<1>2. CASE UNCHANGED post
  BY <1>1, <1>2
<1>3. ASSUME NEW e \in Editor, NEW u \in Upload, RequestUpload(e, u)
      PROVE  \A d \in Editor : PostSerial(lesson, post'[d])
  BY <1>1, <1>3, NotYouTube DEF RequestUpload, PostSerial
<1>4. ASSUME NEW e \in Editor, StoreUpload(e) \/ AnswerUpload(e) \/ LoseUpload(e)
      PROVE  \A d \in Editor : PostSerial(lesson, post'[d])
  <2>1. post'[e].pc \in {"answer", "idle"} /\ \A d \in Editor \ {e} : post'[d] = post[d]
    <3>1. CASE StoreUpload(e)
      BY <1>1, <3>1 DEF StoreUpload
    <3>2. CASE AnswerUpload(e) \/ LoseUpload(e)
      BY <1>1, <3>2 DEF AnswerUpload, LoseUpload, idlePost
    <3> QED BY <1>4, <3>1, <3>2
  <2> QED BY <1>1, <2>1 DEF PostSerial
<1>5. ASSUME Mux \/ (\E w \in Worker : Handle(w) \/ WriteFromWebhook(w)) PROVE UNCHANGED post
  BY <1>5 DEF Mux, MuxReceives, MuxEndsUpload, MuxFinishes, Handle, bindMuxUploadAsset,
         recordMuxUploadFailure, recordMuxAssetFailure, syncMuxAsset, Begin, WriteFromWebhook, pages
<1>6. ASSUME NEW e \in Editor,
             \/ Reload(e) \/ Edit(e) \/ Poll(e) \/ SaveReadsRow(e) \/ togglePublish(e)
             \/ PlanSave(e) \/ AnswerSave(e)
             \/ \E k \in Kind : WritePatch(e, k) \/ LosePatch(e, k) \/ Load(e, k)
      PROVE  UNCHANGED post
  BY <1>6 DEF Reload, Edit, EditField, Poll, SaveReadsRow, togglePublish, PlanSave, AnswerSave,
              WritePatch, LosePatch, Load
<1> QED BY <1>2, <1>3, <1>4, <1>5, <1>6 DEF Next, Operate, Continue, Kind

LEMMA VideoStep == VideoInv /\ [Next]_vars => VideoInv'
BY MuxStep, RowStep, JobStep, EditorStep, PatchStep, PostStep DEF VideoInv

LEMMA SerialStep == SerialInv /\ [Next /\ Alone']_vars => SerialInv'
<1> SUFFICES ASSUME SerialInv, [Next /\ Alone']_vars PROVE SerialInv'
  OBVIOUS
<1>1. VideoInv'
  BY VideoStep DEF SerialInv
<1>2. CASE UNCHANGED vars
  BY <1>1, <1>2 DEF SerialInv, Alone, Busy, Patching, Posting, vars, pages
<1>3. CASE Next /\ Alone'
  <2> SUFFICES /\ CleanYouTube(lesson')
               /\ \A w \in Worker : JobSerial(lesson', job'[w])
               /\ \A e \in Editor, k \in Kind : PatchSerial(lesson', patch'[e][k])
               /\ \A e \in Editor : PostSerial(lesson', post'[e])
    BY <1>1, <1>3 DEF SerialInv
  <2>1. CASE UNCHANGED lesson
    <3>1. \A w \in Worker : JobSerial(lesson, job'[w])
      <4>1. CASE UNCHANGED job
        BY <4>1 DEF SerialInv
      <4>2. ASSUME NEW w \in Worker, Handle(w) PROVE \A v \in Worker : JobSerial(lesson, job'[v])
        BY <4>2, HandleSerial DEF SerialInv, VideoInv
      <4>3. ASSUME NEW w \in Worker, WriteFromWebhook(w)
            PROVE  \A v \in Worker : JobSerial(lesson, job'[v])
        BY <4>3, WebhookWriteSerial DEF JobSerial
      <4> QED BY <1>3, <4>1, <4>2, <4>3, JobWriters
    <3> QED BY <1>3, <2>1, <3>1, PatchPlansSerial, PostStartsSerial DEF SerialInv
  <2>2. ASSUME NEW w \in Worker, WriteFromWebhook(w)
        PROVE  /\ CleanYouTube(lesson')
               /\ \A v \in Worker : JobSerial(lesson', job'[v])
               /\ \A e \in Editor, k \in Kind : PatchSerial(lesson', patch'[e][k])
               /\ \A e \in Editor : PostSerial(lesson', post'[e])
    BY <2>2, WebhookWriteSerial DEF JobSerial, PatchSerial, PostSerial
  <2>3. ASSUME NEW e \in Editor, NEW k \in Kind, WritePatch(e, k)
        PROVE  /\ CleanYouTube(lesson')
               /\ \A v \in Worker : JobSerial(lesson', job'[v])
               /\ \A d \in Editor, j \in Kind : PatchSerial(lesson', patch'[d][j])
               /\ \A d \in Editor : PostSerial(lesson', post'[d])
    BY <2>3, PatchWriteSerial DEF JobSerial, PatchSerial, PostSerial
  <2>4. ASSUME NEW e \in Editor, StoreUpload(e)
        PROVE  /\ CleanYouTube(lesson')
               /\ \A v \in Worker : JobSerial(lesson', job'[v])
               /\ \A d \in Editor, j \in Kind : PatchSerial(lesson', patch'[d][j])
               /\ \A d \in Editor : PostSerial(lesson', post'[d])
    BY <2>4, StoreSerial DEF JobSerial, PatchSerial, PostSerial
  <2> QED BY <1>3, <2>1, <2>2, <2>3, <2>4, RowWriters
<1> QED BY <1>2, <1>3

LEMMA SerialInvariant == SerialSpec => []SerialInv
BY SerialStarts, SerialStep, PTL DEF SerialSpec

-----------------------------------------------------------------------------
(* The theorems of SerialSpec.                                               *)

\* One request at a time, a lesson saved as YouTube shows no upload in progress and no
\* failure, whatever its pages and deliveries did before (planYouTubeUploadStateClear,
\* bindMuxUploadAsset, recordMuxAssetFailure, createLessonUpload).
THEOREM YouTubeSettled == SerialSpec => []YouTubeNeverWaits
<1>1. SerialInv => YouTubeNeverWaits
  <2> SUFFICES ASSUME SerialInv, lesson.videoProvider = "YOUTUBE"
               PROVE  resolveLessonVideoState(lesson) = "READY"
    BY DEF YouTubeNeverWaits
  <2>1. lesson.muxUploadId = None /\ lesson.muxVideoError = FALSE
    BY DEF SerialInv, CleanYouTube, VideoInv, RowInv, Row
  <2>2. lesson.youtubeVideoId # None
    BY DEF SerialInv, VideoInv, RowInv, storable
  <2> QED BY <2>1, <2>2 DEF resolveLessonVideoState, isAwaitingMuxPlayback
<1> QED BY <1>1, SerialInvariant, PTL

\* One request at a time, a lesson stops waiting on an upload only because Mux settled
\* that very upload, a newer one replaced it, or a save switched the lesson to YouTube
\* (bindMuxUploadAsset, recordMuxUploadFailure, recordMuxAssetFailure, syncMuxAsset,
\* planYouTubeUploadStateClear, createLessonUpload).
THEOREM WaitsUntilSettled == SerialSpec => UploadNotForgotten
<1> DEFINE Forgets == lesson.muxUploadId # None /\ lesson'.muxUploadId # lesson.muxUploadId
           Because == \/ lesson'.muxUploadId # None
                      \/ lesson'.videoProvider = "YOUTUBE"
                      \/ \E w \in Worker : /\ job[w].pc = "write" /\ job'[w].pc = "idle"
                                           /\ job[w].about = lesson.muxUploadId
<1>1. SerialInv /\ [Next /\ Alone']_vars => [Forgets => Because]_vars
  <2> SUFFICES ASSUME SerialInv, Next, Forgets PROVE Because
    BY DEF vars
  <2>1. lesson \in Row /\ DOMAIN lesson = Column
    BY RowDomain DEF SerialInv, VideoInv, RowInv
  <2>2. ASSUME NEW w \in Worker, WriteFromWebhook(w) PROVE Because
    <3>1. job[w].pc = "write" /\ "muxUploadId" \in DOMAIN job[w].data
      BY <2>1, <2>2 DEF WriteFromWebhook, UpdateLesson, over, Column
    <3>2. job'[w].pc = "idle"
      BY <2>2, WebhookWriteSerial
    <3> QED BY <3>1, <3>2 DEF SerialInv, JobSerial
  <2>3. ASSUME NEW e \in Editor, NEW k \in Kind, WritePatch(e, k) PROVE Because
    <3> DEFINE data == patch[e][k].data
    <3>1. UpdateLesson(data) /\ patch[e][k].pc = "write"
      BY <2>3 DEF WritePatch, Patching
    <3>2. "muxUploadId" \in DOMAIN data => over(data, lesson).videoProvider = "YOUTUBE"
      BY <3>1 DEF SerialInv, PatchSerial
    <3> HIDE DEF data
    <3>3. "muxUploadId" \in DOMAIN data /\ lesson' = over(data, lesson)
      BY <2>1, <3>1 DEF UpdateLesson, over, Column
    <3> QED BY <3>2, <3>3
  <2>4. ASSUME NEW e \in Editor, StoreUpload(e) PROVE Because
    BY <2>4, StoreSerial
  <2> QED BY <2>2, <2>3, <2>4, RowWriters
<1>2. SerialInv /\ [Next /\ Alone']_vars =>
        [lesson.muxUploadId # None /\ lesson'.muxUploadId # lesson.muxUploadId =>
           \/ lesson'.muxUploadId # None
           \/ lesson'.videoProvider = "YOUTUBE"
           \/ \E w \in Worker :
                job[w].pc = "write" /\ job'[w].pc = "idle" /\ job[w].about = lesson.muxUploadId]_vars
  BY <1>1
<1>3. SerialSpec => [][Next /\ Alone']_vars
  BY PTL DEF SerialSpec
<1> QED BY <1>2, <1>3, SerialInvariant, PTL DEF UploadNotForgotten

-----------------------------------------------------------------------------
(* A premium lesson that plays without a token, with the uploads as a        *)
(* parameter, to speak of the state before and after a step.                 *)

Offers(uploads, a) == IF a \in Upload THEN {uploads[a].policy} ELSE HandPolicy[a]

Exposed(uploads, row) ==
  /\ row.accessLevel = "PAID"
  /\ row.muxPlaybackId \in IssuedId
  /\ Offers(uploads, row.muxPlaybackId.asset) # {"signed"}

LEMMA ExposedIsExposed ==
  /\ \A row : exposed(row) <=> Exposed(upload, row)
  /\ exposed(lesson)' <=> Exposed(upload', lesson')
BY DEF exposed, Exposed, Offers, policiesOf

\* A write exposes nothing the row does not already expose.
Quiet(uploads, row, d) ==
  Exposed(uploads, over(d, row)) =>
    Exposed(uploads, row) /\ over(d, row).muxPlaybackId = row.muxPlaybackId

JobQuiet(uploads, row, j) == j.pc = "write" => Quiet(uploads, row, j.data)

PatchQuiet(uploads, row, k, p) ==
  k = "publish" \/ ~ p.byHand =>
    /\ p.pc = "plan" => p.data["muxPlaybackId"] \in {row.muxPlaybackId, None}
    /\ p.pc = "write" => Quiet(uploads, row, p.data)

\* A form holds the playback id its page shows, or none, or one that was typed; between
\* the answer of a save and the load after it, the row's own.
FormFollows(row, p, saving) ==
  \/ p.typed
  \/ p.form["muxPlaybackId"] = None
  \/ p.form["muxPlaybackId"] = IF saving = "load" THEN row.muxPlaybackId ELSE p.seen.muxPlaybackId

HandInv ==
  /\ SerialInv
  /\ \A w \in Worker : JobQuiet(upload, lesson, job[w])
  /\ \A e \in Editor, k \in Kind : PatchQuiet(upload, lesson, k, patch[e][k])
  /\ \A e \in Editor : FormFollows(lesson, editor[e], patch[e]["save"].pc)

LEMMA HandStarts == Init => HandInv
<1> SUFFICES ASSUME Init PROVE HandInv
  OBVIOUS
<1>1. SerialInv
  BY SerialStarts
<1>2. /\ \A w \in Worker : JobQuiet(upload, lesson, job[w])
      /\ \A e \in Editor, k \in Kind : PatchQuiet(upload, lesson, k, patch[e][k])
  BY DEF Init, JobQuiet, idleJob, PatchQuiet, idlePatch, Kind
<1>3. \A e \in Editor : FormFollows(lesson, editor[e], patch[e]["save"].pc)
  BY DEF Init, FormFollows, page, lessonEditorFieldsAfterSave, FormField, idlePatch
<1> QED BY <1>1, <1>2, <1>3 DEF HandInv

\* A write that leaves the tier alone and brings no playback id but a safe one is quiet.
LEMMA BringsQuietly ==
  ASSUME NEW uploads, NEW row \in Row, NEW d, "accessLevel" \notin DOMAIN d,
         "muxPlaybackId" \in DOMAIN d /\ row.accessLevel = "PAID" =>
           \/ d["muxPlaybackId"] \in {None, row.muxPlaybackId}
           \/ Offers(uploads, d["muxPlaybackId"].asset) = {"signed"}
  PROVE  Quiet(uploads, row, d)
<1>1. DOMAIN row = Column /\ {"accessLevel", "muxPlaybackId"} \subseteq Column
  BY RowDomain DEF Column
<1>2. /\ over(d, row).accessLevel = row.accessLevel
      /\ over(d, row).muxPlaybackId =
           IF "muxPlaybackId" \in DOMAIN d THEN d["muxPlaybackId"] ELSE row.muxPlaybackId
  BY <1>1 DEF over
<1>3. None \notin IssuedId
  BY DEF PlaybackId
<1> QED BY <1>2, <1>3 DEF Quiet, Exposed

LEMMA HandleQuiet ==
  ASSUME RowInv, JobInv, \A v \in Worker : JobQuiet(upload, lesson, job[v]),
         NEW w \in Worker, Handle(w)
  PROVE  \A v \in Worker : JobQuiet(upload, lesson, job'[v])
<1> DEFINE Decides(data, about) == Begin(w, data, about) /\ Quiet(upload, lesson, data)
<1>1. lesson \in Row
  BY DEF RowInv
<1>2. \E data, about : Decides(data, about)
  <2>1. ASSUME NEW u \in Upload, Begin(w, bindData(u), u) PROVE Decides(bindData(u), u)
    BY <1>1, <2>1, BindFacts, BringsQuietly
  <2>2. ASSUME NEW u \in Upload, Begin(w, uploadFailureData, u) PROVE Decides(uploadFailureData, u)
    BY <1>1, <2>2, FailureFacts, BringsQuietly
  <2>3. ASSUME NEW a \in Asset, Begin(w, assetFailureData(a), a)
        PROVE  Decides(assetFailureData(a), a)
    BY <1>1, <2>3, FailureFacts, BringsQuietly
  <2>4. ASSUME NEW a \in Asset, syncMuxAsset(w, a), Begin(w, syncData(a), a)
        PROVE  Decides(syncData(a), a)
    <3>1. lesson.accessLevel = "PAID" => Offers(upload, playbackIdFor(a).asset) = {"signed"}
      BY <2>4 DEF syncMuxAsset, playbackIdFor, rejectMuxPlaybackPolicy, policiesOf, Offers
    <3> QED BY <1>1, <2>4, <3>1, SyncFacts, BringsQuietly
  <2> QED BY <2>1, <2>2, <2>3, <2>4, HandleData
<1>3. PICK data, about : Decides(data, about)
  BY <1>2
<1> QED BY <1>3 DEF JobQuiet, JobInv, Begin

LEMMA SavePlanQuiet ==
  ASSUME NEW uploads, RowInv, NEW data, DOMAIN data = FormField,
         data["muxPlaybackId"] \in {lesson.muxPlaybackId, None}
  PROVE  Quiet(uploads, lesson, plan(data))
<1> DEFINE paid == planPaidAccessTransition(lesson, data)
           clear == planYouTubeUploadStateClear(lesson, paid)
<1>1. /\ lesson \in Row /\ DOMAIN lesson = Column
      /\ {"accessLevel", "muxPlaybackId"} \subseteq Column
      /\ lesson.accessLevel \in {"FREE", "PAID"}
  BY RowDomain DEF RowInv, Column, Row
<1>2. /\ DOMAIN paid = FormField /\ paid["accessLevel"] = data["accessLevel"]
      /\ paid["muxPlaybackId"] =
           IF clearsMuxPlaybackIdOnPaidTransition(lesson, data) THEN None
           ELSE data["muxPlaybackId"]
  BY PaidFacts
<1> HIDE DEF paid
<1>3. DOMAIN paid \subseteq DOMAIN clear /\ \A f \in DOMAIN paid : clear[f] = paid[f]
  BY <1>1, <1>2, ClearFacts
<1>4. plan(data) = clear
  BY DEF plan, paid
<1> HIDE DEF clear
<1>5. /\ over(clear, lesson).accessLevel = data["accessLevel"]
      /\ over(clear, lesson).muxPlaybackId = paid["muxPlaybackId"]
  BY <1>1, <1>2, <1>3 DEF over, FormField
<1>6. ASSUME data["accessLevel"] = "PAID", paid["muxPlaybackId"] \in IssuedId
      PROVE  lesson.accessLevel = "PAID" /\ paid["muxPlaybackId"] = lesson.muxPlaybackId
  <2>1. /\ ~ clearsMuxPlaybackIdOnPaidTransition(lesson, data)
        /\ data["muxPlaybackId"] = lesson.muxPlaybackId /\ lesson.muxPlaybackId # None
        /\ paid["muxPlaybackId"] = data["muxPlaybackId"]
    BY <1>2, <1>6 DEF PlaybackId
  <2> QED BY <1>1, <1>6, <2>1 DEF clearsMuxPlaybackIdOnPaidTransition, nextStoredValue, FormField
<1> QED BY <1>4, <1>5, <1>6 DEF Quiet, Exposed

LEMMA PublishPlanQuiet ==
  ASSUME NEW uploads, RowInv
  PROVE  Quiet(uploads, lesson, plan(nothing))
<1>1. DOMAIN nothing = {} /\ lesson \in Row
  BY DEF nothing, RowInv
<1>2. DOMAIN plan(nothing) \subseteq {"muxUploadId", "muxVideoError"}
  BY <1>1, NothingToPay, ClearFacts DEF plan
<1> QED BY <1>1, <1>2, BringsQuietly

-----------------------------------------------------------------------------
(* A form and the rows its page takes on.                                    *)

LEMMA AdoptFollows ==
  ASSUME NEW p \in Page, NEW row \in Row, NEW saving, saving # "load", NEW saving2, NEW any,
         FormFollows(any, p, saving)
  PROVE  adopt(p, row) \in Page /\ FormFollows(row, adopt(p, row), saving2)
<1> DEFINE adopted == lessonEditorFieldsAfterRowChange(p.seen, row)
           n == adopt(p, row)
<1>1. /\ DOMAIN p.form = FormField /\ "muxPlaybackId" \in FormField
      /\ "muxPlaybackId" \in DOMAIN adopted <=> p.seen["muxPlaybackId"] # row["muxPlaybackId"]
      /\ "muxPlaybackId" \in DOMAIN adopted =>
           adopted["muxPlaybackId"] = row["muxPlaybackId"]
  BY FormDomain DEF Page, FormField, lessonEditorFieldsAfterRowChange
<1>2. /\ n.seen = row /\ n.form = over(adopted, p.form)
      /\ n.typed = (p.typed /\ "muxPlaybackId" \notin DOMAIN adopted)
  BY DEF adopt
<1>3. n \in Page
  BY AdoptFits
<1> HIDE DEF adopted, n
<1>4. n.form["muxPlaybackId"] = IF "muxPlaybackId" \in DOMAIN adopted THEN row["muxPlaybackId"]
                                ELSE p.form["muxPlaybackId"]
  BY <1>1, <1>2 DEF over
<1>5. FormFollows(row, n, saving2)
  BY <1>1, <1>2, <1>4 DEF FormFollows
<1> QED BY <1>3, <1>5 DEF n

\* The same while a save is about to load the row.
LEMMA AdoptLoading ==
  ASSUME NEW p \in Page, NEW row \in Row, FormFollows(row, p, "load")
  PROVE  FormFollows(row, adopt(p, row), "load")
<1> DEFINE adopted == lessonEditorFieldsAfterRowChange(p.seen, row)
           n == adopt(p, row)
<1>1. /\ DOMAIN p.form = FormField /\ "muxPlaybackId" \in FormField
      /\ "muxPlaybackId" \in DOMAIN adopted =>
           adopted["muxPlaybackId"] = row["muxPlaybackId"]
  BY FormDomain DEF Page, FormField, lessonEditorFieldsAfterRowChange
<1>2. /\ n.seen = row /\ n.form = over(adopted, p.form)
      /\ n.typed = (p.typed /\ "muxPlaybackId" \notin DOMAIN adopted)
  BY DEF adopt
<1> HIDE DEF adopted, n
<1>3. n.form["muxPlaybackId"] = IF "muxPlaybackId" \in DOMAIN adopted THEN row["muxPlaybackId"]
                                ELSE p.form["muxPlaybackId"]
  BY <1>1, <1>2 DEF over
<1>4. FormFollows(row, n, "load")
  BY <1>2, <1>3 DEF FormFollows
<1> QED BY <1>4 DEF n

fresh(e) ==
  IF lessonEditorFieldsAfterRowChange(editor[e].seen, lesson) = nothing THEN editor[e]
  ELSE adopt(editor[e], lesson)

LEMMA SaveData ==
  ASSUME NEW e \in Editor, SaveReadsRow(e)
  PROVE  /\ patch[e]["save"].pc = "idle" /\ UNCHANGED lesson
         /\ editor' = [editor EXCEPT ![e] = fresh(e)]
         /\ \/ UNCHANGED patch
            \/ patch' = [patch EXCEPT ![e]["save"] =
                 [pc |-> "plan", data |-> outgoing(fresh(e).form, lesson),
                  byHand |-> fresh(e).typed]]
BY DEF SaveReadsRow, fresh, Patching

LEMMA FreshFollows ==
  ASSUME EditorInv, lesson \in Row, NEW e \in Editor, NEW saving, saving # "load",
         FormFollows(lesson, editor[e], saving)
  PROVE  \A saving2 : FormFollows(lesson, fresh(e), saving2)
<1> SUFFICES ASSUME NEW saving2 PROVE FormFollows(lesson, fresh(e), saving2)
  OBVIOUS
<1>1. CASE lessonEditorFieldsAfterRowChange(editor[e].seen, lesson) = nothing
  <2>1. editor[e].seen["muxPlaybackId"] = lesson["muxPlaybackId"]
    BY <1>1 DEF lessonEditorFieldsAfterRowChange, nothing, FormField
  <2> QED BY <1>1, <2>1 DEF fresh, FormFollows
<1>2. CASE lessonEditorFieldsAfterRowChange(editor[e].seen, lesson) # nothing
  BY <1>2, AdoptFollows DEF fresh, EditorInv
<1> QED BY <1>1, <1>2

-----------------------------------------------------------------------------
(* The invariant of SerialInSyncSpec is kept.                                *)

\* A policy Mux gave an asset stays; an upload gets one when it is requested.
LEMMA SignedStays ==
  ASSUME VideoInv, [Next]_vars
  PROVE  \A a : Offers(upload, a) = {"signed"} => Offers(upload', a) = {"signed"}
<1>1. MuxInv /\ PostInv
  BY DEF VideoInv
<1>2. ASSUME \A u \in Upload : upload'[u].policy = upload[u].policy
      PROVE  \A a : Offers(upload, a) = {"signed"} => Offers(upload', a) = {"signed"}
  BY <1>2 DEF Offers
<1>3. CASE UNCHANGED upload
  BY <1>3
<1>4. ASSUME NEW u \in Upload, MuxReceives(u) \/ MuxEndsUpload(u)
      PROVE  \A v \in Upload : upload'[v].policy = upload[v].policy
  BY <1>1, <1>4 DEF MuxReceives, MuxEndsUpload, MuxInv, UploadState
<1>5. ASSUME NEW e \in Editor, AnswerUpload(e)
      PROVE  \A v \in Upload : upload'[v].policy = upload[v].policy
  BY <1>1, <1>5 DEF AnswerUpload, Posting, PostInv, PostFits, MuxInv, UploadState
<1>6. ASSUME NEW e \in Editor, NEW u \in Upload, RequestUpload(e, u)
      PROVE  \A a : Offers(upload, a) = {"signed"} => Offers(upload', a) = {"signed"}
  <2>1. upload[u].policy = None /\ None # "signed"
    BY <1>1, <1>6 DEF RequestUpload, MuxInv, Policy
  <2>2. \A v \in Upload \ {u} : upload'[v] = upload[v]
    BY <1>1, <1>6 DEF RequestUpload, MuxInv
  <2> QED BY <2>1, <2>2 DEF Offers
<1>7. ASSUME \/ \E a \in Asset, outcome \in {"ready", "errored"} : MuxFinishes(a, outcome)
             \/ \E w \in Worker : Handle(w) \/ WriteFromWebhook(w)
      PROVE  UNCHANGED upload
  BY <1>7 DEF MuxFinishes, Handle, WriteFromWebhook, bindMuxUploadAsset, recordMuxUploadFailure,
              recordMuxAssetFailure, syncMuxAsset, Begin
<1>8. ASSUME NEW e \in Editor,
             \/ Reload(e) \/ Edit(e) \/ Poll(e) \/ togglePublish(e) \/ SaveReadsRow(e)
             \/ PlanSave(e) \/ AnswerSave(e) \/ StoreUpload(e) \/ LoseUpload(e)
             \/ \E k \in {"save", "publish"} : WritePatch(e, k) \/ LosePatch(e, k) \/ Load(e, k)
      PROVE  UNCHANGED upload
  BY <1>8 DEF Reload, Edit, EditField, Poll, togglePublish, SaveReadsRow, PlanSave, AnswerSave,
              StoreUpload, LoseUpload, WritePatch, LosePatch, Load
<1> QED BY <1>2, <1>3, <1>4, <1>5, <1>6, <1>7, <1>8 DEF Next, Mux, Operate, Continue, vars

LEMMA QuietStays ==
  ASSUME \A a : Offers(upload, a) = {"signed"} => Offers(upload', a) = {"signed"}
  PROVE  \A row, d : Quiet(upload, row, d) => Quiet(upload', row, d)
BY DEF Quiet, Exposed

LEMMA JobsQuiet ==
  ASSUME HandInv, Next, UNCHANGED lesson
  PROVE  \A v \in Worker : JobQuiet(upload, lesson, job'[v])
<1>1. CASE UNCHANGED job
  BY <1>1 DEF HandInv
<1>2. ASSUME NEW w \in Worker, Handle(w) PROVE \A v \in Worker : JobQuiet(upload, lesson, job'[v])
  BY <1>2, HandleQuiet DEF HandInv, SerialInv, VideoInv
<1>3. ASSUME NEW w \in Worker, WriteFromWebhook(w)
      PROVE  \A v \in Worker : JobQuiet(upload, lesson, job'[v])
  BY <1>3, WebhookWriteSerial DEF HandInv, JobQuiet
<1> QED BY <1>1, <1>2, <1>3, JobWriters

LEMMA PatchPlansQuiet ==
  ASSUME HandInv, Next, UNCHANGED lesson
  PROVE  \A d \in Editor, j \in Kind : PatchQuiet(upload, lesson, j, patch'[d][j])
<1>1. /\ RowInv /\ PatchInv /\ EditorInv /\ lesson \in Row
      /\ \A d \in Editor, j \in Kind : PatchSerial(lesson, patch[d][j])
      /\ \A d \in Editor, j \in Kind : PatchQuiet(upload, lesson, j, patch[d][j])
      /\ \A d \in Editor : FormFollows(lesson, editor[d], patch[d]["save"].pc)
  BY DEF HandInv, SerialInv, VideoInv, RowInv
<1>2. ASSUME NEW e \in Editor, NEW k \in Kind, NEW p, PatchQuiet(upload, lesson, k, p),
             patch' = [patch EXCEPT ![e][k] = p]
      PROVE  \A d \in Editor, j \in Kind : PatchQuiet(upload, lesson, j, patch'[d][j])
  <2>1. \A d \in Editor, j \in Kind : patch'[d][j] = IF d = e /\ j = k THEN p ELSE patch[d][j]
    BY <1>1, <1>2 DEF PatchInv, Kind
  <2> QED BY <1>1, <1>2, <2>1
<1>3. CASE UNCHANGED patch
  BY <1>1, <1>3
<1>4. ASSUME NEW e \in Editor, SaveReadsRow(e)
      PROVE  \A d \in Editor, j \in Kind : PatchQuiet(upload, lesson, j, patch'[d][j])
  <2> DEFINE data == outgoing(fresh(e).form, lesson)
             p == [pc |-> "plan", data |-> data, byHand |-> fresh(e).typed]
  <2>1. \/ UNCHANGED patch
        \/ patch' = [patch EXCEPT ![e]["save"] = p]
    BY <1>4, SaveData
  <2>2. data["muxPlaybackId"] \in {fresh(e).form["muxPlaybackId"], None}
    BY DEF outgoing, FormField
  <2>3. FormFollows(lesson, fresh(e), "load")
    BY <1>1, <1>4, SaveData, FreshFollows
  <2> HIDE DEF data
  <2>4. PatchQuiet(upload, lesson, "save", p)
    BY <2>2, <2>3 DEF FormFollows, PatchQuiet
  <2> HIDE DEF p
  <2> QED BY <1>2, <1>3, <2>1, <2>4 DEF Kind
<1>5. ASSUME NEW e \in Editor, PlanSave(e)
      PROVE  \A d \in Editor, j \in Kind : PatchQuiet(upload, lesson, j, patch'[d][j])
  <2> DEFINE old == patch[e]["save"]
             p == [pc |-> "write", data |-> plan(old.data), byHand |-> old.byHand]
  <2>1. patch' = [patch EXCEPT ![e]["save"] = p]
    BY <1>5 DEF PlanSave
  <2>2. PatchQuiet(upload, lesson, "save", p)
    <3>1. /\ PatchSerial(lesson, old) /\ PatchQuiet(upload, lesson, "save", old)
          /\ old.pc = "plan"
      BY <1>1, <1>5 DEF PlanSave, Patching, Kind
    <3> HIDE DEF old
    <3>2. ~ old.byHand => Quiet(upload, lesson, plan(old.data))
      BY <1>1, <3>1, SavePlanQuiet DEF PatchSerial, PatchQuiet
    <3> QED BY <3>2 DEF PatchQuiet
  <2> HIDE DEF p
  <2> QED BY <1>2, <2>1, <2>2 DEF Kind
<1>6. ASSUME NEW e \in Editor, togglePublish(e)
      PROVE  \A d \in Editor, j \in Kind : PatchQuiet(upload, lesson, j, patch'[d][j])
  <2> DEFINE p == [pc |-> "write", data |-> plan(nothing), byHand |-> FALSE]
  <2>1. patch' = [patch EXCEPT ![e]["publish"] = p]
    BY <1>6 DEF togglePublish
  <2>2. PatchQuiet(upload, lesson, "publish", p)
    BY <1>1, PublishPlanQuiet DEF PatchQuiet
  <2> HIDE DEF p
  <2> QED BY <1>2, <2>1, <2>2 DEF Kind
<1>7. ASSUME NEW e \in Editor, NEW k \in Kind, NEW p, p.pc \notin {"plan", "write"},
             patch' = [patch EXCEPT ![e][k] = p]
      PROVE  \A d \in Editor, j \in Kind : PatchQuiet(upload, lesson, j, patch'[d][j])
  BY <1>2, <1>7 DEF PatchQuiet
<1>8. ASSUME NEW e \in Editor, AnswerSave(e)
      PROVE  \A d \in Editor, j \in Kind : PatchQuiet(upload, lesson, j, patch'[d][j])
  <2> DEFINE p == [patch[e]["save"] EXCEPT !.pc = "load"]
  <2>1. patch' = [patch EXCEPT ![e]["save"] = p]
    BY <1>8 DEF AnswerSave
  <2>2. p.pc = "load"
    BY <1>1 DEF PatchInv, PatchFits, Kind
  <2> HIDE DEF p
  <2> QED BY <1>7, <2>1, <2>2 DEF Kind
<1>9. ASSUME NEW e \in Editor, NEW k \in Kind, WritePatch(e, k) \/ LosePatch(e, k) \/ Load(e, k)
      PROVE  \A d \in Editor, j \in Kind : PatchQuiet(upload, lesson, j, patch'[d][j])
  <2>1. \A pc \in {"idle", "answer"} : [idlePatch EXCEPT !.pc = pc].pc = pc
    BY DEF idlePatch
  <2>2. idlePatch.pc = "idle"
    BY DEF idlePatch
  <2>3. \E p : p.pc \notin {"plan", "write"} /\ patch' = [patch EXCEPT ![e][k] = p]
    BY <1>9, <2>1, <2>2 DEF WritePatch, LosePatch, Load
  <2> QED BY <1>7, <2>3
<1>10. ASSUME Mux \/ (\E w \in Worker : Handle(w) \/ WriteFromWebhook(w)) PROVE UNCHANGED patch
  BY <1>10 DEF Mux, MuxReceives, MuxEndsUpload, MuxFinishes, Handle, bindMuxUploadAsset,
         recordMuxUploadFailure, recordMuxAssetFailure, syncMuxAsset, Begin, WriteFromWebhook, pages
<1>11. ASSUME NEW e \in Editor,
              \/ Reload(e) \/ Edit(e) \/ Poll(e) \/ StoreUpload(e) \/ AnswerUpload(e) \/ LoseUpload(e)
              \/ \E u \in Upload : RequestUpload(e, u)
       PROVE  UNCHANGED patch
  BY <1>11 DEF Reload, Edit, EditField, Poll, StoreUpload, AnswerUpload, LoseUpload, RequestUpload
<1> QED BY <1>3, <1>4, <1>5, <1>6, <1>8, <1>9, <1>10, <1>11 DEF Next, Operate, Continue, Kind

LEMMA FormsFollow ==
  ASSUME HandInv, Next, ~ LoadsBehindForm, UNCHANGED lesson
  PROVE  \A d \in Editor : FormFollows(lesson, editor'[d], patch'[d]["save"].pc)
<1> DEFINE Goal == \A d \in Editor : FormFollows(lesson, editor'[d], patch'[d]["save"].pc)
<1>1. /\ RowInv /\ PatchInv /\ EditorInv /\ lesson \in Row /\ Alone
      /\ \A d \in Editor : FormFollows(lesson, editor[d], patch[d]["save"].pc)
      /\ \A d \in Editor : editor[d] \in Page
  BY DEF HandInv, SerialInv, VideoInv, RowInv, EditorInv
<1>2. ASSUME UNCHANGED editor,
             \A d \in Editor : patch'[d]["save"].pc = "load" <=> patch[d]["save"].pc = "load"
      PROVE  Goal
  BY <1>1, <1>2 DEF FormFollows
<1>3. ASSUME NEW e \in Editor, NEW p, editor' = [editor EXCEPT ![e] = p],
             FormFollows(lesson, p, patch'[e]["save"].pc),
             \A d \in Editor \ {e} : patch'[d]["save"] = patch[d]["save"]
      PROVE  Goal
  BY <1>1, <1>3 DEF EditorInv
<1>4. ASSUME NEW e \in Editor, NEW k \in Kind, NEW q, patch' = [patch EXCEPT ![e][k] = q]
      PROVE  /\ \A d \in Editor \ {e} : patch'[d]["save"] = patch[d]["save"]
             /\ k = "save" => patch'[e]["save"] = q
             /\ k = "publish" => patch'[e]["save"] = patch[e]["save"]
  BY <1>1, <1>4 DEF PatchInv, Kind
<1>5. ASSUME NEW e \in Editor, Reload(e) PROVE Goal
  <2>1. /\ editor' = [editor EXCEPT ![e] = page(lesson)] /\ UNCHANGED patch
        /\ patch[e]["save"].pc = "idle"
    BY <1>5 DEF Reload, Patching
  <2>2. FormFollows(lesson, page(lesson), "idle")
    BY DEF FormFollows, page, lessonEditorFieldsAfterSave, FormField
  <2> QED BY <1>3, <2>1, <2>2
<1>6. ASSUME NEW e \in Editor, Edit(e) PROVE Goal
  <2>1. PICK f \in FormField : \E v : EditField(e, f, v)
    BY <1>6, EditFits
  <2> PICK v : EditField(e, f, v)
    BY <2>1
  <2> DEFINE p == [seen |-> editor[e].seen, form |-> [editor[e].form EXCEPT ![f] = v],
                   typed |-> IF f = "muxPlaybackId" THEN v # None ELSE editor[e].typed]
  <2>2. editor' = [editor EXCEPT ![e] = p] /\ UNCHANGED patch
    BY DEF EditField
  <2>3. DOMAIN editor[e].form = FormField /\ "muxPlaybackId" \in FormField
    BY <1>1, FormDomain DEF Page, FormField
  <2>4. FormFollows(lesson, p, patch[e]["save"].pc)
    BY <1>1, <2>3 DEF FormFollows
  <2> HIDE DEF p
  <2> QED BY <1>3, <2>2, <2>4
<1>7. ASSUME NEW e \in Editor, Poll(e) PROVE Goal
  <2>1. editor' = [editor EXCEPT ![e] = adopt(editor[e], lesson)] /\ UNCHANGED patch
    BY <1>7 DEF Poll
  <2>2. FormFollows(lesson, adopt(editor[e], lesson), patch[e]["save"].pc)
    <3>1. CASE patch[e]["save"].pc = "load"
      BY <1>1, <3>1, AdoptLoading
    <3>2. CASE patch[e]["save"].pc # "load"
      BY <1>1, <3>2, AdoptFollows
    <3> QED BY <3>1, <3>2
  <2> QED BY <1>3, <2>1, <2>2
<1>8. ASSUME NEW e \in Editor, SaveReadsRow(e) PROVE Goal
  <2>1. /\ patch[e]["save"].pc = "idle"
        /\ editor' = [editor EXCEPT ![e] = fresh(e)]
        /\ \/ UNCHANGED patch
           \/ \E q : patch' = [patch EXCEPT ![e]["save"] = q]
    BY <1>8, SaveData
  <2>2. \A saving : FormFollows(lesson, fresh(e), saving)
    BY <1>1, <2>1, FreshFollows
  <2>3. \A d \in Editor \ {e} : patch'[d]["save"] = patch[d]["save"]
    BY <1>4, <2>1 DEF Kind
  <2> QED BY <1>3, <2>1, <2>2, <2>3
<1>9. ASSUME NEW e \in Editor, AnswerSave(e) PROVE Goal
  <2> DEFINE p == [seen |-> editor[e].seen, form |-> lessonEditorFieldsAfterSave(lesson),
                   typed |-> FALSE]
             q == [patch[e]["save"] EXCEPT !.pc = "load"]
  <2>1. editor' = [editor EXCEPT ![e] = p] /\ patch' = [patch EXCEPT ![e]["save"] = q]
    BY <1>9 DEF AnswerSave
  <2>2. q.pc = "load"
    BY <1>1 DEF PatchInv, PatchFits, Kind
  <2>3. FormFollows(lesson, p, "load")
    BY DEF FormFollows, lessonEditorFieldsAfterSave, FormField
  <2> HIDE DEF p, q
  <2>4. patch'[e]["save"].pc = "load" /\ \A d \in Editor \ {e} : patch'[d]["save"] = patch[d]["save"]
    BY <1>4, <2>1, <2>2 DEF Kind
  <2> QED BY <1>3, <2>1, <2>3, <2>4
<1>10. ASSUME NEW e \in Editor, NEW k \in Kind, Load(e, k) PROVE Goal
  <2> DEFINE p == [editor[e] EXCEPT !.seen = lesson]
  <2>1. editor' = [editor EXCEPT ![e] = p] /\ patch' = [patch EXCEPT ![e][k] = idlePatch]
    BY <1>1, <1>10 DEF Load, EditorInv, Page
  <2>2. p.seen = lesson /\ p.form = editor[e].form /\ p.typed = editor[e].typed
    BY <1>1 DEF Page
  <2>3. idlePatch.pc = "idle"
    BY DEF idlePatch
  <2>4. CASE k = "save"
    <3>1. patch[e]["save"].pc = "load"
      BY <1>10, <2>4 DEF Load, Patching
    <3>2. FormFollows(lesson, p, "idle")
      BY <1>1, <2>2, <3>1 DEF FormFollows
    <3>3. /\ \A d \in Editor \ {e} : patch'[d]["save"] = patch[d]["save"]
          /\ patch'[e]["save"] = idlePatch
      BY <1>4, <2>1, <2>4
    <3> HIDE DEF p
    <3>4. FormFollows(lesson, p, patch'[e]["save"].pc)
      BY <2>3, <3>2, <3>3
    <3> QED BY <1>3, <2>1, <3>3, <3>4
  <2>5. CASE k = "publish"
    <3>1. patch[e]["publish"].pc = "answer"
      BY <1>10, <2>5 DEF Load, Patching
    <3>2. patch[e]["save"].pc = "idle"
      BY <1>1, <3>1, LonelyPatch DEF Kind
    <3>3. editor'[e].seen = lesson /\ editor'[e].form = editor[e].form
      BY <1>1, <2>1, <2>2 DEF EditorInv
    <3>4. \/ lesson["muxPlaybackId"] = editor[e].seen["muxPlaybackId"]
          \/ editor[e].form["muxPlaybackId"] # editor[e].seen["muxPlaybackId"]
      BY <3>3 DEF LoadsBehindForm, FormField
    <3>5. FormFollows(lesson, p, "idle")
      BY <1>1, <2>2, <3>2, <3>4 DEF FormFollows
    <3>6. \A d \in Editor : patch'[d]["save"] = patch[d]["save"]
      BY <1>4, <2>1, <2>5
    <3> HIDE DEF p
    <3>7. FormFollows(lesson, p, patch'[e]["save"].pc)
      BY <3>2, <3>5, <3>6
    <3> QED BY <1>3, <2>1, <3>6, <3>7
  <2> QED BY <2>4, <2>5 DEF Kind
<1>11. ASSUME NEW e \in Editor, AnswerUpload(e) PROVE Goal
  <2>1. /\ editor' = [editor EXCEPT ![e] = adopt(editor[e], post[e].row)] /\ UNCHANGED patch
        /\ post[e].pc = "answer" /\ post[e].row \in Row
    BY <1>1, <1>11 DEF AnswerUpload, Posting, EditorInv, HandInv, SerialInv, VideoInv, PostInv,
                       PostFits
  <2>2. patch[e]["save"].pc = "idle"
    BY <1>1, <2>1, LonelyPost DEF Kind
  <2>3. FormFollows(post[e].row, adopt(editor[e], post[e].row), "idle")
    BY <1>1, <2>1, <2>2, AdoptFollows
  <2>4. FormFollows(lesson, adopt(editor[e], post[e].row), "idle")
    BY <2>3 DEF FormFollows
  <2> QED BY <1>3, <2>1, <2>2, <2>4
<1>12. ASSUME NEW e \in Editor, PlanSave(e) PROVE Goal
  <2>1. UNCHANGED editor /\ patch[e]["save"].pc = "plan"
    BY <1>12 DEF PlanSave, Patching
  <2>2. PICK q : q.pc = "write" /\ patch' = [patch EXCEPT ![e]["save"] = q]
    BY <1>12 DEF PlanSave
  <2>3. \A d \in Editor : patch'[d]["save"].pc = "load" <=> patch[d]["save"].pc = "load"
    BY <1>4, <2>1, <2>2 DEF Kind
  <2> QED BY <1>2, <2>1, <2>3
<1>13. ASSUME NEW e \in Editor, togglePublish(e) PROVE Goal
  <2>1. UNCHANGED editor /\ \E q : patch' = [patch EXCEPT ![e]["publish"] = q]
    BY <1>13 DEF togglePublish
  <2>2. \A d \in Editor : patch'[d]["save"] = patch[d]["save"]
    BY <1>4, <2>1 DEF Kind
  <2> QED BY <1>2, <2>1, <2>2
<1>14. ASSUME NEW e \in Editor, NEW k \in Kind, WritePatch(e, k) \/ LosePatch(e, k) PROVE Goal
  <2>1. UNCHANGED editor /\ patch[e][k].pc \in {"write", "answer"}
    BY <1>14 DEF WritePatch, LosePatch, Patching
  <2>2. \A pc \in {"idle", "answer"} : [idlePatch EXCEPT !.pc = pc].pc = pc
    BY DEF idlePatch
  <2>3. idlePatch.pc = "idle"
    BY DEF idlePatch
  <2>4. PICK q : q.pc # "load" /\ patch' = [patch EXCEPT ![e][k] = q]
    BY <1>14, <2>2, <2>3 DEF WritePatch, LosePatch
  <2>5. \A d \in Editor : patch'[d]["save"].pc = "load" <=> patch[d]["save"].pc = "load"
    BY <1>4, <2>1, <2>4 DEF Kind
  <2> QED BY <1>2, <2>1, <2>5
<1>15. ASSUME UNCHANGED <<editor, patch>> PROVE Goal
  BY <1>2, <1>15
<1>16. ASSUME Mux \/ (\E w \in Worker : Handle(w) \/ WriteFromWebhook(w))
       PROVE  UNCHANGED <<editor, patch>>
  BY <1>16 DEF Mux, MuxReceives, MuxEndsUpload, MuxFinishes, Handle, bindMuxUploadAsset,
         recordMuxUploadFailure, recordMuxAssetFailure, syncMuxAsset, Begin, WriteFromWebhook, pages
<1>17. ASSUME NEW e \in Editor,
              StoreUpload(e) \/ LoseUpload(e) \/ \E u \in Upload : RequestUpload(e, u)
       PROVE  UNCHANGED <<editor, patch>>
  BY <1>17 DEF StoreUpload, LoseUpload, RequestUpload
<1> HIDE DEF Goal
<1>18. ASSUME NEW e \in Editor, Operate(e) PROVE Goal
  BY <1>5, <1>6, <1>7, <1>8, <1>13, <1>15, <1>17, <1>18 DEF Operate
<1>19. ASSUME NEW e \in Editor, Continue(e) PROVE Goal
  <2>1. ASSUME NEW k \in Kind, WritePatch(e, k) \/ LosePatch(e, k) \/ Load(e, k) PROVE Goal
    BY <1>10, <1>14, <2>1
  <2>2. CASE StoreUpload(e) \/ LoseUpload(e)
    BY <1>15, <1>17, <2>2
  <2> QED BY <1>9, <1>11, <1>12, <1>19, <2>1, <2>2 DEF Continue, Kind
<1>20. Goal
  BY <1>15, <1>16, <1>18, <1>19 DEF Next
<1> QED BY <1>20 DEF Goal

\* Nobody is about to load a row while another request writes it.
LEMMA FormsOutlastWrites ==
  ASSUME HandInv, UNCHANGED editor, \A d \in Editor : patch[d]["save"].pc # "load",
         \A d \in Editor : patch'[d]["save"].pc # "load"
  PROVE  \A d \in Editor : FormFollows(lesson', editor'[d], patch'[d]["save"].pc)
BY DEF HandInv, FormFollows

LEMMA HandStep ==
  HandInv /\ [Next /\ Alone' /\ ~ LoadsBehindForm]_vars => HandInv'
<1> SUFFICES ASSUME HandInv, [Next /\ Alone' /\ ~ LoadsBehindForm]_vars PROVE HandInv'
  OBVIOUS
<1>1. SerialInv'
  BY SerialStep DEF HandInv
<1>2. CASE UNCHANGED vars
  BY <1>1, <1>2 DEF HandInv, vars, pages
<1>3. CASE Next /\ ~ LoadsBehindForm
  <2>1. VideoInv /\ [Next]_vars
    BY <1>3 DEF HandInv, SerialInv
  <2>2. \A row, d : Quiet(upload, row, d) => Quiet(upload', row, d)
    BY <2>1, SignedStays, QuietStays
  <2> SUFFICES /\ \A w \in Worker : JobQuiet(upload', lesson', job'[w])
               /\ \A e \in Editor, k \in Kind : PatchQuiet(upload', lesson', k, patch'[e][k])
               /\ \A e \in Editor : FormFollows(lesson', editor'[e], patch'[e]["save"].pc)
    BY <1>1 DEF HandInv
  <2>3. CASE UNCHANGED lesson
    <3>1. \A w \in Worker : JobQuiet(upload', lesson', job'[w])
      BY <1>3, <2>2, <2>3, JobsQuiet DEF JobQuiet
    <3>2. \A e \in Editor, k \in Kind : PatchQuiet(upload', lesson', k, patch'[e][k])
      BY <1>3, <2>2, <2>3, PatchPlansQuiet DEF PatchQuiet
    <3>3. \A e \in Editor : FormFollows(lesson', editor'[e], patch'[e]["save"].pc)
      BY <1>3, <2>3, FormsFollow
    <3> QED BY <3>1, <3>2, <3>3
  <2>4. ASSUME /\ \A w \in Worker : job'[w].pc = "idle"
               /\ \A e \in Editor, k \in Kind : patch'[e][k].pc \in {"idle", "answer"}
               /\ \A e \in Editor : patch[e]["save"].pc # "load"
               /\ UNCHANGED editor
        PROVE  /\ \A w \in Worker : JobQuiet(upload', lesson', job'[w])
               /\ \A e \in Editor, k \in Kind : PatchQuiet(upload', lesson', k, patch'[e][k])
               /\ \A e \in Editor : FormFollows(lesson', editor'[e], patch'[e]["save"].pc)
    BY <2>4, FormsOutlastWrites DEF JobQuiet, PatchQuiet, Kind
  <2>5. ASSUME NEW w \in Worker, WriteFromWebhook(w)
        PROVE  \A e \in Editor : patch[e]["save"].pc # "load"
    BY <2>5, LonelyJob DEF HandInv, SerialInv, WriteFromWebhook, Kind
  <2>6. ASSUME NEW e \in Editor, NEW k \in Kind, WritePatch(e, k)
        PROVE  \A d \in Editor : patch[d]["save"].pc # "load"
    BY <2>6, LonelyPatch DEF HandInv, SerialInv, WritePatch, Patching, Kind
  <2>7. ASSUME NEW e \in Editor, StoreUpload(e)
        PROVE  \A d \in Editor : patch[d]["save"].pc # "load"
    BY <2>7, LonelyPost DEF HandInv, SerialInv, StoreUpload, Posting, Kind
  <2>8. CASE \E w \in Worker : WriteFromWebhook(w)
    <3> PICK w \in Worker : WriteFromWebhook(w)
      BY <2>8
    <3> QED BY <2>4, <2>5, WebhookWriteSerial DEF HandInv, WriteFromWebhook, pages
  <2>9. CASE \E e \in Editor, k \in Kind : WritePatch(e, k)
    <3> PICK e \in Editor, k \in Kind : WritePatch(e, k)
      BY <2>9
    <3> QED BY <2>4, <2>6, PatchWriteSerial DEF HandInv, WritePatch
  <2>10. CASE \E e \in Editor : StoreUpload(e)
    <3> PICK e \in Editor : StoreUpload(e)
      BY <2>10
    <3>1. SerialInv /\ UNCHANGED editor
      BY DEF HandInv, StoreUpload
    <3>2. \A d \in Editor : patch[d]["save"].pc # "load"
      BY <2>7
    <3>3. /\ \A w \in Worker : job'[w].pc = "idle"
          /\ \A d \in Editor, k \in Kind : patch'[d][k].pc \in {"idle", "answer"}
      BY <3>1, StoreSerial
    <3> QED BY <2>4, <3>1, <3>2, <3>3
  <2> QED BY <1>3, <2>3, <2>8, <2>9, <2>10, RowWriters
<1> QED BY <1>2, <1>3

LEMMA HandInvariant == SerialInSyncSpec => []HandInv
BY HandStarts, HandStep, PTL DEF SerialInSyncSpec

\* One request at a time, on pages that load no row behind their form, a premium lesson
\* comes to play from an asset anyone may play only by a save that carries a playback id
\* typed by hand, whatever Mux delivers and in whatever order, and however tier and
\* source are edited (syncMuxAsset, planPaidAccessTransition,
\* lessonEditorFieldsAfterRowChange).
THEOREM OnlyTypingExposes == SerialInSyncSpec => ExposedOnlyByHand
<1> DEFINE ByHand == \E e \in Editor : /\ Patching(e, "save", "write") /\ ~ Patching(e, "save", "write")'
                                       /\ patch[e]["save"].byHand
           Was == Exposed(upload, lesson) /\ lesson'.muxPlaybackId = lesson.muxPlaybackId
<1>1. ASSUME HandInv, Next, exposed(lesson)', ~ (exposed(lesson) /\ lesson'.muxPlaybackId = lesson.muxPlaybackId)
      PROVE  ByHand
  <2>1. Exposed(upload', lesson') /\ ~ Was
    BY <1>1, ExposedIsExposed
  <2>2. \A a : Offers(upload, a) = {"signed"} => Offers(upload', a) = {"signed"}
    <3>1. VideoInv /\ [Next]_vars
      BY <1>1 DEF HandInv, SerialInv
    <3> QED BY <3>1, SignedStays
  <2>3. Exposed(upload, lesson')
    BY <2>1, <2>2 DEF Exposed
  <2>4. ~ UNCHANGED lesson
    BY <2>1, <2>3
  <2>5. ASSUME NEW data, UpdateLesson(data) PROVE ~ Quiet(upload, lesson, data)
    BY <2>1, <2>3, <2>4, <2>5 DEF UpdateLesson, Quiet
  <2>6. ASSUME NEW w \in Worker, WriteFromWebhook(w) PROVE FALSE
    BY <1>1, <2>5, <2>6 DEF HandInv, JobQuiet, WriteFromWebhook
  <2>7. ASSUME NEW e \in Editor, StoreUpload(e) PROVE FALSE
    BY <1>1, <2>1, <2>3, <2>7, StoreSerial DEF HandInv, Exposed
  <2>8. ASSUME NEW e \in Editor, NEW k \in Kind, WritePatch(e, k) PROVE ByHand
    <3>1. patch[e][k].pc = "write" /\ ~ Quiet(upload, lesson, patch[e][k].data)
      BY <2>5, <2>8 DEF WritePatch, Patching
    <3>2. k = "save" /\ patch[e]["save"].byHand
      BY <1>1, <3>1 DEF HandInv, PatchQuiet, Kind
    <3>3. patch'[e]["save"].pc \in {"idle", "answer"}
      BY <1>1, <2>8, PatchWriteSerial DEF HandInv, Kind
    <3> QED BY <3>1, <3>2, <3>3 DEF Patching
  <2> QED BY <1>1, <2>4, <2>6, <2>7, <2>8, RowWriters
<1>2. HandInv /\ [Next /\ Alone' /\ ~ LoadsBehindForm]_vars =>
        [exposed(lesson)' /\ ~ (exposed(lesson) /\ lesson'.muxPlaybackId = lesson.muxPlaybackId) =>
           \E e \in Editor : /\ Patching(e, "save", "write") /\ ~ Patching(e, "save", "write")'
                             /\ patch[e]["save"].byHand]_vars
  BY <1>1
<1>3. SerialInSyncSpec => [][Next /\ Alone' /\ ~ LoadsBehindForm]_vars
  BY PTL DEF SerialInSyncSpec
<1> QED BY <1>2, <1>3, HandInvariant, PTL DEF ExposedOnlyByHand

=============================================================================
