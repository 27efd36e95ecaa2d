-------------------------- MODULE LessonVideo_proofs --------------------------
(***************************************************************************)
(* What the video columns of a lesson hold, for any uploads, assets,       *)
(* typed identifiers, concurrent deliveries and editor pages.              *)
(***************************************************************************)
EXTENDS LessonVideo, TLAPS

USE VideoAssumption, EditorAssumption

-----------------------------------------------------------------------------
(* Values, rows and writes of the columns' types.                            *)

Column ==
  {"accessLevel", "videoProvider", "muxAssetId", "muxPlaybackId", "youtubeVideoId",
   "muxUploadId", "muxVideoError"}

Fits(f, v) ==
  /\ f \in Column
  /\ f = "accessLevel" => v \in {"FREE", "PAID"}
  /\ f = "videoProvider" => v \in {"MUX", "YOUTUBE", "NONE"}
  /\ f = "muxAssetId" => v \in Asset \cup {None}
  /\ f = "muxPlaybackId" => v \in PlaybackId \cup {None}
  /\ f = "youtubeVideoId" => v \in YouTubeId \cup {None}
  /\ f = "muxUploadId" => v \in Upload \cup {None}
  /\ f = "muxVideoError" => v \in BOOLEAN

FitsData(d) == DOMAIN d \subseteq Column /\ \A f \in DOMAIN d : Fits(f, d[f])

LEMMA RowFromColumns ==
  ASSUME NEW r, r = [f \in Column |-> r[f]], \A f \in Column : Fits(f, r[f])
  PROVE  r \in Row
BY DEF Fits, Row, Column

LEMMA FormFromColumns ==
  ASSUME NEW r, r = [f \in FormField |-> r[f]], \A f \in FormField : Fits(f, r[f])
  PROVE  r \in Form
BY DEF Fits, Form, FormField, Column

LEMMA RowDomain == \A r \in Row : DOMAIN r = Column /\ \A f \in Column : Fits(f, r[f])
BY DEF Row, Column, Fits

LEMMA FormDomain ==
  /\ FormField \subseteq Column
  /\ \A r \in Form : DOMAIN r = FormField /\ \A f \in FormField : Fits(f, r[f])
BY DEF Form, FormField, Column, Fits

LEMMA OverRow ==
  ASSUME NEW d, NEW r \in Row, FitsData(d)
  PROVE  over(d, r) \in Row
<1> DEFINE n == over(d, r)
<1>1. n = [f \in Column |-> IF f \in DOMAIN d THEN d[f] ELSE r[f]]
  BY RowDomain DEF over
<1>2. \A f \in Column : Fits(f, n[f])
  BY <1>1, RowDomain DEF FitsData
<1>3. n = [f \in Column |-> n[f]]
  BY <1>1
<1> HIDE DEF n
<1>4. n \in Row
  BY <1>2, <1>3, RowFromColumns
<1> QED BY <1>4 DEF n

LEMMA OverForm ==
  ASSUME NEW d, NEW r \in Form, FitsData(d)
  PROVE  over(d, r) \in Form
<1> DEFINE n == over(d, r)
<1>1. n = [f \in FormField |-> IF f \in DOMAIN d THEN d[f] ELSE r[f]]
  BY FormDomain DEF over
<1>2. \A f \in FormField : Fits(f, n[f])
  BY <1>1, FormDomain DEF FitsData
<1>3. n = [f \in FormField |-> n[f]]
  BY <1>1
<1> HIDE DEF n
<1>4. n \in Form
  BY <1>2, <1>3, FormFromColumns
<1> QED BY <1>4 DEF n

LEMMA AlsoFits ==
  ASSUME NEW d1, NEW d2, FitsData(d1), FitsData(d2)
  PROVE  FitsData(also(d1, d2))
BY DEF FitsData, also

LEMMA SetFits ==
  ASSUME NEW f, NEW v, Fits(f, v)
  PROVE  FitsData(set(f, v)) /\ \A c : FitsData(setIf(c, f, v))
BY DEF FitsData, set, setIf, nothing, Fits

LEMMA NothingFits == FitsData(nothing)
BY DEF FitsData, nothing

LEMMA AdoptedFits ==
  ASSUME NEW previous, NEW next \in Row
  PROVE  FitsData(lessonEditorFieldsAfterRowChange(previous, next))
BY RowDomain, FormDomain DEF FitsData, lessonEditorFieldsAfterRowChange

LEMMA SavedFormFits == \A r \in Row : lessonEditorFieldsAfterSave(r) \in Form
<1> SUFFICES ASSUME NEW r \in Row PROVE lessonEditorFieldsAfterSave(r) \in Form
  OBVIOUS
<1> DEFINE n == lessonEditorFieldsAfterSave(r)
<1>1. n = [f \in FormField |-> r[f]] /\ n = [f \in FormField |-> n[f]]
  BY DEF lessonEditorFieldsAfterSave
<1>2. \A f \in FormField : Fits(f, n[f])
  BY <1>1, RowDomain, FormDomain
<1> HIDE DEF n
<1>3. n \in Form
  BY <1>1, <1>2, FormFromColumns
<1> QED BY <1>3 DEF n

LEMMA OutgoingFits ==
  ASSUME NEW form \in Form, NEW fresh
  PROVE  FitsData(outgoing(form, fresh)) /\ DOMAIN outgoing(form, fresh) = FormField
<1>1. DOMAIN outgoing(form, fresh) = FormField
  BY DEF outgoing
<1>2. ASSUME NEW f \in FormField PROVE Fits(f, outgoing(form, fresh)[f])
  <2>1. Fits(f, form[f])
    BY FormDomain
  <2>2. \/ outgoing(form, fresh)[f] = form[f]
        \/ /\ outgoing(form, fresh)[f] = None
           /\ f \in {"muxPlaybackId", "muxAssetId", "youtubeVideoId"}
    BY DEF outgoing
  <2> QED BY <2>1, <2>2 DEF Fits
<1> QED BY <1>1, <1>2, FormDomain DEF FitsData

LEMMA CommonValues ==
  /\ Fits("muxUploadId", None) /\ Fits("muxPlaybackId", None)
  /\ Fits("videoProvider", "MUX") /\ Fits("videoProvider", "NONE")
  /\ Fits("muxVideoError", TRUE) /\ Fits("muxVideoError", FALSE)
BY DEF Fits, Column

LEMMA PlanFits ==
  ASSUME NEW data, FitsData(data)
  PROVE  FitsData(plan(data))
<1> DEFINE data2 == planPaidAccessTransition(lesson, data)
<1>1. FitsData(data2)
  BY CommonValues, AlsoFits, SetFits DEF planPaidAccessTransition
<1> HIDE DEF data2
<1>2. FitsData(planYouTubeUploadStateClear(lesson, data2))
  BY <1>1, CommonValues, AlsoFits, SetFits DEF planYouTubeUploadStateClear
<1> QED BY <1>2 DEF data2, plan

-----------------------------------------------------------------------------
(* The invariant: whatever the row, a delivery, a page or its form holds has *)
(* its type, and the row is storable.                                        *)

MuxInv ==
  /\ upload \in [Upload -> UploadState]
  /\ \A u \in Upload : upload[u].status = "none" => upload[u].policy = None
  /\ asset \in [Asset -> AssetState]

RowInv == lesson \in Row /\ storable(lesson)

JobInv ==
  /\ job = [w \in Worker |-> job[w]]
  /\ \A w \in Worker : job[w].pc \in {"idle", "write"} /\ FitsData(job[w].data)

Page == [seen : Row, form : Form, typed : BOOLEAN]

EditorInv == editor \in [Editor -> Page]

Kind == {"save", "publish"}

PatchFits(p) ==
  /\ p \in [pc : {"idle", "plan", "write", "answer", "load"}, data : {p.data}, byHand : BOOLEAN]
  /\ FitsData(p.data)

PatchInv ==
  /\ patch = [e \in Editor |-> [k \in Kind |-> patch[e][k]]]
  /\ \A e \in Editor, k \in Kind : PatchFits(patch[e][k])

PostFits(p) ==
  /\ p \in [pc : {"idle", "store", "answer"}, about : {p.about}, row : {p.row}]
  /\ p.pc # "idle" => p.about \in Upload
  /\ p.pc = "answer" => p.row \in Row

PostInv ==
  /\ post = [e \in Editor |-> post[e]]
  /\ \A e \in Editor : PostFits(post[e])

VideoInv == MuxInv /\ RowInv /\ JobInv /\ EditorInv /\ PatchInv /\ PostInv

LEMMA PageFits == \A r \in Row : page(r) \in Page
BY SavedFormFits DEF page, Page

LEMMA IdleFits == PatchFits(idlePatch) /\ PostFits(idlePost)
BY NothingFits DEF PatchFits, PostFits, idlePatch, idlePost

LEMMA VideoStarts == Init => VideoInv
<1> SUFFICES ASSUME Init PROVE VideoInv
  OBVIOUS
<1>1. MuxInv
  BY DEF Init, MuxInv, UploadState
<1>2. unfilmed \in Row /\ placeholder \in Row
  BY DEF unfilmed, placeholder, Row, PlaybackId
<1>3. RowInv
  <2>1. Malformed # None
    BY DEF PlaybackId
  <2>2. storable(unfilmed)
    BY DEF storable, unfilmed
  <2>3. storable(placeholder)
    BY <2>1 DEF storable, placeholder, unfilmed
  <2> QED BY <1>2, <2>2, <2>3 DEF Init, RowInv
<1>4. JobInv
  BY NothingFits DEF Init, JobInv, idleJob
<1>5. EditorInv
  BY <1>3, PageFits DEF Init, EditorInv, RowInv
<1>6. PatchInv
  BY IdleFits DEF Init, PatchInv, Kind
<1>7. PostInv
  BY IdleFits DEF Init, PostInv
<1> QED BY <1>1, <1>3, <1>4, <1>5, <1>6, <1>7 DEF VideoInv

-----------------------------------------------------------------------------
(* Mux and the row.                                                          *)

LEMMA MuxStep == MuxInv /\ PostInv /\ [Next]_vars => MuxInv'
<1> SUFFICES ASSUME MuxInv, PostInv, [Next]_vars PROVE MuxInv'
  OBVIOUS
<1> USE DEF MuxInv, UploadState, AssetState, Asset
<1>1. ASSUME NEW u \in Upload, MuxReceives(u) PROVE MuxInv'
  BY <1>1 DEF MuxReceives
<1>2. ASSUME NEW u \in Upload, MuxEndsUpload(u) PROVE MuxInv'
  BY <1>2 DEF MuxEndsUpload
<1>3. ASSUME NEW a \in Asset, NEW outcome \in {"ready", "errored"}, MuxFinishes(a, outcome)
      PROVE  MuxInv'
  BY <1>3 DEF MuxFinishes
<1>4. ASSUME NEW e \in Editor, NEW u \in Upload, RequestUpload(e, u) PROVE MuxInv'
  BY <1>4 DEF RequestUpload, playbackPolicyForAccessLevel, Policy
<1>5. ASSUME NEW e \in Editor, AnswerUpload(e) PROVE MuxInv'
  <2>1. post[e].about \in Upload
    BY <1>5 DEF AnswerUpload, Posting, PostInv, PostFits
  <2> QED BY <1>5, <2>1 DEF AnswerUpload
<1>6. CASE UNCHANGED <<upload, asset>>
  BY <1>6
<1>7. ASSUME NEW w \in Worker, Handle(w) \/ WriteFromWebhook(w) PROVE UNCHANGED <<upload, asset>>
  BY <1>7 DEF Handle, WriteFromWebhook, bindMuxUploadAsset, recordMuxUploadFailure,
              recordMuxAssetFailure, syncMuxAsset, Begin
<1>8. ASSUME NEW e \in Editor,
             \/ Reload(e) \/ Edit(e) \/ Poll(e) \/ togglePublish(e) \/ SaveReadsRow(e)
             \/ PlanSave(e) \/ AnswerSave(e) \/ StoreUpload(e) \/ LoseUpload(e)
             \/ \E k \in {"save", "publish"} : WritePatch(e, k) \/ LosePatch(e, k) \/ Load(e, k)
      PROVE  UNCHANGED <<upload, asset>>
  BY <1>8 DEF Reload, Edit, EditField, Poll, togglePublish, SaveReadsRow, PlanSave, AnswerSave,
              StoreUpload, LoseUpload, WritePatch, LosePatch, Load
<1> QED BY <1>1, <1>2, <1>3, <1>4, <1>5, <1>6, <1>7, <1>8
        DEF Next, Mux, Operate, Continue, vars

LEMMA UpdateFits ==
  ASSUME RowInv, NEW data, FitsData(data), UpdateLesson(data)
  PROVE  RowInv'
BY OverRow DEF RowInv, UpdateLesson

LEMMA RowStep == VideoInv /\ [Next]_vars => RowInv'
<1> SUFFICES ASSUME VideoInv, [Next]_vars PROVE RowInv'
  OBVIOUS
<1>1. RowInv
  BY DEF VideoInv
<1>2. CASE UNCHANGED lesson
  BY <1>1, <1>2 DEF RowInv
<1>3. ASSUME NEW w \in Worker, WriteFromWebhook(w) PROVE RowInv'
  BY <1>1, <1>3, UpdateFits DEF VideoInv, JobInv, WriteFromWebhook
<1>4. ASSUME NEW e \in Editor, NEW k \in Kind, WritePatch(e, k) PROVE RowInv'
  BY <1>1, <1>4, UpdateFits DEF VideoInv, PatchInv, PatchFits, WritePatch
<1>5. ASSUME NEW e \in Editor, StoreUpload(e) PROVE RowInv'
  <2> DEFINE u == post[e].about
             data == also(set("muxUploadId", u), set("muxVideoError", FALSE))
  <2>1. Fits("muxUploadId", u)
    BY <1>5 DEF VideoInv, PostInv, PostFits, StoreUpload, Posting, Fits, Column
  <2>2. FitsData(data)
    BY <2>1, CommonValues, SetFits, AlsoFits
  <2>3. UpdateLesson(data)
    BY <1>5 DEF StoreUpload
  <2> HIDE DEF data
  <2> QED BY <1>1, <2>2, <2>3, UpdateFits
<1>6. ASSUME Mux \/ (\E w \in Worker : Handle(w)) \/ (\E e \in Editor : Operate(e))
      PROVE  UNCHANGED lesson
  BY <1>6 DEF Mux, MuxReceives, MuxEndsUpload, MuxFinishes, Handle, bindMuxUploadAsset,
         recordMuxUploadFailure, recordMuxAssetFailure, syncMuxAsset, Begin, Operate, Reload,
         Edit, EditField, Poll, togglePublish, SaveReadsRow, RequestUpload
<1>7. ASSUME NEW e \in Editor,
             \/ PlanSave(e) \/ AnswerSave(e) \/ AnswerUpload(e) \/ LoseUpload(e)
             \/ \E k \in Kind : LosePatch(e, k) \/ Load(e, k)
      PROVE  UNCHANGED lesson
  BY <1>7 DEF PlanSave, AnswerSave, AnswerUpload, LoseUpload, LosePatch, Load
<1> QED BY <1>2, <1>3, <1>4, <1>5, <1>6, <1>7 DEF Next, Continue, Kind, vars

-----------------------------------------------------------------------------
(* The deliveries.                                                           *)

\* What each webhook decides to write.
bindData(u) ==
  also(set("muxAssetId", u), also(set("muxUploadId", None),
    also(set("muxVideoError", FALSE),
      also(setIf(lesson.muxPlaybackId # None, "muxPlaybackId", None),
           setIf(lesson.videoProvider # "MUX", "videoProvider", "MUX")))))

uploadFailureData == also(set("muxUploadId", None), set("muxVideoError", TRUE))

assetFailureData(a) ==
  also(setIf(~ lesson.muxVideoError, "muxVideoError", TRUE),
    also(setIf(matchedByUpload(a), "muxAssetId", a),
         setIf(matchedByUpload(a), "muxUploadId", None)))

brings(a) == playbackIdFor(a) # lesson.muxPlaybackId
settles(a) == lesson.muxUploadId = a

syncData(a) ==
  also(setIf(brings(a), "muxPlaybackId", playbackIdFor(a)),
    also(setIf(lesson.videoProvider # "MUX", "videoProvider", "MUX"),
      also(setIf(matchedByUpload(a), "muxAssetId", a),
        also(setIf(settles(a), "muxUploadId", None),
             setIf((brings(a) \/ settles(a)) /\ lesson.muxVideoError,
                   "muxVideoError", FALSE)))))

LEMMA HandleData ==
  ASSUME NEW w \in Worker, Handle(w)
  PROVE  \/ \E u \in Upload : bindMuxUploadAsset(w, u) /\ Begin(w, bindData(u), u)
         \/ \E u \in Upload : recordMuxUploadFailure(w, u) /\ Begin(w, uploadFailureData, u)
         \/ \E a \in Asset : recordMuxAssetFailure(w, a) /\ Begin(w, assetFailureData(a), a)
         \/ \E a \in Asset : syncMuxAsset(w, a) /\ Begin(w, syncData(a), a)
<1>1. ASSUME NEW u \in Upload, bindMuxUploadAsset(w, u) PROVE Begin(w, bindData(u), u)
  BY <1>1 DEF bindMuxUploadAsset, bindData
<1>2. ASSUME NEW u \in Upload, recordMuxUploadFailure(w, u) PROVE Begin(w, uploadFailureData, u)
  BY <1>2 DEF recordMuxUploadFailure, uploadFailureData
<1>3. ASSUME NEW a \in Asset, recordMuxAssetFailure(w, a) PROVE Begin(w, assetFailureData(a), a)
  BY <1>3 DEF recordMuxAssetFailure, assetFailureData
<1>4. ASSUME NEW a \in Asset, syncMuxAsset(w, a) PROVE Begin(w, syncData(a), a)
  BY <1>4 DEF syncMuxAsset, syncData, brings, settles
<1> QED BY <1>1, <1>2, <1>3, <1>4 DEF Handle

LEMMA WebhookFits ==
  /\ \A u \in Upload : FitsData(bindData(u))
  /\ FitsData(uploadFailureData)
  /\ \A a \in Asset : FitsData(assetFailureData(a)) /\ FitsData(syncData(a))
<1>1. \A a \in Asset : Fits("muxAssetId", a) /\ Fits("muxPlaybackId", playbackIdFor(a))
  BY DEF Fits, Column, playbackIdFor, playbackPolicyForAccessLevel, PlaybackId, IssuedId, Policy
<1>2. Upload \subseteq Asset
  BY DEF Asset
<1>3. \A u \in Upload : FitsData(bindData(u))
  BY <1>1, <1>2, CommonValues, AlsoFits, SetFits DEF bindData
<1>4. FitsData(uploadFailureData)
  BY CommonValues, AlsoFits, SetFits DEF uploadFailureData
<1>5. \A a \in Asset : FitsData(assetFailureData(a))
  BY <1>1, CommonValues, AlsoFits, SetFits DEF assetFailureData
<1>6. \A a \in Asset : FitsData(syncData(a))
  BY <1>1, CommonValues, AlsoFits, SetFits DEF syncData
<1> QED BY <1>3, <1>4, <1>5, <1>6

LEMMA BeginFits ==
  ASSUME JobInv, NEW w \in Worker, NEW data, NEW about, FitsData(data), Begin(w, data, about)
  PROVE  JobInv'
BY DEF JobInv, Begin

LEMMA JobStep == VideoInv /\ [Next]_vars => JobInv'
<1> SUFFICES ASSUME JobInv, [Next]_vars PROVE JobInv'
  BY DEF VideoInv
<1>1. CASE UNCHANGED job
  BY <1>1 DEF JobInv
<1>2. ASSUME NEW w \in Worker, WriteFromWebhook(w) PROVE JobInv'
  BY <1>2, NothingFits DEF JobInv, WriteFromWebhook, idleJob
<1>3. ASSUME NEW w \in Worker, Handle(w) PROVE JobInv'
  BY <1>3, HandleData, WebhookFits, BeginFits
<1>4. ASSUME Mux \/ (\E e \in Editor : Operate(e) \/ Continue(e)) PROVE UNCHANGED job
  BY <1>4 DEF Mux, MuxReceives, MuxEndsUpload, MuxFinishes, Operate, Reload, Edit, EditField,
         Poll, togglePublish, SaveReadsRow, RequestUpload, Continue, PlanSave, WritePatch,
         AnswerSave, LosePatch, Load, StoreUpload, AnswerUpload, LoseUpload
<1> QED BY <1>1, <1>2, <1>3, <1>4 DEF Next, vars

-----------------------------------------------------------------------------
(* The pages.                                                                *)

LEMMA AdoptFits ==
  ASSUME NEW p \in Page, NEW row \in Row
  PROVE  adopt(p, row) \in Page
BY AdoptedFits, OverForm DEF Page, adopt

LEMMA FieldFits ==
  ASSUME NEW form \in Form, NEW f \in FormField, NEW v, Fits(f, v)
  PROVE  [form EXCEPT ![f] = v] \in Form
<1> DEFINE n == [form EXCEPT ![f] = v]
<1>1. n = [g \in FormField |-> n[g]]
  BY FormDomain
<1>2. \A g \in FormField : Fits(g, n[g])
  BY FormDomain
<1> HIDE DEF n
<1>3. n \in Form
  BY <1>1, <1>2, FormFromColumns
<1> QED BY <1>3 DEF n

\* What an edit types fits the field it is typed into.
LEMMA EditFits ==
  ASSUME NEW e \in Editor, Edit(e)
  PROVE  \E f \in FormField : \E v : Fits(f, v) /\ EditField(e, f, v)
<1>1. ASSUME NEW f \in {"muxAssetId", "muxPlaybackId", "youtubeVideoId"}, NEW v \in Typed[f] \cup {None}
      PROVE  Fits(f, v)
  BY <1>1 DEF Fits, Column
<1>2. /\ \A v \in {"FREE", "PAID"} : Fits("accessLevel", v)
      /\ \A v \in {"MUX", "YOUTUBE", "NONE"} : Fits("videoProvider", v)
  BY DEF Fits, Column
<1>3. CASE \E level \in {"FREE", "PAID"} : EditField(e, "accessLevel", level)
  BY <1>2, <1>3 DEF FormField
<1>4. CASE \E provider \in {"MUX", "YOUTUBE", "NONE"} : EditField(e, "videoProvider", provider)
  BY <1>2, <1>4 DEF FormField
<1>5. CASE \E f \in {"muxAssetId", "muxPlaybackId", "youtubeVideoId"} :
             \E v \in Typed[f] \cup {None} : EditField(e, f, v)
  BY <1>1, <1>5 DEF FormField
<1> QED BY <1>3, <1>4, <1>5 DEF Edit

LEMMA EditorStep == VideoInv /\ [Next]_vars => EditorInv'
<1> SUFFICES ASSUME VideoInv, [Next]_vars PROVE EditorInv'
  OBVIOUS
<1>1. EditorInv /\ lesson \in Row
  BY DEF VideoInv, RowInv
<1>2. CASE UNCHANGED editor
  BY <1>1, <1>2 DEF EditorInv
<1>3. ASSUME NEW e \in Editor, NEW p \in Page, editor' = [editor EXCEPT ![e] = p]
      PROVE  EditorInv'
  BY <1>1, <1>3 DEF EditorInv
<1>4. ASSUME NEW e \in Editor, Reload(e) PROVE EditorInv'
  BY <1>1, <1>3, <1>4, PageFits DEF Reload
<1>5. ASSUME NEW e \in Editor, Edit(e) PROVE EditorInv'
  <2>1. PICK f \in FormField : \E v : Fits(f, v) /\ EditField(e, f, v)
    BY <1>5, EditFits
  <2> PICK v : Fits(f, v) /\ EditField(e, f, v)
    BY <2>1
  <2> DEFINE form == [editor[e].form EXCEPT ![f] = v]
             typed == IF f = "muxPlaybackId" THEN v # None ELSE editor[e].typed
             p == [seen |-> editor[e].seen, form |-> form, typed |-> typed]
  <2>2. form \in Form
    BY <1>1, <2>1, FieldFits DEF EditorInv, Page
  <2>3. typed \in BOOLEAN
    BY <1>1 DEF EditorInv, Page
  <2>4. editor' = [editor EXCEPT ![e] = p]
    BY <1>1, <2>1 DEF EditField, EditorInv, Page
  <2> HIDE DEF form, typed
  <2>5. p \in Page
    BY <1>1, <2>2, <2>3 DEF EditorInv, Page
  <2> HIDE DEF p
  <2> QED BY <1>3, <2>4, <2>5
<1>6. ASSUME NEW e \in Editor, Poll(e) PROVE EditorInv'
  <2>1. adopt(editor[e], lesson) \in Page
    BY <1>1, AdoptFits DEF EditorInv
  <2>2. editor' = [editor EXCEPT ![e] = adopt(editor[e], lesson)]
    BY <1>1, <1>6 DEF Poll, EditorInv
  <2> QED BY <1>3, <2>1, <2>2
<1>7. ASSUME NEW e \in Editor, SaveReadsRow(e) PROVE EditorInv'
  <2> DEFINE adopted == lessonEditorFieldsAfterRowChange(editor[e].seen, lesson)
             fresh == IF adopted = nothing THEN editor[e] ELSE adopt(editor[e], lesson)
  <2>1. fresh \in Page
    BY <1>1, AdoptFits DEF EditorInv
  <2>2. editor' = [editor EXCEPT ![e] = fresh]
    BY <1>7 DEF SaveReadsRow
  <2> HIDE DEF fresh
  <2> QED BY <1>3, <2>1, <2>2
<1>8. ASSUME NEW e \in Editor, AnswerSave(e) PROVE EditorInv'
  <2> DEFINE form == lessonEditorFieldsAfterSave(lesson)
             p == [seen |-> editor[e].seen, form |-> form, typed |-> FALSE]
  <2>1. form \in Form
    BY <1>1, SavedFormFits
  <2>2. editor' = [editor EXCEPT ![e] = p]
    BY <1>1, <1>8 DEF AnswerSave, EditorInv, Page
  <2> HIDE DEF form
  <2>3. p \in Page
    BY <1>1, <2>1 DEF EditorInv, Page
  <2> HIDE DEF p
  <2> QED BY <1>3, <2>2, <2>3
<1>9. ASSUME NEW e \in Editor, NEW k \in Kind, Load(e, k) PROVE EditorInv'
  <2>1. editor' = [editor EXCEPT ![e] = [editor[e] EXCEPT !.seen = lesson]]
    BY <1>1, <1>9 DEF Load, EditorInv, Page
  <2>2. [editor[e] EXCEPT !.seen = lesson] \in Page
    BY <1>1 DEF EditorInv, Page
  <2> QED BY <1>3, <2>1, <2>2
<1>10. ASSUME NEW e \in Editor, AnswerUpload(e) PROVE EditorInv'
  <2>1. post[e].row \in Row
    BY <1>10 DEF VideoInv, PostInv, PostFits, AnswerUpload, Posting
  <2>2. adopt(editor[e], post[e].row) \in Page
    BY <1>1, <2>1, AdoptFits DEF EditorInv
  <2>3. editor' = [editor EXCEPT ![e] = adopt(editor[e], post[e].row)]
    BY <1>1, <1>10 DEF AnswerUpload, EditorInv
  <2> QED BY <1>3, <2>2, <2>3
<1>11. ASSUME Mux \/ (\E w \in Worker : Handle(w) \/ WriteFromWebhook(w)) PROVE UNCHANGED editor
  BY <1>11 DEF Mux, MuxReceives, MuxEndsUpload, MuxFinishes, Handle, bindMuxUploadAsset,
         recordMuxUploadFailure, recordMuxAssetFailure, syncMuxAsset, Begin, WriteFromWebhook, pages
<1>12. ASSUME NEW e \in Editor,
              \/ togglePublish(e) \/ PlanSave(e) \/ StoreUpload(e) \/ LoseUpload(e)
              \/ (\E u \in Upload : RequestUpload(e, u))
              \/ \E k \in Kind : WritePatch(e, k) \/ LosePatch(e, k)
       PROVE  UNCHANGED editor
  BY <1>12 DEF togglePublish, PlanSave, StoreUpload, LoseUpload, RequestUpload, WritePatch, LosePatch
<1> QED BY <1>2, <1>4, <1>5, <1>6, <1>7, <1>8, <1>9, <1>10, <1>11, <1>12
        DEF Next, Operate, Continue, Kind, vars, pages

-----------------------------------------------------------------------------
(* Their requests in flight.                                                 *)

LEMMA OnePatch ==
  ASSUME PatchInv, NEW e \in Editor, NEW k \in Kind, NEW p, PatchFits(p),
         patch' = [patch EXCEPT ![e][k] = p]
  PROVE  PatchInv'
<1>1. \A d \in Editor, j \in Kind : patch'[d][j] = IF d = e /\ j = k THEN p ELSE patch[d][j]
  BY DEF PatchInv, Kind
<1>2. patch' = [d \in Editor |-> [j \in Kind |-> patch'[d][j]]]
  <2>1. patch' = [patch EXCEPT ![e] = [patch[e] EXCEPT ![k] = p]]
    OBVIOUS
  <2>2. \A d \in Editor : patch'[d] = [j \in Kind |-> patch'[d][j]]
    BY <2>1 DEF PatchInv
  <2>3. patch' = [d \in Editor |-> patch'[d]]
    BY <2>1 DEF PatchInv
  <2> QED BY <2>2, <2>3
<1>3. \A d \in Editor, j \in Kind : PatchFits(patch'[d][j])
  BY <1>1 DEF PatchInv
<1> QED BY <1>2, <1>3 DEF PatchInv

LEMMA PatchStep == VideoInv /\ [Next]_vars => PatchInv'
<1> SUFFICES ASSUME VideoInv, [Next]_vars PROVE PatchInv'
  OBVIOUS
<1>1. PatchInv
  BY DEF VideoInv
<1>2. CASE UNCHANGED patch
  BY <1>1, <1>2 DEF PatchInv
<1>3. \A e \in Editor, k \in Kind : PatchFits(patch[e][k])
  BY <1>1 DEF PatchInv
<1>4. ASSUME NEW e \in Editor, SaveReadsRow(e) PROVE PatchInv'
  <2> DEFINE adopted == lessonEditorFieldsAfterRowChange(editor[e].seen, lesson)
             fresh == IF adopted = nothing THEN editor[e] ELSE adopt(editor[e], lesson)
             data == outgoing(fresh.form, lesson)
             p == [pc |-> "plan", data |-> data, byHand |-> fresh.typed]
  <2>1. fresh \in Page
    BY AdoptFits DEF VideoInv, EditorInv, RowInv
  <2>2. patch' = patch \/ patch' = [patch EXCEPT ![e]["save"] = p]
    BY <1>4 DEF SaveReadsRow
  <2> HIDE DEF fresh
  <2>3. FitsData(data)
    BY <2>1, OutgoingFits DEF Page
  <2> HIDE DEF data
  <2>4. PatchFits(p)
    BY <2>1, <2>3 DEF Page, PatchFits
  <2> HIDE DEF p
  <2> QED BY <1>1, <1>2, <2>2, <2>4, OnePatch DEF Kind
<1>5. ASSUME NEW e \in Editor, PlanSave(e) PROVE PatchInv'
  <2> DEFINE data == plan(patch[e]["save"].data)
             p == [pc |-> "write", data |-> data, byHand |-> patch[e]["save"].byHand]
  <2>1. FitsData(data)
    BY <1>3, PlanFits DEF Kind, PatchFits
  <2>2. patch' = [patch EXCEPT ![e]["save"] = p]
    BY <1>3, <1>5 DEF PlanSave, PatchFits, Kind
  <2> HIDE DEF data
  <2>3. PatchFits(p)
    BY <1>3, <2>1 DEF PatchFits, Kind
  <2> HIDE DEF p
  <2> QED BY <1>1, <2>2, <2>3, OnePatch DEF Kind
<1>6. ASSUME NEW e \in Editor, togglePublish(e) PROVE PatchInv'
  <2> DEFINE data == plan(nothing)
             p == [pc |-> "write", data |-> data, byHand |-> FALSE]
  <2>1. FitsData(data)
    BY NothingFits, PlanFits
  <2>2. patch' = [patch EXCEPT ![e]["publish"] = p]
    BY <1>3, <1>6 DEF togglePublish, PatchFits, Kind
  <2> HIDE DEF data
  <2>3. PatchFits(p)
    BY <1>3, <2>1 DEF PatchFits, Kind
  <2> HIDE DEF p
  <2> QED BY <1>1, <2>2, <2>3, OnePatch DEF Kind
<1>7. ASSUME NEW e \in Editor, NEW k \in Kind, WritePatch(e, k) PROVE PatchInv'
  <2>1. PatchFits([idlePatch EXCEPT !.pc = "answer"]) /\ PatchFits([idlePatch EXCEPT !.pc = "idle"])
    BY IdleFits DEF PatchFits, idlePatch
  <2> QED BY <1>1, <1>7, <2>1, OnePatch DEF WritePatch
<1>8. ASSUME NEW e \in Editor, AnswerSave(e) PROVE PatchInv'
  <2> DEFINE p == [patch[e]["save"] EXCEPT !.pc = "load"]
  <2>1. PatchFits(p)
    BY <1>3 DEF PatchFits, Kind
  <2>2. patch' = [patch EXCEPT ![e]["save"] = p]
    BY <1>8 DEF AnswerSave
  <2> HIDE DEF p
  <2> QED BY <1>1, <2>1, <2>2, OnePatch DEF Kind
<1>9. ASSUME NEW e \in Editor, NEW k \in Kind, LosePatch(e, k) \/ Load(e, k) PROVE PatchInv'
  BY <1>1, <1>9, IdleFits, OnePatch DEF LosePatch, Load
<1>10. ASSUME Mux \/ (\E w \in Worker : Handle(w) \/ WriteFromWebhook(w)) PROVE UNCHANGED patch
  BY <1>10 DEF Mux, MuxReceives, MuxEndsUpload, MuxFinishes, Handle, bindMuxUploadAsset,
         recordMuxUploadFailure, recordMuxAssetFailure, syncMuxAsset, Begin, WriteFromWebhook, pages
<1>11. ASSUME NEW e \in Editor,
              \/ Reload(e) \/ Edit(e) \/ Poll(e) \/ StoreUpload(e) \/ AnswerUpload(e) \/ LoseUpload(e)
              \/ \E u \in Upload : RequestUpload(e, u)
       PROVE  UNCHANGED patch
  BY <1>11 DEF Reload, Edit, EditField, Poll, StoreUpload, AnswerUpload, LoseUpload, RequestUpload
<1> QED BY <1>2, <1>4, <1>5, <1>6, <1>7, <1>8, <1>9, <1>10, <1>11
        DEF Next, Operate, Continue, Kind, vars, pages

LEMMA OnePost ==
  ASSUME PostInv, NEW e \in Editor, NEW p, PostFits(p), post' = [post EXCEPT ![e] = p]
  PROVE  PostInv'
<1>1. \A d \in Editor : PostFits(post'[d])
  BY DEF PostInv
<1>2. post' = [d \in Editor |-> post'[d]]
  BY DEF PostInv
<1> QED BY <1>1, <1>2 DEF PostInv

LEMMA PostStep == VideoInv /\ [Next]_vars => PostInv'
<1> SUFFICES ASSUME VideoInv, [Next]_vars PROVE PostInv'
  OBVIOUS
<1>1. PostInv /\ lesson' \in Row
  BY RowStep DEF VideoInv, RowInv
<1>2. CASE UNCHANGED post
  BY <1>1, <1>2 DEF PostInv
<1>3. ASSUME NEW e \in Editor, NEW u \in Upload, RequestUpload(e, u) PROVE PostInv'
  <2> DEFINE p == [pc |-> "store", about |-> u, row |-> None]
  <2>1. PostFits(p) /\ post' = [post EXCEPT ![e] = p]
    BY <1>3 DEF RequestUpload, PostFits
  <2> HIDE DEF p
  <2> QED BY <1>1, <2>1, OnePost
<1>4. ASSUME NEW e \in Editor, StoreUpload(e) PROVE PostInv'
  <2> DEFINE p == [pc |-> "answer", about |-> post[e].about, row |-> lesson']
  <2>1. PostFits(p)
    BY <1>1, <1>4 DEF StoreUpload, Posting, PostInv, PostFits
  <2>2. post' = [post EXCEPT ![e] = p]
    BY <1>1, <1>4 DEF StoreUpload, PostInv, PostFits
  <2> HIDE DEF p
  <2> QED BY <1>1, <2>1, <2>2, OnePost
<1>5. ASSUME NEW e \in Editor, AnswerUpload(e) \/ LoseUpload(e) PROVE PostInv'
  BY <1>1, <1>5, IdleFits, OnePost DEF AnswerUpload, LoseUpload
<1>6. ASSUME Mux \/ (\E w \in Worker : Handle(w) \/ WriteFromWebhook(w)) PROVE UNCHANGED post
  BY <1>6 DEF Mux, MuxReceives, MuxEndsUpload, MuxFinishes, Handle, bindMuxUploadAsset,
         recordMuxUploadFailure, recordMuxAssetFailure, syncMuxAsset, Begin, WriteFromWebhook, pages
<1>7. ASSUME NEW e \in Editor,
             \/ Reload(e) \/ Edit(e) \/ Poll(e) \/ SaveReadsRow(e) \/ togglePublish(e)
             \/ PlanSave(e) \/ AnswerSave(e)
             \/ \E k \in Kind : WritePatch(e, k) \/ LosePatch(e, k) \/ Load(e, k)
      PROVE  UNCHANGED post
  BY <1>7 DEF Reload, Edit, EditField, Poll, SaveReadsRow, togglePublish, PlanSave, AnswerSave,
              WritePatch, LosePatch, Load
<1> QED BY <1>2, <1>3, <1>4, <1>5, <1>6, <1>7
        DEF Next, Operate, Continue, Kind, vars, pages

-----------------------------------------------------------------------------
(* The theorem.                                                              *)

LEMMA VideoInvariant == Spec => []VideoInv
<1>1. VideoInv /\ [Next]_vars => VideoInv'
  BY MuxStep, RowStep, JobStep, EditorStep, PatchStep, PostStep DEF VideoInv
<1> QED BY <1>1, VideoStarts, PTL DEF Spec

\* Deliveries and pages in any number and order, whatever operators type, leave a row
\* the database stores, and every variable of its type (updateLesson,
\* handleMuxWebhook, createLessonUpload).
THEOREM TypeCorrect == Spec => []TypeOK
<1>1. VideoInv => TypeOK
  BY DEF VideoInv, MuxInv, RowInv, JobInv, EditorInv, Page, PatchInv, PatchFits, Kind, PostInv,
         PostFits, Posting, TypeOK
<1> QED BY <1>1, VideoInvariant, PTL

=============================================================================
