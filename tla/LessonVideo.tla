----------------------------- MODULE LessonVideo -----------------------------
(***************************************************************************)
(* The video columns of one lesson and everybody who writes them: the Mux  *)
(* webhooks (handleMuxWebhook), the lesson editor's saves (updateLesson)   *)
(* and the direct uploads it starts (createLessonUpload).                  *)
(*                                                                         *)
(* Every writer reads the row, awaits, and writes what it computed from    *)
(* what it read; the database refuses a row that is not storable.  Mux     *)
(* delivers each event at any time after it happened, in any order, any    *)
(* number of times; a delivery that dies is one more redelivery.  A page   *)
(* may have a save, a publish and an upload request in flight at once, and *)
(* keeps accepting edits meanwhile.                                        *)
(***************************************************************************)
EXTENDS VideoRules, FiniteSets

CONSTANTS
  Worker,    \* concurrent webhook deliveries
  Editor,    \* lesson editor pages open in browsers
  Typed,     \* what operators type or paste into each identifier's field
  MaxEdited  \* bound: how many columns of a form are edited at once

ASSUME EditorAssumption ==
  /\ Typed \in [muxAssetId : SUBSET Asset, muxPlaybackId : SUBSET PlaybackId,
               youtubeVideoId : SUBSET YouTubeId]
  /\ MaxEdited \in Nat

VARIABLES
  lesson,    \* the row
  upload,    \* Mux's direct uploads
  asset,     \* Mux's assets
  job,       \* the webhook deliveries in flight
  editor,    \* the editor pages: the row each shows and its form
  patch,     \* their PATCH requests in flight: a save, a publish
  post       \* their upload requests in flight

pages == <<editor, patch, post>>
vars == <<lesson, upload, asset, job, pages>>

UploadState ==
  [status : {"none", "created", "handed", "ended", "received"},
   policy : Policy \cup {None}]

AssetState == {"none", "preparing", "ready", "errored"}

Form ==
  [accessLevel : {"FREE", "PAID"}, videoProvider : {"MUX", "YOUTUBE", "NONE"},
   muxAssetId : Asset \cup {None}, muxPlaybackId : PlaybackId \cup {None},
   youtubeVideoId : YouTubeId \cup {None}]

policiesOf(a) == IF a \in Upload THEN {upload[a].policy} ELSE HandPolicy[a]

\* A lesson that is not filmed yet.
unfilmed ==
  [accessLevel |-> "FREE", videoProvider |-> "NONE", muxAssetId |-> None,
   muxPlaybackId |-> None, youtubeVideoId |-> None, muxUploadId |-> None,
   muxVideoError |-> FALSE]

\* A lesson seeded with a placeholder for a video.
placeholder == [unfilmed EXCEPT !.videoProvider = "MUX", !.muxPlaybackId = Malformed]

idleJob == [pc |-> "idle", data |-> nothing, about |-> None]

\* A page just opened holds the row and a form that shows it.  typed says that the
\* playback id in the form was put there by hand.
page(row) == [seen |-> row, form |-> lessonEditorFieldsAfterSave(row), typed |-> FALSE]

\* byHand: the playback id a save carries was typed in.
idlePatch == [pc |-> "idle", data |-> nothing, byHand |-> FALSE]
idlePost == [pc |-> "idle", about |-> None, row |-> None]

\* Deliveries are late, so that an asset of the dashboard may have finished before.
Init ==
  /\ lesson \in {unfilmed, placeholder}
  /\ upload = [u \in Upload |-> [status |-> "none", policy |-> None]]
  /\ asset \in {s \in [Asset -> AssetState] : \A a \in Asset :
       IF a \in Upload THEN s[a] = "none" ELSE s[a] \in {"ready", "errored"}}
  /\ job = [w \in Worker |-> idleJob]
  /\ editor = [e \in Editor |-> page(lesson)]
  /\ patch = [e \in Editor |-> [save |-> idlePatch, publish |-> idlePatch]]
  /\ post = [e \in Editor |-> idlePost]

\* Mutant of UpdateLesson: the migration drops the constraint and adds none.
UpdateUnconstrained(data) == lesson' = over(data, lesson)

\* An update the constraint rejects throws and changes nothing.
UpdateLesson(data) ==
  lesson' = IF storable(over(data, lesson)) THEN over(data, lesson) ELSE lesson

-----------------------------------------------------------------------------
(* Mux *)

\* The browser's PUT reached Mux: the upload became an asset.
MuxReceives(u) ==
  /\ upload[u].status = "handed"
  /\ upload' = [upload EXCEPT ![u].status = "received"]
  /\ asset' = [asset EXCEPT ![u] = "preparing"]
  /\ UNCHANGED <<lesson, job, pages>>

\* Errored or cancelled before any asset existed.  An upload nobody sends a file to
\* ends too, but nothing announces that.
MuxEndsUpload(u) ==
  /\ upload[u].status = "handed"
  /\ upload' = [upload EXCEPT ![u].status = "ended"]
  /\ UNCHANGED <<lesson, asset, job, pages>>

MuxFinishes(a, outcome) ==
  /\ asset[a] = "preparing"
  /\ asset' = [asset EXCEPT ![a] = outcome]
  /\ UNCHANGED <<lesson, upload, job, pages>>

-----------------------------------------------------------------------------
(* Webhooks: find the lesson and decide the write ... *)

\* A delivery that would change nothing writes nothing.
Begin(w, data, about) ==
  /\ job[w].pc = "idle"
  /\ DOMAIN data # {}
  /\ job' = [job EXCEPT ![w] = [pc |-> "write", data |-> data, about |-> about]]
  /\ UNCHANGED <<lesson, upload, asset, pages>>

\* video.upload.asset_created: the upload id is exchanged for the asset id and the
\* previous playback id is retired.
bindMuxUploadAsset(w, u) ==
  /\ upload[u].status = "received"
  /\ lesson.muxUploadId = u
  /\ lesson.youtubeVideoId = None
  /\ Begin(w,
       also(set("muxAssetId", u), also(set("muxUploadId", None),
         also(set("muxVideoError", FALSE),
           also(setIf(lesson.muxPlaybackId # None, "muxPlaybackId", None),
                setIf(lesson.videoProvider # "MUX", "videoProvider", "MUX"))))), u)

\* Mutant of recordMuxUploadFailure: the failure is shown and the upload id stays.
recordErrorOnly(w, u) ==
  /\ upload[u].status = "ended"
  /\ lesson.muxUploadId = u
  /\ Begin(w, set("muxVideoError", TRUE), u)

\* video.upload.errored and .cancelled.
recordMuxUploadFailure(w, u) ==
  /\ upload[u].status = "ended"
  /\ lesson.muxUploadId = u
  /\ Begin(w, also(set("muxUploadId", None), set("muxVideoError", TRUE)), u)

\* findLessonForAsset: by the asset id first, by the upload it came from otherwise.
matchedByAsset(a) == lesson.muxAssetId = a
matchedByUpload(a) == lesson.muxAssetId # a /\ lesson.muxUploadId = a

\* Mutant of recordMuxAssetFailure: any failure ends whatever upload is pending.
failWhateverIsPending(w, a) ==
  /\ asset[a] = "errored"
  /\ matchedByAsset(a) \/ matchedByUpload(a)
  /\ Begin(w, also(set("muxVideoError", TRUE), set("muxUploadId", None)), a)

\* video.asset.errored; skipped when the lesson moved on to another upload.
recordMuxAssetFailure(w, a) ==
  /\ asset[a] = "errored"
  /\ \/ matchedByUpload(a)
     \/ matchedByAsset(a) /\ lesson.muxUploadId = None
  /\ Begin(w,
       also(setIf(~ lesson.muxVideoError, "muxVideoError", TRUE),
         also(setIf(matchedByUpload(a), "muxAssetId", a),
              setIf(matchedByUpload(a), "muxUploadId", None))), a)

\* The playback id the lesson's tier requires.
playbackIdFor(a) == [asset |-> a, policy |-> playbackPolicyForAccessLevel(lesson.accessLevel)]

\* video.asset.ready: only what would change is written, and an upload is settled
\* only by the asset it became.
syncMuxAsset(w, a) ==
  LET brings == playbackIdFor(a) # lesson.muxPlaybackId
      settles == lesson.muxUploadId = a
  IN  /\ asset[a] = "ready"
      /\ matchedByAsset(a) \/ matchedByUpload(a)
      /\ lesson.youtubeVideoId = None
      /\ ~ rejectMuxPlaybackPolicy(lesson.accessLevel, policiesOf(a))
      /\ Begin(w,
           also(setIf(brings, "muxPlaybackId", playbackIdFor(a)),
             also(setIf(lesson.videoProvider # "MUX", "videoProvider", "MUX"),
               also(setIf(matchedByUpload(a), "muxAssetId", a),
                 also(setIf(settles, "muxUploadId", None),
                      setIf((brings \/ settles) /\ lesson.muxVideoError,
                            "muxVideoError", FALSE))))), a)

\* ... and write it.
WriteFromWebhook(w) ==
  /\ job[w].pc = "write"
  /\ UpdateLesson(job[w].data)
  /\ job' = [job EXCEPT ![w] = idleJob]
  /\ UNCHANGED <<upload, asset, pages>>

-----------------------------------------------------------------------------
(* The lesson editor *)

Patching(e, k, pc) == patch[e][k].pc = pc
Posting(e, pc) == post[e].pc = pc

Reload(e) ==
  /\ Patching(e, "save", "idle") /\ Patching(e, "publish", "idle") /\ Posting(e, "idle")
  /\ editor' = [editor EXCEPT ![e] = page(lesson)]
  /\ UNCHANGED <<lesson, upload, asset, job, patch, post>>

EditField(e, f, value) ==
  /\ editor[e].form[f] # value
  /\ Cardinality({g \in FormField \ {f} : editor[e].form[g] # editor[e].seen[g]}) < MaxEdited
  /\ editor' = [editor EXCEPT ![e] =
       [seen |-> @.seen, form |-> [@.form EXCEPT ![f] = value],
        typed |-> IF f = "muxPlaybackId" THEN value # None ELSE @.typed]]
  /\ UNCHANGED <<lesson, upload, asset, job, patch, post>>

\* The operator changes the tier or the source, or types over an identifier the form
\* shows; nothing compares what is typed with Mux.
Edit(e) ==
  LET form == editor[e].form
      shows == [muxAssetId |-> showMuxAssetIdField(form, editor[e].seen),
                muxPlaybackId |-> form.videoProvider = "MUX",
                youtubeVideoId |-> form.videoProvider = "YOUTUBE"]
  IN  \/ \E level \in {"FREE", "PAID"} : EditField(e, "accessLevel", level)
      \/ \E provider \in {"MUX", "YOUTUBE", "NONE"} : EditField(e, "videoProvider", provider)
      \/ \E f \in {g \in DOMAIN shows : shows[g]} :
           \E id \in Typed[f] \cup {None} : EditField(e, f, id)

\* applyLessonRow: the page shows the new row, the form adopts what changed in it.
adopt(p, row) ==
  LET adopted == lessonEditorFieldsAfterRowChange(p.seen, row)
  IN  [seen |-> row, form |-> over(adopted, p.form),
       typed |-> p.typed /\ "muxPlaybackId" \notin DOMAIN adopted]

\* The upload control is on the page: no YouTube id on the row, no switch in the form.
offersUpload(p) == p.seen.youtubeVideoId = None /\ p.form.videoProvider # "YOUTUBE"

WatchedField ==
  {"videoProvider", "muxUploadId", "muxVideoError", "muxAssetId", "muxPlaybackId",
   "youtubeVideoId"}

\* While an upload or an encode is outstanding the upload control polls the row.
Poll(e) ==
  /\ offersUpload(editor[e])
  /\ resolveLessonVideoState(editor[e].seen) \in {"UPLOADING", "PROCESSING"}
  /\ \E f \in WatchedField : editor[e].seen[f] # lesson[f]
  /\ editor' = [editor EXCEPT ![e] = adopt(@, lesson)]
  /\ UNCHANGED <<lesson, upload, asset, job, patch, post>>

\* updateLesson's plan, from the row the API reads.
plan(data) == planYouTubeUploadStateClear(lesson, planPaidAccessTransition(lesson, data))

\* onSave: the row is read again, the form adopts what changed, and what it then
\* says is sent unless the editor refuses it.
SaveReadsRow(e) ==
  LET adopted == lessonEditorFieldsAfterRowChange(editor[e].seen, lesson)
      fresh == IF adopted = nothing THEN editor[e] ELSE adopt(editor[e], lesson)
      data == outgoing(fresh.form, lesson)
  IN  /\ Patching(e, "save", "idle")
      /\ editor' = [editor EXCEPT ![e] = fresh]
      /\ patch' = IF acceptable(data)
                  THEN [patch EXCEPT ![e]["save"] =
                          [pc |-> "plan", data |-> data, byHand |-> fresh.typed]]
                  ELSE patch
      /\ UNCHANGED <<lesson, upload, asset, job, post>>

\* The API reads the row and plans the save's write ...
PlanSave(e) ==
  /\ Patching(e, "save", "plan")
  /\ patch' = [patch EXCEPT ![e]["save"] =
       [pc |-> "write", data |-> plan(@.data), byHand |-> @.byHand]]
  /\ UNCHANGED <<lesson, upload, asset, job, editor, post>>

\* ... as it does for a publish, which mentions no video column.
togglePublish(e) ==
  /\ Patching(e, "publish", "idle")
  /\ patch' = [patch EXCEPT ![e]["publish"] =
       [pc |-> "write", data |-> plan(nothing), byHand |-> FALSE]]
  /\ UNCHANGED <<lesson, upload, asset, job, editor, post>>

\* ... and writes it; a rejected write is reported.
WritePatch(e, k) ==
  /\ Patching(e, k, "write")
  /\ UpdateLesson(patch[e][k].data)
  /\ patch' = [patch EXCEPT ![e][k] =
       [idlePatch EXCEPT !.pc = IF storable(over(patch[e][k].data, lesson)) THEN "answer" ELSE "idle"]]
  /\ UNCHANGED <<upload, asset, job, editor, post>>

\* The API reads the row again and answers it, and the form is what it says ...
AnswerSave(e) ==
  /\ Patching(e, "save", "answer")
  /\ patch' = [patch EXCEPT ![e]["save"] = [@ EXCEPT !.pc = "load"]]
  /\ editor' = [editor EXCEPT ![e] =
       [seen |-> @.seen, form |-> lessonEditorFieldsAfterSave(lesson), typed |-> FALSE]]
  /\ UNCHANGED <<lesson, upload, asset, job, post>>

\* ... unless the answer is lost: the page reports a save that failed.
LosePatch(e, k) ==
  /\ Patching(e, k, "answer")
  /\ patch' = [patch EXCEPT ![e][k] = idlePatch]
  /\ UNCHANGED <<lesson, upload, asset, job, editor, post>>

\* load, after a save or a publish: the page shows the row as it is, the form stays
\* as it was.
Load(e, k) ==
  /\ Patching(e, k, IF k = "save" THEN "load" ELSE "answer")
  /\ patch' = [patch EXCEPT ![e][k] = idlePatch]
  /\ editor' = [editor EXCEPT ![e].seen = lesson]
  /\ UNCHANGED <<lesson, upload, asset, job, post>>

\* createLessonUpload: the control takes a file while the form shows the saved tier;
\* the policy is the tier the API read.
RequestUpload(e, u) ==
  /\ Posting(e, "idle")
  /\ offersUpload(editor[e])
  /\ editor[e].form.accessLevel = editor[e].seen.accessLevel
  /\ lesson.youtubeVideoId = None
  /\ upload[u].status = "none"
  /\ upload' = [upload EXCEPT ![u] =
       [status |-> "created", policy |-> playbackPolicyForAccessLevel(lesson.accessLevel)]]
  /\ post' = [post EXCEPT ![e] = [pc |-> "store", about |-> u, row |-> None]]
  /\ UNCHANGED <<lesson, asset, job, editor, patch>>

\* The row starts waiting on the upload, and is answered with its URL ...
StoreUpload(e) ==
  /\ Posting(e, "store")
  /\ UpdateLesson(also(set("muxUploadId", post[e].about), set("muxVideoError", FALSE)))
  /\ post' = [post EXCEPT ![e] = [pc |-> "answer", about |-> @.about, row |-> lesson']]
  /\ UNCHANGED <<upload, asset, job, editor, patch>>

\* ... which the page adopts, and sends the file ...
AnswerUpload(e) ==
  /\ Posting(e, "answer")
  /\ upload' = [upload EXCEPT ![post[e].about].status = "handed"]
  /\ editor' = [editor EXCEPT ![e] = adopt(@, post[e].row)]
  /\ post' = [post EXCEPT ![e] = idlePost]
  /\ UNCHANGED <<lesson, asset, job, patch>>

\* ... or the request dies, before the row waits or after, and the URL is lost.
LoseUpload(e) ==
  /\ ~ Posting(e, "idle")
  /\ post' = [post EXCEPT ![e] = idlePost]
  /\ UNCHANGED <<lesson, upload, asset, job, editor, patch>>

-----------------------------------------------------------------------------
Mux ==
  \/ \E u \in Upload : MuxReceives(u) \/ MuxEndsUpload(u)
  \/ \E a \in Asset, outcome \in {"ready", "errored"} : MuxFinishes(a, outcome)

Handle(w) ==
  \/ \E u \in Upload : bindMuxUploadAsset(w, u) \/ recordMuxUploadFailure(w, u)
  \/ \E a \in Asset : recordMuxAssetFailure(w, a) \/ syncMuxAsset(w, a)

Operate(e) ==
  \/ Reload(e)
  \/ Edit(e)
  \/ Poll(e)
  \/ SaveReadsRow(e)
  \/ togglePublish(e)
  \/ \E u \in Upload : RequestUpload(e, u)

Continue(e) ==
  \/ PlanSave(e)
  \/ AnswerSave(e)
  \/ \E k \in {"save", "publish"} : WritePatch(e, k) \/ LosePatch(e, k) \/ Load(e, k)
  \/ StoreUpload(e)
  \/ AnswerUpload(e)
  \/ LoseUpload(e)

Next ==
  \/ Mux
  \/ \E w \in Worker : Handle(w) \/ WriteFromWebhook(w)
  \/ \E e \in Editor : Operate(e) \/ Continue(e)

Spec == Init /\ [][Next]_vars

\* One request at a time, from the read of a row to the write it leads to: what
\* the handlers are written for, and the API does not enforce.
Busy ==
  {<<w, "webhook">> : w \in {v \in Worker : job[v].pc # "idle"}}
    \cup {<<e, "save">> : e \in {d \in Editor : ~ Patching(d, "save", "idle")}}
    \cup {<<e, "publish">> : e \in {d \in Editor : ~ Patching(d, "publish", "idle")}}
    \cup {<<e, "post">> : e \in {d \in Editor : ~ Posting(d, "idle")}}
Alone == \A x, y \in Busy : x = y

SerialSpec == Init /\ [][Next /\ Alone']_vars

\* A page takes on a row while its form keeps what that row no longer holds: load,
\* when a webhook or another page wrote since the page last looked.
LoadsBehindForm ==
  \E e \in Editor : \E f \in FormField :
    /\ editor'[e].seen[f] # editor[e].seen[f]
    /\ editor'[e].form[f] = editor[e].seen[f]

InSyncSpec == Init /\ [][Next /\ ~ LoadsBehindForm]_vars
SerialInSyncSpec == Init /\ [][Next /\ Alone' /\ ~ LoadsBehindForm]_vars

\* Bound: a lesson not filmed yet, and no more than two requests at once, of deliveries,
\* saves, publishes and uploads, whichever two.
Paired == \A x, y, z \in Busy : x = y \/ y = z \/ x = z

PairSpec == Init /\ lesson = unfilmed /\ [][Next /\ Paired']_vars

\* Deliveries run on, Mux keeps redelivering, and every request of a page ends,
\* answered or lost.
Fairness ==
  /\ \A w \in Worker : WF_vars(WriteFromWebhook(w))
  /\ \A e \in Editor :
       /\ []<>Posting(e, "idle")
       /\ \A k \in {"save", "publish"} : []<>Patching(e, k, "idle")
  /\ \A u \in Upload :
       SF_vars(/\ \E w \in Worker : bindMuxUploadAsset(w, u) \/ recordMuxUploadFailure(w, u)
               /\ Paired')

FairPairSpec == PairSpec /\ Fairness

-----------------------------------------------------------------------------
(* Properties *)

\* Every variable has its type; the row is one the database stores.
TypeOK ==
  /\ lesson \in Row
  /\ storable(lesson)
  /\ upload \in [Upload -> UploadState]
  /\ asset \in [Asset -> AssetState]
  /\ \A w \in Worker : job[w].pc \in {"idle", "write"}
  /\ \A e \in Editor :
       /\ editor[e].seen \in Row
       /\ editor[e].form \in Form
       /\ editor[e].typed \in BOOLEAN
       /\ \A k \in {"save", "publish"} :
            patch[e][k].pc \in {"idle", "plan", "write", "answer", "load"}
       /\ post[e].pc \in {"idle", "store", "answer"}
       /\ ~ Posting(e, "idle") => post[e].about \in Upload

\* A premium lesson whose playback id, or a sibling of it, plays without a token.
exposed(row) ==
  /\ row.accessLevel = "PAID"
  /\ row.muxPlaybackId \in IssuedId
  /\ policiesOf(row.muxPlaybackId.asset) # {"signed"}

\* A premium lesson comes to play from an asset anyone may play only by a save that
\* carries a playback id an operator typed into the form: no event of Mux, no change of
\* tier and no form that outlived its row does that (syncMuxAsset,
\* planPaidAccessTransition, lessonEditorFieldsAfterRowChange).  True one request at a
\* time, on pages that never load a row behind their form; what is typed is not
\* compared with Mux, and the code leaves that to the operator.
ExposedOnlyByHand ==
  [][exposed(lesson)' /\ ~ (exposed(lesson) /\ lesson'.muxPlaybackId = lesson.muxPlaybackId) =>
       \E e \in Editor : /\ Patching(e, "save", "write") /\ ~ Patching(e, "save", "write")'
                         /\ patch[e]["save"].byHand]_vars

\* A YouTube lesson waits on no upload and shows no failure of one, one request at a
\* time (planYouTubeUploadStateClear, createLessonUpload, refuseYouTubeLesson): the
\* row must not keep "driving the Upload in progress or Upload failed badge over a
\* working YouTube video", since "nothing else ever would" clear it.
YouTubeNeverWaits ==
  lesson.videoProvider = "YOUTUBE" => resolveLessonVideoState(lesson) = "READY"

\* A lesson stops waiting on an upload only because of that upload: its own event,
\* a newer upload, or a switch to YouTube.
UploadNotForgotten ==
  [][lesson.muxUploadId # None /\ lesson'.muxUploadId # lesson.muxUploadId =>
       \/ lesson'.muxUploadId # None
       \/ lesson'.videoProvider = "YOUTUBE"
       \/ \E w \in Worker :
            job[w].pc = "write" /\ job'[w].pc = "idle" /\ job[w].about = lesson.muxUploadId]_vars

\* An upload Mux settled does not keep its lesson waiting forever, however the
\* deliveries, a save, a publish and the upload request itself overlap.  A lesson that
\* took a YouTube id during the upload request refuses the upload's asset and may wait on.
UploadSettles ==
  \A u \in Upload :
    upload[u].status \in {"received", "ended"} /\ lesson.muxUploadId = u
      ~> \/ lesson.muxUploadId # u
         \/ upload[u].status = "received" /\ lesson.youtubeVideoId # None

=============================================================================
