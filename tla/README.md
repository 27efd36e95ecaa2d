# A verification of Diaz On Demand in TLA+

Diaz On Demand sells a gym's video lessons: a NestJS API over PostgreSQL
(`apps/api`), a Next.js web application (`apps/diaz-ondemand-web`), a mobile
application (`apps/mobile`), rules both sides share (`packages/shared`) and the
database schema (`packages/db`). Stripe charges the members, Mux encodes and
plays the videos, Clerk signs people in. The hard parts are where those outside
systems and several requests meet on one row without a transaction around them.
This directory models those parts, checks them with TLC and proves the central
invariants with TLAPS.

## Inventory

| Component | State it keeps | Operations | Interacts with | What makes it correct |
|---|---|---|---|---|
| Stripe webhook processing (`webhooks.service.ts`) | `Subscription`, `Entitlement`, `StripeWebhookEvent` rows | subscription created/updated/deleted, refund, dispute opened/closed, the record of each delivery | Stripe (repeats and reorders), checkout's lock, the alerter | rows follow the newest event; access follows the rows; money that went back takes access; every event is processed in the end; nobody pays unseen |
| Entitlement and revocation rules (`entitlement.ts`, `subscription-revocation.ts`) | none | which rows grant access; what a refund, dispute, win or renewal writes | called by the webhook, by checkout and by every read of a member | a chargeback outranks a refund; only a paid renewal or a won dispute gives access back |
| Checkout (`billing.service.ts`, `checkout-reservation.ts`) | `CheckoutReservation` rows, Stripe's sessions | create checkout, cancel checkout, release on `checkout.session.*` | Stripe, the webhook, the member's tabs | one payable session per member; nobody locked out for good |
| Lesson video ingestion (`handleMuxWebhook`) | the video columns of `Lesson` | upload became an asset, upload failed, asset ready, asset failed | Mux (repeats and reorders), the editor | it brings a premium lesson no id that plays without a token; a settled upload, and no other event, stops the wait |
| Lesson editor and admin writes (`admin.service.ts`, the editor page) | the same columns, the form in the browser | edit, type an identifier, save, publish, poll, start an upload | the API, ingestion | a save resends nothing a webhook or an earlier save retired; only what was typed is the operator's; a YouTube lesson waits on nothing |
| Member access to content (`content.service.ts`, `lesson-presentation.ts`) | none | list, read a lesson | entitlements, the video columns, the environment | a premium identifier reaches nobody without PREMIUM, and on a server a Mux stream never without a token; staff are told of a video exactly when members get one |
| Watching and progress (lesson page, mobile `LessonScreen`, `progress.service.ts`, `progression.ts`) | `Progress` rows, the page's and screen's refs, requests in flight | autosave, mark complete, leave, resume, what next | the player | a row is a place of its own lesson; resume agrees with completion; failed saves are followed by others |
| Members and sign-in (`auth.service.ts`, the guards, `me.service.ts`, `sign-in-screen.tsx`) | `User`, `Entitlement` rows, Clerk's attempt on the device | identify, create on first sight, roles, request and verify a code, sign out | Clerk, webhooks, the marketing site | one user and one entitlement per member however they first appear; identity comes from a credential; a code signs in its own address |
| Curriculum and tags (`curriculum.ts`, `syncLessonCurriculumTags`) | `LessonTag` rows, the editor's form | select, save, read back | the editor, the seed | what was saved reads back; tags never contradict each other |
| Admin course page (`admin/courses/[id]/page.tsx`) | `Lesson.orderIndex`, the list as shown | add a lesson, move it | the API, the seed | no two lessons share a place |
| Seed (`seed.ts`) | the same rows | rows, then tags, lesson by lesson | staff's later edits | may die anywhere and be run again |
| Configuration and bootstrap (`env.ts`, `create-app.ts`) | the environment | refuse to start, the coming-soon wall | every decision derived from it | no half-configured server grants what only a developer's machine may |
| Favorites, admin programs, migration check, signatures, alerter | their rows | idempotent single-row writes, build-time and output I/O | the API | - |

Hard behaviours: no transaction spans a webhook delivery, a checkout or a save,
so every `await` is a point where another request runs; Stripe and Mux deliver
events late, repeatedly and out of order; the serverless platform may kill a
request between any two statements; a browser page acts on a row it read some
time ago; two clients save the same row with nothing to order them.
`PROJECT.json` lists these hazards line by line.

## The modules

| Module | What it models |
|---|---|
| `BillingRules` | the pure rules: `isEntitlementActive`, `resolveStripeEntitlement`, `planRevocation`, `releasesRevocation`, ... |
| `StripeWebhooks` | `handleStripeEvent`: Stripe's events, the workers that handle deliveries, the rows, faults |
| `SubscriptionLedger` | the abstract specification of a subscription row: Open, Advance, Renew, Withdraw, Restore |
| `Checkout` | `createCheckoutSession`, `cancelCheckout`, the reservation, Stripe's sessions |
| `VideoRules` | the shared rules over a lesson's video columns, the plans of an admin save, the policy rule, the database constraint |
| `LessonVideo` | the Mux webhooks, the editor pages and the uploads they start, all writing one row |
| `Deployment` | the environment, `validateApiEnv` and the decisions derived from it, the wall |
| `ContentAccess` | `getLesson` and the mappings of a lesson, as functions of row, environment and tier |
| `LessonAccess` | composes the two: what `LessonVideo`'s row is answered as, in every environment the API starts in |
| `Progression` | resume position, percentages, queue, recommendation, continue watching, and the completion rule players save by |
| `LessonProgress` | the web lesson page and the mobile lesson screen saving to one member's rows |
| `SignIn` | the mobile sign-in screen, the gate and sign-out, against Clerk |
| `Members` | identification, guards, and the three ways a member first appears |
| `Accounts` | composes the two: a device whose requests carry the session it holds |
| `Curriculum` | what metadata is valid, its tags, reading them back, the editor's selects |
| `Catalog` | a course's lessons under the course page, the lesson editor's saves and the seed |
| `MC...` | instances for TLC |
| `..._proofs` | theorems and their proofs |

**Steps.** An action is the code between two awaited calls; what a request
carries from one to the next is in its job record. In `StripeWebhooks` a
delivery runs `Deliver` (idempotency read), then for a subscription event
`ReadSubscription` (or `AlertUnmatchedSubscription`, which looks up the stamp and
sends the alert in one step), `UpsertSubscription`,
`ReadEntitlement`, `ReadSubscriptions`, `WriteEntitlement`, `RecordProcessed`;
a charge event runs `ReadChargedSubscription`, `UpdateRevocation` and the same
derivation. `Throw` fails any statement of the handling and leads to
`RecordFailed`; `Crash` ends it anywhere. An upsert's `update` half touches only
the columns the code names: `revocationAfterUpsert` keeps what the row holds
*now* unless the row as it was *read* earned a release.

**Checkout.** The lock is taken by the unique `userId` (`Reserve`), after a
lapsed one is deleted (`ClearLapsed`); `asOf` is the `now` both expiry
computations share. `AttachSession` and the releases by member act on whatever
lock the member holds at that moment, as the `updateMany` and `deleteMany` do.
`AttachSession` also hands the URL to the member: attaching and answering are one step.
`DeliverSubscription` stands for the whole of `StripeWebhooks` for a session's
subscription, at any delay: it composes the two modules at the row the live
check reads. Of a member's row `Checkout` keeps only whether it is live.
A refused request changes nothing and is a guard that does not hold.

**Lesson video.** A webhook reads the row and decides the write (one action per
branch, `findLessonForAsset`'s two lookups in one step), then writes it
(`WriteFromWebhook`). A page may have three requests in flight at once, in any
order: a save, a publish and an upload request, because the page disables the Save
button only while a save runs and the file input only while an upload does. It may be
edited meanwhile. A save reads the row again in the browser (`SaveReadsRow`), is
planned on another read in the API (`PlanSave`), written (`WritePatch`), answered
(`AnswerSave`, or `LosePatch`) and followed by a reload of the row (`Load`); a
publish runs the same `plan` over no column. An upload request is `RequestUpload`
(the API's read and the call to Mux), `StoreUpload` (the row waits), and
`AnswerUpload` (the page adopts the row and sends the file) or, at either point,
`LoseUpload`. The page keeps the row it shows (`seen`) and the form; `adopt` brings
both up to date, `Load` only the row: that difference is the code's.

The operator may type any member of `Typed` into an identifier's field, whatever tier
the lesson has, and the PATCH stores it: the code validates none of it. A playback id
is the pair of an asset and the policy it was issued for, or `Malformed`: outside its
provider's shape, or one of the placeholders an earlier seed wrote, which a row may
start with (`placeholder`). An id of the right shape that the provider does not know is
not told from one it knows: nothing in the code can. `typed` and `byHand` follow what
was typed into the form and with the save; no guard reads them.

Left out: the measured duration, titles and curriculum tags, and a delivery that would
write the duration alone. A poll, which reads and adopts, is one step, and so are the
click on Save and the row its GET answers. The answer of an upload request is compared
with the row the page shows then. A page is reloaded only with nothing in flight. A
request the browser gives up on while the API has yet to write is left out; one given
up on after is `LosePatch`. An upload whose URL is lost ends without an event.

**Access.** `ContentAccess` has no state: `LessonAccess` evaluates it on every
row the writers of `LessonVideo` leave, for every tier and every environment
`validateApiEnv` accepts. Those environments are reduced to the parts the answers
depend on before the quantifier ranges over them (`Serving`); which environments
start is decided on the full one. A link is the id it addresses and whether it
carries a token; a YouTube lesson is embedded by its id, at any tier, and has none.

**Watching.** A save is a request with an identity of its own: it may arrive after
its client gave up on it, and after later ones. The page keeps the lesson of its
URL, the lesson shown, and the lesson whose player last reported; `FollowLink` is
React's order (every cleanup, which saves, before any effect), and an answer to a
load that is no longer wanted is ignored. `TimeUpdate` reports any of the sampled
player times, in tenths of a second, forwards or backwards. The mobile screen has one request in flight
and owes at most one (`pendingSave`); an unmounted screen lives on until it owes
nothing. A timer that fires while nothing can be saved changes nothing and is no
step. The two lists the page loads beside the lesson are one answer.

**Members.** A request is in `call` from its arrival to its end, with one step per
awaited statement. `ensureUser`'s upsert carries a nested create, so Prisma reads
and then inserts: `EnsureRead` and `EnsureInsert`, and the loser of two inserts is
refused, or anonymous where the caller is optional. The two upserts of the
entitlements call are one statement each. `Webhook` is `StripeWebhooks`' last
statement as it touches these rows. COACH is let in where ADMIN is and is left out.

**Sign-in.** One step per awaited call of Clerk's; each may be answered, refused,
or not heard from, and then may have happened all the same. A code is identified by
the address it was mailed to.

**Catalog.** An update is one step for the row, then one per tag statement. The
course page's orders are the ones it loaded; a move is two requests at once, sent
together and applied in either order. `CarefulSpec` is `Spec` without the steps
that start from an outdated page or lose half of a move (`disturbed`); `alone` says
a lesson's curriculum has one writer at a time. Both are assumptions about staff,
not guards of the code; see below for what happens without them. A save whose answer is
lost while the server still runs, and deletion, which no page offers, are left out.

**External parts.** Stripe, Mux, the clock and the operator's hand-made grants
are modelled from how the code uses them. Stripe never revives a canceled
subscription, never moves a period back, refunds and disputes only a
subscription that went live, closes a dispute after opening it, and refuses an
`expires_at` closer than its minimum. Mux makes an asset only of an upload that
received a file and finishes an asset once. Clerk keeps one sign-in attempt on a
device, which a failed create leaves as it was, and accepts a code only for the
attempt it was mailed for, once.

### Bounds

`MaxEvents` events, `MaxDate` instants, `MaxFaults` failures or crashes, one
member with one or two subscriptions, one or two workers; `MaxTime` clock steps
with `TTL` 2, `Skew` 1, `RequestLimit` 1 (a request lives less long than the
lock: the platform's limit is minutes at most, the TTL is thirty), two tabs,
one cancel and two or three sessions. Three events are the least that show an order, a
revocation and its release; three instants tell before, at and after; a member needs two
subscriptions to show one masking the other; three sessions let a third checkout
start while two overlap.

A lesson's video has one upload and one page. `VideoConcurrent` has two deliveries, no
asset of the dashboard and a lesson not filmed yet, and lets any two of the five
requests (two deliveries, a save, a publish, an upload request) overlap, not three
(`Paired`); `VideoInSync` has one delivery, an asset of the dashboard with a public and a
signed id, already encoded or failed (its events may be delivered at any time), its id
and its public playback id to type, and rows that start with a placeholder. `Typed` also
has a YouTube id in both and, in `VideoInSync`, a malformed one; a malformed playback id
is the placeholder's there, and one typed by hand is covered by the theorems. An operator
changes at most two of the form's columns between saves (`MaxEdited`): a source and its
identifier, or an identifier and the tier.

`Watching` has one page or screen open at a time (a save given up on still arrives
later), two saves in flight, one failure, and two courses: a filmed lesson and a
YouTube one, then another filmed one. The mobile screen opens the first
(`MobileLesson`). The films are 12.4 s long, stored as 12; the first player is at 2.5 s,
where the margin has begun for the mobile screen's tenths and not for the page's whole
seconds, the other at its end. `TurnsBack = FALSE` leaves out the one case in which
`RowsAreOfTheirLesson` fails, described below. The property also needs
a film of at least ten seconds, or none: a shorter one is complete at 0, where a screen left
before its first report saves it as not complete.
`Accounts` has one account and one address without, two requests, and 40
environments: unset or production `NODE_ENV`, each kind of database, bypass and wall
on or off, all secrets or none. `Catalog` has two seeded lessons and one to add,
three requests (a move is two), one editor, one fault, and two disciplines that
differ in what the selects offer: one phase and skills, two phases and none. The
proofs lift the bounds for what they cover.

### Fairness

Only the liveness runs assume any. Stripe keeps redelivering an event that was
not answered with a 2xx (strong fairness of `Deliver`: workers come and go); Mux
likewise redelivers an upload's event until its handling is accepted (a refused one
throws, and is sent again). A request that started runs on (weak fairness of its steps;
of an editor page: every request ends, answered or lost); in
`Checkout` the member keeps pressing Subscribe and time passes. In
`LessonProgress` the network delivers and answers, and the ten-second timer fires
again and again although it is sometimes disabled (strong fairness of `Autosave`);
in `Accounts` a call to Clerk ends, if only as one that was not heard. Faults,
cancels and members are never fair: they may always stop.

## The runs

| Run | Asks | Shows |
|---|---|---|
| `StripeSerial` | any order, repetition and one fault, one delivery at a time | rows keep up with processed events (`NewestEventWins`), money back never passes quietly (`MoneyBackHolds`), and the webhook implements the ledger (`LedgerSpec`) |
| `StripeEntitlement` | two subscriptions of one member, refunds, hand-made grants, two failures that lose no derivation (`RetriedSpec`) | the settled entitlement is what the rows support; a grant standing when a delivery looks survives |
| `StripeConcurrent` | two deliveries interleaved | rows are events, revocations are charges, never mixtures |
| `StripeRedelivery` | every kind of event, owned and unowned subscription, a fault anywhere | every event processed in the end; the unmatched alert is never missing and repeats only after a fault |
| `CheckoutTabs` | two tabs, three sessions, one fault | the lock excludes, is kept, and bounds the overlap of sessions |
| `CheckoutCancel` | a tab and a cancel, one fault | a cancel closes what it abandons; nobody is stranded |
| `VideoConcurrent` | two deliveries, a save, a publish and an upload request of one page, any two overlapping | the row stays storable (`TypeOK`); a settled upload stops its lesson waiting, unless the lesson took a YouTube id during the request (`UploadSettles`); 1.2 million states |
| `VideoInSync` | an upload, a dashboard asset of both policies, typed ids and a placeholder, one request at a time | only a typed playback id exposes a premium lesson (`ExposedOnlyByHand`); a YouTube lesson waits on nothing (`YouTubeNeverWaits`); no upload forgotten (`UploadNotForgotten`); staff are told of a video exactly when an entitled member is handed one, in every environment that starts (`ReadyMeansPlayable`), and a premium stream only with a token (`PaidHandlesExpire`); 2.6 million states |
| `Watching` | a page or screen, saves in any order, one lost | rows are places of their own lesson, resume and recommendations agree with them; the screen ends on its last position; the page retries |
| `Accounts` | a device against Clerk, two requests of a new member, webhooks, every environment | identity needs a credential; the entitlement comes with the row and keeps its tier; a code signs in its address; the screen recovers |
| `Catalog` | staff, an editor, a seed that dies | tags never contradict, a reported save reads back, the form is always valid, the order strict |
| `StripeRetryViolation` | a refund whose derivation fails | the one counterexample kept as a run; below |

`StripeEntitlement` leaves out the one failure `StripeRetryViolation` shows
(`LosesDerivation`): a charge's delivery that dies between the row and the
entitlement. `VideoInSync` restricts `Next` in two ways that are statements about
the result, not about the code: requests do not overlap (`Alone`), and no page takes on a row
whose change its form does not show (`~ LoadsBehindForm`). Without either one
`ExposedOnlyByHand` fails, and without the first `YouTubeNeverWaits` and
`UploadNotForgotten` do; see below. `ReadyMeansPlayable` and `PaidHandlesExpire` need
neither, and are proved without.

### Disagreements between the code and its documentation

`StripeRetryViolation` ends in a counterexample, and `PROJECT.json` gives the
lines: a refund recorded on the row whose entitlement write fails is never repaired,
because the retry finds the row already revoked.

The modules state further documented claims with which TLC disagrees. Each is
reproduced by copying the run named and giving it that one property:

| Property | Start from | Change | What happens |
|---|---|---|---|
| `SettledEntitlement` | `StripeConcurrent` | - | two deliveries: the entitlement is derived from rows read before the other's write, and written last |
| `NewestEventWins` | `StripeConcurrent` | `EventKind <- SubscriptionOnly` | both pass the ordering guard; the older writes last |
| `UnmatchedAlertOnce` | `StripeRedelivery` | - | a fault between the alert and its stamp repeats the alert |
| `CancellationSticks` | `StripeSerial` | `EventKind <- SubscriptionOnly` | an update and a deletion of the same second, the update delivered last |
| `WonDisputeRestores` | `StripeSerial` | `EventKind <- Disputes` | a win delivered before its dispute is opened here finds nothing to release |
| `RefundStillHolds` | `StripeSerial` | `MaxEvents = 4` | a chargeback overwrites the refund's reason, and winning it clears both |
| `PayingMemberHasAccess` | `StripeEntitlement` | `MaxDate = 2`, `MaxFaults = 0` | a payment during a manual grant writes no entitlement, and nothing writes one when the grant ends |
| `LockCoversSession` | `CheckoutTabs` | - | the session outlives its lock by the skew |
| `OnePayableSession` | `CheckoutTabs` | `Canceller = {c}`, `MaxTime = 0`, `MaxFaults = 0` | a cancel releases by member, and so drops a lock another request holds or has not attached its session to (`billing.service.ts:187`, against 134-138) |
| `ChargedOnce` | `CheckoutTabs` | `MaxTime = 0`, `MaxFaults = 0` | `checkout.session.completed` frees the lock before the subscription row exists (`webhooks.service.ts:378`, against `billing.service.ts:52-53`) |
| `ExposedOnlyByHand` | `VideoInSync` | `SPECIFICATION SerialSpec` | a save as premium retires the public playback id and its answer is lost; a publish then refreshes the page's row and not its form, and the next save puts the retired id back on the premium lesson (the editor page, 368, against its comment at 258-264); no webhook takes part |
| `ExposedOnlyByHand` | `VideoInSync` | `SPECIFICATION InSyncSpec` | an asset becomes ready between the read of a free row and its save as premium: the public id is written after |
| `UploadNotForgotten` | `VideoConcurrent` | `Upload = {u1, u2}` | an event of an upload, read before its replacement is stored, clears the replacement |
| `YouTubeNeverWaits` | `VideoConcurrent` | - | one page starts an upload, switches to YouTube and saves while the upload request runs: the upload id is stored on a YouTube row, its events are refused (`webhooks.service.ts:744`), and only another save clears it, against `admin.service.ts:100-108` |
| `BackingOutKeepsRecord` | `Watching` | `MaxFaults = 0`, `MobileLesson = {demo}` | a YouTube lesson marked complete on the web is opened and left on mobile, where its resume position is 0: the record is overwritten with 0 and not complete, which `mobile-app.tsx:243-246` says cannot happen |
| `OrderStaysStrict` | `Catalog` | `SPECIFICATION Spec` | half a move fails, a move or an "Add lesson" is clicked on an outdated list, or the seed runs after staff added a lesson: two lessons share a place, and moving one past the other then exchanges equal numbers although the page says "Lesson order updated." |

Further behaviours met while modelling, which no property states:

- A completed lesson watched again is saved as not complete ten seconds later (web
  and mobile); progress saves of the web page are not ordered, and the last to
  arrive wins.
- A page that goes from one filmed lesson to another and back, before the second's
  player has reported a time, has all three of saveProgress's conditions again (the last
  report was the first lesson's) with the second's player in its ref: the next save puts
  that player's place on the first lesson's row (lesson page, 142-152). The run
  `Watching` with `TurnsBack = TRUE` shows it on `RowsAreOfTheirLesson`. It takes a page
  whose state outlives a change of its URL, as its refs and effects are written for.
- The answer to a save sets "saved" or "failed" on whatever lesson the page shows by then.
- A course of two lessons shows 100% with one of them at 99%. A member who has finished a course is
  recommended the first lesson of the next one even if that one is finished.
- `billing.upsertMember` tolerates the race to create a user, but sits behind
  `AuthGuard`, whose `ensureUser` does not; `getOptionalUser` turns any failure, the
  database's included, into an anonymous caller.
- Two saves of one lesson's curriculum at once can leave two tags of one kind.
- A public playback id pasted on a premium lesson is stored by one save and served as it
  is to nobody without PREMIUM, but plays for whoever holds it: what an admin types is not
  compared with Mux, which the repository's README (293-294) defers. The run `VideoInSync`
  allows exactly this and nothing else. Webhooks refuse the same id (`rejectMuxPlaybackPolicy`).
- A premium YouTube lesson is embedded by its permanent id, which no token protects; the
  editor says so (631-637).
- A PAID lesson made FREE keeps a signed playback id, by design (`video-source.ts:245`).
- A favourites list that answers late shows what was removed meanwhile, and the list
  includes drafts.

## The proofs

`tlapm` checks every theorem; the constants are arbitrary, restricted only by
the named assumptions of the modules: nulls differ from values and from records,
an owner is a member or nobody, dates and bounds are naturals, the request limit is
below the TTL, what is typed is an identifier, and `Malformed` is none Mux or YouTube issued; every discipline
lists phases, levels and, for each phase, tracks, and perhaps no skills
(`CatalogAssumption`); the seeded lessons are finitely many and the seed gives each a
place of its own, from 1 on (`SeedAssumption`). What only some theorems need they
state: one delivery at a time (`Serial`: at most one worker; `SerialSpec` and
`SerialInSyncSpec` for a lesson's video), failures other than the one of
`LosesDerivation` (`RetriedSpec`), pages that do not turn back (`~ TurnsBack`), films
of at least ten seconds where their length is known (`FilmsAreLong`), filmed lessons
whose stored duration is the measured one (`StoredAsMeasured`), staff who are careful
with the course page (`CarefulSpec`). `MaxDate` remains a parameter: time is finite
but arbitrarily long.

- `StripeWebhooks_proofs`: `TypeCorrect`. `RowsTraced` and `RevocationsTraced`
  hold for any number of workers: their inductive invariants add what a job
  carries between its read and its write (a job at `write` holds a row that once
  was stored, and its event is one Stripe generated), because the row may have
  changed in between. `SerialNewest` and `SerialRefinement` add that the row a
  lone worker read is still the row stored, and that a job past its write left a
  row at least as new as its event; every step then maps to a step of
  `SubscriptionLedger` or to a stutter. `UnmatchedAlerted`, for any workers: a
  record that is PROCESSED, and a job about to make one, has an alert behind it.
  `SerialMoneyBack` follows each refund and dispute from its write on: it has told
  somebody, or its subscription is still revoked, or an event that restores access
  exists. A renewal that lifts a revocation is exhibited as that event by the traces
  of the row and of the revocation, so those invariants are part of this one.
  `SerialAlertOnce`: a stamp is carried from its alert to the record, which is not
  written again, so every alert but the one stamped cost a fault.
  `GrantsSurvive`, for any workers: a delivery past its read of the entitlement saw
  no grant that was running then, and time never makes one run again.
  `SerialEntitlement`: a member whose entitlement is not the one the rows support is
  being derived for, or is *owed* a derivation by a subscription event that is not
  PROCESSED yet and not older than the row. A failed delivery of a subscription event
  owes one, since its redelivery writes the row again and derives; a charge's does not,
  since its redelivery finds the row already as it would leave it. That step, and no
  other, is what `RetriedSpec` leaves out. An event that owes may be overtaken by a newer
  one of its subscription, whose delivery then derives instead.
  `FaultlessEntitlement` is the same invariant under `Spec`, until the first failure.
  The type of a resolved entitlement (`ResolvedType`) serves the type invariant, and
  through it all the others.
- `Checkout_proofs`: `TypeCorrect`, `LockExcludes`, `LockIsKept` and
  `OverlapBounded`, for any number of members, tabs and sessions while nobody
  cancels. The invariant says a request past the lock holds the reservation with
  its own expiry, which has not lapsed because a request is younger than the
  TTL; that a handed session which is still open is either in its last `Skew` or
  the one its member's reservation names, whose lock it outlives by `Skew`.
  `CancelCloses`, for any number of cancels too: a lock, a request about to attach and
  a cancel name sessions Stripe created, so a closed one cannot open again.
- `Accounts_proofs`: `TypeCorrect`, `SignsInAddressOnScreen`,
  `IdentityFromCredential`, `EntitledAtFirstSight` and `AccessIsKept`, for any
  accounts, strangers, members, environments and number of requests. On the device
  the invariant says a prepared address is the one the attempt was created for,
  through every failure, until a session exists. In the API it says a request past
  its identification has a subject (unless an anonymous visitor's), which on a
  server is its token's; that an entitlement never exists without its user, and a
  request between its two upserts has made the user.
- `LessonVideo_proofs`: `TypeCorrect`, for any number of deliveries and pages and
  whatever they type. Every row, stored or carried by a delivery, a page, a form or a
  request, has its columns' types, and the stored one is storable because the database
  refuses any other.
- `SerialVideo_proofs`: `YouTubeSettled`, `WaitsUntilSettled` and `OnlyTypingExposes`. The
  first two from `SerialInv`: since one request runs at a time, a write was planned over
  the row as it still is, so a stored YouTube row is one whose upload state its own save
  cleared, an upload is stored only on a row without a YouTube id, and a delivery about to
  end an upload is about the one the row waits on. `OnlyTypingExposes` needs more, because
  pages stay open between requests (`HandInv`): whatever is about to be written, unless
  its playback id was typed, is *quiet* over the row as it is now (it leaves the row
  exposed only if it was, by the same playback id), and a form nobody typed a playback id
  into holds its page's, or none. Mux does not undo that: an asset's policy is chosen once.
- `LessonAccess_proofs`: `ReadyPlays` and `PaidHandedByToken`, however requests overlap and
  whatever was typed. A storable row holds the id of one provider; staff are told of a
  video (`ToldOfStoredId`) exactly when it has its provider's shape, and an entitled
  member is handed one (`HandedStoredId`) in exactly that case, because an API that
  starts on a server signs and elsewhere needs not to.
- `LessonProgress_proofs`: for any lessons, films, courses, number of saves and faults.
  `RowsHold` and `ResumeAgrees`: a save in flight, and the position a page or screen
  would save next, are places of the lesson they name, complete exactly at its end, so
  it does not matter which of them arrives, when, or twice. `ContinueResumes`: what
  "continue watching" offers is what resumes somewhere, which needs the stored duration
  to be the film's. `WatchingTypes`, `NextIsUnfinished` and `LastPositionIsSent` need
  none of these conditions: the rows are what the list of updates names, and a screen
  that is gone owes its last position or has sent it.
- `Catalog_proofs`: for any lessons, disciplines, requests, editors and deaths of the
  seed. `FormsAccepted`, `TagsAgree` and `SavedIsReadBack` hold whatever staff do to the
  order. A lesson's curriculum has one writer at a time (`WorkInv`), so between the
  statements of a sync or of the seed the tags are, once the undesired are removed,
  some of those being written, and the rest is still to be added; at most one tag of
  each kind is there at every step (`TagInv`), and what was reported saved is untouched
  until the next writer.
  `MetadataReadsBack` says the tags of valid metadata are read as that metadata,
  `EditsValid` that every select leaves a valid form. `OrderStrict`, for careful staff:
  the orders are the places from 1 on whenever nothing is in flight, and in between each
  lesson is where the page shows it or where the click sends it (`OrderInv`); a move
  exchanges two places and a new lesson takes the next, so whichever order arrives first
  the places are all taken once when the last has. The seed starts on an empty course or
  on its own rows, and writes its own places.

Only model-checked: liveness (`EventuallyProcessed`, `NeverStranded`, `UploadSettles`,
`RetriedAutomatically`, `ScreenRecovers`), which is out of the prover's reach. Every
invariant and action property the runs check is stated by a theorem. Where a theorem has
a condition the run has it too, and the table of disagreements says what happens without.

## Not modelled

Signature verification, the alerter's delivery and the billing portal redirect
decide whether a request starts or what it prints, not what it does to shared
state. Of the bootstrap only the wall and the environment are modelled: CORS, pipes
and the raw body keep nothing between requests. Favorites are one idempotent
statement each. The program and course forms and publication write one row each,
the last one wins. The curriculum the seed writes is literal data; Catalog uses one
lesson's worth of its shape. The migration check runs at build time over another tool's output.
The mobile catalogue, favourites and account screens read and lay out.

## Plan

1. (done) `BillingRules`, `StripeWebhooks`, `SubscriptionLedger`; `Checkout`;
   `VideoRules`, `LessonVideo`; the runs and theorems about them.
2. (done) `Deployment`, `ContentAccess`, `LessonAccess`; `Progression`,
   `LessonProgress`; `SignIn`, `Members`, `Accounts`; `Curriculum`, `Catalog`.
3. (done) Proofs of every invariant and action property the runs check.
4. Next: lift `Serial` from `SettledEntitlement` as far as the code allows, by stating
   which interleavings it survives; the traces of `Checkout` with a cancel; favourites,
   once their list keeps state across requests.
