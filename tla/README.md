# Formal models of the assessment platform

This directory holds TLA+ models of the back end in `src/`: what its services
promise about attempts, marks and hand-ins, about tenants, settings, payments,
manual marking, courses and coins, how far the code keeps those promises when
requests overlap, fail half-way or are repeated, and machine-checked proofs of the
promises that hold for any number of students, tenants, orders, requests and workers.

Line numbers refer to the files under `src/`. `PROJECT.json` maps every definition
to the lines it models.

## 1. Inventory of the system

The back end is a set of NestJS services behind one HTTP gateway. Services talk
gRPC, share one MongoDB server (one database per tenant, chosen by an *instance
key*) and one Redis (settings cache, Bull queues, socket fan-out). Each service is
a single Node.js process: handlers run concurrently and interleave at every
`await`. MongoDB makes one operation on one document atomic. No handler uses a
transaction, so the unit of interleaving is the database operation.

| Component | State | Operations | Talks to | Hard behaviour | Correct when |
|---|---|---|---|---|---|
| **Attempt lifecycle** `apps/attempt/src/attempt.service.ts` | attempt, attemptdetail, counters of practiceset | start, finish, updateAbandonStatus, partialSubmitAttempt, questionSubmit, saveCamCapture/ScreenRecording/QrUpload | assessment, grading, queue | check-then-act over awaits, whole-document writes, failures between writes | graded attempts stay graded, limits hold, an answered hand-in is complete |
| **Grading** `libs/common/src/components/AttemptProcessor.ts` | attempt, attemptdetail, archive, user levels | process, handleNewAttempt, markEvaluationPending | called by finish and the worker | several writes of one document, un-awaited work | marks are those of the answers handed in by the owner |
| **Submission queue** `submitToQueue`, `resetItemInQueue`, Bull, `AttemptQueueProcessor.ts` | attemptsubmission, Redis jobs | upsert, add, claim, store, record error | grading | duplicated and stalled jobs, retries, crashes, newer hand-ins during grading | a claimed hand-in is graded at most once, an accepted one is never without a job or a worker |
| **Tenant context** `database/tenant-context.ts`, `abstract.repository.ts` | instance key per request, static default key of each process | set, get, every repository call | every service | key of one job used by another's continuation | a call touches only its own tenant's database; what Redis holds for a tenant is that tenant's |
| **Settings cache** `services/redisCaching.service.ts`, `setting.service.ts` | setting, Redis key with 24 h expiry | read-through, update, delete | every service | stale fill after invalidation | readers see an update eventually |
| **Assessment** `apps/assessment` | practiceset, sections, questions' order | create, update, publish, resetIpRestriction, sessions | attempt, question bank | editing while attempts run | a published test is consistent |
| **Payment** `apps/ecommerce/src/payment` | payment, paymentdetail, coupon, userenrollment | order, result, cancel, enrol | assessment, course | repeated results, count-then-update, all items at once, items that go on after their call failed | who is enrolled in an item for sale has a successful order of it, whose order succeeded is enrolled, once; the coupon goes off at its limit |
| **Auth, sessions** `apps/auth` | user, userlog, tokens | login, logout, reset password, user management | gateway | parallel logins | tokens of closed sessions are refused |
| **Evaluation** `apps/question-bank/src/evaluation` | evaluation, flags of attemptdetails, attempt.isEvaluated | assign, remove, start, mark | attempt, notification | evaluators in parallel, several documents per call | every pending question has one evaluator, evaluated means that nothing is pending |
| **Question bank** `apps/question-bank` | question, test series, certificates | record keeping, adaptive and learning tests | attempt, course | further writers of attempts and courses | - |
| **Course progress** `apps/course/src/course.service.ts`, `learningTest.service.ts` | usercourse | getUserCourse, startContent, completeContent, updateUserCourse, verifyCourseUserProgress | question bank, certificates | no unique index, find-copy-push, write-back of a whole record | progress stays on record, certificates are earned |
| **Coins** `users.service.ts`, `supercoins.service.ts` | usersupercoins | award, redeem, deduct, decide | - | balance of the caller summed up before a write for whoever is named | nothing is spent that was not earned |
| **Classroom, administration** | rosters, chats, master data | record keeping, reports | all | single-document updates | - |
| **Gateway, web client** | none | routes, guards, pages | all | - | - |
| **Notify, video streaming** | outgoing messages, sockets | send | external services | I/O only | - |
| **Deployment** `deploy/`, `scripts/` | containers | deploy, reset, back up | all | restarts at any time | - |

The hazards that the code is exposed to are listed one by one, at the line where
each bites, in `PROJECT.json` under `hazards`.

## 2. Modules

| Module | Role |
|---|---|
| `HandInLedger` | abstract specification: what the attempt service promises about owners, marks and closing |
| `AttemptLifecycle` | attempts of one practice set: every database operation of the handlers is a step; refines `HandInLedger` for clients that wait |
| `GradeOnce` | abstract specification: what the queue promises about marks |
| `SubmissionQueue` | submissions, jobs and workers; refines `GradeOnce` |
| `TenantContext` | which database an operation reaches |
| `SettingsCache` | the settings, their copy in Redis and the referral coupons |
| `Payment` | orders, their results, coupon and enrolment |
| `Evaluation` | manual marking: assigning, removing, starting, marking, putting back |
| `Grading` | the marking loop: counters, totals, order and subjects of one hand-in |
| `CourseProgress` | the usercourse records of one student and the certificate |
| `Coins` | the coins of one student |
| `MCAttemptLifecycle`, `MCSubmissionQueue`, `MCTenantContext` | instances for TLC |
| `MCServices` | instances of `Payment` and `Evaluation` |
| `MCRecords` | instances of `SettingsCache`, `CourseProgress`, `Coins`, `Grading` |
| `..._proofs` of `AttemptLifecycle`, `SubmissionQueue`, `TenantContext`, `SettingsCache`, `Payment`, `Evaluation`, `CourseProgress` | theorems and their proofs |
| `Sums_proofs` | lemmas about finite sums; theorems of `Coins` and `Grading`, which both add up |

### AttemptLifecycle and HandInLedger

*State.* `doc`, `detail` are the collections; `joined` and `tallied` are
`totalJoinedStudent` and `totalAttempt` of the practice set; `open` abstracts
status, `opensOn` and `expiresOn`; `overdue` holds the attempts whose time limit
plus `LATE_GRACE_MS` has passed. Of a request, `req[c]` is what it asked for,
`pc[c]` its next database operation, `seen[c]` the document and `n[c]` the count it
read last and still uses.

*Abstraction.* Answers are named by the call that carried them, so `score = c` reads
"the marks on record were computed from the answers handed in by call `c`". A field
is in the model when a handler branches on it. `over` (time on record above the
limit), `late` (`submittedLate`), `total` (`totalQuestions > 0`), `linked`
(`attemptdetails` set) and `started` (created by `start`) stand for values.

| Code | Steps |
|---|---|
| `start` 6786-6916 | `StartCheck`, `StartLimit`, `StartLookup`, `StartJoin`, `CreateAttempt`, `CreateDetail`, `LinkDetail` |
| `finish` 7836-7882 | `FinishLoad`, then `process`, `updateAbandonStatus` unless abandoned, `applyTimeLimit` |
| `AttemptProcessor.process` | `GradeWrite` (1025), `GradeDetail` (1037), `GradeBack` (1055), `MarkPending` (386), `Tally`, `TallyWrite` (1144) |
| `updateAbandonStatus` 7421-7488 | `MarkDone`, `MarkDetail`, `MarkCount`, `MarkTotal` |
| `applyTimeLimit` 7887-7899 | `ClockRead`, `ClockWrite` |
| `partialSubmitAttempt` 6986, `questionSubmit` 7154 | `SaveRead`, then `SaveAnswers`, or `CreateAttempt` and on |
| `saveCamCapture`, `saveScreenRecording`, `saveQrUpload` 7264-7375 | `CaptureRead`, `CaptureWrite` (whole document; fields without schema default survive) |
| `resetIpRestriction` (assessment 1815) | `ResetIp` |
| a refused operation, a restart | `Fail`, at any step of any call |

The document writes are modelled by what Mongoose sends: `CaptureWrite` and
`GradeBack` overwrite every field that the document held when it was read, so a
concurrent change in between is undone. `MarkPending` ends in an error because
`attempt.attemptDetails` (423) is not the field's name. Not in the model: the
un-awaited `updateUserLevel`, the archive of optional questions, e-mails, user
logs, S3 face comparison (after the write, cannot change the attempt).

`HandInLedger` has four variables: the owner of each attempt, the hand-in that each
call has asked for, the call whose answers an attempt is marked by, and the attempts
that are graded. Marks and grading are entered in one step, for a call whose user owns
the attempt that it asked to hand in, and no entry is ever changed. Under the mapping
in `Ledger` an attempt is graded if its document is closed and has marks.

### SubmissionQueue and GradeOnce

One submission per attempt (upsert by `attemptId`), one job per call. `attemptId` has
no unique index: two first upserts of one attempt that overlap inside MongoDB could
insert two documents. `SubmitUpsert` leaves that out, so what is shown of the queue is
shown of attempts with one submission. A worker is a
process of the service; Bull runs one job of this queue at a time in each. No module
of the repository provides `AttemptQueueProcessor`: the workers are those that the
class describes, and nothing is claimed about when, or whether, a job is taken.

| Code | Steps |
|---|---|
| `submitToQueue` 7068-7115 | `SubmitClose`, `SubmitUpsert`, `SubmitAdd` |
| `resetItemInQueue` 7117-7152, for one id | `ResetFind`, `ResetDraft`, `SubmitAdd` of a job without a name |
| `questionSubmit` 7163-7168 | `QuestionUpsert` |
| `AttemptQueueProcessor` 13-57 | `Claim` or `NothingToClaim`, `Grade`, `Store`; `OperationFails`, then `StoreError` |
| Bull (external) | `Take`, `DropUnnamed`, `Complete`, `HandlerThrows` (retry up to `attempts: 2`), `Stall`, `Redeliver` (`maxStalledCount` 1) |
| restart of the service | `Crash` of a worker, `CallFails` of a request |

`submitToQueue` ends with a user log update and an e-mail after the job was added; a
failure there only changes the reply, so the model replies ok once the job is added.
The grading is one step because `AttemptLifecycle` takes it apart; a failure inside it
is `OperationFails` at `grade`. A job whose lock has run out goes on in its old worker while a second worker takes it (`Stall`), which is
what Bull does; `locked` says whose completion Bull still accepts.

`GradeOnce` has three variables: drafts, the workers that hold a claim on an
attempt, and whose answers the marks come from. Marks change only when a claim ends,
each claim ends once, and only drafts are claimed. `SubmissionQueue` implements it
under the mapping in `Promise`: drafts are the submissions with status `draft`,
claims are the workers about to run `process`, marks are the attempts' scores.

### TenantContext

A task is a gRPC call, a job of the queue worker, a socket handler, or the level
update that grading starts and does not await. Calls, jobs and level updates run in
the process of a service, socket handlers in that of the gateway; each process has a
static default key of its own, and both fill and read the same `cached` settings in
Redis. The `path` of a task lists the awaited
operations and, for each, whether the task sets the key right before it (`own`) or
uses the one in force (`left`). `touched` records the databases it has reached,
`beside` the tenants whose tasks set the static key of its process while it ran; both
only serve the properties.

| Code | Definitions |
|---|---|
| `defaultInstancekey`, the getter and setter (abstract.repository 12-27) | `default`, `KeyInForce`, `SetKey` |
| `TenantAwareServerGrpc` (tenant-context 52-75) | `Serve`: a store per call that its continuations share |
| `AttemptProcessor.process` and `updateUserLevel` | `GradingPath`, `LevelPath`, `StartsLevel`, `StartLevel` |
| `AttemptQueueProcessor` | `TakeJob`, `JobPath`, `JobFails` |
| the static field is one per process | `Processes`, `ProcessOf` |
| socket.gateway 273-459, 914-954 | `SocketEvent`, `DisconnectPath`, `InvitePath`, `MessagePath` |
| `getSettingAsync` (redisCaching 176-199) | `CachedSettings`, `ReadSettings`, `StoreSettings`: keys are looked up twice |
| `SettingService.update` (289-324) | `UpdatePath` |

### SettingsCache

`setting.rev` counts writes, `cached` is the revision that Redis holds, `percent`
that of the referral coupons. `upsets` records what the handlers do not make up for:
a write that does not delete the copy, a copy stored late, a failed operation, two
updates at once.

| Code | Steps |
|---|---|
| `getSetting`, `getSettingAsync` 176-218 | `AskCache`, `ReadDocument`, `Fill`, `ReaderFails` |
| `setex` (24 hours) | `Expire` |
| `update` 289-324, `del` 277-293 | `ReadOld`, `Write`, then side by side `Look`, `Delete` or `DeleteFails` (not awaited) and `PassOn`; `UpdateFails` |
| `updateSetting` 245-287 and two more writers | `WriteWithoutDelete` |

### Payment

One student, several orders, a coupon. `payment`, `detail`, `enrolled`, `tally`
(`totalEnrollUsers` of test series), `couponOn` and `referral` are the stored data,
`gone` the courses deleted; `handler[h]` is a gRPC call with what it has read.
`item[i]` is the place of the promise of item `i`: all items of an order are handled
at once. When one of them fails, `Promise.all` answers the call with an error and the
others go on, which is a handler that has `left`: the client may call again beside it
(`overrun`).

A result is what a client delivers to `finishCCA`, `paymentResult` or
`paymentFinish`. None of them asks whether the provider gave that result to this
order, so any order may get any result, and an order may be a success from the start
(`totalPayment` 0, through a coupon, the price or a discount that the client sent).

| Code | Steps |
|---|---|
| `setItemPayment` 193-250 | `PlaceOrder`, `CheckEnrolled` (only in the active location, so it may find nothing) |
| `handleCCAInit` 102-191, `createPayment` 1575-1740 | `StoreOrder`, `StoreDetail` for each item, `DetailsStored` |
| `finishCCA` 1406-1449, `paymentResult` 1746-1796, `paymentFinish` 1798-1825 | `Result`, `StoreResult` |
| `cancelCCA` 1451-1469 | `CancelOrder` |
| `deleteCourse` (course.service 470) | `DeleteItem`; test series and practices are only made inactive |
| `updateCoupon` 385-412 | `CountCoupon` (`LimitReached` passes over referral coupons), `SwitchOff` |
| `updateAllPaymentDetails` 582-630 | `ListDetails`, `MarkDetail` |
| `createUserEnrollment` 702-893 | `LookUpItem` (a deleted item is passed over), `FindEnrolment`, `CreateEnrolment`, `CountEnrolment` |
| `enrollItems` 1471-1573 | `EnrollItems` |
| a refused operation | `ItemFails` for an item, `HandlerFails` for the rest of the call |
| a restart | `ServiceStops` |

Left out: prices, a result with status `pending`, services and their expiry,
`saveAsItem` and `updateItemLocation` (copies and locations of items), e-mails,
referral rewards, a change of `accessMode` and the editing of a coupon while orders
run.

### Evaluation

`pendingQA` and `assignedQA` are the questions whose entry has status 4 and flag
`evaluatorAssigned`, `evals` the evaluation documents, `desk[d]` a call. The status is
stored as the client sends it: `MarkStore` marks a question, or puts a marked one back
among the pending. `marked` is history, the questions once stored with another status.

| Code | Steps |
|---|---|
| `assignEvaluators` 1731-1802 | `AssignFind`, then per question `AssignCreate`, `AssignFlag` |
| `removeEvaluators` 1812-1894 | `RemoveFind`, `RemoveList`, `RemoveDeactivate`, then per question `RemoveUnflag` or `RemoveHandOn` |
| `startTestEvaluation` 944-1036 | `StartFind`, `StartMatch`, `StartInsert`, `StartFlag` (flags one question per attempt) |
| `questionEvaluation` 1375-1715 | `MarkStore`, `MarkCount`, `MarkResult`, `MarkClose`, `MarkTell` |
| a refused operation | `DeskFails` |

### Grading

An answer is the number of its parts that are right and wrong. `mark` are the two
variables that the loop keeps from question to question, `total` the counters. A
filtered list is written as the set of its places, which keeps the answers in order
and can be reasoned about. The code tests the conditions of a mark and of a status
one after the other, so the operators are chains of `IF` in its order. The client's
list may be any: with gaps, with unknown ids, or with a question twice. Only its length
is compared with that of the answers, so a list with a repeat may store one answer
twice and lose another; `ListedOnce` is what a property says when it depends on that.

| Code | Definitions |
|---|---|
| which questions are graded 1261-1299 | `Graded`, `GradingInit` |
| right or wrong, per kind of question and form of answer 1317-1477 | `WrongObject`, `WrongPlain`, `StatusOf` |
| marks 1487-1580, `codingPartialMark` | `PlusMarks`, `MinusMark`, `CodeMarks`, `ActualMark`, `ActualMarkOfQuestion` |
| one turn of the loop | `GradeQuestion`: `GradeMissed`, `GradeDescriptive`, `GradeIncorrect`, `GradeCorrect` |
| the order of the answers 1595-1625 | `EntryOf`, `NewOrder`, `Reordered` |
| subjects 797-1025, totals 1121-1130 | `SubjectOf`, `StoreAttempt`, `Corrects`, `Maximum` |

### CourseProgress

`records` are the usercourse documents of one student and course, oldest first,
because `findOne` finds the oldest that fits. `tab[t]` is a request with the record it
holds. `did`, `started`, `stored` and `earned` are history: what the student worked
through, what was answered, stored and attested.

| Code | Steps |
|---|---|
| `getUserCourse` 1226-1320 | `GetCourse`, `CreateRecord` |
| `startContent` 2972-3062 | `ContentFind`, `CreateFirst`, `CopyRecord` (`create` stores a copy), `ListContent` |
| `completeContent` 2908-2966 | `CompleteFind`, `CompleteJudge`, `CompleteStore` |
| `updateUserCourse` (learningTest 339-422) | `LearnFinish`, `LearnJudge`, `WriteBack` |
| `verifyCourseUserProgress` 1719-1840 | `VerifyFind`, `VerifyCheck`, `Certify` |
| `editContentInSection` 2494-2560 | `EditContent` |
| a refused operation or thrown error | `CourseFails` |

### Coins

`activity` are the documents of one student; `Balance` is summed up from them as in
`redeemCoins` 2093-2127. An amount is what the client sends, negative ones included.
`RedeemCheck` and `RedeemStore`, `DeductCheck` and
`DeductStore` (2314-2393, which sums up the coins of the administrator who calls) are
two operations each. `redeemCoins` sums up the coins of its caller and stores the
request for the student whom the path names: with `other` the caller is someone else,
and nothing about this student is checked. `Award` is one operation, and so is
`UpdateStatus` (supercoins.service 198-227): it stores any verdict on any activity, and
its look-up only asks whether the activity exists, which never changes.
`strains` records what no check covers: a negative amount, another caller, overlapping
checks, a deduction, a verdict on something that is no open request.

## 3. Runs

All runs are exhaustive over the instance. Deadlock is not checked because every
instance may come to rest: requests are bounded, and nobody has to send one.

| Run | Checks | Shows |
|---|---|---|
| `attempt_waiting` | `Type`, `HandInComplete`, `AttemptLimit`, `GradedStaysGraded`, `HandsInOnce` | a student whose client waits for every answer, and any operation failing: an answered hand-in is complete and final, the limit holds, and the handlers implement the ledger |
| `attempt_overlap` | `MarksFromOwner`, `JoinedCountsStarters`, `RegradeOnlyFromStaleRead` | three overlapping requests of any kind with failures, adaptive test: marks are always the owner's, and are replaced only by a request that had not seen them |
| `attempt_manual` | `ManualMarksWithheld` | with `autoEvaluation` off, no automatic marks show once grading is at rest |
| `queue_faults` | `Type`, `ClaimsCarryAnswers`, `ProcessedWasGraded`, `UnprocessedIsInHand`, `GradesAtMostOnce` | every kind of call and every fault: status never ahead of the marks, no claim graded twice, and a submission that is not processed has a job or a worker, unless Bull gave up, a job stalled or threw, or someone reset it |
| `queue_waiting` | `NothingLeftBehind` | waiting clients, failing workers: a drained queue leaves no hand-in behind |
| `tenants` | `CallsKeepTheirTenant`, `StraysOnlyToInterleaved`, `QuietWorkersKeepTenants` | a gRPC call stays in its tenant's database; jobs and sockets leave theirs only for that of a task they overlap with, jobs only where student levels are on; another tenant's settings come into Redis only from such work |
| `services` | `EnrolledHadSuccess`, `SettledIsEnrolled`, `OneEnrolment`, `TallyIsEnrolments`, `LimitSwitchesOff` | nobody is enrolled in an item for sale without a successful order, a settled order enrols in what still exists, once if the client waits and calls nothing beside a failed call; the coupon goes off |
| | `EvaluatedIsMarked`, `MarkedIsEvaluated`, `OneEvaluator`, `FlaggedHasEvaluator` | an attempt counts as evaluated only when it has been marked, and if calls take turns exactly while nothing of it is pending; they leave every question with one evaluator |
| `records` | `StaleOnlyAfterUpset`, `CouponsFollowDiscount`, `CacheCatchesUp` | a stale copy has a cause, and goes away in the end |
| | `StartedIsListed`, `CompletionsStay`, `CertificateIsEarned` | progress is kept, and only work that was done is certified |
| | `CountsMatchStatuses`, `MarksAddUp`, `WithinMaximum`, `WholeMarkMeansExact`, `EveryQuestionCounts` | counters, totals, answers and subjects agree (but for the counters and totals when a list repeats a question), and no answer obtains more than it can |
| | `CoinsCoverRequests` | nothing is redeemed or asked for that was not earned, unless a strain has occurred |
| `attempt_limit_race` | `AttemptLimit` violated | attempts opened side by side escape the limit |
| `attempt_regrade` | `GradedStaysGraded` violated | overlapping hand-ins regrade a graded attempt |
| `attempt_manual_counts` | `HandInCounts` violated | a manually marked test never counts its hand-ins |
| `queue_time` | `TimeWithinLimit` violated | the queue does not cap the time on record |

The types of the modules in `services` and `records` are proved (section 4), not run.
The services in `MCServices` share no state, nor
do the records in `MCRecords`; a behaviour runs one of them and leaves the others
alone, so the states of a run are the sum of those of its modules, and nothing is
lost by not interleaving them.

The four violations are disagreements between a comment in the code and what the
code does. They and what else was met while modelling are in `findings` of
`PROJECT.json`, each with the line it disagrees with: for instance that completing a
quiz of a course always throws, that `startContent` stores a copy of the record it
means to extend, that marks of a manual evaluation never reach the totals, that
`createPayment` drops the coupons of an order, that a deduction of coins is judged by
the balance of the administrator and a request by that of its caller, that a failed
item of an order leaves the others running, that a list which repeats a question loses
an answer, that Redis may hold one tenant's settings as another's after two socket
handlers met, and that no module provides
`AttemptQueueProcessor` (the model has the workers that the class describes).

*Bounds of the attempt and queue runs.* Requests: three (two in `queue_faults`), two
attempts for the lifecycle and one or two for the queue, two
students, of whom the author may try out the test and the other is admitted, two workers. Three requests
are the least with which one call can undo a second one while a third runs; two
workers are the least with which one job runs twice. The theorems below have no
bounds. The limit is `AttemptAllowed = 1` where it is checked, so the second start
is the refused one. `MaxTries` and `MaxStalled` are Bull's own limits. Requests,
and requests and workers in the queue, are interchangeable, so these runs use
symmetry.

*Bounds of `tenants`.* Three tasks and two tenants: the level update of one job runs
on while a second job works and a call comes in, or two socket handlers meet and a
service finds the settings that one of them left in Redis. `MaxAlike` 2 bounds the
calls and the sockets: two of them, of two tenants, overtake each other at every await.

*Bounds of `services`.* Payment is run from two sides, to keep its states few. One side
has one order of two items, a course for sale that may be deleted and a test series
that is free, two handlers and two results or free enrolments (`MaxCalls`): a result can
be repeated, be overtaken by a cancellation or a deletion, or meet the items that a
failed call left running. The other side has two orders of the test series and a coupon
for two uses, a referral coupon or not; nothing is deleted there. Marking: two questions
of one attempt, two teachers, two desks,
three calls (`MaxVisits`), enough to assign, remove and assign again, or to mark, put
back and mark again. Orders, teachers, handlers and desks are interchangeable: nothing
chooses among them, so the run uses symmetry; `tenants` does for tasks and tenants. Sets
of services that do not run together share model values, which keeps the permutations
few.

*Bounds of `records`.* Two readers, two writers and two discounts: the least with
which a late fill meets an update and two updates overlap. Course: a plain content
and a learning test, two requests at a time, four in all (`MaxAsked`); a write-back
loses a completion only in the fourth, and a fifth adds a certificate for both
contents. Coins: three activities of two, three or minus one coins, two calls; a
behaviour is followed no further once two kinds of strain have occurred (`Followed`),
which the property excepts anyway. Grading: two
questions of all kinds, multiple choices and codes of two parts, four lists that a
client may send (none, one question, both the other way round with an unknown id
between them, one question twice), one subject or two,
and every combination of the settings.

*Clients that wait.* `OneAtATime` is the usage for which the handlers' checks are
meant: no second request on an attempt before the first was answered, no new attempt
while one is open; for the queue, no new hand-in before the last one was processed.
`attempt_waiting` and `queue_waiting` show that these promises hold under it,
`attempt_limit_race` and `attempt_regrade` that they do not without it.
`attempt_overlap` and `queue_faults` hold without it. `queue_waiting` has refused
operations and no stalls: with both, a stalled worker may record its own error over a
newer hand-in. With stalls alone `NothingLeftBehind` holds, which is a theorem. A crash
leaves status `processing` until somebody resets the submission, which
`UnprocessedIsInHand` names as an exception.

In the other modules `oneByOne`, `inTurn` and `singly` play this part: they are
chosen in the initial state, and a property that needs them says so. Likewise
`upsets`, `strains`, `refused`, `overrun` and `broken` name what a property excepts, so that what
the code does not promise is visible in the statement.

*Fairness.* Only `CacheCatchesUp` needs it: weak fairness of the expiry (Redis drops an
entry after its 24 hours) and of
a reader that has begun (the driver answers or refuses each operation). Nobody is
assumed to read or to write. A behaviour of another record has no entry and no reader
under way, so there this fairness asks for nothing. Of the queue no liveness is
claimed, because nothing in the repository runs its workers.

## 4. Proofs

TLAPS proves, for all values of the constants that satisfy the assumptions of their
module and those before the colon:

| Theorem | Statement |
|---|---|
| `AttemptLifecycle_proofs!TypeCorrect` | `Spec => []Type` |
| `AttemptLifecycle_proofs!OwnersMarks` | `Spec => []MarksFromOwner` |
| `AttemptLifecycle_proofs!RegradeFromStaleRead` | `Spec => RegradeOnlyFromStaleRead` |
| `AttemptLifecycle_proofs!StartersAreCounted` | `Spec => []JoinedCountsStarters` |
| `AttemptLifecycle_proofs!HandInsComplete` | `OneAtATime`: `Spec => []HandInComplete` |
| `AttemptLifecycle_proofs!GradedStays` | `OneAtATime`: `Spec => GradedStaysGraded` |
| `AttemptLifecycle_proofs!ManualMarksStayWithheld` | `OneAtATime`, `~Failures`: `Spec => []ManualMarksWithheld` |
| `AttemptLifecycle_proofs!LimitIsKept` | `OneAtATime`, no `resetIp` in `Kinds`, `HeldWithinLimit`: `Spec => []AttemptLimit` |
| `AttemptLifecycle_proofs!HandInsAreEnteredOnce` | `OneAtATime`: `Spec => HandsInOnce` |
| `SubmissionQueue_proofs!TypeCorrect` | `Spec => []Type` |
| `SubmissionQueue_proofs!StatusFollowsGrading` | `Spec => []ProcessedWasGraded` |
| `SubmissionQueue_proofs!ClaimsHaveAnswers` | `Spec => []ClaimsCarryAnswers` |
| `SubmissionQueue_proofs!QueueGradesAtMostOnce` | `Spec => GradesAtMostOnce` |
| `SubmissionQueue_proofs!NothingIsLeftBehind` | `OneAtATime`, no fault but refused operations of workers, no `reset` in `Kinds`: `Spec => []NothingLeftBehind` |
| `SubmissionQueue_proofs!NothingIsLeftBehindByStalls` | `OneAtATime`, no fault but stalled jobs, no `reset` in `Kinds`: `Spec => []NothingLeftBehind` |
| `SubmissionQueue_proofs!UnprocessedStaysInHand` | `Spec => []UnprocessedIsInHand` |
| `TenantContext_proofs!TenantTypeCorrect` | `TenantSpec => []TenantType` |
| `TenantContext_proofs!CallsStay` | `TenantSpec => []CallsKeepTheirTenant` |
| `TenantContext_proofs!StraysHaveACause` | `TenantSpec => []StraysOnlyToInterleaved` |
| `TenantContext_proofs!QuietWorkersStay` | `TenantSpec => []QuietWorkersKeepTenants` |
| `SettingsCache_proofs!SettingsTypeCorrect` | `SettingsSpec => []SettingsType` |
| `SettingsCache_proofs!CopyIsCurrent` | `SettingsSpec => []StaleOnlyAfterUpset` |
| `SettingsCache_proofs!CouponsCarryDiscount` | `SettingsSpec => []CouponsFollowDiscount` |
| `Payment_proofs!PaymentTypeCorrect` | `PaymentSpec => []PaymentType` |
| `Payment_proofs!EnrolledHasSuccess` | `PaymentSpec => []EnrolledHadSuccess` |
| `Payment_proofs!SettledHasEnrolled` | `PaymentSpec => []SettledIsEnrolled` |
| `Payment_proofs!OneEnrolmentEach` | `PaymentSpec => []OneEnrolment` |
| `Payment_proofs!TallyIsExact` | `PaymentSpec => []TallyIsEnrolments` |
| `Payment_proofs!LimitSwitchesCouponOff` | `PaymentSpec => []LimitSwitchesOff` |
| `Evaluation_proofs!EvaluationTypeCorrect` | `EvaluationSpec => []EvaluationType` |
| `Evaluation_proofs!EvaluatedIsMarkedAlways` | `EvaluationSpec => []EvaluatedIsMarked` |
| `Evaluation_proofs!MarkedIsEvaluatedInTurn` | `EvaluationSpec => []MarkedIsEvaluated` |
| `Evaluation_proofs!OneEvaluatorInTurn` | `EvaluationSpec => []OneEvaluator` |
| `Evaluation_proofs!FlaggedHasEvaluatorInTurn` | `EvaluationSpec => []FlaggedHasEvaluator` |
| `CourseProgress_proofs!CourseTypeCorrect` | `CourseSpec => []CourseType` |
| `CourseProgress_proofs!StartsStayListed` | `CourseSpec => []StartedIsListed` |
| `CourseProgress_proofs!CompletionsAreKept` | `CourseSpec => []CompletionsStay` |
| `CourseProgress_proofs!CertificatesAreEarned` | `CourseSpec => []CertificateIsEarned` |
| `Sums_proofs!RequestsAreCovered` | `CoinsSpec => []CoinsCoverRequests` |
| `Sums_proofs!CoinsTypeCorrect` | `CoinsSpec => []CoinsType` |
| `Sums_proofs!GradingTypeCorrect` | `GradingSpec => []GradingType` |
| `Sums_proofs!CountsAgree` | `GradingSpec => []CountsMatchStatuses` |
| `Sums_proofs!MarksAgree` | `GradingSpec => []MarksAddUp` |
| `Sums_proofs!StaysWithinMaximum` | `GradingSpec => []WithinMaximum` |
| `Sums_proofs!WholeMarkIsExact` | `GradingSpec => []WholeMarkMeansExact` |
| `Sums_proofs!EveryQuestionIsStored` | `GradingSpec => []EveryQuestionCounts` |

*Assumptions.* Each module names its own (`ConstantsAssumption`, `NoneAssumption`,
`KeysAssumption`, `SettingsAssumption`, `PaymentAssumption`, `EvaluationAssumption`,
`GradingAssumption`, `CourseAssumption`, `CoinsAssumption`): constants have their
types, sets that are counted are finite, and a value for "none" differs from
everything it stands in for. TLC evaluates them in each run. Seven theorems need more
and say so in their `ASSUME`:

- `OneAtATime` is a client that waits for an answer before it calls again (see section
  3). Nothing in the service makes it wait; `attempt_limit_race` and `attempt_regrade`
  show what is lost without it.
- `ManualMarksStayWithheld` excludes failures: a write may be refused, or the service
  stop, after `GradeWrite` has stored the marks and before `MarkPending` withholds them.
- `LimitIsKept` excludes `resetIpRestriction`: it closes an attempt that has no marks,
  so another one may be started, and the closed one can still be handed in. TLC finds
  this with four calls, one more than in `attempt_waiting`: reset, start, and two hand-ins.
  `HeldWithinLimit` says that nobody begins with more attempts than the limit allows,
  as would be the case after a teacher lowered it.
- `NothingIsLeftBehind` excludes what `queue_waiting` leaves out, for the same reasons;
  `NothingIsLeftBehindByStalls` excludes the refused operations instead. Both leave out
  resets: the job of a reset has no name and is never run, so its draft stays behind.
- `HandInsAreEnteredOnce` needs no more than `OneAtATime`; operations may fail.

*Marks from the owner.* `MarksFromOwner` alone is not inductive: a handler that
writes a document back writes what it read earlier. `OwnerInv` adds that every held
copy (`seen`) also carries marks of its owner on its own attempt and has the stored
document's owner (`HeldFromOwner`), that a call about to grade is a finish call of
the owner, and which steps hold an attempt at all (`Control`). The invariant is
preserved because no step changes an existing document's owner.

*Marks replaced.* `VersionsInv` says of every version of an attempt, stored or held by
a request, that marks come with its closing, and of a request about to grade or to
write back what it has read and computed. Then only a grading and a write-back can
change marks, and either had read the attempt without the marks on record.

*Joined students.* `JoinedCountsStarters` is not inductive, because `StartJoin` counts
before `CreateAttempt` stores. `JoinedInv` counts the students whose attempts all came
through `start` together with those whose first attempt is about to be created.

*Waiting clients.* `WaitInv` has what waiting achieves: one request at a time works on
an attempt (`AloneInv`), a document counts as graded exactly if it has marks
(`MarkedInv`), what a request has read is what is stored, but for fields it may
overwrite (`CurrentInv`), and a hand-in has left behind what its place says
(`FinishInv`). From it follow `HandInComplete` and `GradedStaysGraded`. `ManualInv`
adds that marks of a manual test are withheld or their request is on its way to do so.
For the ledger, a step that
writes an attempt either leaves its entry as it is (`EntriesStay`: what is written back
is what was read, and nothing else has changed it) or is `GradeWrite`, which marks and
closes at once (`GradeWriteHandsIn`); `GradedIsMarked` makes the two ways of saying
graded the same. `LimitInv` counts in `Used` the attempts of a student that are open or handed in or may
still become so; a start that has passed `StartLimit` is the only one of its student
and has one place left.

*The queue.* `ProcessedWasGraded` needs to know that a worker about to store a result
has written marks (`WorkerInv`), that it runs a job of a hand-in (`JobInv`,
`CallInv`), that the hand-in is still there (`NothingTaken`), and that marks never
disappear (`ScoreStays`). `WorkerInv` also carries the lock argument (`LockStep`): a
waiting job is held by nobody, so a worker that takes it holds it alone, which bounds
the tries. For waiting clients `RoundInv` adds that one hand-in of an attempt is on its
way: its call, its job and the worker that runs it carry the answers on record
(`RequestInv`, `RunInv`), and a record that is not processed yet has such a job
(`RecordInv`).

*In hand.* `UnprocessedIsInHand` is about all clients and all faults. `HandsInv` adds
where a submission comes from (`StoredByCall`: the answers on record are those of a call
that adds its job before it replies, and the job fails only when Bull gives it up), that
a running job has a worker with its lock (`LockedJobs`), and that a draft nobody reset
was not claimed by its own job (`Unclaimed`). So a job that has ended has left no draft.

*Stalls.* With stalled jobs several workers run the job of one hand-in, so `RoundInv` is
false. `StallInv` says instead that no error is ever stored, that at most one worker
grades an attempt, because only one claimed the draft, and that it carries the answers
on record (`StallRun`). A draft has a waiting job or a worker about to claim it, with or
without the lock, a claimed record has a worker that grades it, and a processed one has
marks of its answers (`StallRecord`).

*Refinement of `GradeOnce`.* Initial states map to initial states. Each step of a request is
`HandIn` or a stutter (`HandlerKeepsPromise`); each step of a worker is `Claim`,
`Grade`, `Lose`, `Refuse` (a result stored over a newer draft) or a stutter
(`WorkKeepsPromise`); both use the invariant.

*Tenants.* `TenantInv` adds to the two properties that a task shares the store of a
call only with that call's tenant (`ContextInv`), that a task whose next operation
does not set the key will find its own there, or outside a call one that was set
beside it in its process (`KeyInv`), and that settings about to be cached were read
with such a key (`CopyInv`). It is kept because every path of a task outside a call
begins with `own`. `QuietInv` is the case without student levels: then no job leaves a
task running that sets the key beside the next one, calls have a store each, and Bull
runs one job at a time, so a job finds the default of its process as it left it
(`OneJobInv`); only socket handlers, whose process is another one, still overtake each
other.

*Settings.* `SettingsInv` adds that readers hold no newer revision than the document
(`ReaderInv`), that a stale copy is one that an update is about to delete (`CopyInv`),
that without overlap one update at a time has read the discount as it is
(`DiscountInv`), and a count of the writers that have not written, which bounds the
revision.

*Payment.* `HandlerInv` says what a handler knows (`Knows`): a success it carries was
stored, the items it works on are those of its order or not for sale, and while it
handles them without error each one is enrolled already, deleted, or still in its
hands. That no item is enrolled without a success is kept also for handlers that were
answered with an error and go on. `AloneInv` says that an order that is not
stored yet has one handler, `OrderInv` that there are details only of its items.
The counts need more: `OneInv` that, if the client waits and has called nothing beside
items of a failed call, one handler works at a time, and when it is about to enrol
there is no enrolment; `TallyInv` that enrolments in a test series are those counted
and those in the hands of a handler; `LimitInv` that, while a coupon that is no
referral is on, the orders that have passed `CountCoupon` are fewer than its uses,
because the handler that reaches the limit cannot go on without switching it off.

*Evaluation.* A mark may be put back, so a count of pending answers is out of date as
soon as it is made. What stays is that an answer which was never marked is pending
(`OthersPending`): a call that has counted none (`Sound`) knows that each answer of the
attempt has been marked, and that is never undone (`AnyOrderInv`). In turn (`InTurnInv`)
each state of the one call that runs says what it has read and which
evaluations it is about to create, flag, hand on or take away (`Knows`, `Turn`); but for
these, a question has one chosen evaluator only if it is flagged, and a flagged one has
one or had one who was done with it. An attempt is evaluated exactly while
nothing of it is pending, or the call that runs is on its way to see to that
(`SeenTo`). When the call ends nothing is left of the exceptions, which is what the
properties state.

*Sums.* `SumFunctionOnSet` folds over a set, and the fold is a choice of a function on
the subsets of the set that satisfies its recursion. `SumExists` shows that there is
one, by induction over the subsets of a finite set. The induction is stated for the set
`Good` of subsets rather than for a predicate, since no installed prover instantiates
an operator (`SetInduction`, from the well-foundedness of strict inclusion). From it follow
that an element may be taken out of or put into a sum (`SumRemove`, `SumAdd`), that the
order does not matter (`SumMoved`), that a cardinality is a sum of ones (`SumOfOnes`)
and that a sum is the sum of those of its groups (`SumByGroup`).

*Coins.* `RecordsInv` has the types, and that an activity has one of the amounts that
were sent. `CoveredInv` says that, as long as nothing strains the balance, no amount is
negative, one request at a time is between its check and its write, and the balance
covers it.

*Grading.* `GradingInv` has what the loop knows after each turn: each answer has the
status and marks of its kind (`LoopInv`), there are as many answers as questions that no
longer wait, one to each (`AskedInv`), the counters are sums over the answers
(`SumsInv` in `CountInv`). Storing takes answers that were marked, in the order of the
client's list (`ReorderedTakes`). If the list names each question once, that is a
permutation (`ListedOnce`), so `AskedInv` and `SumsInv` go on to hold; otherwise only the
number of answers does, and they are given up (`AsMarked`). The subjects are computed
from the stored answers either way, by group (`SubjectInv`).

*Course.* A write of a record that was read earlier is the danger here. `HandsInv`
says of every request that the completions it holds are of work that was done, that
without a withdrawal none is about to write a record back, and that, if the student
waits, what it holds is what is stored, so that the write-back changes nothing and the
entry is pushed into the first record. `RecordsInv` adds the same of the stored
records, and that the first one lists no content twice.

*What the proofs changed.* Each inductive invariant was checked with TLC, too, on the
instances of section 3; where one did not hold, or a proof went beyond the instances, the statement or
the model had to be made exact:

- `RegradeOnlyFromStaleRead` now speaks of attempts that have marks. A capture that read
  an open attempt drops the marks stored since when it writes it back, and
  `resetIpRestriction` closes that attempt again: it then counts as graded and has no
  marks that a new hand-in could replace.
- `LimitSwitchesOff` speaks of orders that were settled: the schema allows a coupon with
  `usageLimit` 0, which is on until its first order.
- `MarkedIsEvaluated` speaks of attempts that have questions to mark.
- `FlaggedHasEvaluator` excepts an answer that its evaluator was done with and that was
  put back among the pending: taking that evaluator away switches the evaluation off and
  hands nothing on.
- In `Grading`, alternatives of a `CASE` that overlap are an arbitrary choice, which TLC
  resolves by order and a prover does not; they are `IF` chains now.

*Only model-checked.* `CacheCatchesUp` is a liveness property
under fairness, outside the prover's reach. Every other invariant and action property
of a passing run is proved, the ones above under the assumptions they name.

## 5. Plan

Done: attempts and the queue, tenant keys, settings, payment, grading, manual marking,
course progress, coins, and proofs of their safety properties. Left, in this order:

1. Proofs for clients that do not wait: the part of `HandInComplete` that overlapping
   calls leave intact, and `NothingLeftBehind` for the last of several hand-ins.
2. Publishing, editing and revoking of practice sets (assessment.service 541-1247)
   against running attempts.
3. Adaptive, psychometric and learning tests as writers of attempts (attempt.service
   6918-6984, adaptiveTest, learningTest), and a module that composes
   `AttemptLifecycle` and the queue over one attempt.
4. Classroom: rosters and chat; sessions of users.

## 6. Not modelled

Reports, searches and analytics (read-only aggregations); master data; classroom
rosters and chats, articles, discussions, devices (one document per call, no
interaction); authentication, sessions and guards; notification, storage, video
streaming (output only); the web client, which is the environment of the models;
deployment scripts, which appear as crashes and failed calls. Of modelled parts: how a
text or a program's output is compared with the right one (right or wrong in
`Grading`), speed, accuracy and level of students; of payments what section 2 lists
(prices, copies and locations of items, services with an expiry date, referral rewards,
results with status `pending`); a second submission document of one attempt; authoring
and reports of courses. Database failures are refusals: an operation that fails has no effect, and
one whose reply is lost is a failure at the next step.
