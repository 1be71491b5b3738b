-------------------------- MODULE AttemptLifecycle --------------------------
(***************************************************************************)
(* The life of the attempts at one practice set: start, finish (with the   *)
(* grading of AttemptProcessor.process), updateAbandonStatus, the answer   *)
(* saves and the proctoring uploads of apps/attempt, over the attempt,     *)
(* attemptdetail and practiceset collections of one tenant.                *)
(*                                                                         *)
(* A call is one gRPC request. MongoDB applies one operation on one        *)
(* document atomically, and a handler may be overtaken at every await, so  *)
(* each database operation of a handler is one step: the program counter   *)
(* pc[c] names the next one.  Answers are abstracted to the call that      *)
(* carried them: score = c says that the marks on record were computed     *)
(* from the answers handed in by call c.  The test has questions and all   *)
(* of them can be marked automatically, so a graded attempt has            *)
(* totalQuestions > 0 (the Boolean field total) and no pending marks.      *)
(***************************************************************************)
EXTENDS Naturals, FiniteSets

CONSTANTS
  Users,           \* accounts that call the attempt service
  Author,          \* the user who wrote the test (test.user)
  Admitted,        \* users that accessMode and inviteeEmails let in
  Attempts,        \* identifiers of attempt documents
  Calls,           \* identifiers of requests, each made once
  Held,            \* attempts already started when the model begins, with owner
  AttemptAllowed,  \* practiceset.attemptAllowed, 0 for no limit
  ShowFeedback,    \* practiceset.showFeedback
  AutoEvaluation,  \* practiceset.autoEvaluation
  Adaptive,        \* practiceset.isAdaptive
  Timed,           \* practiceset.totalTime > 0
  Kinds,           \* the endpoints that the environment calls
  OneAtATime,      \* clients wait for an answer, see ClientWaits
  Failures,        \* database operations may be refused and the service may stop
  None             \* no document, no call, no user

AllKinds == {"start", "finish", "mark", "save", "capture", "resetIp"}

ASSUME ConstantsAssumption ==
  /\ Author \in Users
  /\ Admitted \subseteq Users
  /\ IsFiniteSet(Users) /\ IsFiniteSet(Attempts)
  /\ Held \in [Attempts -> Users \union {None}]
  /\ AttemptAllowed \in Nat
  /\ {ShowFeedback, AutoEvaluation, Adaptive, Timed, OneAtATime, Failures} \subseteq BOOLEAN
  /\ Kinds \subseteq AllKinds

(* The fields of an Attempt document that the handlers branch on.  over is *)
(* totalTime > the time limit, late is submittedLate, linked says that     *)
(* attemptdetails is set, started that start (not an answer save) made it. *)
AttemptDocs ==
  [user : Users, ongoing : BOOLEAN, total : BOOLEAN, score : Calls \union {None},
   abandoned : BOOLEAN, evaluated : BOOLEAN, over : BOOLEAN, late : BOOLEAN,
   linked : BOOLEAN, started : BOOLEAN]

(* The AttemptDetail of an attempt: whose answers its QA holds.            *)
DetailDocs == [qa : Calls \union {None}, abandoned : BOOLEAN]

ASSUME NoneAssumption ==
  /\ None \notin Users /\ None \notin Calls /\ None \notin Attempts
  /\ None \notin AttemptDocs /\ None \notin DetailDocs

(* What a request asks for: quit is body.isAbandoned, long says that the   *)
(* client reports more time than the limit, staff is request.isStaff.      *)
Requests ==
  [kind : AllKinds, user : Users, att : Attempts \union {None},
   quit : BOOLEAN, long : BOOLEAN, staff : BOOLEAN, overdue : BOOLEAN]

Replies == {"ok", "error"}

Steps == {"idle", "start", "limit", "lookup", "join", "create", "detail", "link",
          "finish", "grade", "gradeDetail", "gradeBack", "pend", "tally", "tallyWrite",
          "mark", "markDetail", "markCount", "markTotal", "clock", "clockWrite",
          "save", "saveQA", "capture", "captureWrite", "resetIp"} \union Replies

VARIABLES
  doc,      \* the attempt collection
  detail,   \* the attemptdetail collection, one document per attempt
  joined,   \* practiceset.totalJoinedStudent
  tallied,  \* practiceset.totalAttempt
  open,     \* the test is published, opened and not expired
  overdue,  \* attempts whose time limit plus LATE_GRACE_MS has run out
  req,      \* what each call asked for
  pc,       \* the next database operation of each call, or its reply
  seen,     \* the attempt document a call read last
  n         \* the count a call read last

db   == <<doc, detail, joined, tallied>>
vars == <<doc, detail, joined, tallied, open, overdue, req, pc, seen, n>>

-----------------------------------------------------------------------------
(* Derived state.                                                          *)

(* Mutant of NewAttempt: the owner is left out.                            *)
NewAttemptWithoutOwner(u, byStart, hasDetail) ==
  [user |-> None, ongoing |-> TRUE, total |-> FALSE, score |-> None,
   abandoned |-> TRUE, evaluated |-> TRUE, over |-> FALSE, late |-> FALSE,
   linked |-> hasDetail, started |-> byStart]

NewAttempt(u, byStart, hasDetail) ==
  [user |-> u, ongoing |-> TRUE, total |-> FALSE, score |-> None,
   abandoned |-> TRUE, evaluated |-> TRUE, over |-> FALSE, late |-> FALSE,
   linked |-> hasDetail, started |-> byStart]

NewDetail(answers) == [qa |-> answers, abandoned |-> TRUE]

Graded(d) == d # None /\ ~d.ongoing /\ d.total

(* A hand-in as the queries of the code count it: isAbandoned is false.    *)
Counted   == {a \in Attempts : doc[a] # None /\ ~doc[a].abandoned}
(* Mutant of TakenBy: open attempts are counted instead of hand-ins.       *)
TakenByOpen(u) == {a \in Counted : doc[a].user = u /\ doc[a].ongoing}
TakenBy(u) == {a \in Counted : doc[a].user = u /\ ~doc[a].ongoing}
OwnedBy(u) == {a \in Attempts : doc[a] # None /\ doc[a].user = u}

Active(c)   == pc[c] \notin {"idle"} \union Replies
ActiveOn(a) == {c \in Calls : Active(c) /\ req[c].att = a}

Type ==
  /\ doc \in [Attempts -> AttemptDocs \union {None}]
  /\ detail \in [Attempts -> DetailDocs \union {None}]
  /\ joined \in Nat /\ tallied \in Nat
  /\ open \in BOOLEAN
  /\ overdue \subseteq Attempts
  /\ req \in [Calls -> Requests \union {None}]
  /\ pc \in [Calls -> Steps]
  /\ seen \in [Calls -> AttemptDocs \union {None}]
  /\ n \in [Calls -> Nat]

Init ==
  /\ doc = [a \in Attempts |-> IF Held[a] = None THEN None
                               ELSE NewAttempt(Held[a], TRUE, TRUE)]
  /\ detail = [a \in Attempts |-> IF Held[a] = None THEN None ELSE NewDetail(None)]
  /\ joined = Cardinality({u \in Users : \E a \in Attempts : Held[a] = u})
  /\ tallied = 0
  /\ open = TRUE
  /\ overdue = {}
  /\ req = [c \in Calls |-> None]
  /\ pc = [c \in Calls |-> "idle"]
  /\ seen = [c \in Calls |-> None]
  /\ n = [c \in Calls |-> 0]

-----------------------------------------------------------------------------
(* The environment: clients make calls, the clock runs, the test closes.   *)

(* A client that waits: no second call on an attempt before the first has  *)
(* been answered, and no new attempt while an earlier one is still open.   *)
ClientWaits(r) ==
  /\ r.att # None => ActiveOn(r.att) = {}
  /\ r.kind = "start" =>
       /\ \A a \in OwnedBy(r.user) : ~doc[a].ongoing
       /\ \A c \in Calls : Active(c) => req[c].user # r.user

Call(c) ==
  /\ pc[c] = "idle"
  /\ \E k \in Kinds, u \in Users, q, l, s \in BOOLEAN :
     \E a \in IF k \in {"start", "resetIp"} THEN {None}
              ELSE {b \in Attempts : doc[b] # None} :
       LET r == [kind |-> k, user |-> u, att |-> a, quit |-> q, long |-> l,
                 staff |-> s, overdue |-> a \in overdue]
       IN  /\ k # "finish" => ~q /\ ~l
           /\ k # "mark" => ~s
           /\ OneAtATime => ClientWaits(r)
           /\ req' = [req EXCEPT ![c] = r]
           /\ pc' = [pc EXCEPT ![c] = k]
  /\ UNCHANGED <<db, open, overdue, seen, n>>

TestCloses ==
  /\ open
  /\ open' = FALSE
  /\ UNCHANGED <<db, overdue, req, pc, seen, n>>

TimeRunsOut(a) ==
  /\ Timed
  /\ a \notin overdue /\ doc[a] # None
  /\ overdue' = overdue \union {a}
  /\ UNCHANGED <<db, open, req, pc, seen, n>>

-----------------------------------------------------------------------------
(* Control: c keeps document d and count k and goes on with the next step, *)
(* or replies, and forgets both.                                           *)
Keep(c, step, d, k) ==
  /\ pc' = [pc EXCEPT ![c] = step]
  /\ seen' = [seen EXCEPT ![c] = IF step \in Replies THEN None ELSE d]
  /\ n' = [n EXCEPT ![c] = IF step \in Replies THEN 0 ELSE k]

Goto(c, step) == Keep(c, step, seen[c], n[c])

(* An awaited operation is refused or the service stops: what was written  *)
(* stays, the rest of the handler never runs.                              *)
Fail(c) ==
  /\ Failures /\ Active(c)
  /\ Goto(c, "error")
  /\ UNCHANGED <<db, open, overdue, req>>

(* start: the test is open, unless the caller wrote it.                    *)
StartCheck(c) ==
  /\ pc[c] = "start"
  /\ Goto(c, IF req[c].user = Author THEN "lookup"
             ELSE IF ~open THEN "error"
             ELSE IF AttemptAllowed > 0 THEN "limit" ELSE "lookup")
  /\ UNCHANGED <<db, open, overdue, req>>

(* start: countDocuments of the hand-ins of this student.                  *)
StartLimit(c) ==
  /\ pc[c] = "limit"
  /\ Goto(c, IF Cardinality(TakenBy(req[c].user)) >= AttemptAllowed
             THEN "error" ELSE "lookup")
  /\ UNCHANGED <<db, open, overdue, req>>

(* Mutant of StartLookup: alreadyAttempted looks at every student.         *)
StartLookupAnyUser(c) ==
  /\ pc[c] = "lookup"
  /\ Goto(c, IF req[c].user \notin Admitted \union {Author} THEN "error"
             ELSE IF \A a \in Attempts : doc[a] = None THEN "join" ELSE "create")
  /\ UNCHANGED <<db, open, overdue, req>>

(* start: an invitation the caller does not have, then alreadyAttempted.   *)
StartLookup(c) ==
  /\ pc[c] = "lookup"
  /\ Goto(c, IF req[c].user \notin Admitted \union {Author} THEN "error"
             ELSE IF OwnedBy(req[c].user) = {} THEN "join" ELSE "create")
  /\ UNCHANGED <<db, open, overdue, req>>

(* start: $inc totalJoinedStudent.                                         *)
StartJoin(c) ==
  /\ pc[c] = "join"
  /\ joined' = joined + 1
  /\ Goto(c, "create")
  /\ UNCHANGED <<doc, detail, tallied, open, overdue, req>>

(* start, partialSubmitAttempt and questionSubmit: create the attempt.     *)
CreateAttempt(c) ==
  /\ pc[c] = "create"
  /\ \E a \in Attempts :
       /\ doc[a] = None
       /\ doc' = [doc EXCEPT ![a] = NewAttempt(req[c].user, req[c].kind = "start", FALSE)]
       /\ req' = [req EXCEPT ![c].att = a]
  /\ Goto(c, "detail")
  /\ UNCHANGED <<detail, joined, tallied, open, overdue>>

CreateDetail(c) ==
  /\ pc[c] = "detail"
  /\ detail' = [detail EXCEPT ![req[c].att] =
                  NewDetail(IF req[c].kind = "save" THEN c ELSE None)]
  /\ Goto(c, "link")
  /\ UNCHANGED <<doc, joined, tallied, open, overdue, req>>

LinkDetail(c) ==
  /\ pc[c] = "link"
  /\ doc' = [doc EXCEPT ![req[c].att].linked = TRUE]
  /\ Goto(c, "ok")
  /\ UNCHANGED <<detail, joined, tallied, open, overdue, req>>

(* Mutants of FinishLoad: a graded attempt may be handed in again; any     *)
(* student may hand in any attempt.                                        *)
FinishLoadAgain(c) ==
  LET d == doc[req[c].att] IN
  /\ pc[c] = "finish"
  /\ Keep(c, IF d.user # req[c].user THEN "error" ELSE "grade", d, 0)
  /\ UNCHANGED <<db, open, overdue, req>>

FinishLoadAnyUser(c) ==
  LET d == doc[req[c].att] IN
  /\ pc[c] = "finish"
  /\ Keep(c, IF Graded(d) THEN "error" ELSE "grade", d, 0)
  /\ UNCHANGED <<db, open, overdue, req>>

(* finish: the caller must own the attempt and it must not be graded.      *)
FinishLoad(c) ==
  LET d == doc[req[c].att] IN
  /\ pc[c] = "finish"
  /\ Keep(c, IF d.user # req[c].user \/ Graded(d) THEN "error" ELSE "grade", d, 0)
  /\ UNCHANGED <<db, open, overdue, req>>

(* process: the first write stores the marks and returns the document, on  *)
(* which an adaptive test then clears isAbandoned in memory.               *)
GradeWrite(c) ==
  LET a == req[c].att
      d == [doc[a] EXCEPT !.ongoing = FALSE, !.total = TRUE, !.score = c,
                          !.evaluated = TRUE, !.over = Timed /\ req[c].long,
                          !.abandoned = req[c].quit \/ ShowFeedback]
  IN /\ pc[c] = "grade"
     /\ doc' = [doc EXCEPT ![a] = d]
     /\ Keep(c, "gradeDetail", [d EXCEPT !.abandoned = @ /\ ~Adaptive], 0)
     /\ UNCHANGED <<detail, joined, tallied, open, overdue, req>>

(* process: upsert the AttemptDetail of the attempt.                       *)
GradeDetail(c) ==
  /\ pc[c] = "gradeDetail"
  /\ detail' = [detail EXCEPT ![req[c].att] = [qa |-> c, abandoned |-> seen[c].abandoned]]
  /\ Goto(c, "gradeBack")
  /\ UNCHANGED <<doc, joined, tallied, open, overdue, req>>

(* Mutant of AfterProcess: the hand-in is left for the client to mark.     *)
AfterProcessUnmarked(c) == IF Timed THEN "clock" ELSE "ok"

(* What is left of a hand-in when process has returned.                    *)
AfterProcess(c) == IF ~req[c].quit THEN "mark" ELSE IF Timed THEN "clock" ELSE "ok"

(* Mutant of GradeBack: a manual test is treated like any other.           *)
GradeBackUnpended(c) ==
  /\ pc[c] = "gradeBack"
  /\ doc' = [doc EXCEPT ![req[c].att] = [seen[c] EXCEPT !.linked = TRUE]]
  /\ Goto(c, IF seen[c].abandoned THEN AfterProcess(c) ELSE "tally")
  /\ UNCHANGED <<detail, joined, tallied, open, overdue, req>>

(* process: the second write puts the whole document back as it was        *)
(* returned by the first, with attemptdetails set.                         *)
GradeBack(c) ==
  /\ pc[c] = "gradeBack"
  /\ doc' = [doc EXCEPT ![req[c].att] = [seen[c] EXCEPT !.linked = TRUE]]
  /\ Goto(c, IF ~AutoEvaluation THEN "pend"
             ELSE IF seen[c].abandoned THEN AfterProcess(c) ELSE "tally")
  /\ UNCHANGED <<detail, joined, tallied, open, overdue, req>>

(* markEvaluationPending zeroes the marks, then reads attempt.attemptDetails, *)
(* a field the schema spells attemptdetails: the lookup finds no document    *)
(* and the handler throws.                                                   *)
MarkPending(c) ==
  /\ pc[c] = "pend"
  /\ doc' = [doc EXCEPT ![req[c].att].evaluated = FALSE]
  /\ Goto(c, "error")
  /\ UNCHANGED <<detail, joined, tallied, open, overdue, req>>

(* countDocuments of the test's hand-ins, then updateOne totalAttempt.     *)
CountHandIns(c, here, next) ==
  /\ pc[c] = here
  /\ Keep(c, next, None, Cardinality(Counted))
  /\ UNCHANGED <<db, open, overdue, req>>

StoreCount(c, here, next) ==
  /\ pc[c] = here
  /\ tallied' = n[c]
  /\ Goto(c, next)
  /\ UNCHANGED <<doc, detail, joined, open, overdue, req>>

Tally(c)      == CountHandIns(c, "tally", "tallyWrite")
TallyWrite(c) == StoreCount(c, "tallyWrite", AfterProcess(c))

(* updateAbandonStatus, called by finish or by a client; students change   *)
(* only their own attempts.                                                *)
MarkDone(c) ==
  LET a == req[c].att IN
  /\ pc[c] = "mark"
  /\ IF req[c].staff \/ doc[a].user = req[c].user
     THEN /\ doc' = [doc EXCEPT ![a].abandoned = FALSE]
          /\ Goto(c, "markDetail")
     ELSE /\ Goto(c, "error")
          /\ UNCHANGED doc
  /\ UNCHANGED <<detail, joined, tallied, open, overdue, req>>

MarkDetail(c) ==
  LET a == req[c].att IN
  /\ pc[c] = "markDetail"
  /\ detail' = IF detail[a] = None THEN detail
               ELSE [detail EXCEPT ![a].abandoned = FALSE]
  /\ Goto(c, "markCount")
  /\ UNCHANGED <<doc, joined, tallied, open, overdue, req>>

MarkCount(c) == CountHandIns(c, "markCount", "markTotal")
MarkTotal(c) == StoreCount(c, "markTotal",
                           IF req[c].kind = "finish" /\ Timed THEN "clock" ELSE "ok")

(* applyTimeLimit: compare the clock, read the time on record, write both. *)
ClockRead(c) ==
  LET a == req[c].att IN
  /\ pc[c] = "clock"
  /\ Keep(c, "clockWrite", [doc[a] EXCEPT !.late = a \in overdue], 0)
  /\ UNCHANGED <<db, open, overdue, req>>

ClockWrite(c) ==
  /\ pc[c] = "clockWrite"
  /\ doc' = [doc EXCEPT ![req[c].att].late = seen[c].late,
                        ![req[c].att].over = @ /\ ~seen[c].over]
  /\ Goto(c, "ok")
  /\ UNCHANGED <<detail, joined, tallied, open, overdue, req>>

-----------------------------------------------------------------------------
(* partialSubmitAttempt and questionSubmit: save into the attempt while it *)
(* is ongoing, otherwise start another one without any of start's checks.  *)
SaveRead(c) ==
  LET d == doc[req[c].att] IN
  /\ pc[c] = "save"
  /\ Keep(c, IF d.ongoing THEN "saveQA" ELSE "create", d, 0)
  /\ UNCHANGED <<db, open, overdue, req>>

SaveAnswers(c) ==
  /\ pc[c] = "saveQA"
  /\ detail' = IF ~seen[c].linked \/ detail[req[c].att] = None THEN detail
               ELSE [detail EXCEPT ![req[c].att].qa = c]
  /\ Goto(c, "ok")
  /\ UNCHANGED <<doc, joined, tallied, open, overdue, req>>

(* saveCamCapture, saveScreenRecording, saveQrUpload: read the attempt,    *)
(* push one entry, write the whole document back.                          *)
CaptureRead(c) ==
  /\ pc[c] = "capture"
  /\ Keep(c, "captureWrite", doc[req[c].att], 0)
  /\ UNCHANGED <<db, open, overdue, req>>

(* The write sets every field the read document had: all but the two that  *)
(* have no schema default, totalQuestions and attemptdetails.              *)
CaptureWrite(c) ==
  /\ pc[c] = "captureWrite"
  /\ doc' = [doc EXCEPT ![req[c].att] =
               [seen[c] EXCEPT !.total = @ \/ doc[req[c].att].total,
                               !.linked = @ \/ doc[req[c].att].linked]]
  /\ Goto(c, "ok")
  /\ UNCHANGED <<detail, joined, tallied, open, overdue, req>>

(* resetIpRestriction: close the open attempts of one student.             *)
ResetIp(c) ==
  /\ pc[c] = "resetIp"
  /\ doc' = [a \in Attempts |-> IF a \in OwnedBy(req[c].user)
                                THEN [doc[a] EXCEPT !.ongoing = FALSE] ELSE doc[a]]
  /\ Goto(c, "ok")
  /\ UNCHANGED <<detail, joined, tallied, open, overdue, req>>

-----------------------------------------------------------------------------
Start(c)   == \/ StartCheck(c) \/ StartLimit(c) \/ StartLookup(c) \/ StartJoin(c)
              \/ CreateAttempt(c) \/ CreateDetail(c) \/ LinkDetail(c)
Process(c) == \/ GradeWrite(c) \/ GradeDetail(c) \/ GradeBack(c) \/ MarkPending(c)
              \/ Tally(c) \/ TallyWrite(c)
Mark(c)    == \/ MarkDone(c) \/ MarkDetail(c) \/ MarkCount(c) \/ MarkTotal(c)
Finish(c)  == FinishLoad(c) \/ Process(c) \/ Mark(c) \/ ClockRead(c) \/ ClockWrite(c)
Upload(c)  == SaveRead(c) \/ SaveAnswers(c) \/ CaptureRead(c) \/ CaptureWrite(c)

Next ==
  \/ \E c \in Calls : Call(c) \/ Fail(c) \/ Start(c) \/ Finish(c) \/ Upload(c) \/ ResetIp(c)
  \/ TestCloses
  \/ \E a \in Attempts : TimeRunsOut(a)

Spec == Init /\ [][Next]_vars

-----------------------------------------------------------------------------
(* Safety.                                                                 *)

Answered(c, k) == pc[c] = "ok" /\ req[c].kind = k
HandedIn(c)    == Answered(c, "finish") /\ ~req[c].quit

(* "A graded attempt stays graded": no later step of any call changes the  *)
(* marks of a graded attempt or makes it resumable again (finish and its   *)
(* comment, attempt.service.ts 7854).  Action property.                    *)
GradedStaysGraded ==
  [][\A a \in Attempts : Graded(doc[a]) =>
       doc'[a].score = doc[a].score /\ ~doc'[a].ongoing]_vars

(* A hand-in that was answered is complete: the attempt carries its marks, *)
(* is closed, counts for the student, its detail document shows the same   *)
(* answers, and its time is within the limit and flagged when late.        *)
HandInComplete ==
  \A c \in Calls : HandedIn(c) =>
    LET d == doc[req[c].att]  t == detail[req[c].att] IN
    /\ d.score = c /\ Graded(d) /\ ~d.abandoned /\ d.linked
    /\ t.qa = c /\ ~t.abandoned
    /\ Timed => ~d.over /\ (req[c].overdue => d.late)

(* "A hand-in (not an abandon) counts as finished at once" (finish, 7871): *)
(* when nothing is running on a graded attempt, the hand-in counts.        *)
HandInCounts ==
  \A a \in Attempts : Graded(doc[a]) /\ ActiveOn(a) = {} =>
    req[doc[a].score].quit \/ ~doc[a].abandoned

(* A test whose author marks the answers shows no automatic marks: once    *)
(* nothing runs on a graded attempt it awaits its evaluation.              *)
ManualMarksWithheld ==
  ~AutoEvaluation =>
    \A a \in Attempts : Graded(doc[a]) /\ ActiveOn(a) = {} => ~doc[a].evaluated

(* "Only the student who started the attempt may hand it in" (finish,      *)
(* 7850): the marks on record come from a finish call of the owner on this *)
(* very attempt, also when a stale document was written back.              *)
MarksFromOwner ==
  \A a \in Attempts : doc[a] # None /\ doc[a].score # None =>
    LET r == req[doc[a].score] IN r.kind = "finish" /\ r.att = a /\ r.user = doc[a].user

(* Marks are replaced, if ever, by a call that has not seen them: whoever  *)
(* read the attempt with the marks now on record neither changes them nor  *)
(* makes the attempt resumable.  (A graded attempt has lost its marks when *)
(* a stale document was written back and resetIp closed it again; that one *)
(* has nothing to replace.)  Action property.                              *)
RegradeOnlyFromStaleRead ==
  [][\A a \in Attempts :
       /\ Graded(doc[a]) /\ doc[a].score # None
       /\ doc'[a].score # doc[a].score \/ doc'[a].ongoing
       => \E c \in ActiveOn(a) : seen[c] # None /\ seen[c].score # doc[a].score]_vars

(* No student hands in more attempts than the test allows.  Attempts that  *)
(* an answer save made are left out: start never saw them.                 *)
AttemptLimit ==
  AttemptAllowed > 0 =>
    \A u \in Users \ {Author} :
      Cardinality({c \in Calls : HandedIn(c) /\ req[c].user = u /\ doc[req[c].att].started})
        <= AttemptAllowed

(* The attempts seen as a ledger of hand-ins: owner, request and marks of   *)
(* each attempt, without the steps of the handlers.                        *)
Owners     == [a \in Attempts |-> IF doc[a] = None THEN None ELSE doc[a].user]
ScoresOf   == [a \in Attempts |-> IF doc[a] = None THEN None ELSE doc[a].score]
AskedFor   == [c \in Calls |-> IF pc[c] # "idle" /\ req[c].kind = "finish"
                               THEN [user |-> req[c].user, att |-> req[c].att] ELSE None]
GradedOnes == {a \in Attempts : Graded(doc[a])}

Ledger == INSTANCE HandInLedger WITH
  owner <- Owners, asked <- AskedFor, marks <- ScoresOf, graded <- GradedOnes

(* For clients that wait, the service implements the ledger: whatever the  *)
(* handlers write and write back, an attempt keeps its owner, its marks    *)
(* are entered by one hand-in that its owner asked for, in one step, and   *)
(* they are final (start, finish, process and their document writes).      *)
HandsInOnce == Ledger!Spec

(* Every student whose attempts all came through start is counted in       *)
(* totalJoinedStudent, however the first starts interleave.                *)
JoinedCountsStarters ==
  Cardinality({u \in Users : OwnedBy(u) # {} /\ \A a \in OwnedBy(u) : doc[a].started}) <= joined

-----------------------------------------------------------------------------
(* The inductive invariant behind MarksFromOwner, see the proofs.          *)

(* Steps of a handler that has an attempt, and those that write what they  *)
(* have read before.                                                       *)
HoldsAttempt ==
  {"detail", "link", "finish", "grade", "gradeDetail", "gradeBack", "pend", "mark",
   "markDetail", "tally", "tallyWrite", "markCount", "markTotal", "clock", "clockWrite",
   "save", "saveQA", "capture", "captureWrite"}
WritesBack == {"gradeDetail", "gradeBack", "clockWrite", "saveQA", "captureWrite"}
Creates    == {"start", "limit", "lookup", "join", "create", "detail", "link", "save"}

Control ==
  \A c \in Calls :
    /\ pc[c] # "idle" => req[c] \in Requests
    /\ pc[c] \in HoldsAttempt => req[c].att \in Attempts /\ doc[req[c].att] # None
    /\ pc[c] \in WritesBack => seen[c] # None
    /\ pc[c] \in Creates => req[c].kind # "finish"
    /\ pc[c] = "finish" => req[c].kind = "finish"

(* The marks of document d, a version of attempt a, are those of its owner. *)
FromOwner(a, d) ==
  d.score # None => /\ pc[d.score] # "idle"
                    /\ req[d.score].kind = "finish"
                    /\ req[d.score].att = a
                    /\ req[d.score].user = d.user

StoredFromOwner == \A a \in Attempts : doc[a] # None => FromOwner(a, doc[a])

HeldFromOwner ==
  \A c \in Calls :
    /\ pc[c] = "grade" => /\ req[c].kind = "finish"
                          /\ req[c].user = doc[req[c].att].user
    /\ pc[c] \in WritesBack => /\ seen[c].user = doc[req[c].att].user
                               /\ FromOwner(req[c].att, seen[c])

OwnerInv == Type /\ Control /\ StoredFromOwner /\ HeldFromOwner

=============================================================================
