--------------------------- MODULE SubmissionQueue ---------------------------
(***************************************************************************)
(* Hand-ins through the queue: submitToQueue, questionSubmit and           *)
(* resetItemInQueue of apps/attempt, the AttemptSubmission collection, the *)
(* Bull queue 'attempt-submission' and the worker AttemptQueueProcessor.   *)
(*                                                                         *)
(* There is one submission per attempt (upsert by attemptId) and one job   *)
(* per call, so attempts and calls name submissions and jobs.  This is an  *)
(* abstraction: attemptId has no unique index, so two first upserts of one *)
(* attempt that overlap inside MongoDB could each insert a document, and   *)
(* every later query then finds the older one.  A worker is one process    *)
(* that runs the class AttemptQueueProcessor, one job at a time; no module *)
(* of the repository provides that class, so nothing is said about when,   *)
(* or whether, a job is taken.  The grading of AttemptProcessor.process is *)
(* one step here; AttemptLifecycle takes it apart.                         *)
(***************************************************************************)
EXTENDS Naturals

CONSTANTS
  Attempts,    \* attempts handed in through the queue
  Calls,       \* identifiers of requests, each made once
  Workers,     \* processes that run the jobs
  LongCalls,   \* hand-ins that report more time than the test allows
  Kinds,       \* the endpoints that the environment calls
  Faults,      \* what may go wrong, see AllFaults
  OneAtATime,  \* a client hands in again only after the first was processed
  None         \* no submission, no job, no answers

AllKinds  == {"submit", "reset", "question"}

(* call: a request stops half-way; worker: a database operation of a job   *)
(* is refused; outage: so is the one that records the error; crash: the    *)
(* worker process dies; stall: Bull gives a running job to another worker. *)
AllFaults == {"call", "worker", "outage", "crash", "stall"}

MaxStalled == 1   \* Bull's maxStalledCount, left at its default
MaxTries   == 2   \* defaultJobOptions.attempts of the queue

ASSUME ConstantsAssumption ==
  /\ LongCalls \subseteq Calls
  /\ Kinds \subseteq AllKinds
  /\ Faults \subseteq AllFaults
  /\ OneAtATime \in BOOLEAN

Submissions ==
  [status : {"draft", "processing", "processed"}, data : Calls \union {None},
   error : BOOLEAN]

(* Of the attempt, what submitToQueue and the grading write.               *)
AttemptDocs == [ongoing : BOOLEAN, evaluated : BOOLEAN,
                score : Calls \union {None}, over : BOOLEAN]

Requests == [kind : AllKinds, att : Attempts]

ASSUME NoneAssumption ==
  None \notin Calls /\ None \notin Submissions /\ None \notin Requests

VARIABLES
  sub,      \* the attemptsubmission collection
  attempt,  \* the attempts
  req,      \* what each call asked for
  pc,       \* the next operation of each call, or its reply
  job,      \* the state of the job each call added to the queue
  stalls,   \* how often Bull found the job stalled
  tries,    \* how often its handler threw
  wjob,     \* the job each worker runs
  wpc,      \* the next operation of its handler
  wdata,    \* the answers the worker claimed
  locked    \* workers whose lock on their job is still theirs

vars == <<sub, attempt, req, pc, job, stalls, tries, wjob, wpc, wdata, locked>>
worker == <<wjob, wpc, wdata, locked>>
queue  == <<job, stalls, tries>>

Type ==
  /\ sub \in [Attempts -> Submissions \union {None}]
  /\ attempt \in [Attempts -> AttemptDocs]
  /\ req \in [Calls -> Requests \union {None}]
  /\ pc \in [Calls -> {"idle", "submit", "upsert", "add", "reset", "redraft",
                       "addUnnamed", "question", "ok", "error"}]
  /\ job \in [Calls -> {"none", "waiting", "active", "done", "failed"}]
  /\ stalls \in [Calls -> 0 .. MaxStalled]
  /\ tries \in [Calls -> 0 .. MaxTries]
  /\ wjob \in [Workers -> Calls \union {None}]
  /\ wpc \in [Workers -> {"free", "claim", "grade", "store", "storeError"}]
  /\ wdata \in [Workers -> Calls \union {None}]
  /\ locked \subseteq Workers

Init ==
  /\ sub = [a \in Attempts |-> None]
  /\ attempt = [a \in Attempts |-> [ongoing |-> TRUE, evaluated |-> TRUE,
                                    score |-> None, over |-> FALSE]]
  /\ req = [c \in Calls |-> None]
  /\ pc = [c \in Calls |-> "idle"]
  /\ job = [c \in Calls |-> "none"]
  /\ stalls = [c \in Calls |-> 0]
  /\ tries = [c \in Calls |-> 0]
  /\ wjob = [w \in Workers |-> None]
  /\ wpc = [w \in Workers |-> "free"]
  /\ wdata = [w \in Workers |-> None]
  /\ locked = {}
-----------------------------------------------------------------------------
(* Requests.                                                               *)

Active(c) == pc[c] \notin {"idle", "ok", "error"}
Goto(c, step) == pc' = [pc EXCEPT ![c] = step]

(* A waiting client makes one call at a time on an attempt and does not    *)
(* hand it in again before the worker has dealt with the first hand-in.    *)
ClientWaits(r) ==
  /\ \A c \in Calls : Active(c) => req[c].att # r.att
  /\ (r.kind = "submit" /\ sub[r.att] # None /\ sub[r.att].data # None)
       => sub[r.att].status = "processed"

Call(c) ==
  /\ pc[c] = "idle"
  /\ \E r \in [kind : Kinds, att : Attempts] :
       /\ OneAtATime => ClientWaits(r)
       /\ req' = [req EXCEPT ![c] = r]
       /\ Goto(c, r.kind)
  /\ UNCHANGED <<sub, attempt, queue, worker>>

CallFails(c) ==
  /\ "call" \in Faults /\ Active(c)
  /\ Goto(c, "error")
  /\ UNCHANGED <<sub, attempt, req, queue, worker>>

(* submitToQueue: close the attempt, store the answers, add a named job.   *)
SubmitClose(c) ==
  /\ pc[c] = "submit"
  /\ attempt' = [attempt EXCEPT ![req[c].att].ongoing = FALSE,
                                ![req[c].att].evaluated = FALSE]
  /\ Goto(c, "upsert")
  /\ UNCHANGED <<sub, req, queue, worker>>

(* The upsert leaves the error of an earlier round in place.               *)
SubmitUpsert(c) ==
  LET a == req[c].att IN
  /\ pc[c] = "upsert"
  /\ sub' = [sub EXCEPT ![a] = [status |-> "draft", data |-> c,
                                error |-> sub[a] # None /\ sub[a].error]]
  /\ Goto(c, "add")
  /\ UNCHANGED <<attempt, req, queue, worker>>

SubmitAdd(c) ==
  /\ pc[c] \in {"add", "addUnnamed"}
  /\ job' = [job EXCEPT ![c] = "waiting"]
  /\ Goto(c, "ok")
  /\ UNCHANGED <<sub, attempt, req, stalls, tries, worker>>

(* resetItemInQueue: what was processed without an error stays; anything   *)
(* else becomes a draft again, with a job that is given no name.           *)
ResetFind(c) ==
  LET s == sub[req[c].att] IN
  /\ pc[c] = "reset"
  /\ Goto(c, IF s = None \/ (s.status = "processed" /\ ~s.error) THEN "ok" ELSE "redraft")
  /\ UNCHANGED <<sub, attempt, req, queue, worker>>

ResetDraft(c) ==
  /\ pc[c] = "redraft"
  /\ sub' = [sub EXCEPT ![req[c].att] = [@ EXCEPT !.status = "draft", !.error = FALSE]]
  /\ Goto(c, "addUnnamed")
  /\ UNCHANGED <<attempt, req, queue, worker>>

(* questionSubmit: push one answer, upserting a submission whose status is *)
(* the schema's default, draft.                                            *)
QuestionUpsert(c) ==
  LET a == req[c].att IN
  /\ pc[c] = "question"
  /\ sub' = IF sub[a] # None THEN sub
            ELSE [sub EXCEPT ![a] = [status |-> "draft", data |-> None, error |-> FALSE]]
  /\ Goto(c, "ok")
  /\ UNCHANGED <<attempt, req, queue, worker>>

-----------------------------------------------------------------------------
(* Bull and the worker.                                                    *)

(* Mutant of Named: resetItemInQueue names its job like submitToQueue.     *)
NamedAlways(c) == req[c] # None

Named(c) == req[c].kind = "submit"

Free(w) == /\ wjob' = [wjob EXCEPT ![w] = None]
           /\ wpc' = [wpc EXCEPT ![w] = "free"]
           /\ wdata' = [wdata EXCEPT ![w] = None]
           /\ locked' = locked \ {w}

WGoto(w, step) == /\ wpc' = [wpc EXCEPT ![w] = step]
                  /\ UNCHANGED <<wjob, wdata, locked>>

Take(w, c) ==
  /\ wpc[w] = "free"
  /\ job[c] = "waiting" /\ Named(c)
  /\ job' = [job EXCEPT ![c] = "active"]
  /\ wjob' = [wjob EXCEPT ![w] = c]
  /\ wpc' = [wpc EXCEPT ![w] = "claim"]
  /\ locked' = locked \union {w}
  /\ UNCHANGED <<sub, attempt, req, pc, stalls, tries, wdata>>

(* No handler is registered for a job without a name: Bull fails it, and   *)
(* again on its second attempt.                                            *)
DropUnnamed(c) ==
  /\ job[c] = "waiting" /\ ~Named(c)
  /\ job' = [job EXCEPT ![c] = "failed"]
  /\ UNCHANGED <<sub, attempt, req, pc, stalls, tries, worker>>

(* The handler returned: Bull removes the job if the lock is still held.   *)
Complete(w) ==
  /\ job' = IF w \in locked THEN [job EXCEPT ![wjob[w]] = "done"] ELSE job
  /\ Free(w)
  /\ UNCHANGED <<stalls, tries>>

(* Mutant of Claim: the status is not part of the query.                   *)
ClaimAnyStatus(w) ==
  LET a == req[wjob[w]].att IN
  /\ wpc[w] = "claim"
  /\ sub[a] # None
  /\ sub' = [sub EXCEPT ![a] = [@ EXCEPT !.status = "processing"]]
  /\ wpc' = [wpc EXCEPT ![w] = "grade"]
  /\ wdata' = [wdata EXCEPT ![w] = sub[a].data]
  /\ UNCHANGED <<attempt, req, pc, queue, wjob, locked>>

(* findOneAndUpdate {_id, status: 'draft'} -> 'processing'.                *)
Claim(w) ==
  LET a == req[wjob[w]].att IN
  /\ wpc[w] = "claim"
  /\ sub[a] # None /\ sub[a].status = "draft"
  /\ sub' = [sub EXCEPT ![a] = [@ EXCEPT !.status = "processing"]]
  /\ wpc' = [wpc EXCEPT ![w] = "grade"]
  /\ wdata' = [wdata EXCEPT ![w] = sub[a].data]
  /\ UNCHANGED <<attempt, req, pc, queue, wjob, locked>>

NothingToClaim(w) ==
  LET a == req[wjob[w]].att IN
  /\ wpc[w] = "claim"
  /\ sub[a] = None \/ sub[a].status # "draft"
  /\ Complete(w)
  /\ UNCHANGED <<sub, attempt, req, pc>>

(* process: the marks of the claimed answers, and their reported time.     *)
Grade(w) ==
  LET a == req[wjob[w]].att IN
  /\ wpc[w] = "grade"
  /\ attempt' = [attempt EXCEPT ![a] = [ongoing |-> FALSE, evaluated |-> TRUE,
                                        score |-> wdata[w], over |-> wdata[w] \in LongCalls]]
  /\ WGoto(w, "store")
  /\ UNCHANGED <<sub, req, pc, queue>>

Store(w) ==
  LET a == req[wjob[w]].att IN
  /\ wpc[w] = "store"
  /\ sub' = [sub EXCEPT ![a] = [@ EXCEPT !.status = "processed", !.error = FALSE]]
  /\ Complete(w)
  /\ UNCHANGED <<attempt, req, pc>>

(* Mutants of OperationFails: an error of process is swallowed and the     *)
(* handler goes on; the handler ends without recording the error.          *)
OperationFailsQuietly(w) ==
  /\ "worker" \in Faults
  /\ wpc[w] \in {"claim", "grade", "store"}
  /\ WGoto(w, IF wpc[w] = "grade" THEN "store" ELSE "storeError")
  /\ UNCHANGED <<sub, attempt, req, pc, queue>>

OperationFailsUnrecorded(w) ==
  /\ "worker" \in Faults
  /\ wpc[w] \in {"claim", "grade", "store"}
  /\ Complete(w)
  /\ UNCHANGED <<sub, attempt, req, pc>>

(* An operation is refused: the catch block records the error, whoever     *)
(* owns the submission by then.                                            *)
OperationFails(w) ==
  /\ "worker" \in Faults
  /\ wpc[w] \in {"claim", "grade", "store"}
  /\ WGoto(w, "storeError")
  /\ UNCHANGED <<sub, attempt, req, pc, queue>>

(* Mutant of StoreError: the submission becomes a draft again, with no job. *)
StoreErrorAsDraft(w) ==
  LET a == req[wjob[w]].att IN
  /\ wpc[w] = "storeError"
  /\ sub' = IF sub[a] = None THEN sub
            ELSE [sub EXCEPT ![a] = [@ EXCEPT !.status = "draft", !.error = TRUE]]
  /\ Complete(w)
  /\ UNCHANGED <<attempt, req, pc>>

StoreError(w) ==
  LET a == req[wjob[w]].att IN
  /\ wpc[w] = "storeError"
  /\ sub' = IF sub[a] = None THEN sub
            ELSE [sub EXCEPT ![a] = [@ EXCEPT !.status = "processed", !.error = TRUE]]
  /\ Complete(w)
  /\ UNCHANGED <<attempt, req, pc>>

(* Mutant of HandlerThrows: the attempts of a job are not limited.         *)
HandlerThrowsForever(w) ==
  /\ "outage" \in Faults
  /\ wpc[w] = "storeError"
  /\ IF w \in locked
     THEN /\ tries' = [tries EXCEPT ![wjob[w]] = @ + 1]
          /\ job' = [job EXCEPT ![wjob[w]] = "waiting"]
     ELSE UNCHANGED <<tries, job>>
  /\ Free(w)
  /\ UNCHANGED <<sub, attempt, req, pc, stalls>>

(* The catch block fails too: the handler throws and Bull tries again.     *)
HandlerThrows(w) ==
  LET c == wjob[w]  again == tries[c] + 1 < MaxTries IN
  /\ "outage" \in Faults
  /\ wpc[w] = "storeError"
  /\ IF w \in locked
     THEN /\ tries' = [tries EXCEPT ![c] = @ + 1]
          /\ job' = [job EXCEPT ![c] = IF again THEN "waiting" ELSE "failed"]
     ELSE UNCHANGED <<tries, job>>
  /\ Free(w)
  /\ UNCHANGED <<sub, attempt, req, pc, stalls>>

(* The lock of w runs out: Bull gives its job to a worker again.           *)
Redeliver(w) ==
  LET c == wjob[w] IN
  /\ stalls' = [stalls EXCEPT ![c] = IF @ < MaxStalled THEN @ + 1 ELSE @]
  /\ job' = [job EXCEPT ![c] = IF stalls[c] < MaxStalled THEN "waiting" ELSE "failed"]

Stall(w) ==
  /\ "stall" \in Faults
  /\ w \in locked
  /\ Redeliver(w)
  /\ locked' = locked \ {w}
  /\ UNCHANGED <<sub, attempt, req, pc, tries, wjob, wpc, wdata>>

Crash(w) ==
  /\ "crash" \in Faults
  /\ wpc[w] # "free"
  /\ IF w \in locked THEN Redeliver(w) ELSE UNCHANGED <<stalls, job>>
  /\ Free(w)
  /\ UNCHANGED <<sub, attempt, req, pc, tries>>

-----------------------------------------------------------------------------
Handler(c) == \/ SubmitClose(c) \/ SubmitUpsert(c) \/ SubmitAdd(c)
              \/ ResetFind(c) \/ ResetDraft(c) \/ QuestionUpsert(c)
Work(w)    == Claim(w) \/ NothingToClaim(w) \/ Grade(w) \/ Store(w) \/ StoreError(w)
Fault(w)   == OperationFails(w) \/ HandlerThrows(w) \/ Stall(w) \/ Crash(w)

Next == \/ \E c \in Calls : Call(c) \/ CallFails(c) \/ Handler(c) \/ DropUnnamed(c)
        \/ \E w \in Workers, c \in Calls : Take(w, c)
        \/ \E w \in Workers : Work(w) \/ Fault(w)

Spec == Init /\ [][Next]_vars

-----------------------------------------------------------------------------
(* A submission that is processed without an error left marks behind:      *)
(* the status is never ahead of the grading, whoever wrote it.             *)
ProcessedWasGraded ==
  \A a \in Attempts : sub[a] # None /\ sub[a].status = "processed" /\ ~sub[a].error =>
    attempt[a].score # None

(* The draft that questionSubmit makes holds no hand-in and is never       *)
(* claimed: whoever grades has answers.                                    *)
ClaimsCarryAnswers ==
  \A w \in Workers : wpc[w] \in {"grade", "store"} => wdata[w] # None

(* Every claim of a draft is graded at most once, however often Bull       *)
(* delivers its job and however workers and clients interleave.            *)
Grading(a) == {w \in Workers : wpc[w] = "grade" /\ req[wjob[w]].att = a}
Draft(a)   == sub[a] # None /\ sub[a].status = "draft"

Promise == INSTANCE GradeOnce WITH
  draft   <- {a \in Attempts : Draft(a)},
  grading <- [a \in Attempts |-> Grading(a)],
  marks   <- [a \in Attempts |-> attempt[a].score]

GradesAtMostOnce == Promise!Spec

(* A submission that is not processed is in somebody's hands.  A draft of  *)
(* an accepted hand-in has its job, waiting or with the worker that holds  *)
(* its lock, until Bull gives the job up, or until resetItemInQueue makes  *)
(* it a draft again with a job nobody runs.  A submission in processing    *)
(* has a worker on it, unless Bull has found a job of the attempt stalled  *)
(* or its handler has thrown: then it stays there until it is reset        *)
(* (submitToQueue, attempt.service.ts 7084; AttemptQueueProcessor).        *)
WasReset(a) == \E c \in Calls : pc[c] # "idle" /\ req[c] = [kind |-> "reset", att |-> a]
HeldBy(w, c) == w \in locked /\ wjob[w] = c
GivenUp(c)  == job[c] = "failed" /\ (tries[c] = MaxTries \/ stalls[c] = MaxStalled)

DraftHasJob(a) ==
  LET c == sub[a].data IN
  Draft(a) /\ c # None /\ pc[c] = "ok" /\ ~WasReset(a) =>
    \/ job[c] = "waiting" \/ GivenUp(c)
    \/ job[c] = "active" /\ \E w \in Workers : HeldBy(w, c) /\ wpc[w] \in {"claim", "storeError"}

OnAttempt(w, a) == wpc[w] # "free" /\ req[wjob[w]].att = a
Disturbed(a) == \E c \in Calls : /\ pc[c] # "idle" /\ req[c].att = a
                                 /\ stalls[c] > 0 \/ tries[c] > 0

ClaimHasWorker(a) ==
  sub[a] # None /\ sub[a].status = "processing" =>
    \/ \E w \in Workers : OnAttempt(w, a) /\ wpc[w] # "claim"
    \/ Disturbed(a)

UnprocessedIsInHand == \A a \in Attempts : DraftHasJob(a) /\ ClaimHasWorker(a)

(* When the queue is empty and nothing runs, every hand-in was processed,  *)
(* and unless an error is recorded the marks are those of the answers      *)
(* handed in last.                                                         *)
AtRest == /\ \A c \in Calls : ~Active(c) /\ job[c] \notin {"waiting", "active"}
          /\ \A w \in Workers : wpc[w] = "free"

NothingLeftBehind ==
  AtRest => \A a \in Attempts : sub[a] # None /\ sub[a].data # None =>
    /\ sub[a].status = "processed"
    /\ ~sub[a].error => attempt[a].score = sub[a].data

(* "The time on record never exceeds the test's limit, whatever the client *)
(* reported" (attempt.service.ts 7884-7886), once a hand-in is processed.  *)
TimeWithinLimit ==
  AtRest => \A a \in Attempts : ~attempt[a].over
-----------------------------------------------------------------------------
(* The inductive invariant behind the safety properties, see the proofs.   *)

(* What a call that got this far has asked for, and what it has stored.    *)
HandedIn(a) == sub[a] # None /\ sub[a].data # None

CallInv ==
  \A c \in Calls :
    /\ pc[c] # "idle" => req[c] \in Requests
    /\ pc[c] \in {"submit", "upsert", "add"} => req[c].kind = "submit"
    /\ pc[c] \in {"reset", "redraft", "addUnnamed"} => req[c].kind = "reset"
    /\ pc[c] = "question" => req[c].kind = "question"
    /\ pc[c] = "redraft" => sub[req[c].att] # None
    /\ pc[c] = "add" => HandedIn(req[c].att)

(* A job belongs to a call that went on, and is tried a second time at most. *)
JobInv ==
  \A c \in Calls :
    /\ job[c] = "none" => tries[c] = 0
    /\ job[c] \in {"waiting", "active"} => tries[c] < MaxTries
    /\ job[c] # "none" => pc[c] \in {"ok", "error"}
    /\ (job[c] # "none" /\ req[c].kind = "submit") => HandedIn(req[c].att)

(* A worker runs the job of a hand-in; who holds the lock runs it alone.   *)
WorkerInv ==
  \A w \in Workers :
    /\ wpc[w] # "free" => /\ wjob[w] \in Calls /\ job[wjob[w]] # "none"
                          /\ req[wjob[w]].kind = "submit"
    /\ w \in locked => /\ wpc[w] # "free" /\ job[wjob[w]] = "active"
                       /\ \A v \in locked : wjob[v] = wjob[w] => v = w
    /\ wpc[w] \in {"grade", "store"} => wdata[w] # None
    /\ wpc[w] = "store" => attempt[req[wjob[w]].att].score # None

QueueInv == Type /\ CallInv /\ JobInv /\ WorkerInv /\ ProcessedWasGraded

=============================================================================
