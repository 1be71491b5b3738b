------------------------ MODULE SubmissionQueue_proofs ------------------------
(***************************************************************************)
(* Proofs about SubmissionQueue, for every number of attempts, calls and   *)
(* workers and every combination of faults.  The two theorems about what a *)
(* queue at rest has left behind name the faults and calls that they are   *)
(* free of.                                                                *)
(***************************************************************************)
EXTENDS SubmissionQueue, TLAPS

(* The empty queue and its idle workers satisfy the invariant.             *)
THEOREM InitQueueInv == Init => QueueInv
BY NoneAssumption DEF Init, QueueInv, Type, CallInv, JobInv, WorkerInv, ProcessedWasGraded,
   AttemptDocs, MaxTries, MaxStalled, NoneAssumption

(* A worker that runs a job has a request and a hand-in to work on.        *)
LEMMA Running ==
  ASSUME QueueInv, NEW w \in Workers, wpc[w] # "free"
  PROVE  /\ wjob[w] \in Calls /\ pc[wjob[w]] \in {"ok", "error"}
         /\ req[wjob[w]] \in Requests /\ req[wjob[w]].kind = "submit"
         /\ req[wjob[w]].att \in Attempts
         /\ sub[req[wjob[w]].att] \in Submissions
         /\ sub[req[wjob[w]].att].data # None
<1>1. /\ wjob[w] \in Calls /\ job[wjob[w]] # "none"
      /\ req[wjob[w]].kind = "submit" /\ pc[wjob[w]] \in {"ok", "error"}
  BY DEF QueueInv, WorkerInv, JobInv
<1>2. req[wjob[w]] \in Requests /\ HandedIn(req[wjob[w]].att)
  BY <1>1 DEF QueueInv, CallInv, JobInv
<1> QED BY <1>1, <1>2 DEF Requests, HandedIn, QueueInv, Type

(* What a worker does to the submissions.                                  *)
LEMMA WorkOnSubmission ==
  ASSUME QueueInv, NEW w \in Workers, Work(w) \/ Fault(w)
  PROVE  /\ UNCHANGED <<req, pc>>
         /\ sub' \in [Attempts -> Submissions \union {None}]
         /\ \A a \in Attempts : sub[a] # None => sub'[a] # None
         /\ \A a \in Attempts : HandedIn(a) => HandedIn(a)'
<1> DEFINE a == req[wjob[w]].att
<1>1. CASE wpc[w] # "free"
  <2>1. a \in Attempts /\ sub[a] \in Submissions
    BY <1>1, Running
  <2>2. \/ sub' = sub
        \/ \E st \in {"processing", "processed"}, e \in BOOLEAN :
             sub' = [sub EXCEPT ![a] = [@ EXCEPT !.status = st, !.error = e]]
    <3>1. CASE Claim(w)
      <4>1. sub' = [sub EXCEPT ![a] = [@ EXCEPT !.status = "processing"]]
        BY <3>1 DEF Claim
      <4>2. [sub[a] EXCEPT !.status = "processing"]
              = [sub[a] EXCEPT !.status = "processing", !.error = sub[a].error]
        BY <2>1 DEF Submissions
      <4>3. sub[a].error \in BOOLEAN
        BY <2>1 DEF Submissions
      <4> QED BY <4>1, <4>2, <4>3
    <3>2. CASE Store(w)
      BY <3>2 DEF Store
    <3>3. CASE StoreError(w)
      BY <3>3 DEF StoreError
    <3>4. CASE ~(Claim(w) \/ Store(w) \/ StoreError(w))
      BY <3>4 DEF Work, Fault, NothingToClaim, Grade, OperationFails, HandlerThrows, Stall, Crash
    <3> QED BY <3>1, <3>2, <3>3, <3>4
  <2>3. ASSUME NEW st \in {"processing", "processed"}, NEW e \in BOOLEAN
        PROVE  /\ [sub[a] EXCEPT !.status = st, !.error = e] \in Submissions
               /\ [sub[a] EXCEPT !.status = st, !.error = e].data = sub[a].data
    BY <2>1 DEF Submissions
  <2>4. UNCHANGED <<req, pc>>
    BY DEF Work, Fault, Claim, NothingToClaim, Grade, Store, StoreError, OperationFails,
           HandlerThrows, Stall, Crash
  <2>5. \/ sub' = sub
        \/ \E d \in Submissions : d.data = sub[a].data /\ sub' = [sub EXCEPT ![a] = d]
    BY <2>2, <2>3
  <2> HIDE DEF a
  <2> QED BY <2>1, <2>4, <2>5, NoneAssumption DEF NoneAssumption, HandedIn, QueueInv, Type
<1>2. CASE wpc[w] = "free"
  <2>1. Stall(w)
    BY <1>2 DEF Work, Fault, Claim, NothingToClaim, Grade, Store, StoreError, OperationFails,
           HandlerThrows, Crash
  <2> QED BY <2>1, <1>2 DEF Stall, QueueInv, WorkerInv
<1> QED BY <1>1, <1>2

LEMMA DraftType ==
  ASSUME NEW c \in Calls, NEW old
  PROVE  [status |-> "draft", data |-> c, error |-> old # None /\ old.error] \in Submissions
<1>1. \A e \in BOOLEAN : [status |-> "draft", data |-> c, error |-> e] \in Submissions
  BY DEF Submissions
<1> QED BY <1>1, Zenon

(* What a handler does to the submissions, and how it goes on.             *)
LEMMA HandlerOnSubmission ==
  ASSUME QueueInv, NEW c \in Calls, Handler(c)
  PROVE  /\ UNCHANGED <<req, worker, stalls, tries>>
         /\ Active(c) /\ \E step : Goto(c, step)
         /\ req[c] \in Requests /\ req[c].att \in Attempts
         /\ sub' \in [Attempts -> Submissions \union {None}]
         /\ \A a \in Attempts : sub[a] # None => sub'[a] # None
         /\ \A a \in Attempts : HandedIn(a) => HandedIn(a)'
<1> DEFINE a == req[c].att
<1>1. UNCHANGED <<req, worker, stalls, tries>> /\ Active(c)
  BY DEF Handler, SubmitClose, SubmitUpsert, SubmitAdd, ResetFind, ResetDraft, QuestionUpsert,
         Active, worker, queue
<1>2. \E step : Goto(c, step)
  BY DEF Handler, SubmitClose, SubmitUpsert, SubmitAdd, ResetFind, ResetDraft, QuestionUpsert
<1>3. req[c] \in Requests /\ a \in Attempts
  BY <1>1 DEF QueueInv, CallInv, Active, Requests
<1>4. \/ sub' = sub
      \/ \E d \in Submissions : /\ sub' = [sub EXCEPT ![a] = d]
                                /\ sub[a] # None /\ sub[a].data # None => d.data # None
  <2>1. CASE SubmitUpsert(c)
    <3> DEFINE d == [status |-> "draft", data |-> c, error |-> sub[a] # None /\ sub[a].error]
    <3>4. d \in Submissions
      BY DraftType
    <3>5. d.data # None
      BY NoneAssumption DEF NoneAssumption
    <3>6. sub' = [sub EXCEPT ![a] = d]
      BY <2>1 DEF SubmitUpsert
    <3> HIDE DEF d
    <3> QED BY <3>4, <3>5, <3>6
  <2>2. CASE ResetDraft(c)
    <3> DEFINE d == [sub[a] EXCEPT !.status = "draft", !.error = FALSE]
    <3>1. sub[a] \in Submissions
      BY <1>3, <2>2 DEF ResetDraft, QueueInv, CallInv, Type
    <3>2. d \in Submissions /\ d.data = sub[a].data
      BY <3>1 DEF Submissions
    <3>3. sub' = [sub EXCEPT ![a] = d]
      BY <2>2 DEF ResetDraft
    <3> HIDE DEF d
    <3> QED BY <3>2, <3>3
  <2>3. CASE QuestionUpsert(c)
    <3> DEFINE d == [status |-> "draft", data |-> None, error |-> FALSE]
    <3>1. d \in Submissions
      BY DEF Submissions
    <3>2. sub' = sub \/ (sub[a] = None /\ sub' = [sub EXCEPT ![a] = d])
      BY <2>3 DEF QuestionUpsert
    <3> HIDE DEF d
    <3> QED BY <3>1, <3>2
  <2>4. CASE SubmitClose(c) \/ SubmitAdd(c) \/ ResetFind(c)
    BY <2>4 DEF SubmitClose, SubmitAdd, ResetFind
  <2> QED BY <2>1, <2>2, <2>3, <2>4 DEF Handler
<1>5. /\ sub' \in [Attempts -> Submissions \union {None}]
      /\ \A b \in Attempts : sub[b] # None => sub'[b] # None
      /\ \A b \in Attempts : HandedIn(b) => HandedIn(b)'
  <2> HIDE DEF a
  <2> QED BY <1>3, <1>4, NoneAssumption DEF NoneAssumption, HandedIn, QueueInv, Type
<1> QED BY <1>1, <1>2, <1>3, <1>5

(* No step takes a submission or its hand-in away, or changes what a call  *)
(* asked for.                                                              *)
LEMMA NothingTaken ==
  ASSUME QueueInv, [Next]_vars
  PROVE  /\ sub' \in [Attempts -> Submissions \union {None}]
         /\ \A a \in Attempts : sub[a] # None => sub'[a] # None
         /\ \A a \in Attempts : HandedIn(a) => HandedIn(a)'
         /\ \A c \in Calls : pc[c] # "idle" => pc'[c] # "idle" /\ req'[c] = req[c]
<1>1. ASSUME NEW c \in Calls, Call(c) \/ CallFails(c) PROVE UNCHANGED sub
  BY <1>1 DEF Call, CallFails
<1>2. ASSUME NEW c \in Calls, Call(c) \/ CallFails(c)
      PROVE  \A x \in Calls : pc[x] # "idle" => pc'[x] # "idle" /\ req'[x] = req[x]
  BY <1>2 DEF Call, CallFails, Goto, QueueInv, Type
<1>3. ASSUME NEW c \in Calls, Handler(c)
      PROVE  \A x \in Calls : pc[x] # "idle" => pc'[x] # "idle" /\ req'[x] = req[x]
  <2>1. \E step \in {"upsert", "add", "ok", "redraft", "addUnnamed"} : Goto(c, step)
    BY <1>3 DEF Handler, SubmitClose, SubmitUpsert, SubmitAdd, ResetFind, ResetDraft,
                QuestionUpsert
  <2> QED BY <1>3, <2>1, HandlerOnSubmission DEF Goto, QueueInv, Type
<1>4. ASSUME NEW c \in Calls, DropUnnamed(c) \/ (\E w \in Workers : Take(w, c))
      PROVE  UNCHANGED <<sub, req, pc>>
  BY <1>4 DEF DropUnnamed, Take
<1>5. CASE UNCHANGED vars
  BY <1>5 DEF vars, HandedIn, QueueInv, Type
<1> QED BY <1>1, <1>2, <1>3, <1>4, <1>5, HandlerOnSubmission, WorkOnSubmission
        DEF Next, HandedIn, QueueInv, Type

-----------------------------------------------------------------------------
(* The invariant, conjunct by conjunct.                                    *)
LEMMA CallStep == QueueInv /\ [Next]_vars => CallInv'
<1> SUFFICES ASSUME QueueInv, [Next]_vars PROVE CallInv'
  OBVIOUS
<1> USE NothingTaken DEF QueueInv, CallInv
<1>1. ASSUME NEW c \in Calls, Call(c) PROVE CallInv'
  <2>1. PICK r \in Requests : req' = [req EXCEPT ![c] = r] /\ pc' = [pc EXCEPT ![c] = r.kind]
    BY <1>1, ConstantsAssumption DEF Call, Goto, Requests, ConstantsAssumption
  <2>2. pc[c] = "idle" /\ r.kind \in AllKinds
    BY <1>1 DEF Call, Requests
  <2> QED BY <2>1, <2>2 DEF Requests, AllKinds, Type
<1>2. ASSUME NEW c \in Calls, CallFails(c) PROVE CallInv'
  BY <1>2 DEF CallFails, Active, Goto, Type, Requests
<1>3. ASSUME NEW c \in Calls, SubmitClose(c) PROVE CallInv'
  BY <1>3 DEF SubmitClose, Goto, Type, Requests
<1>4. ASSUME NEW c \in Calls, SubmitUpsert(c) PROVE CallInv'
  <2>1. HandedIn(req[c].att)'
    <3>1. req[c].att \in Attempts /\ UNCHANGED req
      BY <1>4, HandlerOnSubmission DEF Handler
    <3>2. sub'[req[c].att] \in Submissions \union {None}
      BY <3>1
    <3>3. sub'[req[c].att] =
            [status |-> "draft", data |-> c,
             error |-> sub[req[c].att] # None /\ sub[req[c].att].error]
      BY <1>4, <3>1 DEF SubmitUpsert, Type
    <3>4. sub'[req[c].att] \in Submissions
      BY <3>3, DraftType
    <3>5. sub'[req[c].att] # None /\ sub'[req[c].att].data = c
      BY <3>3, <3>4, NoneAssumption DEF NoneAssumption
    <3> QED BY <3>1, <3>5, NoneAssumption DEF HandedIn, NoneAssumption
  <2> QED BY <1>4, <2>1 DEF SubmitUpsert, Goto, Type, Requests
<1>5. ASSUME NEW c \in Calls, SubmitAdd(c) \/ QuestionUpsert(c) PROVE CallInv'
  BY <1>5 DEF SubmitAdd, QuestionUpsert, Goto, Type, Requests
<1>6. ASSUME NEW c \in Calls, ResetFind(c) PROVE CallInv'
  BY <1>6 DEF ResetFind, Goto, Type, Requests
<1>7. ASSUME NEW c \in Calls, ResetDraft(c) PROVE CallInv'
  BY <1>7 DEF ResetDraft, Goto, Type, Requests
<1>8. CASE UNCHANGED <<req, pc>>
  BY <1>8 DEF Requests
<1>9. ASSUME NEW c \in Calls, DropUnnamed(c) \/ (\E w \in Workers : Take(w, c))
      PROVE  UNCHANGED <<req, pc>>
  BY <1>9 DEF DropUnnamed, Take
<1>10. ASSUME NEW w \in Workers, Work(w) \/ Fault(w) PROVE UNCHANGED <<req, pc>>
  BY <1>10, WorkOnSubmission
<1> QED BY <1>1, <1>2, <1>3, <1>4, <1>5, <1>6, <1>7, <1>8, <1>9, <1>10 DEF Next, Handler, vars

LEMMA JobStep == QueueInv /\ [Next]_vars => JobInv'
<1> SUFFICES ASSUME QueueInv, [Next]_vars PROVE JobInv'
  OBVIOUS
<1> USE NothingTaken DEF QueueInv, JobInv, MaxTries
<1>1. ASSUME NEW c \in Calls, Call(c) PROVE JobInv'
  <2>1. /\ pc[c] = "idle" /\ UNCHANGED <<job, tries>>
        /\ \A x \in Calls \ {c} : pc'[x] = pc[x] /\ req'[x] = req[x]
    BY <1>1 DEF Call, Goto, Type, queue
  <2> QED BY <2>1 DEF CallInv, Requests
<1>2. ASSUME NEW c \in Calls, CallFails(c) PROVE JobInv'
  <2>1. /\ Active(c) /\ UNCHANGED <<job, tries, req>>
        /\ \A x \in Calls \ {c} : pc'[x] = pc[x]
    BY <1>2 DEF CallFails, Goto, Type, queue
  <2> QED BY <2>1 DEF Active, CallInv, Requests
<1>3. ASSUME NEW c \in Calls, SubmitAdd(c) PROVE JobInv'
  BY <1>3 DEF SubmitAdd, CallInv, Goto, Type, Requests
<1>4. ASSUME NEW c \in Calls, Handler(c), UNCHANGED <<job, tries>> PROVE JobInv'
  BY <1>4, HandlerOnSubmission DEF Goto, Active, Type, CallInv, Requests
<1>5. ASSUME NEW c \in Calls, DropUnnamed(c) PROVE JobInv'
  BY <1>5 DEF DropUnnamed, Type, CallInv, Requests
<1>6. ASSUME NEW c \in Calls, NEW w \in Workers, Take(w, c) PROVE JobInv'
  BY <1>6 DEF Take, Type, CallInv, Requests
<1>7. ASSUME NEW w \in Workers, Work(w) \/ Fault(w) PROVE JobInv'
  <2>1. /\ \A c \in Calls : (job[c] = "none") <=> (job'[c] = "none")
        /\ \A c \in Calls : job'[c] \in {"none", "waiting", "active"} /\ job'[c] # job[c] =>
             job[c] = "active"
        /\ \A c \in Calls : tries'[c] # tries[c] => job[c] # "none"
        /\ \A c \in Calls : tries'[c] # tries[c] /\ job'[c] \in {"waiting", "active"} => tries'[c] < 2
    <3>1. CASE UNCHANGED <<job, tries>>
      BY <3>1
    <3>2. CASE wpc[w] # "free" /\ Complete(w)
      BY <3>2 DEF Complete, WorkerInv, Type
    <3>3. CASE HandlerThrows(w)
      BY <3>3 DEF HandlerThrows, WorkerInv, Type
    <3>4. CASE w \in locked /\ Redeliver(w) /\ UNCHANGED tries
      BY <3>4 DEF Redeliver, WorkerInv, Type
    <3> QED BY <1>7, <3>1, <3>2, <3>3, <3>4
            DEF Work, Fault, Claim, NothingToClaim, Grade, Store, StoreError, OperationFails,
                Stall, Crash, queue
  <2>2. UNCHANGED <<req, pc>>
    BY <1>7, WorkOnSubmission
  <2> QED BY <2>1, <2>2 DEF CallInv, Requests
<1>8. CASE UNCHANGED vars
  BY <1>8 DEF vars, HandedIn
<1>9. ASSUME NEW c \in Calls, Handler(c) PROVE SubmitAdd(c) \/ UNCHANGED <<job, tries>>
  BY <1>9 DEF Handler, SubmitClose, SubmitUpsert, ResetFind, ResetDraft, QuestionUpsert, queue
<1> QED BY <1>1, <1>2, <1>3, <1>4, <1>5, <1>6, <1>7, <1>8, <1>9 DEF Next

(* The marks: only process writes them, and with a hand-in.                *)
LEMMA ScoreStays ==
  ASSUME QueueInv, [Next]_vars
  PROVE  \A a \in Attempts : attempt[a].score # None => attempt'[a].score # None
<1> USE DEF QueueInv, Type
<1>1. ASSUME NEW c \in Calls, SubmitClose(c)
      PROVE  \A a \in Attempts : attempt'[a].score = attempt[a].score
  BY <1>1 DEF SubmitClose, AttemptDocs
<1>2. ASSUME NEW w \in Workers, Grade(w)
      PROVE  \A a \in Attempts : attempt[a].score # None => attempt'[a].score # None
  BY <1>2 DEF Grade, AttemptDocs, WorkerInv
<1>3. ASSUME NEW c \in Calls, Handler(c) PROVE SubmitClose(c) \/ UNCHANGED attempt
  BY <1>3 DEF Handler, SubmitUpsert, SubmitAdd, ResetFind, ResetDraft, QuestionUpsert
<1>4. ASSUME NEW w \in Workers, Work(w) \/ Fault(w) PROVE Grade(w) \/ UNCHANGED attempt
  BY <1>4 DEF Work, Fault, Claim, NothingToClaim, Store, StoreError, OperationFails,
              HandlerThrows, Stall, Crash
<1>5. ASSUME NEW c \in Calls, Call(c) \/ CallFails(c) \/ DropUnnamed(c) PROVE UNCHANGED attempt
  BY <1>5 DEF Call, CallFails, DropUnnamed
<1>6. ASSUME NEW c \in Calls, NEW w \in Workers, Take(w, c) PROVE UNCHANGED attempt
  BY <1>6 DEF Take
<1> QED BY <1>1, <1>2, <1>3, <1>4, <1>5, <1>6 DEF Next, vars

(* A worker that the step does not move keeps what it relies on.           *)
LEMMA OthersWork ==
  ASSUME QueueInv, [Next]_vars, NEW w \in Workers, wpc[w] # "free",
         wpc'[w] = wpc[w], wjob'[w] = wjob[w], wdata'[w] = wdata[w],
         job'[wjob[w]] # "none"
  PROVE  /\ wjob'[w] \in Calls /\ req'[wjob'[w]].kind = "submit"
         /\ wpc'[w] \in {"grade", "store"} => wdata'[w] # None
         /\ wpc'[w] = "store" => attempt'[req'[wjob'[w]].att].score # None
<1>1. wjob[w] \in Calls /\ req'[wjob[w]] = req[wjob[w]] /\ req[wjob[w]].att \in Attempts
  BY Running, NothingTaken
<1> QED BY <1>1, Running, ScoreStays DEF QueueInv, WorkerInv

LEMMA JobsStay ==
  ASSUME QueueInv, [Next]_vars
  PROVE  \A c \in Calls : job[c] # "none" => job'[c] # "none"
<1> USE DEF QueueInv, Type, queue
<1>1. ASSUME NEW c \in Calls, Call(c) \/ CallFails(c) \/ Handler(c) \/ DropUnnamed(c)
      PROVE  \A x \in Calls : job[x] # "none" => job'[x] # "none"
  BY <1>1 DEF Call, CallFails, Handler, DropUnnamed, SubmitClose, SubmitUpsert, SubmitAdd,
              ResetFind, ResetDraft, QuestionUpsert
<1>2. ASSUME NEW c \in Calls, NEW w \in Workers, Take(w, c)
      PROVE  \A x \in Calls : job[x] # "none" => job'[x] # "none"
  BY <1>2 DEF Take
<1>3. ASSUME NEW w \in Workers, Work(w) \/ Fault(w)
      PROVE  \A x \in Calls : job[x] # "none" => job'[x] # "none"
  BY <1>3 DEF Work, Fault, Claim, NothingToClaim, Grade, Store, StoreError, OperationFails,
              HandlerThrows, Stall, Crash, Complete, Redeliver
<1> QED BY <1>1, <1>2, <1>3 DEF Next, vars

(* What a worker does next with the job it has, and what it leaves alone.  *)
LEMMA WorkerMoves ==
  ASSUME QueueInv, NEW w \in Workers, Work(w) \/ Fault(w)
  PROVE  /\ \A v \in Workers \ {w} : /\ wpc'[v] = wpc[v] /\ wjob'[v] = wjob[v]
                                      /\ wdata'[v] = wdata[v] /\ (v \in locked' <=> v \in locked)
         /\ wpc[w] # "free"
         /\ \/ wpc'[w] = "free" /\ w \notin locked'
            \/ /\ wjob' = wjob /\ UNCHANGED <<locked, job>>
               /\ wpc'[w] \in {"grade", "store", "storeError"}
            \/ UNCHANGED <<wjob, wpc, wdata>> /\ w \notin locked'
         /\ \/ UNCHANGED job
            \/ w \in locked /\ \A c \in Calls \ {wjob[w]} : job'[c] = job[c]
         /\ locked' \subseteq locked
<1> USE DEF QueueInv, Type
<1>1. CASE Claim(w) \/ Grade(w) \/ OperationFails(w)
  BY <1>1 DEF Claim, Grade, OperationFails, WGoto, queue
<1>2. CASE wpc[w] # "free" /\ Complete(w)
  BY <1>2 DEF Complete, Free
<1>3. CASE HandlerThrows(w)
  BY <1>3 DEF HandlerThrows, Free
<1>4. CASE Stall(w)
  BY <1>4 DEF Stall, Redeliver, WorkerInv
<1>5. CASE Crash(w)
  BY <1>5 DEF Crash, Redeliver, Free
<1> QED BY <1>1, <1>2, <1>3, <1>4, <1>5 DEF Work, Fault, NothingToClaim, Store, StoreError

(* The lock: a job that waits is held by nobody, so taking it keeps every  *)
(* holder alone.                                                           *)
LocksInv ==
  \A w \in locked : /\ w \in Workers /\ wpc[w] # "free" /\ wjob[w] \in Calls
                    /\ job[wjob[w]] = "active"
                    /\ \A v \in locked : wjob[v] = wjob[w] => v = w

LEMMA LockStep == QueueInv /\ [Next]_vars => LocksInv'
<1> SUFFICES ASSUME QueueInv, [Next]_vars PROVE LocksInv'
  OBVIOUS
<1> USE DEF QueueInv, Type
<1>1. LocksInv
  BY DEF LocksInv, WorkerInv
<1>2. ASSUME NEW c \in Calls, Call(c) \/ CallFails(c) \/ Handler(c) \/ DropUnnamed(c)
      PROVE  LocksInv'
  <2>1. UNCHANGED worker
    BY <1>2, HandlerOnSubmission DEF Call, CallFails, DropUnnamed
  <2>2. \A x \in Calls : job[x] = "active" => job'[x] = "active"
    <3>1. CASE SubmitAdd(c)
      BY <3>1 DEF SubmitAdd, JobInv
    <3>2. CASE ~SubmitAdd(c)
      BY <1>2, <3>2 DEF Call, CallFails, Handler, DropUnnamed, SubmitClose, SubmitUpsert,
                        ResetFind, ResetDraft, QuestionUpsert, queue
    <3> QED BY <3>1, <3>2
  <2> QED BY <1>1, <2>1, <2>2 DEF LocksInv, worker
<1>3. ASSUME NEW c \in Calls, NEW w \in Workers, Take(w, c) PROVE LocksInv'
  <2>1. /\ job[c] = "waiting" /\ wpc[w] = "free" /\ job' = [job EXCEPT ![c] = "active"]
        /\ wjob' = [wjob EXCEPT ![w] = c] /\ wpc' = [wpc EXCEPT ![w] = "claim"]
        /\ locked' = locked \union {w}
    BY <1>3 DEF Take
  <2>2. w \notin locked /\ \A v \in locked : wjob[v] # c
    BY <1>1, <2>1 DEF LocksInv
  <2> QED BY <1>1, <2>1, <2>2 DEF LocksInv
<1>4. ASSUME NEW w \in Workers, Work(w) \/ Fault(w) PROVE LocksInv'
  BY <1>1, <1>4, WorkerMoves DEF LocksInv
<1>5. CASE UNCHANGED vars
  BY <1>1, <1>5 DEF LocksInv, vars, worker, queue
<1> QED BY <1>2, <1>3, <1>4, <1>5 DEF Next

LEMMA WorkerStep == QueueInv /\ [Next]_vars => WorkerInv'
<1> SUFFICES ASSUME QueueInv, [Next]_vars, NEW w \in Workers
             PROVE  /\ wpc'[w] # "free" => /\ wjob'[w] \in Calls /\ job'[wjob'[w]] # "none"
                                           /\ req'[wjob'[w]].kind = "submit"
                    /\ wpc'[w] \in {"grade", "store"} => wdata'[w] # None
                    /\ wpc'[w] = "store" => attempt'[req'[wjob'[w]].att].score # None
  BY LockStep DEF LocksInv, WorkerInv
<1> USE DEF QueueInv, Type
<1>1. CASE wpc'[w] = "free"
  BY <1>1
<1>2. CASE UNCHANGED <<wpc[w], wjob[w], wdata[w]>> /\ wpc[w] # "free"
  BY <1>2, OthersWork, JobsStay DEF WorkerInv
<1>3. ASSUME NEW c \in Calls, Take(w, c) PROVE /\ wpc'[w] = "claim" /\ wjob'[w] = c
                                              /\ job'[c] = "active" /\ req'[c].kind = "submit"
  BY <1>3 DEF Take, Named
<1>4. CASE Claim(w) \/ Grade(w) \/ OperationFails(w)
  <2>1. /\ wpc[w] # "free" /\ wjob'[w] = wjob[w] /\ job' = job /\ req' = req
        /\ wjob[w] \in Calls /\ job[wjob[w]] # "none" /\ req[wjob[w]].kind = "submit"
    BY <1>4 DEF Claim, Grade, OperationFails, WGoto, WorkerInv, queue
  <2>2. CASE Claim(w)
    BY <2>1, <2>2, Running DEF Claim
  <2>3. CASE Grade(w)
    <3>1. wdata[w] # None /\ req[wjob[w]].att \in Attempts /\ wpc'[w] = "store" /\ wdata' = wdata
      BY <2>1, <2>3, Running DEF Grade, WGoto, WorkerInv
    <3>2. attempt'[req[wjob[w]].att].score = wdata[w]
      BY <2>3, <3>1 DEF Grade
    <3> QED BY <2>1, <3>1, <3>2
  <2>4. CASE OperationFails(w)
    BY <2>1, <2>4 DEF OperationFails, WGoto
  <2> QED BY <1>4, <2>2, <2>3, <2>4
<1>5. \/ wpc'[w] = "free" \/ UNCHANGED <<wpc[w], wjob[w], wdata[w]>>
      \/ Claim(w) \/ Grade(w) \/ OperationFails(w) \/ \E c \in Calls : Take(w, c)
  <2>1. ASSUME NEW c \in Calls, Call(c) \/ CallFails(c) \/ Handler(c) \/ DropUnnamed(c)
        PROVE  UNCHANGED worker
    BY <2>1, HandlerOnSubmission DEF Call, CallFails, DropUnnamed
  <2>2. ASSUME NEW v \in Workers \ {w}, Work(v) \/ Fault(v)
        PROVE  UNCHANGED <<wpc[w], wjob[w], wdata[w]>>
    BY <2>2, WorkerMoves
  <2>3. ASSUME NEW v \in Workers \ {w}, NEW c \in Calls, Take(v, c)
        PROVE  UNCHANGED <<wpc[w], wjob[w], wdata[w]>>
    BY <2>3 DEF Take
  <2>4. ASSUME Work(w) \/ Fault(w)
        PROVE  \/ wpc'[w] = "free" \/ UNCHANGED <<wpc[w], wjob[w], wdata[w]>>
               \/ Claim(w) \/ Grade(w) \/ OperationFails(w)
    BY <2>4 DEF Work, Fault, NothingToClaim, Store, StoreError, HandlerThrows, Stall, Crash,
                Complete, Free
  <2> QED BY <2>1, <2>2, <2>3, <2>4 DEF Next, vars, worker
<1> QED BY <1>1, <1>2, <1>3, <1>4, <1>5

LEMMA GradedStep == QueueInv /\ [Next]_vars => ProcessedWasGraded'
<1> SUFFICES ASSUME QueueInv, [Next]_vars, NEW a \in Attempts,
                    sub'[a] # None, sub'[a].status = "processed", ~sub'[a].error
             PROVE  attempt'[a].score # None
  BY DEF ProcessedWasGraded
<1> USE DEF QueueInv, Type
<1>1. CASE sub'[a] = sub[a]
  BY <1>1, ScoreStays DEF ProcessedWasGraded
<1>2. ASSUME NEW c \in Calls, Handler(c), sub'[a] # sub[a] PROVE FALSE
  <2>1. CASE SubmitUpsert(c)
    <3>1. sub'[a].status = "draft"
      BY <1>2, <2>1 DEF SubmitUpsert
    <3> QED BY <3>1
  <2>2. CASE ResetDraft(c)
    <3>1. req[c].att = a /\ sub[a] \in Submissions
      BY <1>2, <2>2, HandlerOnSubmission DEF ResetDraft, CallInv
    <3>2. sub'[a] = [sub[a] EXCEPT !.status = "draft", !.error = FALSE]
      BY <2>2, <3>1 DEF ResetDraft
    <3> QED BY <3>1, <3>2 DEF Submissions
  <2>3. CASE QuestionUpsert(c)
    BY <1>2, <2>3 DEF QuestionUpsert
  <2> QED BY <1>2, <2>1, <2>2, <2>3 DEF Handler, SubmitClose, SubmitAdd, ResetFind
<1>3. ASSUME NEW w \in Workers, Work(w) \/ Fault(w), sub'[a] # sub[a]
      PROVE  attempt[a].score # None
  <2>1. wpc[w] # "free" /\ req[wjob[w]].att = a /\ sub[a] \in Submissions
    <3>1. wpc[w] # "free"
      BY <1>3, WorkerMoves
    <3>2. \/ UNCHANGED sub \/ \E d : sub' = [sub EXCEPT ![req[wjob[w]].att] = d]
      BY <1>3 DEF Work, Fault, Claim, NothingToClaim, Grade, Store, StoreError, OperationFails,
                  HandlerThrows, Stall, Crash
    <3> QED BY <1>3, <3>1, <3>2, Running
  <2>2. CASE Claim(w)
    <3>1. sub'[a] = [sub[a] EXCEPT !.status = "processing"]
      BY <2>1, <2>2 DEF Claim
    <3> QED BY <2>1, <3>1 DEF Submissions
  <2>3. CASE Store(w)
    BY <2>1, <2>3 DEF Store, WorkerInv
  <2>4. CASE StoreError(w)
    <3>1. sub'[a] = [sub[a] EXCEPT !.status = "processed", !.error = TRUE]
      BY <2>1, <2>4 DEF StoreError
    <3> QED BY <2>1, <3>1 DEF Submissions
  <2> QED BY <1>3, <2>2, <2>3, <2>4
          DEF Work, Fault, NothingToClaim, Grade, OperationFails, HandlerThrows, Stall, Crash
<1>4. ASSUME NEW c \in Calls, Call(c) \/ CallFails(c) \/ DropUnnamed(c) PROVE UNCHANGED sub
  BY <1>4 DEF Call, CallFails, DropUnnamed
<1>5. ASSUME NEW c \in Calls, NEW w \in Workers, Take(w, c) PROVE UNCHANGED sub
  BY <1>5 DEF Take
<1> QED BY <1>1, <1>2, <1>3, <1>4, <1>5, ScoreStays DEF Next, vars

LEMMA GradeType ==
  ASSUME NEW c \in Calls \union {None}
  PROVE  [ongoing |-> FALSE, evaluated |-> TRUE, score |-> c, over |-> c \in LongCalls]
           \in AttemptDocs
<1>1. \A o \in BOOLEAN :
        [ongoing |-> FALSE, evaluated |-> TRUE, score |-> c, over |-> o] \in AttemptDocs
  BY DEF AttemptDocs
<1>2. (c \in LongCalls) \in BOOLEAN
  OBVIOUS
<1> QED BY <1>1, <1>2, Zenon

LEMMA CloseType ==
  ASSUME NEW d \in AttemptDocs
  PROVE  [d EXCEPT !.ongoing = FALSE, !.evaluated = FALSE] \in AttemptDocs
BY DEF AttemptDocs

LEMMA TypeStep == QueueInv /\ [Next]_vars => Type'
<1> SUFFICES ASSUME QueueInv, [Next]_vars PROVE Type'
  OBVIOUS
<1> USE NothingTaken DEF QueueInv, Type
<1>1. ASSUME NEW c \in Calls, Call(c) PROVE Type'
  <2>1. PICK r \in Requests : req' = [req EXCEPT ![c] = r] /\ pc' = [pc EXCEPT ![c] = r.kind]
    BY <1>1, ConstantsAssumption DEF Call, Goto, Requests, ConstantsAssumption
  <2>2. r.kind \in AllKinds
    BY DEF Requests
  <2> QED BY <1>1, <2>1, <2>2 DEF Call, AllKinds, queue, worker
<1>2. ASSUME NEW c \in Calls, CallFails(c) \/ DropUnnamed(c) PROVE Type'
  BY <1>2 DEF CallFails, DropUnnamed, Goto, queue, worker
<1>3. ASSUME NEW c \in Calls, Handler(c) PROVE Type'
  <2>1. \E step \in {"upsert", "add", "ok", "redraft", "addUnnamed"} : Goto(c, step)
    BY <1>3 DEF Handler, SubmitClose, SubmitUpsert, SubmitAdd, ResetFind, ResetDraft,
                QuestionUpsert
  <2>2. attempt' \in [Attempts -> AttemptDocs]
    <3>1. CASE SubmitClose(c)
      <4> DEFINE d == [attempt[req[c].att] EXCEPT !.ongoing = FALSE, !.evaluated = FALSE]
      <4>1. req[c].att \in Attempts
        BY <1>3, HandlerOnSubmission
      <4>2. d \in AttemptDocs
        BY <4>1, CloseType
      <4>3. attempt' = [attempt EXCEPT ![req[c].att] = d]
        BY <3>1, <4>1 DEF SubmitClose, AttemptDocs
      <4> HIDE DEF d
      <4> QED BY <4>1, <4>2, <4>3
    <3>2. CASE ~SubmitClose(c)
      BY <1>3, <3>2 DEF Handler, SubmitUpsert, SubmitAdd, ResetFind, ResetDraft, QuestionUpsert
    <3> QED BY <3>1, <3>2
  <2>3. job' \in [Calls -> {"none", "waiting", "active", "done", "failed"}]
    BY <1>3 DEF Handler, SubmitClose, SubmitUpsert, SubmitAdd, ResetFind, ResetDraft,
                QuestionUpsert, queue
  <2>4. pc' \in [Calls -> {"idle", "submit", "upsert", "add", "reset", "redraft",
                          "addUnnamed", "question", "ok", "error"}]
    BY <2>1 DEF Goto
  <2>5. UNCHANGED <<req, worker, stalls, tries>>
    BY <1>3, HandlerOnSubmission
  <2> QED BY <2>2, <2>3, <2>4, <2>5 DEF worker
<1>4. ASSUME NEW c \in Calls, NEW w \in Workers, Take(w, c) PROVE Type'
  BY <1>4 DEF Take
<1>5. ASSUME NEW w \in Workers, Work(w) \/ Fault(w) PROVE Type'
  <2>1. UNCHANGED <<req, pc>> /\ wpc[w] # "free" /\ locked' \subseteq Workers
    BY <1>5, WorkOnSubmission, WorkerMoves
  <2>2. /\ wjob[w] \in Calls /\ req[wjob[w]].att \in Attempts
        /\ sub[req[wjob[w]].att] \in Submissions
    BY <2>1, Running
  <2>3. attempt' \in [Attempts -> AttemptDocs]
    <3>1. CASE Grade(w)
      <4> DEFINE d == [ongoing |-> FALSE, evaluated |-> TRUE,
                       score |-> wdata[w], over |-> wdata[w] \in LongCalls]
      <4>1. d \in AttemptDocs
        BY GradeType
      <4>2. attempt' = [attempt EXCEPT ![req[wjob[w]].att] = d]
        BY <3>1 DEF Grade
      <4> HIDE DEF d
      <4> QED BY <2>2, <4>1, <4>2
    <3>2. CASE ~Grade(w)
      BY <1>5, <3>2 DEF Work, Fault, Claim, NothingToClaim, Store, StoreError, OperationFails,
                        HandlerThrows, Stall, Crash
    <3> QED BY <3>1, <3>2
  <2>4. /\ job' \in [Calls -> {"none", "waiting", "active", "done", "failed"}]
        /\ stalls' \in [Calls -> 0 .. MaxStalled]
        /\ tries' \in [Calls -> 0 .. MaxTries]
    <3>1. CASE wpc[w] # "free" /\ Complete(w)
      BY <3>1 DEF Complete
    <3>2. CASE HandlerThrows(w)
      <4>1. w \in locked => tries[wjob[w]] < MaxTries
        BY DEF WorkerInv, JobInv
      <4> QED BY <2>2, <3>2, <4>1 DEF HandlerThrows, MaxTries
    <3>3. CASE Redeliver(w) /\ UNCHANGED tries
      BY <2>2, <3>3 DEF Redeliver, MaxStalled
    <3>4. CASE UNCHANGED <<job, stalls, tries>>
      BY <3>4
    <3> QED BY <1>5, <2>1, <3>1, <3>2, <3>3, <3>4
            DEF Work, Fault, Claim, NothingToClaim, Grade, Store, StoreError, OperationFails,
                Stall, Crash, queue
  <2>5. /\ wjob' \in [Workers -> Calls \union {None}]
        /\ wpc' \in [Workers -> {"free", "claim", "grade", "store", "storeError"}]
        /\ wdata' \in [Workers -> Calls \union {None}]
    <3>1. CASE Claim(w) \/ Grade(w) \/ OperationFails(w) \/ Stall(w)
      BY <2>2, <3>1 DEF Claim, Grade, OperationFails, Stall, WGoto, Submissions
    <3>2. CASE Free(w)
      BY <3>2 DEF Free
    <3> QED BY <1>5, <3>1, <3>2
            DEF Work, Fault, NothingToClaim, Store, StoreError, HandlerThrows, Crash, Complete
  <2> QED BY <2>1, <2>3, <2>4, <2>5
<1>6. CASE UNCHANGED vars
  BY <1>6 DEF vars, worker, queue
<1> QED BY <1>1, <1>2, <1>3, <1>4, <1>5, <1>6 DEF Next

LEMMA QueueStep == QueueInv /\ [Next]_vars => QueueInv'
BY TypeStep, CallStep, JobStep, WorkerStep, GradedStep DEF QueueInv

LEMMA AlwaysQueueInv == Spec => []QueueInv
<1>1. Init => QueueInv
  BY InitQueueInv
<1>2. QueueInv /\ [Next]_vars => QueueInv'
  BY QueueStep
<1> QED BY <1>1, <1>2, PTL DEF Spec

-----------------------------------------------------------------------------
(* Every state of the queue, of the submissions and of the workers is one  *)
(* of those listed, and no job is tried or found stalled more often than   *)
(* Bull's limits allow.                                                    *)
THEOREM TypeCorrect == Spec => []Type
<1>1. QueueInv => Type
  BY DEF QueueInv
<1> QED BY <1>1, AlwaysQueueInv, PTL

(* A submission that the worker has stored as processed, without an error, *)
(* belongs to an attempt that has marks.                                   *)
THEOREM StatusFollowsGrading == Spec => []ProcessedWasGraded
<1>1. QueueInv => ProcessedWasGraded
  BY DEF QueueInv
<1> QED BY <1>1, AlwaysQueueInv, PTL

(* A worker that grades has answers of a hand-in, never the draft that     *)
(* questionSubmit makes.                                                   *)
THEOREM ClaimsHaveAnswers == Spec => []ClaimsCarryAnswers
<1>1. QueueInv => ClaimsCarryAnswers
  BY DEF QueueInv, WorkerInv, ClaimsCarryAnswers
<1> QED BY <1>1, AlwaysQueueInv, PTL

-----------------------------------------------------------------------------
(* The queue implements GradeOnce.                                         *)
Drafts == {a \in Attempts : Draft(a)}
Claims == [a \in Attempts |-> Grading(a)]
Marks  == [a \in Attempts |-> attempt[a].score]

(* A step that brings nobody to the grading and takes nobody off it.       *)
LEMMA ClaimsSame ==
  ASSUME QueueInv, [Next]_vars,
         \A w \in Workers : wpc'[w] = "grade" <=> wpc[w] = "grade",
         \A w \in Workers : wpc[w] = "grade" => wjob'[w] = wjob[w]
  PROVE  Claims' = Claims
<1>1. ASSUME NEW w \in Workers, wpc[w] = "grade"
      PROVE  req'[wjob'[w]] = req[wjob[w]]
  <2>1. wjob[w] \in Calls /\ pc[wjob[w]] # "idle"
    BY <1>1, Running
  <2> QED BY <1>1, <2>1, NothingTaken
<1>2. ASSUME NEW a \in Attempts PROVE Grading(a)' = Grading(a)
  BY <1>1 DEF Grading
<1> QED BY <1>2 DEF Claims

LEMMA DraftsSame == UNCHANGED sub => Drafts' = Drafts
BY DEF Drafts, Draft

LEMMA DraftsAdd ==
  ASSUME QueueInv, NEW a \in Attempts, NEW d, d # None, d.status = "draft",
         sub' = [sub EXCEPT ![a] = d]
  PROVE  Drafts' = Drafts \union {a}
BY DEF Drafts, Draft, QueueInv, Type

LEMMA DraftsRemove ==
  ASSUME QueueInv, NEW a \in Attempts, NEW d, d.status # "draft",
         sub' = [sub EXCEPT ![a] = d]
  PROVE  Drafts' = Drafts \ {a}
BY DEF Drafts, Draft, QueueInv, Type

LEMMA InitPromise == Init => Promise!Init
BY DEF Init, Promise!Init, Draft, Grading

(* A step of a request stores a hand-in, or changes nothing of the promise. *)
LEMMA HandlerKeepsPromise ==
  ASSUME QueueInv, [Next]_vars, NEW c \in Calls, Handler(c)
  PROVE  /\ UNCHANGED <<Claims, Marks>>
         /\ UNCHANGED Drafts \/ \E a \in Attempts : Drafts' = Drafts \union {a}
<1> DEFINE a == req[c].att
<1>1. UNCHANGED worker /\ a \in Attempts
  BY HandlerOnSubmission
<1>2. UNCHANGED Claims
  BY <1>1, ClaimsSame DEF worker
<1>3. UNCHANGED Marks
  <2>1. CASE SubmitClose(c)
    BY <2>1 DEF SubmitClose, Marks, QueueInv, Type, AttemptDocs
  <2>2. CASE ~SubmitClose(c)
    BY <2>2 DEF Handler, SubmitUpsert, SubmitAdd, ResetFind, ResetDraft, QuestionUpsert, Marks
  <2> QED BY <2>1, <2>2
<1>4. UNCHANGED Drafts \/ \E b \in Attempts : Drafts' = Drafts \union {b}
  <2>1. CASE SubmitUpsert(c)
    <3> DEFINE d == [status |-> "draft", data |-> c, error |-> sub[a] # None /\ sub[a].error]
    <3>1. d # None /\ d.status = "draft"
      BY DraftType, NoneAssumption DEF NoneAssumption
    <3>2. sub' = [sub EXCEPT ![a] = d]
      BY <2>1 DEF SubmitUpsert
    <3> HIDE DEF d, a
    <3> QED BY <1>1, <3>1, <3>2, DraftsAdd
  <2>2. CASE ResetDraft(c)
    <3> DEFINE d == [sub[a] EXCEPT !.status = "draft", !.error = FALSE]
    <3>1. sub[a] \in Submissions
      BY <1>1, <2>2 DEF ResetDraft, QueueInv, CallInv, Type
    <3>2. d \in Submissions /\ d.status = "draft"
      BY <3>1 DEF Submissions
    <3>3. sub' = [sub EXCEPT ![a] = d] /\ d # None
      BY <2>2, <3>2, NoneAssumption DEF ResetDraft, NoneAssumption
    <3> HIDE DEF d, a
    <3> QED BY <1>1, <3>2, <3>3, DraftsAdd
  <2>3. CASE QuestionUpsert(c)
    <3> DEFINE d == [status |-> "draft", data |-> None, error |-> FALSE]
    <3>1. d \in Submissions /\ d.status = "draft"
      BY DEF Submissions
    <3>2. sub' = sub \/ sub' = [sub EXCEPT ![a] = d]
      BY <2>3 DEF QuestionUpsert
    <3>3. d # None
      BY <3>1, NoneAssumption DEF NoneAssumption
    <3> HIDE DEF d, a
    <3> QED BY <1>1, <3>1, <3>2, <3>3, DraftsAdd, DraftsSame
  <2>4. CASE SubmitClose(c) \/ SubmitAdd(c) \/ ResetFind(c)
    BY <2>4, DraftsSame DEF SubmitClose, SubmitAdd, ResetFind
  <2> QED BY <2>1, <2>2, <2>3, <2>4 DEF Handler
<1> QED BY <1>2, <1>3, <1>4

(* A worker claims a draft, grades what it claimed, loses its claim,       *)
(* refuses a draft by storing a result over it, or changes nothing.        *)
LEMMA WorkKeepsPromise ==
  ASSUME QueueInv, [Next]_vars, NEW w \in Workers, Work(w) \/ Fault(w)
  PROVE  \/ UNCHANGED <<Drafts, Claims, Marks>>
         \/ \E a \in Attempts :
              \/ a \in Drafts /\ Drafts' = Drafts \ {a} /\ UNCHANGED <<Claims, Marks>>
              \/ /\ a \in Drafts /\ w \notin Claims[a] /\ Drafts' = Drafts \ {a}
                 /\ Claims' = [Claims EXCEPT ![a] = @ \union {w}] /\ UNCHANGED Marks
              \/ /\ w \in Claims[a] /\ Claims' = [Claims EXCEPT ![a] = @ \ {w}]
                 /\ UNCHANGED Drafts
                 /\ UNCHANGED Marks \/ \E c \in Calls : Marks' = [Marks EXCEPT ![a] = c]
<1> DEFINE a == req[wjob[w]].att
<1>1. wpc[w] # "free"
  BY WorkerMoves
<1>2. /\ wjob[w] \in Calls /\ a \in Attempts /\ UNCHANGED req
      /\ sub[a] \in Submissions /\ sub[a] # None /\ sub[a].data # None
  BY <1>1, Running, WorkOnSubmission, NoneAssumption DEF NoneAssumption
<1>3. \A v \in Workers \ {w} : wpc'[v] = wpc[v] /\ wjob'[v] = wjob[v]
  BY WorkerMoves
<1>4. Grade(w) \/ UNCHANGED Marks
  BY DEF Work, Fault, Claim, NothingToClaim, Store, StoreError, OperationFails, HandlerThrows,
         Stall, Crash, Marks
<1>5. ASSUME wpc[w] # "grade", wpc'[w] # "grade" PROVE UNCHANGED Claims
  BY <1>3, <1>5, ClaimsSame
<1>6. ASSUME wpc[w] = "grade", wpc'[w] # "grade"
      PROVE  w \in Claims[a] /\ Claims' = [Claims EXCEPT ![a] = @ \ {w}]
  <2>1. \A b \in Attempts : Grading(b)' = IF b = a THEN Grading(b) \ {w} ELSE Grading(b)
    BY <1>2, <1>3, <1>6 DEF Grading
  <2>2. w \in Grading(a)
    BY <1>2, <1>6 DEF Grading
  <2> HIDE DEF a
  <2> QED BY <1>2, <2>1, <2>2 DEF Claims
<1>7. CASE Claim(w)
  <2>1. a \in Drafts /\ Drafts' = Drafts \ {a}
    <3> DEFINE d == [sub[a] EXCEPT !.status = "processing"]
    <3>1. d.status # "draft" /\ sub' = [sub EXCEPT ![a] = d]
      BY <1>2, <1>7 DEF Claim, Submissions
    <3>2. a \in Drafts
      BY <1>2, <1>7 DEF Claim, Drafts, Draft
    <3> HIDE DEF d, a
    <3> QED BY <1>2, <3>1, <3>2, DraftsRemove
  <2>2. /\ wpc[w] = "claim" /\ wpc'[w] = "grade" /\ wjob'[w] = wjob[w]
    BY <1>7 DEF Claim, QueueInv, Type
  <2>3. \A b \in Attempts : Grading(b)' = IF b = a THEN Grading(b) \union {w} ELSE Grading(b)
    BY <1>2, <1>3, <2>2 DEF Grading
  <2>4. w \notin Grading(a)
    BY <2>2 DEF Grading
  <2>5. Claims' = [Claims EXCEPT ![a] = @ \union {w}] /\ w \notin Claims[a]
    <3> HIDE DEF a
    <3> QED BY <1>2, <2>3, <2>4 DEF Claims
  <2>6. UNCHANGED Marks
    BY <1>7 DEF Claim, Marks
  <2> HIDE DEF a
  <2> QED BY <1>2, <2>1, <2>5, <2>6
<1>8. CASE Grade(w)
  <2>1. wpc[w] = "grade" /\ wpc'[w] # "grade" /\ UNCHANGED Drafts
    BY <1>8, DraftsSame DEF Grade, WGoto, QueueInv, Type
  <2>2. wdata[w] \in Calls
    BY <2>1 DEF QueueInv, WorkerInv, Type
  <2>3. Marks' = [Marks EXCEPT ![a] = wdata[w]]
    <3> DEFINE d == [ongoing |-> FALSE, evaluated |-> TRUE,
                     score |-> wdata[w], over |-> wdata[w] \in LongCalls]
    <3>1. attempt' = [attempt EXCEPT ![a] = d] /\ d.score = wdata[w]
      BY <1>8 DEF Grade
    <3> HIDE DEF d, a
    <3> QED BY <1>2, <3>1 DEF Marks, QueueInv, Type
  <2> HIDE DEF a
  <2> QED BY <1>2, <1>6, <2>1, <2>2, <2>3
<1>9. CASE Store(w) \/ StoreError(w)
  <2>1. wpc[w] # "grade" /\ wpc'[w] # "grade" /\ ~Grade(w)
    BY <1>9 DEF Store, StoreError, Complete, Free, QueueInv, Type, Grade
  <2>2. Drafts' = Drafts \ {a}
    <3>1. PICK e \in BOOLEAN : sub' = [sub EXCEPT ![a] = [@ EXCEPT !.status = "processed", !.error = e]]
      BY <1>2, <1>9 DEF Store, StoreError
    <3> DEFINE d == [sub[a] EXCEPT !.status = "processed", !.error = e]
    <3>2. d.status # "draft" /\ sub' = [sub EXCEPT ![a] = d]
      BY <1>2, <3>1 DEF Submissions
    <3> HIDE DEF d, a
    <3> QED BY <1>2, <3>2, DraftsRemove
  <2> HIDE DEF a
  <2>3. CASE a \in Drafts
    BY <1>2, <1>4, <1>5, <2>1, <2>2, <2>3
  <2>4. CASE a \notin Drafts
    <3>1. UNCHANGED Drafts
      BY <2>2, <2>4
    <3> QED BY <1>4, <1>5, <2>1, <3>1
  <2> QED BY <2>3, <2>4
<1>10. CASE OperationFails(w) \/ Crash(w) \/ NothingToClaim(w) \/ HandlerThrows(w)
  <2>1. wpc'[w] # "grade" /\ UNCHANGED Drafts /\ UNCHANGED Marks
    BY <1>10, DraftsSame DEF OperationFails, Crash, NothingToClaim, HandlerThrows, WGoto, Complete,
                             Free, QueueInv, Type, Marks
  <2> HIDE DEF a
  <2> QED BY <1>2, <1>5, <1>6, <2>1
<1>11. CASE Stall(w)
  <2>1. UNCHANGED <<sub, attempt, wpc, wjob>>
    BY <1>11 DEF Stall
  <2> QED BY <2>1, DraftsSame, ClaimsSame DEF Marks
<1> QED BY <1>7, <1>8, <1>9, <1>10, <1>11 DEF Work, Fault

LEMMA NextPromise == QueueInv /\ [Next]_vars => [Promise!Next]_(Promise!vars)
<1> SUFFICES ASSUME QueueInv, [Next]_vars PROVE [Promise!Next]_(Promise!vars)
  OBVIOUS
<1>1. CASE UNCHANGED <<Drafts, Claims, Marks>>
  BY <1>1 DEF Promise!vars, Drafts, Claims, Marks
<1>2. ASSUME NEW c \in Calls, Call(c) \/ CallFails(c) \/ DropUnnamed(c)
      PROVE  UNCHANGED <<Drafts, Claims, Marks>>
  <2>1. UNCHANGED <<sub, attempt, wpc, wjob>>
    BY <1>2 DEF Call, CallFails, DropUnnamed, worker
  <2> QED BY <2>1, DraftsSame, ClaimsSame DEF Marks
<1>3. ASSUME NEW c \in Calls, NEW w \in Workers, Take(w, c)
      PROVE  UNCHANGED <<Drafts, Claims, Marks>>
  <2>1. UNCHANGED <<sub, attempt>> /\ wpc[w] = "free" /\ wpc'[w] = "claim"
        /\ \A v \in Workers \ {w} : wpc'[v] = wpc[v] /\ wjob'[v] = wjob[v]
    BY <1>3 DEF Take, QueueInv, Type
  <2> QED BY <2>1, DraftsSame, ClaimsSame DEF Marks
<1>4. ASSUME NEW c \in Calls, Handler(c) PROVE [Promise!Next]_(Promise!vars)
  <2>1. CASE UNCHANGED Drafts
    BY <1>1, <1>4, <2>1, HandlerKeepsPromise
  <2>2. ASSUME NEW a \in Attempts, Drafts' = Drafts \union {a} PROVE Promise!HandIn(a)
    BY <1>4, <2>2, HandlerKeepsPromise DEF Promise!HandIn, Drafts, Claims, Marks
  <2> QED BY <1>4, <2>1, <2>2, HandlerKeepsPromise DEF Promise!Next
<1>5. ASSUME NEW w \in Workers, Work(w) \/ Fault(w) PROVE [Promise!Next]_(Promise!vars)
  <2>1. ASSUME NEW a \in Attempts, a \in Drafts, Drafts' = Drafts \ {a},
               UNCHANGED <<Claims, Marks>>
        PROVE  Promise!Refuse(a)
    BY <2>1 DEF Promise!Refuse, Drafts, Claims, Marks
  <2>2. ASSUME NEW a \in Attempts, a \in Drafts, w \notin Claims[a], Drafts' = Drafts \ {a},
               Claims' = [Claims EXCEPT ![a] = @ \union {w}], UNCHANGED Marks
        PROVE  Promise!Claim(a, w)
    BY <2>2 DEF Promise!Claim, Drafts, Claims, Marks
  <2>3. ASSUME NEW a \in Attempts, w \in Claims[a], Claims' = [Claims EXCEPT ![a] = @ \ {w}],
               UNCHANGED Drafts, UNCHANGED Marks
        PROVE  Promise!Lose(a, w)
    BY <2>3 DEF Promise!Lose, Drafts, Claims, Marks
  <2>4. ASSUME NEW a \in Attempts, w \in Claims[a], Claims' = [Claims EXCEPT ![a] = @ \ {w}],
               UNCHANGED Drafts, NEW c \in Calls, Marks' = [Marks EXCEPT ![a] = c]
        PROVE  Promise!Grade(a, w)
    BY <2>4 DEF Promise!Grade, Drafts, Claims, Marks
  <2> QED BY <1>1, <1>5, <2>1, <2>2, <2>3, <2>4, WorkKeepsPromise DEF Promise!Next
<1>6. CASE UNCHANGED vars
  BY <1>1, <1>6, DraftsSame, ClaimsSame DEF vars, worker, Marks
<1> QED BY <1>1, <1>2, <1>3, <1>4, <1>5, <1>6 DEF Next

(* Marks come only from a worker that claimed a stored hand-in, and from   *)
(* each claim at most once, however Bull delivers the jobs.                *)
THEOREM QueueGradesAtMostOnce == Spec => GradesAtMostOnce
<1>1. Init => Promise!Init
  BY InitPromise
<1>2. QueueInv /\ [Next]_vars => [Promise!Next]_(Promise!vars)
  BY NextPromise
<1> QED BY <1>1, <1>2, AlwaysQueueInv, PTL DEF Spec, GradesAtMostOnce, Promise!Spec


-----------------------------------------------------------------------------
(* Clients that wait                                                       *)

(* One hand-in of an attempt is on its way at a time: its call, its job    *)
(* and the worker that runs it carry the answers on record.                *)
Pending(c) == pc[c] = "add" \/ job[c] \in {"waiting", "active"}

RecordInv(a) ==
  LET c == sub[a].data IN
  /\ req[c].att = a /\ pc[c] \in {"add", "ok"}
  /\ sub[a].status # "processed" => Pending(c)
  /\ sub[a].status = "processed" /\ ~sub[a].error => attempt[a].score = c

RequestInv(c) ==
  LET a == req[c].att IN
  /\ pc[c] # "idle" => req[c].kind # "reset"
  /\ job[c] # "none" => req[c].kind = "submit"
  /\ Pending(c) => HandedIn(a) /\ sub[a].data = c /\ sub[a].status # "processed"
  /\ pc[c] = "add" \/ job[c] = "waiting" => sub[a].status = "draft"
  /\ pc[c] \in {"submit", "upsert"} /\ HandedIn(a) => sub[a].status = "processed"
  /\ \A d \in Calls : Active(c) /\ Active(d) /\ req[d].att = a => c = d

RunInv(w) ==
  LET a == req[wjob[w]].att IN
  /\ w \in locked
  /\ wpc[w] = "claim" => sub[a].status = "draft"
  /\ wpc[w] = "grade" => sub[a].status = "processing" /\ wdata[w] = wjob[w]
  /\ wpc[w] = "store" => sub[a].status = "processing" /\ attempt[a].score = wjob[w]

RoundInv ==
  /\ \A a \in Attempts : HandedIn(a) => RecordInv(a)
  /\ \A c \in Calls : RequestInv(c)
  /\ \A w \in Workers : wpc[w] # "free" => RunInv(w)

LEMMA Current ==
  ASSUME QueueInv, RoundInv, NEW w \in Workers, wpc[w] # "free"
  PROVE  LET c == wjob[w]  a == req[c].att IN
         /\ c \in Calls /\ a \in Attempts /\ c # None
         /\ pc[c] = "ok" /\ job[c] = "active" /\ w \in locked
         /\ sub[a] \in Submissions /\ sub[a].data = c /\ sub[a].status # "processed" /\ HandedIn(a)
         /\ \A x \in Calls : Pending(x) /\ req[x].att = a => x = c
         /\ \A x \in Calls : pc[x] \in {"submit", "upsert"} => req[x].att # a
         /\ \A v \in Workers \ {w} : wpc[v] # "free" => wjob[v] \in Calls /\ req[wjob[v]].att # a
<1> DEFINE c == wjob[w]
           a == req[c].att
<1>1. /\ c \in Calls /\ a \in Attempts /\ sub[a] \in Submissions /\ c # None
      /\ pc[c] \in {"ok", "error"}
  BY Running, NoneAssumption DEF NoneAssumption
<1>2. w \in locked /\ job[c] = "active" /\ Pending(c)
  BY DEF RoundInv, RunInv, QueueInv, WorkerInv, Pending
<1>3. sub[a].data = c /\ sub[a].status # "processed" /\ HandedIn(a)
  BY <1>1, <1>2 DEF RoundInv, RequestInv
<1>4. pc[c] = "ok"
  BY <1>1, <1>3 DEF RoundInv, RecordInv
<1>5. \A x \in Calls : Pending(x) /\ req[x].att = a => x = c
  BY <1>3 DEF RoundInv, RequestInv
<1>6. \A x \in Calls : pc[x] \in {"submit", "upsert"} => req[x].att # a
  BY <1>3 DEF RoundInv, RequestInv
<1>7. ASSUME NEW v \in Workers \ {w}, wpc[v] # "free" PROVE wjob[v] \in Calls /\ req[wjob[v]].att # a
  <2>1. wjob[v] \in Calls /\ v \in locked /\ job[wjob[v]] = "active"
    BY <1>7, Running DEF RoundInv, RunInv, QueueInv, WorkerInv
  <2>2. wjob[v] # c
    BY <1>2, <2>1 DEF QueueInv, WorkerInv
  <2> QED BY <1>5, <2>1, <2>2 DEF Pending
<1> QED BY <1>1, <1>2, <1>3, <1>4, <1>5, <1>6, <1>7

(* A step of the worker that runs job c of attempt a: the round goes on,   *)
(* or ends with the status and the job.                                    *)
LEMMA RoundGoes ==
  ASSUME QueueInv, RoundInv, NEW w \in Workers, wpc[w] # "free", UNCHANGED <<req, pc>>,
         NEW s \in Submissions, sub' = [sub EXCEPT ![req[wjob[w]].att] = s], s.data = wjob[w],
         \A b \in Attempts \ {req[wjob[w]].att} : attempt'[b] = attempt[b],
         \A x \in Calls \ {wjob[w]} : job'[x] = job[x],
         \A v \in Workers \ {w} : /\ wpc'[v] = wpc[v] /\ wjob'[v] = wjob[v] /\ wdata'[v] = wdata[v]
                                  /\ v \in locked => v \in locked',
         \/ /\ job'[wjob[w]] = "active" /\ s.status # "processed" /\ wjob'[w] = wjob[w]
            /\ w \in locked' /\ wpc'[w] # "claim"
            /\ wpc'[w] = "grade" => s.status = "processing" /\ wdata'[w] = wjob[w]
            /\ wpc'[w] = "store" => /\ s.status = "processing"
                                    /\ attempt'[req[wjob[w]].att].score = wjob[w]
         \/ /\ job'[wjob[w]] = "done" /\ s.status = "processed" /\ wpc'[w] = "free"
            /\ ~s.error => attempt'[req[wjob[w]].att].score = wjob[w]
  PROVE  RoundInv'
<1> DEFINE c == wjob[w]
           a == req[c].att
<1>1. /\ c \in Calls /\ a \in Attempts /\ c # None
      /\ pc[c] = "ok" /\ job[c] = "active" /\ w \in locked
      /\ sub[a] \in Submissions /\ sub[a].data = c /\ sub[a].status # "processed" /\ HandedIn(a)
      /\ \A x \in Calls : Pending(x) /\ req[x].att = a => x = c
      /\ \A x \in Calls : pc[x] \in {"submit", "upsert"} => req[x].att # a
      /\ \A v \in Workers \ {w} : wpc[v] # "free" => wjob[v] \in Calls /\ req[wjob[v]].att # a
  BY Current
<1>2. sub'[a] = s /\ s # None /\ \A b \in Attempts \ {a} : sub'[b] = sub[b]
  BY <1>1, NoneAssumption DEF QueueInv, Type, NoneAssumption
<1>3. sub'[a] # None /\ sub'[a].data # None
  BY <1>1, <1>2
<1>4. \/ job'[c] = "active" /\ s.status # "processed"
      \/ job'[c] = "done" /\ s.status = "processed" /\ (~s.error => attempt'[a].score = c)
  OBVIOUS
<1>5. ASSUME NEW b \in Attempts, HandedIn(b)' PROVE RecordInv(b)'
  <2>1. CASE b = a
    <3>1. sub'[b] = s /\ s.data = c /\ req'[c].att = b /\ pc'[c] = "ok"
      BY <1>1, <1>2, <2>1
    <3>2. s.status # "processed" => Pending(c)'
      BY <1>4 DEF Pending
    <3> QED BY <1>4, <2>1, <3>1, <3>2 DEF RecordInv
  <2>2. CASE b # a
    <3>1. HandedIn(b) /\ sub'[b] = sub[b] /\ attempt'[b] = attempt[b]
      BY <1>2, <1>5, <2>2 DEF HandedIn
    <3>2. RecordInv(b)
      BY <3>1 DEF RoundInv
    <3>3. sub[b].data \in Calls /\ sub[b].data # c
      <4>1. sub[b] \in Submissions /\ sub[b].data # None
        BY <3>1 DEF HandedIn, QueueInv, Type
      <4> QED BY <2>2, <3>2, <4>1 DEF RecordInv, Submissions
    <3> QED BY <3>1, <3>2, <3>3 DEF RecordInv, Pending
  <2> QED BY <2>1, <2>2
<1>6. ASSUME NEW x \in Calls PROVE RequestInv(x)'
  <2>1. RequestInv(x)
    BY DEF RoundInv
  <2>2. CASE x = c
    <3>1. req'[x] = req[x] /\ req[x].att = a /\ pc'[x] = "ok" /\ pc[x] = "ok"
      BY <1>1, <2>2
    <3>2. sub'[a] # None /\ sub'[a].data = x /\ x # None /\ sub'[a].status = s.status
      BY <1>1, <1>2, <2>2
    <3>3. /\ job[x] = "active" /\ job'[x] \in {"active", "done"}
          /\ Pending(x)' => s.status # "processed"
      BY <1>1, <1>4, <2>2, <3>1 DEF Pending
    <3>4. ~Active(x)'
      BY <3>1 DEF Active
    <3> QED BY <2>1, <3>1, <3>2, <3>3, <3>4 DEF RequestInv, HandedIn
  <2>3. CASE x # c /\ req[x].att = a
    <3>1. ~Pending(x) /\ pc[x] \notin {"submit", "upsert"} /\ job'[x] = job[x]
      BY <1>1, <2>3
    <3>2. ~Pending(x)' /\ ~(pc'[x] = "add" \/ job'[x] = "waiting")
      BY <3>1 DEF Pending
    <3> QED BY <2>1, <3>1, <3>2 DEF RequestInv, Active
  <2>4. CASE x # c /\ req[x].att # a
    <3>1. job'[x] = job[x] /\ (Pending(x)' <=> Pending(x))
      BY <2>4 DEF Pending
    <3>2. pc[x] # "idle" => req[x].att \in Attempts
      BY DEF QueueInv, CallInv, Requests
    <3>3. job[x] # "none" => pc[x] # "idle"
      BY DEF QueueInv, JobInv
    <3>4. pc[x] # "idle" => sub'[req[x].att] = sub[req[x].att]
      BY <1>2, <2>4, <3>2
    <3>5. Pending(x) \/ job[x] = "waiting" => pc[x] # "idle"
      BY <3>3 DEF Pending
    <3> QED BY <2>1, <3>1, <3>3, <3>4, <3>5 DEF RequestInv, Active, HandedIn
  <2> QED BY <2>2, <2>3, <2>4
<1>7. ASSUME NEW v \in Workers, wpc'[v] # "free" PROVE RunInv(v)'
  <2>1. CASE v = w
    BY <1>1, <1>2, <1>7, <2>1 DEF RunInv
  <2>2. CASE v # w
    <3>1. wpc[v] # "free" /\ wjob'[v] = wjob[v] /\ wdata'[v] = wdata[v] /\ wpc'[v] = wpc[v]
      BY <1>7, <2>2
    <3>2. req[wjob[v]].att \in Attempts /\ req[wjob[v]].att # a /\ RunInv(v)
      BY <1>1, <2>2, <3>1, Running DEF RoundInv
    <3> QED BY <1>2, <2>2, <3>1, <3>2 DEF RunInv
  <2> QED BY <2>1, <2>2
<1> QED BY <1>5, <1>6, <1>7 DEF RoundInv

LEMMA RoundOfWork ==
  ASSUME QueueInv, RoundInv, NEW w \in Workers, Work(w) \/ OperationFails(w)
  PROVE  RoundInv'
<1> DEFINE c == wjob[w]
           a == req[c].att
<1>1. wpc[w] # "free" /\ UNCHANGED <<req, pc>>
  BY DEF Work, Claim, NothingToClaim, Grade, Store, StoreError, OperationFails
<1>2. /\ c \in Calls /\ a \in Attempts /\ job[c] = "active" /\ w \in locked
      /\ sub[a] \in Submissions /\ sub[a].data = c /\ sub[a].status # "processed" /\ HandedIn(a)
  BY <1>1, Current
<1>3. RunInv(w) /\ sub = [sub EXCEPT ![a] = sub[a]] /\ Type
  BY <1>1, <1>2 DEF RoundInv, QueueInv, Type
<1>4. \A v \in Workers \ {w} : /\ wpc'[v] = wpc[v] /\ wjob'[v] = wjob[v] /\ wdata'[v] = wdata[v]
                               /\ v \in locked => v \in locked'
  BY WorkerMoves DEF Fault
<1>5. CASE Claim(w)
  <2>1. PICK s \in Submissions : s = [sub[a] EXCEPT !.status = "processing"]
    BY <1>2 DEF Submissions
  <2>2. s.data = c /\ s.status = "processing"
    BY <1>2, <2>1 DEF Submissions
  <2>3. /\ sub' = [sub EXCEPT ![a] = s] /\ UNCHANGED <<attempt, job, wjob, locked>>
        /\ wpc' = [wpc EXCEPT ![w] = "grade"] /\ wdata' = [wdata EXCEPT ![w] = sub[a].data]
    BY <1>5, <2>1 DEF Claim, queue
  <2>4. wpc'[w] = "grade" /\ wdata'[w] = c /\ job'[c] = "active" /\ wjob'[w] = c /\ w \in locked'
    BY <1>2, <1>3, <2>3 DEF Type
  <2> QED BY <1>1, <1>2, <1>4, <2>2, <2>3, <2>4, RoundGoes
<1>6. CASE NothingToClaim(w)
  BY <1>2, <1>3, <1>6 DEF NothingToClaim, RunInv, HandedIn
<1>7. CASE Grade(w)
  <2>1. wpc[w] = "grade" /\ UNCHANGED <<sub, job, wjob, wdata, locked>>
        /\ wpc' = [wpc EXCEPT ![w] = "store"]
        /\ attempt' = [attempt EXCEPT ![a] = [ongoing |-> FALSE, evaluated |-> TRUE,
                                        score |-> wdata[w], over |-> wdata[w] \in LongCalls]]
    BY <1>7 DEF Grade, WGoto, queue
  <2>2. wdata[w] = c /\ sub[a].status = "processing"
    BY <1>3, <2>1 DEF RunInv
  <2>3. attempt'[a].score = c /\ \A b \in Attempts \ {a} : attempt'[b] = attempt[b]
    BY <1>2, <1>3, <2>1, <2>2 DEF Type
  <2>4. wpc'[w] = "store" /\ job'[c] = "active" /\ wjob'[w] = c /\ w \in locked'
    BY <1>2, <1>3, <2>1 DEF Type
  <2>5. sub' = [sub EXCEPT ![a] = sub[a]]
    BY <1>3, <2>1
  <2> QED BY <1>1, <1>2, <1>4, <2>1, <2>2, <2>3, <2>4, <2>5, RoundGoes
<1>8. ASSUME wpc'[w] = "free", job' = [job EXCEPT ![c] = "done"], UNCHANGED attempt,
             NEW s \in Submissions, sub' = [sub EXCEPT ![a] = s], s.data = c, s.status = "processed",
             ~s.error => attempt[a].score = c
      PROVE  RoundInv'
  <2>1. job'[c] = "done" /\ \A x \in Calls \ {c} : job'[x] = job[x]
    BY <1>2, <1>3, <1>8 DEF Type
  <2> QED BY <1>1, <1>2, <1>4, <1>8, <2>1, RoundGoes
<1>9. CASE Store(w)
  <2>1. PICK s \in Submissions : s = [sub[a] EXCEPT !.status = "processed", !.error = FALSE]
    BY <1>2 DEF Submissions
  <2>2. s.data = c /\ s.status = "processed"
    BY <1>2, <2>1 DEF Submissions
  <2>3. attempt[a].score = c
    BY <1>3, <1>9 DEF Store, RunInv
  <2>4. /\ sub' = [sub EXCEPT ![a] = s] /\ UNCHANGED attempt
        /\ job' = [job EXCEPT ![c] = "done"] /\ wpc' = [wpc EXCEPT ![w] = "free"]
    BY <1>2, <1>9, <2>1 DEF Store, Complete, Free
  <2>5. wpc'[w] = "free"
    BY <1>3, <2>4 DEF Type
  <2> QED BY <1>8, <2>2, <2>3, <2>4, <2>5
<1>10. CASE StoreError(w)
  <2>1. PICK s \in Submissions : s = [sub[a] EXCEPT !.status = "processed", !.error = TRUE]
    BY <1>2 DEF Submissions
  <2>2. s.data = c /\ s.status = "processed" /\ s.error
    BY <1>2, <2>1 DEF Submissions
  <2>3. sub[a] # None
    BY <1>2 DEF HandedIn
  <2>4. /\ sub' = [sub EXCEPT ![a] = s] /\ UNCHANGED attempt
        /\ job' = [job EXCEPT ![c] = "done"] /\ wpc' = [wpc EXCEPT ![w] = "free"]
    BY <1>2, <1>10, <2>1, <2>3 DEF StoreError, Complete, Free
  <2>5. wpc'[w] = "free"
    BY <1>3, <2>4 DEF Type
  <2> QED BY <1>8, <2>2, <2>4, <2>5
<1>11. CASE OperationFails(w)
  <2>1. UNCHANGED <<sub, attempt, job, wjob, wdata, locked>> /\ wpc' = [wpc EXCEPT ![w] = "storeError"]
    BY <1>11 DEF OperationFails, WGoto, queue
  <2>2. wpc'[w] = "storeError" /\ job'[c] = "active" /\ wjob'[w] = c /\ w \in locked'
    BY <1>2, <1>3, <2>1 DEF Type
  <2>3. sub' = [sub EXCEPT ![a] = sub[a]]
    BY <1>3, <2>1
  <2> QED BY <1>1, <1>2, <1>4, <2>1, <2>2, <2>3, RoundGoes
<1> QED BY <1>5, <1>6, <1>7, <1>9, <1>10, <1>11 DEF Work

LEMMA RoundOfCall ==
  ASSUME OneAtATime, "reset" \notin Kinds, QueueInv, RoundInv, NEW c \in Calls, Call(c)
  PROVE  RoundInv'
<1>1. PICK r \in [kind : Kinds, att : Attempts] :
        /\ ClientWaits(r) /\ req' = [req EXCEPT ![c] = r] /\ pc' = [pc EXCEPT ![c] = r.kind]
  BY DEF Call, Goto
<1>2. r \in Requests /\ r.kind \in {"submit", "question"} /\ r.att \in Attempts
  BY ConstantsAssumption DEF ConstantsAssumption, Requests, AllKinds
<1>3. /\ pc[c] = "idle" /\ UNCHANGED <<sub, attempt, job, wjob, wpc, wdata, locked>>
      /\ pc'[c] = r.kind /\ req'[c] = r
      /\ \A x \in Calls \ {c} : pc'[x] = pc[x] /\ req'[x] = req[x]
  BY <1>1 DEF Call, queue, worker, QueueInv, Type
<1>4. job[c] = "none" /\ ~Pending(c) /\ ~Pending(c)'
  BY <1>2, <1>3 DEF QueueInv, JobInv, Pending
<1>5. ASSUME NEW b \in Attempts, HandedIn(b)' PROVE RecordInv(b)'
  <2>1. HandedIn(b) /\ RecordInv(b) /\ sub[b].data \in Calls
    BY <1>3, <1>5 DEF HandedIn, RoundInv, QueueInv, Type, Submissions
  <2>2. sub[b].data # c
    BY <1>3, <2>1 DEF RecordInv
  <2> QED BY <1>3, <2>1, <2>2 DEF RecordInv, Pending
<1>6. ASSUME NEW x \in Calls, NEW y \in Calls, Active(x)', Active(y)', req'[x].att = req'[y].att
      PROVE  x = y
  <2>1. \A z \in Calls : Active(z) => req[z].att # r.att
    BY <1>1 DEF ClientWaits
  <2>2. \A z \in Calls \ {c} : Active(z)' <=> Active(z)
    BY <1>3 DEF Active
  <2>3. CASE x # c /\ y # c
    BY <1>3, <1>6, <2>2, <2>3 DEF RoundInv, RequestInv
  <2>4. CASE x = c \/ y = c
    BY <1>3, <1>6, <2>1, <2>2, <2>4
  <2> QED BY <2>3, <2>4
<1>7. ASSUME NEW x \in Calls PROVE RequestInv(x)'
  <2>1. CASE x = c
    <3>1. pc'[c] = "submit" /\ HandedIn(r.att) => sub[r.att].status = "processed"
      BY <1>1, <1>3 DEF ClientWaits, HandedIn
    <3> QED BY <1>2, <1>3, <1>4, <1>6, <2>1, <3>1 DEF RequestInv, HandedIn
  <2>2. CASE x # c
    BY <1>3, <1>6, <2>2 DEF RoundInv, RequestInv, Pending, HandedIn
  <2> QED BY <2>1, <2>2
<1>8. ASSUME NEW w \in Workers, wpc'[w] # "free" PROVE RunInv(w)'
  <2>1. wpc[w] # "free" /\ wjob[w] \in Calls /\ pc[wjob[w]] # "idle" /\ RunInv(w)
    BY <1>3, <1>8, Running DEF RoundInv
  <2> QED BY <1>3, <2>1 DEF RunInv
<1> QED BY <1>5, <1>7, <1>8 DEF RoundInv

(* A step of a request that neither is nor becomes a stored hand-in.       *)
LEMMA RoundQuiet ==
  ASSUME QueueInv, RoundInv, NEW c \in Calls, NEW step, Goto(c, step), Active(c), pc[c] # "add",
         step \in {"upsert", "ok"}, step = "upsert" => pc[c] = "submit",
         UNCHANGED <<req, job, wjob, wpc, wdata, locked>>,
         \A b \in Attempts : attempt'[b].score = attempt[b].score,
         \A b \in Attempts : /\ HandedIn(b) => sub'[b] = sub[b]
                             /\ ~HandedIn(b) => ~HandedIn(b)'
  PROVE  RoundInv'
<1>1. pc'[c] = step /\ \A x \in Calls \ {c} : pc'[x] = pc[x]
  BY DEF Goto, QueueInv, Type
<1>2. job[c] = "none" /\ ~Pending(c)
  BY DEF Active, QueueInv, JobInv, Pending
<1>3. \A x \in Calls : Pending(x)' <=> Pending(x)
  BY <1>1, <1>2 DEF Pending
<1>4. ASSUME NEW b \in Attempts, HandedIn(b)' PROVE RecordInv(b)'
  <2>1. HandedIn(b) /\ sub'[b] = sub[b] /\ RecordInv(b)
    BY <1>4 DEF RoundInv
  <2>2. sub[b].data \in Calls /\ sub[b].data # c
    BY <2>1 DEF HandedIn, QueueInv, Type, Submissions, RecordInv, Active
  <2> QED BY <1>1, <1>3, <2>1, <2>2 DEF RecordInv
<1>5. ASSUME NEW x \in Calls PROVE RequestInv(x)'
  <2>1. RequestInv(x)
    BY DEF RoundInv
  <2>2. \A d \in Calls : Active(d)' => Active(d)
    BY <1>1 DEF Active
  <2>3. Pending(x)' => HandedIn(req[x].att)' /\ sub'[req[x].att] = sub[req[x].att]
    <3>1. Pending(x) => HandedIn(req[x].att) /\ req[x].att \in Attempts
      BY <2>1 DEF RequestInv, Pending, QueueInv, JobInv, CallInv, Requests
    <3> QED BY <1>3, <3>1 DEF HandedIn
  <2>4. pc'[x] = "add" \/ job'[x] = "waiting" => Pending(x)' /\ (pc[x] = "add" \/ job[x] = "waiting")
    BY <1>1, <1>2 DEF Pending
  <2>5. pc'[x] \in {"submit", "upsert"} =>
          /\ pc[x] \in {"submit", "upsert"}
          /\ HandedIn(req[x].att)' => HandedIn(req[x].att) /\ sub'[req[x].att] = sub[req[x].att]
    <3>1. pc'[x] \in {"submit", "upsert"} => pc[x] \in {"submit", "upsert"}
      BY <1>1
    <3>2. pc[x] \in {"submit", "upsert"} => req[x].att \in Attempts
      BY DEF QueueInv, CallInv, Requests
    <3> QED BY <3>1, <3>2
  <2>6. pc'[x] # "idle" => pc[x] # "idle"
    BY <1>1 DEF Active
  <2> QED BY <1>3, <2>1, <2>2, <2>3, <2>4, <2>5, <2>6 DEF RequestInv
<1>6. ASSUME NEW w \in Workers, wpc'[w] # "free" PROVE RunInv(w)'
  <2>1. wpc[w] # "free" /\ RunInv(w)
    BY <1>6 DEF RoundInv
  <2>2. req[wjob[w]].att \in Attempts /\ HandedIn(req[wjob[w]].att)
    BY <2>1, Current
  <2>3. sub'[req[wjob[w]].att] = sub[req[wjob[w]].att]
        /\ attempt'[req[wjob[w]].att].score = attempt[req[wjob[w]].att].score
    BY <2>2
  <2> QED BY <2>1, <2>3 DEF RunInv
<1> QED BY <1>4, <1>5, <1>6 DEF RoundInv

(* The answers are stored and the call has a job to add.                   *)
LEMMA RoundOfUpsert ==
  ASSUME QueueInv, RoundInv, NEW c \in Calls, SubmitUpsert(c)
  PROVE  RoundInv'
<1> DEFINE a == req[c].att
<1>1. /\ pc[c] = "upsert" /\ UNCHANGED <<attempt, req, job, wjob, wpc, wdata, locked>>
      /\ a \in Attempts /\ Goto(c, "add") /\ Active(c)
  BY DEF SubmitUpsert, queue, worker, QueueInv, CallInv, Requests, Active
<1>2. pc'[c] = "add" /\ \A x \in Calls \ {c} : pc'[x] = pc[x]
  BY <1>1 DEF Goto, QueueInv, Type
<1>3. PICK s \in Submissions : /\ s = [status |-> "draft", data |-> c,
                                       error |-> sub[a] # None /\ sub[a].error]
                               /\ sub' = [sub EXCEPT ![a] = s]
  <2>1. (sub[a] # None /\ sub[a].error) \in BOOLEAN
    OBVIOUS
  <2> QED BY <2>1 DEF SubmitUpsert, Submissions
<1>4. s.data = c /\ s.status = "draft" /\ s # None /\ c # None
  BY <1>3, NoneAssumption DEF NoneAssumption
<1>5. sub'[a] = s /\ \A b \in Attempts \ {a} : sub'[b] = sub[b]
  BY <1>1, <1>3 DEF QueueInv, Type
<1>6. sub'[a] # None /\ sub'[a].data # None
  BY <1>4, <1>5
<1>7. \A x \in Calls : Pending(x) => req[x].att # a
  BY <1>1 DEF RoundInv, RequestInv
<1>8. \A x \in Calls \ {c} : Active(x) => req[x].att # a
  BY <1>1 DEF RoundInv, RequestInv
<1>9. job[c] = "none"
  BY <1>1 DEF QueueInv, JobInv
<1>10. \A x \in Calls \ {c} : (Pending(x)' <=> Pending(x)) /\ (Active(x)' <=> Active(x))
  BY <1>1, <1>2 DEF Pending, Active
<1>11. ASSUME NEW b \in Attempts, HandedIn(b)' PROVE RecordInv(b)'
  <2>1. CASE b = a
    BY <1>1, <1>2, <1>4, <1>5, <2>1 DEF RecordInv, Pending
  <2>2. CASE b # a
    <3>1. HandedIn(b) /\ RecordInv(b) /\ sub'[b] = sub[b]
      BY <1>5, <1>11, <2>2 DEF HandedIn, RoundInv
    <3>2. sub[b].data \in Calls /\ sub[b].data # c
      BY <1>1, <3>1 DEF HandedIn, QueueInv, Type, Submissions, RecordInv
    <3> QED BY <1>1, <1>2, <1>10, <3>1, <3>2 DEF RecordInv
  <2> QED BY <2>1, <2>2
<1>12. ASSUME NEW x \in Calls PROVE RequestInv(x)'
  <2>1. RequestInv(x)
    BY DEF RoundInv
  <2>2. \A d \in Calls : (Active(d)' <=> Active(d)) /\ req'[d].att = req[d].att
    BY <1>1, <1>2, <1>10 DEF Active
  <2>3. CASE x = c
    BY <1>1, <1>2, <1>4, <1>5, <1>6, <1>9, <2>1, <2>2, <2>3 DEF RequestInv, HandedIn
  <2>4. CASE x # c /\ req[x].att = a
    <3>1. ~Pending(x)' /\ pc'[x] \notin {"submit", "upsert", "add"} /\ job'[x] # "waiting"
      BY <1>1, <1>2, <1>7, <1>8, <1>10, <2>4 DEF Pending, Active
    <3>2. pc'[x] = pc[x] /\ job'[x] = job[x]
      BY <1>1, <1>2, <2>4
    <3> QED BY <1>1, <2>1, <2>2, <3>1, <3>2 DEF RequestInv
  <2>5. CASE x # c /\ req[x].att # a
    <3>1. pc[x] # "idle" => req[x].att \in Attempts
      BY DEF QueueInv, CallInv, Requests
    <3>2. job[x] # "none" => pc[x] # "idle"
      BY DEF QueueInv, JobInv
    <3>3. pc[x] # "idle" => sub'[req[x].att] = sub[req[x].att]
      BY <1>5, <2>5, <3>1
    <3>4. Pending(x) \/ job[x] = "waiting" => pc[x] # "idle"
      BY <3>2 DEF Pending
    <3>5. pc'[x] = pc[x] /\ job'[x] = job[x] /\ (Pending(x)' <=> Pending(x))
      BY <1>1, <1>2, <1>10, <2>5
    <3> QED BY <1>1, <2>1, <2>2, <3>3, <3>4, <3>5 DEF RequestInv, HandedIn
  <2> QED BY <2>3, <2>4, <2>5
<1>13. ASSUME NEW w \in Workers, wpc'[w] # "free" PROVE RunInv(w)'
  <2>1. wpc[w] # "free" /\ RunInv(w)
    BY <1>1, <1>13 DEF RoundInv
  <2>2. req[wjob[w]].att \in Attempts /\ req[wjob[w]].att # a
    BY <1>1, <2>1, Current
  <2> QED BY <1>1, <1>5, <2>1, <2>2 DEF RunInv
<1> QED BY <1>11, <1>12, <1>13 DEF RoundInv

(* The job is added and a worker takes it: the same hand-in all the while. *)
LEMMA RoundMovesOn ==
  ASSUME QueueInv, RoundInv, NEW c \in Calls, Pending(c), Pending(c)', UNCHANGED <<sub, attempt, req>>,
         req[c].kind = "submit", pc[c] # "idle",
         \A x \in Calls \ {c} : pc'[x] = pc[x] /\ job'[x] = job[x],
         pc'[c] \in {pc[c], "ok"}, pc[c] = "add" \/ pc[c] = pc'[c],
         job'[c] = "waiting" => pc[c] = "add",
         \A w \in Workers : /\ wjob'[w] = wjob[w] /\ wpc'[w] = wpc[w] /\ wdata'[w] = wdata[w]
                            /\ w \in locked => w \in locked'
                         \/ /\ job[c] = "waiting" /\ wjob'[w] = c /\ wpc'[w] = "claim"
                            /\ w \in locked'
  PROVE  RoundInv'
<1>1. \A x \in Calls : Pending(x)' <=> Pending(x)
  BY DEF Pending
<1>2. \A x \in Calls : Active(x)' => Active(x)
  BY DEF Active
<1>3. ASSUME NEW b \in Attempts, HandedIn(b)' PROVE RecordInv(b)'
  <2>1. HandedIn(b) /\ RecordInv(b) /\ sub[b].data \in Calls
    BY <1>3 DEF HandedIn, RoundInv, QueueInv, Type, Submissions
  <2>2. pc'[sub[b].data] \in {"add", "ok"}
    BY <2>1 DEF RecordInv
  <2> QED BY <1>1, <2>1, <2>2 DEF RecordInv
<1>4. ASSUME NEW x \in Calls PROVE RequestInv(x)'
  <2>1. RequestInv(x)
    BY DEF RoundInv
  <2>2. HandedIn(req[x].att)' <=> HandedIn(req[x].att)
    BY DEF HandedIn
  <2>3. \A d \in Calls : Active(x)' /\ Active(d)' /\ req'[d].att = req'[x].att => x = d
    BY <1>2, <2>1 DEF RequestInv
  <2>4. CASE x = c
    BY <1>1, <2>1, <2>2, <2>3, <2>4 DEF RequestInv
  <2>5. CASE x # c
    BY <1>1, <2>1, <2>2, <2>3, <2>5 DEF RequestInv
  <2> QED BY <2>4, <2>5
<1>5. ASSUME NEW w \in Workers, wpc'[w] # "free" PROVE RunInv(w)'
  <2>1. CASE wjob'[w] = wjob[w] /\ wpc'[w] = wpc[w] /\ wdata'[w] = wdata[w] /\ (w \in locked => w \in locked')
    BY <1>5, <2>1 DEF RoundInv, RunInv
  <2>2. CASE job[c] = "waiting" /\ wjob'[w] = c /\ wpc'[w] = "claim" /\ w \in locked'
    BY <2>2 DEF RoundInv, RequestInv, RunInv
  <2> QED BY <2>1, <2>2
<1> QED BY <1>3, <1>4, <1>5 DEF RoundInv

LEMMA RoundOfAdd ==
  ASSUME QueueInv, RoundInv, NEW c \in Calls, SubmitAdd(c)
  PROVE  RoundInv'
<1>1. pc[c] = "add" /\ req[c].kind = "submit"
  BY DEF SubmitAdd, QueueInv, CallInv, RoundInv, RequestInv
<1>2. /\ UNCHANGED <<sub, attempt, req, wjob, wpc, wdata, locked>>
      /\ pc'[c] = "ok" /\ job'[c] = "waiting"
      /\ \A x \in Calls \ {c} : pc'[x] = pc[x] /\ job'[x] = job[x]
  BY DEF SubmitAdd, Goto, worker, QueueInv, Type
<1>3. Pending(c) /\ Pending(c)'
  BY <1>1, <1>2 DEF Pending
<1> QED BY <1>1, <1>2, <1>3, RoundMovesOn

LEMMA RoundOfTake ==
  ASSUME QueueInv, RoundInv, NEW c \in Calls, NEW w \in Workers, Take(w, c)
  PROVE  RoundInv'
<1>1. pc[c] # "idle" /\ req[c].kind = "submit" /\ job[c] = "waiting"
  BY DEF Take, QueueInv, JobInv, Named
<1>2. /\ UNCHANGED <<sub, attempt, req, pc, wdata>> /\ job'[c] = "active"
      /\ \A x \in Calls \ {c} : job'[x] = job[x]
      /\ wjob'[w] = c /\ wpc'[w] = "claim" /\ w \in locked'
      /\ \A v \in Workers \ {w} : wjob'[v] = wjob[v] /\ wpc'[v] = wpc[v] /\ (v \in locked => v \in locked')
  BY DEF Take, QueueInv, Type
<1>3. Pending(c) /\ Pending(c)'
  BY <1>1, <1>2 DEF Pending
<1> QED BY <1>1, <1>2, <1>3, RoundMovesOn

LEMMA InitRound == Init => RoundInv
  BY DEF Init, RoundInv, HandedIn, RequestInv, Pending, Active

(* Without calls that stop half-way, outages, crashes and stalls.          *)
LEMMA RoundStep ==
  ASSUME OneAtATime, Faults \subseteq {"worker"}, "reset" \notin Kinds, QueueInv, RoundInv, [Next]_vars
  PROVE  RoundInv'
<1>1. CASE UNCHANGED vars
  BY <1>1 DEF vars, RoundInv, RecordInv, RequestInv, RunInv, HandedIn, Pending, Active
<1>2. ASSUME NEW c \in Calls, Call(c) \/ CallFails(c) \/ Handler(c) \/ DropUnnamed(c) PROVE RoundInv'
  <2>1. CASE Call(c)
    BY <2>1, RoundOfCall
  <2>2. ~CallFails(c)
    BY DEF CallFails
  <2>3. CASE SubmitClose(c)
    <3>1. /\ pc[c] = "submit" /\ Goto(c, "upsert") /\ UNCHANGED <<sub, req, job, wjob, wpc, wdata, locked>>
          /\ \A b \in Attempts : attempt'[b].score = attempt[b].score
      BY <2>3 DEF SubmitClose, queue, worker, QueueInv, Type, AttemptDocs
    <3>2. Active(c)
      BY <3>1 DEF Active
    <3>3. \A b \in Attempts : (HandedIn(b) => sub'[b] = sub[b]) /\ (~HandedIn(b) => ~HandedIn(b)')
      BY <3>1 DEF HandedIn
    <3> QED BY <3>1, <3>2, <3>3, RoundQuiet
  <2>4. CASE SubmitUpsert(c)
    BY <2>4, RoundOfUpsert
  <2>5. CASE SubmitAdd(c)
    BY <2>5, RoundOfAdd
  <2>6. ~ResetFind(c) /\ ~ResetDraft(c)
    BY DEF ResetFind, ResetDraft, QueueInv, CallInv, RoundInv, RequestInv
  <2>7. CASE QuestionUpsert(c)
    <3> DEFINE a == req[c].att
    <3>1. /\ pc[c] = "question" /\ Goto(c, "ok") /\ a \in Attempts
          /\ UNCHANGED <<attempt, req, job, wjob, wpc, wdata, locked>>
      BY <2>7 DEF QuestionUpsert, queue, worker, QueueInv, CallInv, Requests
    <3>2. Active(c)
      BY <3>1 DEF Active
    <3>3. ASSUME NEW b \in Attempts
          PROVE  (HandedIn(b) => sub'[b] = sub[b]) /\ (~HandedIn(b) => ~HandedIn(b)')
      <4>1. CASE sub[a] # None
        <5>1. sub' = sub
          BY <2>7, <4>1 DEF QuestionUpsert
        <5> QED BY <5>1 DEF HandedIn
      <4>2. CASE sub[a] = None
        <5>1. PICK s \in Submissions : s = [status |-> "draft", data |-> None, error |-> FALSE]
          BY DEF Submissions
        <5>2. s.data = None /\ sub' = [sub EXCEPT ![a] = s]
          BY <2>7, <4>2, <5>1 DEF QuestionUpsert
        <5> QED BY <3>1, <4>2, <5>2 DEF HandedIn, QueueInv, Type
      <4> QED BY <4>1, <4>2
    <3> QED BY <3>1, <3>2, <3>3, RoundQuiet
  <2>8. ~DropUnnamed(c)
    BY DEF DropUnnamed, Named, RoundInv, RequestInv
  <2> QED BY <1>2, <2>1, <2>2, <2>3, <2>4, <2>5, <2>6, <2>7, <2>8 DEF Handler
<1>3. ASSUME NEW w \in Workers, NEW c \in Calls, Take(w, c) PROVE RoundInv'
  BY <1>3, RoundOfTake
<1>4. ASSUME NEW w \in Workers, Work(w) \/ Fault(w) PROVE RoundInv'
  <2>1. ~HandlerThrows(w) /\ ~Stall(w) /\ ~Crash(w)
    BY DEF HandlerThrows, Stall, Crash
  <2> QED BY <1>4, <2>1, RoundOfWork DEF Fault
<1> QED BY <1>1, <1>2, <1>3, <1>4 DEF Next

(* NothingLeftBehind: when a client hands an attempt in again only after   *)
(* its answers were processed, and whatever operations of the job are      *)
(* refused, a queue at rest has processed every hand-in, and the marks of  *)
(* a submission without an error are those of the answers on record        *)
(* (submitToQueue, AttemptQueueProcessor.handleSubmission).                *)
THEOREM NothingIsLeftBehind ==
  ASSUME OneAtATime, Faults \subseteq {"worker"}, "reset" \notin Kinds
  PROVE  Spec => []NothingLeftBehind
<1>1. QueueInv /\ RoundInv => NothingLeftBehind
  <2> SUFFICES ASSUME QueueInv, RoundInv, AtRest, NEW a \in Attempts, HandedIn(a)
               PROVE  /\ sub[a].status = "processed"
                      /\ ~sub[a].error => attempt[a].score = sub[a].data
    BY DEF NothingLeftBehind, HandedIn
  <2>1. sub[a].data \in Calls /\ RecordInv(a)
    BY DEF HandedIn, RoundInv, QueueInv, Type, Submissions
  <2>2. ~Pending(sub[a].data)
    BY <2>1 DEF AtRest, Pending, Active
  <2> QED BY <2>1, <2>2 DEF RecordInv
<1>2. QueueInv /\ RoundInv /\ [Next]_vars => RoundInv'
  BY RoundStep
<1> QED BY <1>1, <1>2, InitRound, AlwaysQueueInv, PTL DEF Spec

-----------------------------------------------------------------------------
(* In somebody's hands: whatever goes wrong.                               *)

(* Who changes a submission, and to what.                                  *)
LEMMA SubmissionSteps ==
  ASSUME QueueInv, [Next]_vars, NEW a \in Attempts, sub'[a] # sub[a]
  PROVE  \/ \E c \in Calls : /\ pc[c] = "upsert" /\ req[c].att = a /\ req'[c] = req[c] /\ pc'[c] = "add"
                             /\ UNCHANGED <<job, worker>>
                             /\ sub'[a].status = "draft" /\ sub'[a].data = c
         \/ \E c \in Calls : /\ pc[c] = "redraft" /\ req[c].att = a
                             /\ UNCHANGED req /\ pc'[c] = "addUnnamed"
                             /\ sub[a] # None /\ sub'[a].status = "draft" /\ sub'[a].data = sub[a].data
         \/ sub[a] = None /\ sub'[a].status = "draft" /\ sub'[a].data = None
         \/ \E w \in Workers : /\ wpc[w] # "free" /\ req[wjob[w]].att = a /\ UNCHANGED req
                               /\ sub[a] # None /\ sub'[a].data = sub[a].data
                               /\ \/ /\ Claim(w) /\ sub'[a].status = "processing" /\ wpc'[w] = "grade"
                                     /\ wjob'[w] = wjob[w] /\ UNCHANGED job
                                  \/ sub'[a].status = "processed" /\ (Store(w) \/ StoreError(w))
<1> USE DEF QueueInv, Type
<1>1. ASSUME NEW c \in Calls, Call(c) \/ CallFails(c) \/ DropUnnamed(c) PROVE UNCHANGED sub
  BY <1>1 DEF Call, CallFails, DropUnnamed
<1>2. ASSUME NEW c \in Calls, NEW w \in Workers, Take(w, c) PROVE UNCHANGED sub
  BY <1>2 DEF Take
<1>3. ASSUME NEW c \in Calls, SubmitUpsert(c)
      PROVE  /\ pc[c] = "upsert" /\ req[c].att = a /\ req'[c] = req[c] /\ pc'[c] = "add"
             /\ UNCHANGED <<job, worker>> /\ sub'[a].status = "draft" /\ sub'[a].data = c
  BY <1>3 DEF SubmitUpsert, Goto, queue
<1>4. ASSUME NEW c \in Calls, ResetDraft(c)
      PROVE  /\ pc[c] = "redraft" /\ req[c].att = a /\ UNCHANGED req /\ pc'[c] = "addUnnamed"
             /\ sub[a] # None /\ sub'[a].status = "draft" /\ sub'[a].data = sub[a].data
  <2>1. pc[c] = "redraft" /\ req[c].att = a /\ UNCHANGED req /\ pc'[c] = "addUnnamed"
    BY <1>4 DEF ResetDraft, Goto
  <2>2. sub[a] # None /\ sub[a] \in Submissions
    BY <2>1 DEF CallInv
  <2>3. sub'[a] = [sub[a] EXCEPT !.status = "draft", !.error = FALSE]
    BY <1>4, <2>1 DEF ResetDraft
  <2> QED BY <2>1, <2>2, <2>3 DEF Submissions
<1>5. ASSUME NEW c \in Calls, QuestionUpsert(c)
      PROVE  sub[a] = None /\ sub'[a].status = "draft" /\ sub'[a].data = None
  BY <1>5 DEF QuestionUpsert
<1>6. ASSUME NEW c \in Calls, SubmitClose(c) \/ SubmitAdd(c) \/ ResetFind(c) PROVE UNCHANGED sub
  BY <1>6 DEF SubmitClose, SubmitAdd, ResetFind
<1>7. ASSUME NEW w \in Workers, Work(w) \/ Fault(w)
      PROVE  /\ wpc[w] # "free" /\ req[wjob[w]].att = a /\ UNCHANGED req
             /\ sub[a] # None /\ sub'[a].data = sub[a].data
             /\ \/ /\ Claim(w) /\ sub'[a].status = "processing" /\ wpc'[w] = "grade"
                   /\ wjob'[w] = wjob[w] /\ UNCHANGED job
                \/ sub'[a].status = "processed" /\ (Store(w) \/ StoreError(w))
  <2>1. wpc[w] # "free" /\ UNCHANGED req
    BY <1>7, WorkerMoves, WorkOnSubmission
  <2>2. req[wjob[w]].att \in Attempts /\ sub[req[wjob[w]].att] \in Submissions
    BY <2>1, Running
  <2>3. sub[req[wjob[w]].att] # None
    BY <2>2, NoneAssumption DEF NoneAssumption
  <2>4. CASE Claim(w)
    <3>1. req[wjob[w]].att = a /\ sub'[a] = [sub[a] EXCEPT !.status = "processing"]
      BY <2>2, <2>4 DEF Claim
    <3>2. wpc'[w] = "grade" /\ wjob'[w] = wjob[w] /\ UNCHANGED job
      BY <2>4 DEF Claim, queue
    <3> QED BY <2>1, <2>2, <2>3, <2>4, <3>1, <3>2 DEF Submissions
  <2>5. CASE Store(w) \/ StoreError(w)
    <3>1. PICK e \in BOOLEAN :
            sub' = [sub EXCEPT ![req[wjob[w]].att] = [@ EXCEPT !.status = "processed", !.error = e]]
      BY <2>3, <2>5 DEF Store, StoreError
    <3>2. req[wjob[w]].att = a
      BY <3>1
    <3>3. sub'[a] = [sub[a] EXCEPT !.status = "processed", !.error = e]
      BY <3>1, <3>2
    <3> QED BY <2>1, <2>2, <2>3, <2>5, <3>2, <3>3 DEF Submissions
  <2>6. CASE ~(Claim(w) \/ Store(w) \/ StoreError(w))
    BY <1>7, <2>6 DEF Work, Fault, NothingToClaim, Grade, OperationFails, HandlerThrows, Stall, Crash
  <2> QED BY <2>4, <2>5, <2>6
<1>8. CASE UNCHANGED vars
  BY <1>8 DEF vars
<1> QED BY <1>1, <1>2, <1>3, <1>4, <1>5, <1>6, <1>7, <1>8 DEF Next, Handler

(* Who changes the state of a job, and to what.                            *)
LEMMA JobSteps ==
  ASSUME QueueInv, [Next]_vars, NEW c \in Calls, job'[c] # job[c]
  PROVE  \/ job[c] = "none" /\ job'[c] = "waiting"
         \/ job[c] = "waiting" /\ job'[c] = "failed" /\ ~Named(c)
         \/ /\ job[c] = "waiting" /\ job'[c] = "active"
            /\ \E w \in Workers : w \in locked' /\ wjob'[w] = c
         \/ \E w \in Workers :
              /\ HeldBy(w, c) /\ job[c] = "active" /\ wpc[w] # "free"
              /\ \/ job'[c] = "done" /\ (NothingToClaim(w) \/ Store(w) \/ StoreError(w))
                 \/ job'[c] = "waiting"
                 \/ job'[c] = "failed" /\ (tries'[c] = MaxTries \/ stalls'[c] = MaxStalled)
<1> USE DEF QueueInv, Type
<1>1. ASSUME NEW x \in Calls, Call(x) \/ CallFails(x) PROVE UNCHANGED job
  BY <1>1 DEF Call, CallFails, queue
<1>2. ASSUME NEW x \in Calls, SubmitAdd(x) PROVE job[c] = "none" /\ job'[c] = "waiting"
  BY <1>2 DEF SubmitAdd, JobInv
<1>3. ASSUME NEW x \in Calls, Handler(x), ~SubmitAdd(x) PROVE UNCHANGED job
  BY <1>3 DEF Handler, SubmitClose, SubmitUpsert, ResetFind, ResetDraft, QuestionUpsert, queue
<1>4. ASSUME NEW x \in Calls, DropUnnamed(x)
      PROVE  job[c] = "waiting" /\ job'[c] = "failed" /\ ~Named(c)
  BY <1>4 DEF DropUnnamed
<1>5. ASSUME NEW x \in Calls, NEW w \in Workers, Take(w, x)
      PROVE  job[c] = "waiting" /\ job'[c] = "active" /\ w \in locked' /\ wjob'[w] = c
  BY <1>5 DEF Take
<1>6. ASSUME NEW w \in Workers, Work(w) \/ Fault(w)
      PROVE  /\ HeldBy(w, c) /\ job[c] = "active" /\ wpc[w] # "free"
             /\ \/ job'[c] = "done" /\ (NothingToClaim(w) \/ Store(w) \/ StoreError(w))
                \/ job'[c] = "waiting"
                \/ job'[c] = "failed" /\ (tries'[c] = MaxTries \/ stalls'[c] = MaxStalled)
  <2>1. wpc[w] # "free" /\ HeldBy(w, c) /\ job[c] = "active"
    BY <1>6, WorkerMoves DEF HeldBy, WorkerInv
  <2>2. CASE NothingToClaim(w) \/ Store(w) \/ StoreError(w)
    BY <2>1, <2>2 DEF NothingToClaim, Store, StoreError, Complete, HeldBy
  <2>3. CASE HandlerThrows(w)
    <3>1. job' = [job EXCEPT ![c] = IF tries[c] + 1 < MaxTries THEN "waiting" ELSE "failed"]
          /\ tries' = [tries EXCEPT ![c] = @ + 1]
      BY <2>1, <2>3 DEF HandlerThrows, HeldBy
    <3>2. tries[c] < MaxTries
      BY <2>1 DEF JobInv
    <3>3. tries[c] \in 0 .. MaxTries /\ tries'[c] = tries[c] + 1
      BY <3>1
    <3> QED BY <2>1, <3>1, <3>2, <3>3 DEF MaxTries
  <2>4. CASE Stall(w) \/ Crash(w)
    <3>1. Redeliver(w)
      BY <2>1, <2>4 DEF Stall, Crash, HeldBy
    <3> QED BY <2>1, <3>1 DEF Redeliver, HeldBy, MaxStalled
  <2>5. CASE Claim(w) \/ Grade(w) \/ OperationFails(w)
    BY <2>5 DEF Claim, Grade, OperationFails, queue
  <2> QED BY <1>6, <2>1, <2>2, <2>3, <2>4, <2>5 DEF Work, Fault
<1>7. CASE UNCHANGED vars
  BY <1>7 DEF vars, queue
<1> QED BY <1>1, <1>2, <1>3, <1>4, <1>5, <1>6, <1>7 DEF Next

(* A running job has a worker that holds its lock; a worker without it has *)
(* a job that Bull found stalled.                                          *)
LockedJobs ==
  /\ \A c \in Calls : job[c] = "active" => \E w \in Workers : HeldBy(w, c)
  /\ \A w \in Workers : wpc[w] # "free" /\ w \notin locked => stalls[wjob[w]] > 0

(* The answers on record were stored by their own call, whose job is added *)
(* before it replies and fails only when Bull gives it up.                 *)
StoredByCall ==
  /\ \A a \in Attempts : HandedIn(a) =>
       /\ req[sub[a].data].kind = "submit" /\ req[sub[a].data].att = a
       /\ pc[sub[a].data] \in {"add", "ok", "error"}
  /\ \A a \in Attempts : sub[a] # None /\ sub[a].data = None => sub[a].status = "draft"
  /\ \A c \in Calls : pc[c] = "ok" /\ req[c].kind = "submit" => job[c] # "none"
  /\ \A c \in Calls : job[c] = "failed" /\ req[c].kind = "submit" => GivenUp(c)

(* A draft that nobody reset has not been claimed by its own job.          *)
Unclaimed ==
  \A a \in Attempts : Draft(a) /\ HandedIn(a) /\ ~WasReset(a) =>
    /\ job[sub[a].data] # "done"
    /\ \A w \in Workers : wpc[w] # "free" /\ wjob[w] = sub[a].data => wpc[w] \in {"claim", "storeError"}

HandsInv == LockedJobs /\ StoredByCall /\ Unclaimed /\ \A a \in Attempts : ClaimHasWorker(a)

LEMMA InitHands == Init => HandsInv
BY NoneAssumption DEF Init, HandsInv, LockedJobs, StoredByCall, Unclaimed, ClaimHasWorker, HandedIn, Draft,
   NoneAssumption

(* Bull's counts of a job grow up to their limits.                         *)
LEMMA CountsGrow ==
  ASSUME QueueInv, [Next]_vars, NEW c \in Calls
  PROVE  /\ tries'[c] = tries[c] \/ (tries'[c] = tries[c] + 1 /\ tries[c] < MaxTries)
         /\ stalls'[c] = stalls[c] \/ (stalls'[c] = stalls[c] + 1 /\ stalls[c] < MaxStalled)
<1> USE DEF QueueInv, Type
<1>1. ASSUME NEW x \in Calls, Call(x) \/ CallFails(x) \/ Handler(x) \/ DropUnnamed(x)
      PROVE  UNCHANGED <<tries, stalls>>
  BY <1>1, HandlerOnSubmission DEF Call, CallFails, DropUnnamed, queue
<1>2. ASSUME NEW x \in Calls, NEW w \in Workers, Take(w, x) PROVE UNCHANGED <<tries, stalls>>
  BY <1>2 DEF Take
<1>3. ASSUME NEW w \in Workers, Redeliver(w), UNCHANGED tries
      PROVE  stalls'[c] = stalls[c] \/ (stalls'[c] = stalls[c] + 1 /\ stalls[c] < MaxStalled)
  BY <1>3 DEF Redeliver
<1>4. ASSUME NEW w \in Workers, HandlerThrows(w)
      PROVE  /\ UNCHANGED stalls
             /\ tries'[c] = tries[c] \/ (tries'[c] = tries[c] + 1 /\ tries[c] < MaxTries)
  BY <1>4 DEF HandlerThrows, WorkerInv, JobInv
<1>5. ASSUME NEW w \in Workers, Work(w) \/ Fault(w), ~HandlerThrows(w)
      PROVE  UNCHANGED tries /\ (Redeliver(w) \/ UNCHANGED stalls)
  BY <1>5 DEF Work, Fault, Claim, NothingToClaim, Grade, Store, StoreError, OperationFails,
              Stall, Crash, Complete, queue
<1> QED BY <1>1, <1>2, <1>3, <1>4, <1>5 DEF Next, vars, queue

LEMMA LockedStep ==
  ASSUME QueueInv, LockedJobs, [Next]_vars
  PROVE  LockedJobs'
<1> USE DEF QueueInv, Type
<1>1. ASSUME NEW w \in Workers, w \in locked, NEW c \in Calls, wjob[w] = c
      PROVE  (w \in locked' /\ wjob'[w] = c) \/ job'[c] # "active"
  <2>1. job[c] = "active" /\ wpc[w] # "free"
    BY <1>1 DEF WorkerInv
  <2>2. ASSUME NEW x \in Calls, Call(x) \/ CallFails(x) \/ Handler(x) \/ DropUnnamed(x)
        PROVE  UNCHANGED worker
    BY <2>2, HandlerOnSubmission DEF Call, CallFails, DropUnnamed
  <2>3. ASSUME NEW x \in Calls, NEW v \in Workers, Take(v, x) PROVE w \in locked' /\ wjob'[w] = c
    BY <1>1, <2>1, <2>3 DEF Take
  <2>4. ASSUME NEW v \in Workers \ {w}, Work(v) \/ Fault(v) PROVE w \in locked' /\ wjob'[w] = c
    BY <1>1, <2>4, WorkerMoves
  <2>5. ASSUME Work(w) \/ Fault(w) PROVE (w \in locked' /\ wjob'[w] = c) \/ job'[c] # "active"
    <3>1. CASE Claim(w) \/ Grade(w) \/ OperationFails(w)
      BY <1>1, <3>1 DEF Claim, Grade, OperationFails, WGoto
    <3>2. CASE Complete(w)
      BY <1>1, <3>2 DEF Complete
    <3>3. CASE HandlerThrows(w)
      BY <1>1, <3>3 DEF HandlerThrows
    <3>4. CASE Redeliver(w)
      BY <1>1, <3>4 DEF Redeliver
    <3> QED BY <1>1, <2>5, <3>1, <3>2, <3>3, <3>4
            DEF Work, Fault, NothingToClaim, Store, StoreError, Stall, Crash
  <2> QED BY <1>1, <2>2, <2>3, <2>4, <2>5 DEF Next, vars, worker
<1>2. ASSUME NEW c \in Calls, job'[c] = "active" PROVE \E w \in Workers : HeldBy(w, c)'
  <2>1. CASE job[c] = "active"
    BY <1>1, <1>2, <2>1 DEF LockedJobs, HeldBy
  <2>2. CASE job[c] # "active"
    BY <1>2, <2>2, JobSteps DEF HeldBy
  <2> QED BY <2>1, <2>2
<1>3. \A c \in Calls : stalls[c] > 0 => stalls'[c] > 0
  BY CountsGrow
<1>4. ASSUME NEW w \in Workers, wpc'[w] # "free", w \notin locked' PROVE stalls'[wjob'[w]] > 0
  <2>1. ASSUME wpc[w] # "free", w \notin locked, wjob'[w] = wjob[w] PROVE stalls'[wjob'[w]] > 0
    BY <1>3, <2>1, Running DEF LockedJobs
  <2>2. ASSUME NEW x \in Calls, Call(x) \/ CallFails(x) \/ Handler(x) \/ DropUnnamed(x)
        PROVE  UNCHANGED worker
    BY <2>2, HandlerOnSubmission DEF Call, CallFails, DropUnnamed
  <2>3. ASSUME NEW x \in Calls, NEW v \in Workers, Take(v, x)
        PROVE  wpc[w] # "free" /\ w \notin locked /\ wjob'[w] = wjob[w]
    BY <1>4, <2>3 DEF Take
  <2>4. ASSUME NEW v \in Workers \ {w}, Work(v) \/ Fault(v)
        PROVE  wpc[w] # "free" /\ w \notin locked /\ wjob'[w] = wjob[w]
    BY <1>4, <2>4, WorkerMoves
  <2>5. ASSUME Work(w) \/ Fault(w)
        PROVE  \/ wpc[w] # "free" /\ w \notin locked /\ wjob'[w] = wjob[w]
               \/ Stall(w)
    BY <1>4, <2>5, WorkerMoves DEF Work, Fault, Claim, NothingToClaim, Grade, Store, StoreError,
           OperationFails, HandlerThrows, Crash, Complete, Free, WGoto
  <2>6. ASSUME Stall(w) PROVE stalls'[wjob'[w]] > 0
    <3>1. wpc[w] # "free" /\ wjob[w] \in Calls /\ wjob' = wjob
      BY <2>6, Running DEF Stall, WorkerInv
    <3> QED BY <2>6, <3>1 DEF Stall, Redeliver, MaxStalled
  <2> QED BY <1>4, <2>1, <2>2, <2>3, <2>4, <2>5, <2>6 DEF Next, vars, worker
<1> QED BY <1>2, <1>4 DEF LockedJobs

LEMMA StoredStep ==
  ASSUME QueueInv, StoredByCall, [Next]_vars
  PROVE  StoredByCall'
<1> USE DEF QueueInv, Type
<1>1. ASSUME NEW c \in Calls, pc[c] # "idle", pc'[c] # pc[c]
      PROVE  /\ Active(c)
             /\ pc[c] = "add" => pc'[c] \in {"ok", "error"}
             /\ pc'[c] = "ok" /\ req[c].kind = "submit" => job'[c] # "none"
  <2>1. ASSUME NEW x \in Calls, Call(x) PROVE FALSE
    BY <1>1, <2>1 DEF Call, Goto
  <2>2. ASSUME NEW x \in Calls, CallFails(x) PROVE Active(c) /\ pc'[c] = "error"
    BY <1>1, <2>2 DEF CallFails, Goto
  <2>3. ASSUME NEW x \in Calls, Handler(x) PROVE x = c /\ Active(c)
    BY <1>1, <2>3, HandlerOnSubmission DEF Goto
  <2>4. ASSUME SubmitAdd(c) PROVE pc'[c] = "ok" /\ job'[c] = "waiting"
    BY <2>4 DEF SubmitAdd, Goto
  <2>5. ASSUME Handler(c), ~SubmitAdd(c)
        PROVE  pc[c] # "add" /\ (pc'[c] = "ok" => req[c].kind # "submit")
    <3>1. CASE SubmitClose(c) \/ SubmitUpsert(c) \/ ResetDraft(c)
      BY <3>1 DEF SubmitClose, SubmitUpsert, ResetDraft, Goto
    <3>2. CASE ResetFind(c)
      BY <3>2 DEF ResetFind, CallInv
    <3>3. CASE QuestionUpsert(c)
      BY <3>3 DEF QuestionUpsert, CallInv
    <3> QED BY <2>5, <3>1, <3>2, <3>3 DEF Handler
  <2>6. ASSUME NEW x \in Calls, DropUnnamed(x) \/ (\E w \in Workers : Take(w, x)) PROVE FALSE
    BY <1>1, <2>6 DEF DropUnnamed, Take
  <2>7. ASSUME NEW w \in Workers, Work(w) \/ Fault(w) PROVE FALSE
    BY <1>1, <2>7, WorkOnSubmission
  <2> QED BY <1>1, <2>1, <2>2, <2>3, <2>4, <2>5, <2>6, <2>7 DEF Next, vars
<1>2. ASSUME NEW a \in Attempts, HandedIn(a)'
      PROVE  /\ req'[sub'[a].data].kind = "submit" /\ req'[sub'[a].data].att = a
             /\ pc'[sub'[a].data] \in {"add", "ok", "error"}
  <2>1. ASSUME HandedIn(a), sub'[a].data = sub[a].data
        PROVE  /\ req'[sub'[a].data].kind = "submit" /\ req'[sub'[a].data].att = a
               /\ pc'[sub'[a].data] \in {"add", "ok", "error"}
    <3>1. /\ sub[a].data \in Calls /\ req[sub[a].data].kind = "submit" /\ req[sub[a].data].att = a
          /\ pc[sub[a].data] \in {"add", "ok", "error"}
      BY <2>1 DEF StoredByCall, HandedIn, Submissions
    <3> DEFINE c == sub[a].data
    <3>2. req'[c] = req[c]
      BY <3>1, NothingTaken
    <3>3. pc'[c] \in {"add", "ok", "error"}
      BY <1>1, <3>1 DEF Active
    <3> QED BY <2>1, <3>1, <3>2, <3>3
  <2>2. CASE sub'[a] = sub[a]
    BY <1>2, <2>1, <2>2 DEF HandedIn
  <2>3. CASE sub'[a] # sub[a]
    <3>1. CASE \E c \in Calls : /\ pc[c] = "upsert" /\ req[c].att = a /\ req'[c] = req[c] /\ pc'[c] = "add"
                                /\ UNCHANGED <<job, worker>>
                                /\ sub'[a].status = "draft" /\ sub'[a].data = c
      BY <3>1 DEF CallInv
    <3>2. CASE sub[a] # None /\ sub'[a].data = sub[a].data
      BY <1>2, <2>1, <3>2 DEF HandedIn
    <3>3. CASE sub'[a].data = None
      BY <1>2, <3>3 DEF HandedIn
    <3> QED BY <2>3, <3>1, <3>2, <3>3, SubmissionSteps
  <2> QED BY <2>2, <2>3
<1>3. ASSUME NEW a \in Attempts, sub'[a] # None, sub'[a].data = None PROVE sub'[a].status = "draft"
  <2>1. CASE sub'[a] = sub[a]
    BY <1>3, <2>1 DEF StoredByCall
  <2>2. ASSUME NEW w \in Workers, wpc[w] # "free", req[wjob[w]].att = a, sub'[a].data = sub[a].data
        PROVE  FALSE
    BY <1>3, <2>2, Running
  <2> QED BY <1>3, <2>1, <2>2, SubmissionSteps, NoneAssumption DEF NoneAssumption
<1>4. ASSUME NEW c \in Calls, pc'[c] = "ok", req'[c].kind = "submit" PROVE job'[c] # "none"
  <2>1. CASE pc[c] = "idle"
    <3>1. ASSUME NEW x \in Calls, Call(x) PROVE FALSE
      BY <1>4, <2>1, <3>1, ConstantsAssumption DEF Call, Goto, ConstantsAssumption, AllKinds
    <3>2. ASSUME NEW x \in Calls, CallFails(x) \/ Handler(x) PROVE FALSE
      <4>1. Active(x) /\ \E step : Goto(x, step)
        BY <3>2, HandlerOnSubmission DEF CallFails
      <4> QED BY <1>4, <2>1, <4>1 DEF Active, Goto
    <3>3. ASSUME NEW x \in Calls, DropUnnamed(x) \/ (\E w \in Workers : Take(w, x)) PROVE FALSE
      BY <1>4, <2>1, <3>3 DEF DropUnnamed, Take
    <3>4. ASSUME NEW w \in Workers, Work(w) \/ Fault(w) PROVE FALSE
      BY <1>4, <2>1, <3>4, WorkOnSubmission
    <3> QED BY <1>4, <2>1, <3>1, <3>2, <3>3, <3>4 DEF Next, vars
  <2>2. CASE pc[c] # "idle"
    BY <1>1, <1>4, <2>2, NothingTaken, JobsStay DEF StoredByCall
  <2> QED BY <2>1, <2>2
<1>5. \A c \in Calls : /\ tries[c] = MaxTries => tries'[c] = MaxTries
                       /\ stalls[c] = MaxStalled => stalls'[c] = MaxStalled
  BY CountsGrow DEF MaxTries, MaxStalled
<1>6. ASSUME NEW c \in Calls, job'[c] = "failed", req'[c].kind = "submit" PROVE GivenUp(c)'
  <2>1. CASE job[c] = "failed"
    <3>1. GivenUp(c)
      BY <1>6, <2>1, NothingTaken DEF StoredByCall, JobInv
    <3> QED BY <1>5, <1>6, <2>1, <3>1 DEF GivenUp
  <2>2. CASE job[c] # "failed"
    <3>1. job[c] # "none" => req'[c] = req[c]
      BY NothingTaken DEF JobInv
    <3> QED BY <1>6, <2>2, <3>1, JobSteps DEF GivenUp, Named
  <2> QED BY <2>1, <2>2
<1> QED BY <1>2, <1>3, <1>4, <1>6 DEF StoredByCall, HandedIn

LEMMA UnclaimedStep ==
  ASSUME QueueInv, StoredByCall, Unclaimed, [Next]_vars
  PROVE  Unclaimed'
<1> SUFFICES ASSUME NEW a \in Attempts, Draft(a)', HandedIn(a)', ~WasReset(a)'
             PROVE  /\ job'[sub'[a].data] # "done"
                    /\ \A w \in Workers : wpc'[w] # "free" /\ wjob'[w] = sub'[a].data =>
                         wpc'[w] \in {"claim", "storeError"}
  BY DEF Unclaimed
<1> USE DEF QueueInv, Type
<1> DEFINE c == sub'[a].data
<1>1. ~WasReset(a)
  BY NothingTaken DEF WasReset
<1>2. CASE sub'[a] = sub[a]
  <2>1. /\ c \in Calls /\ Draft(a) /\ HandedIn(a) /\ job[c] # "done" /\ req[c].att = a
        /\ \A w \in Workers : wpc[w] # "free" /\ wjob[w] = c => wpc[w] \in {"claim", "storeError"}
    BY <1>1, <1>2 DEF Draft, HandedIn, Unclaimed, StoredByCall, Submissions
  <2> HIDE DEF c
  <2>2. ASSUME NEW w \in Workers, Store(w) \/ StoreError(w), wjob[w] = c PROVE FALSE
    <3>1. wpc[w] # "free" /\ req[wjob[w]].att = a /\ sub[a] \in Submissions /\ sub[a] # None
      BY <2>1, <2>2, Running DEF Store, StoreError, Draft
    <3>2. PICK e \in BOOLEAN :
            sub' = [sub EXCEPT ![req[wjob[w]].att] = [@ EXCEPT !.status = "processed", !.error = e]]
      BY <2>2, <3>1 DEF Store, StoreError
    <3>3. sub'[a] = [sub[a] EXCEPT !.status = "processed", !.error = e]
      BY <3>1, <3>2
    <3> QED BY <1>2, <2>1, <3>1, <3>3 DEF Submissions, Draft
  <2>3. ASSUME NEW w \in Workers, NothingToClaim(w), wjob[w] = c PROVE FALSE
    BY <2>1, <2>3 DEF NothingToClaim, Draft
  <2>4. job'[c] # "done"
    BY <2>1, <2>2, <2>3, JobSteps DEF HeldBy
  <2>5. ASSUME NEW w \in Workers, wpc'[w] # "free", wjob'[w] = c PROVE wpc'[w] \in {"claim", "storeError"}
    <3>1. ASSUME NEW x \in Calls, Call(x) \/ CallFails(x) \/ Handler(x) \/ DropUnnamed(x)
          PROVE  UNCHANGED worker
      BY <3>1, HandlerOnSubmission DEF Call, CallFails, DropUnnamed
    <3>2. ASSUME NEW x \in Calls, NEW v \in Workers, Take(v, x)
          PROVE  wpc'[w] = "claim" \/ (wpc'[w] = wpc[w] /\ wjob'[w] = wjob[w])
      BY <3>2 DEF Take
    <3>3. ASSUME NEW v \in Workers \ {w}, Work(v) \/ Fault(v)
          PROVE  wpc'[w] = wpc[w] /\ wjob'[w] = wjob[w]
      BY <3>3, WorkerMoves
    <3>4. ASSUME Work(w) \/ Fault(w)
          PROVE  \/ wpc'[w] = wpc[w] /\ wjob'[w] = wjob[w]
                 \/ wpc'[w] = "storeError"
                 \/ Claim(w) \/ Grade(w)
      BY <2>5, <3>4 DEF Work, Fault, NothingToClaim, Store, StoreError, OperationFails,
             HandlerThrows, Stall, Crash, Complete, Free, WGoto
    <3>5. ~Grade(w)
      BY <2>1, <2>5 DEF Grade, WGoto
    <3>6. ASSUME Claim(w) PROVE FALSE
      <4>1. wjob[w] = c /\ sub'[a] = [sub[a] EXCEPT !.status = "processing"] /\ sub[a] \in Submissions
        BY <2>1, <2>5, <3>6, NoneAssumption DEF Claim, Draft
      <4> QED BY <1>2, <2>1, <4>1 DEF Submissions, Draft
    <3> QED BY <2>1, <2>5, <3>1, <3>2, <3>3, <3>4, <3>5, <3>6 DEF Next, vars, worker
  <2> QED BY <2>4, <2>5 DEF c
<1>3. CASE sub'[a] # sub[a]
  <2>1. PICK x \in Calls : /\ pc[x] = "upsert" /\ UNCHANGED <<job, worker>> /\ c = x
    <3>1. ASSUME NEW x \in Calls, pc[x] = "redraft", req[x].att = a, UNCHANGED req, pc'[x] = "addUnnamed"
          PROVE  FALSE
      <4>1. req[x] = [kind |-> "reset", att |-> a]
        BY <3>1 DEF CallInv, Requests
      <4> QED BY <3>1, <4>1 DEF WasReset
    <3> QED BY <1>3, <3>1, SubmissionSteps DEF Draft, HandedIn
  <2>2. job[x] = "none"
    BY <2>1 DEF JobInv
  <2> QED BY <2>1, <2>2 DEF worker, WorkerInv
<1> QED BY <1>2, <1>3

LEMMA ClaimStep ==
  ASSUME QueueInv, HandsInv, [Next]_vars, NEW a \in Attempts
  PROVE  ClaimHasWorker(a)'
<1> SUFFICES ASSUME sub'[a] # None, sub'[a].status = "processing", ~Disturbed(a)'
             PROVE  \E w \in Workers : OnAttempt(w, a)' /\ wpc'[w] # "claim"
  BY DEF ClaimHasWorker
<1> USE DEF QueueInv, Type
<1>1. ASSUME NEW c \in Calls, pc[c] # "idle", req[c].att = a, stalls'[c] > 0 \/ tries'[c] > 0
      PROVE  FALSE
  BY <1>1, NothingTaken DEF Disturbed
<1>2. CASE sub'[a] # sub[a]
  <2>1. PICK w \in Workers : /\ wpc[w] # "free" /\ req[wjob[w]].att = a /\ UNCHANGED req
                             /\ wpc'[w] = "grade" /\ wjob'[w] = wjob[w]
    BY <1>2, SubmissionSteps
  <2> QED BY <2>1 DEF OnAttempt
<1>3. CASE sub'[a] = sub[a]
  <2>1. ~Disturbed(a)
    <3>1. \A c \in Calls : (stalls[c] > 0 => stalls'[c] > 0) /\ (tries[c] > 0 => tries'[c] > 0)
      BY CountsGrow
    <3> QED BY <1>1, <3>1 DEF Disturbed
  <2>2. PICK w \in Workers : OnAttempt(w, a) /\ wpc[w] # "claim"
    BY <1>3, <2>1 DEF HandsInv, ClaimHasWorker
  <2>3. /\ wpc[w] # "free" /\ wjob[w] \in Calls /\ pc[wjob[w]] # "idle" /\ req[wjob[w]].att = a
        /\ sub[a] \in Submissions /\ req'[wjob[w]] = req[wjob[w]]
    BY <2>2, Running, NothingTaken DEF OnAttempt
  <2>4. w \in locked
    <3>1. w \notin locked => stalls[wjob[w]] > 0
      BY <2>3 DEF HandsInv, LockedJobs
    <3> QED BY <2>1, <2>3, <3>1 DEF Disturbed
  <2>5. SUFFICES wpc'[w] \notin {"free", "claim"} /\ wjob'[w] = wjob[w]
    BY <2>3 DEF OnAttempt
  <2>6. ASSUME NEW x \in Calls, Call(x) \/ CallFails(x) \/ Handler(x) \/ DropUnnamed(x)
        PROVE  UNCHANGED worker
    BY <2>6, HandlerOnSubmission DEF Call, CallFails, DropUnnamed
  <2>7. ASSUME NEW x \in Calls, NEW v \in Workers, Take(v, x)
        PROVE  wpc'[w] = wpc[w] /\ wjob'[w] = wjob[w]
    BY <2>3, <2>7 DEF Take
  <2>8. ASSUME NEW v \in Workers \ {w}, Work(v) \/ Fault(v)
        PROVE  wpc'[w] = wpc[w] /\ wjob'[w] = wjob[w]
    BY <2>8, WorkerMoves
  <2>9. ASSUME Work(w) \/ Fault(w) PROVE wpc'[w] \notin {"free", "claim"} /\ wjob'[w] = wjob[w]
    <3>1. ~Claim(w) /\ ~NothingToClaim(w)
      BY <2>2 DEF Claim, NothingToClaim
    <3>2. ASSUME Store(w) \/ StoreError(w) PROVE FALSE
      <4>1. PICK e \in BOOLEAN :
              sub' = [sub EXCEPT ![req[wjob[w]].att] = [@ EXCEPT !.status = "processed", !.error = e]]
        BY <2>3, <3>2, <1>3 DEF Store, StoreError
      <4>2. sub'[a] = [sub[a] EXCEPT !.status = "processed", !.error = e]
        BY <2>3, <4>1
      <4> QED BY <1>3, <2>3, <4>2 DEF Submissions
    <3>3. ~HandlerThrows(w)
      <4>1. HandlerThrows(w) => tries'[wjob[w]] = tries[wjob[w]] + 1
        BY <2>3, <2>4 DEF HandlerThrows
      <4>2. tries[wjob[w]] \in Nat
        BY <2>3 DEF MaxTries
      <4> QED BY <1>1, <2>3, <4>1, <4>2
    <3>4. ~Stall(w) /\ ~Crash(w)
      <4>1. Redeliver(w) => stalls'[wjob[w]] > 0
        BY <2>3 DEF Redeliver, MaxStalled
      <4> QED BY <1>1, <2>3, <2>4, <4>1 DEF Stall, Crash
    <3>5. CASE Grade(w) \/ OperationFails(w)
      BY <3>5 DEF Grade, OperationFails, WGoto
    <3> QED BY <2>9, <3>1, <3>2, <3>3, <3>4, <3>5 DEF Work, Fault
  <2> QED BY <2>2, <2>3, <2>6, <2>7, <2>8, <2>9 DEF Next, vars, worker
<1> QED BY <1>2, <1>3

LEMMA HandsStep == QueueInv /\ HandsInv /\ [Next]_vars => HandsInv'
BY LockedStep, StoredStep, UnclaimedStep, ClaimStep DEF HandsInv

LEMMA DraftsHaveJobs ==
  ASSUME QueueInv, HandsInv, NEW a \in Attempts
  PROVE  DraftHasJob(a)
<1> DEFINE c == sub[a].data
<1> SUFFICES ASSUME Draft(a), c # None, pc[c] = "ok", ~WasReset(a)
             PROVE  \/ job[c] = "waiting" \/ GivenUp(c)
                    \/ /\ job[c] = "active"
                       /\ \E w \in Workers : HeldBy(w, c) /\ wpc[w] \in {"claim", "storeError"}
  BY DEF DraftHasJob
<1>1. HandedIn(a) /\ c \in Calls
  BY DEF Draft, HandedIn, QueueInv, Type, Submissions
<1>2. req[c].kind = "submit" /\ job[c] # "none"
  BY <1>1 DEF HandsInv, StoredByCall
<1>3. /\ job[c] # "done"
      /\ \A w \in Workers : wpc[w] # "free" /\ wjob[w] = c => wpc[w] \in {"claim", "storeError"}
  BY <1>1 DEF HandsInv, Unclaimed
<1>4. job[c] \in {"waiting", "active", "failed"}
  BY <1>1, <1>2, <1>3 DEF QueueInv, Type
<1>5. CASE job[c] = "active"
  <2>1. PICK w \in Workers : HeldBy(w, c)
    BY <1>1, <1>5 DEF HandsInv, LockedJobs
  <2>2. wpc[w] # "free" /\ wjob[w] = c
    BY <2>1 DEF HeldBy, QueueInv, WorkerInv
  <2> QED BY <1>3, <1>5, <2>1, <2>2
<1>6. CASE job[c] = "failed"
  BY <1>1, <1>2, <1>6 DEF HandsInv, StoredByCall
<1> QED BY <1>4, <1>5, <1>6

LEMMA AlwaysHandsInv == Spec => []HandsInv
BY AlwaysQueueInv, InitHands, HandsStep, PTL DEF Spec

(* UnprocessedIsInHand, whatever calls overlap and whatever goes wrong: a  *)
(* draft that was accepted has its job until Bull gives it up or it is     *)
(* reset, and a claimed submission has a worker unless Bull has counted a  *)
(* stalled job or a thrown error against its attempt.                      *)
THEOREM UnprocessedStaysInHand == Spec => []UnprocessedIsInHand
<1>1. QueueInv /\ HandsInv => UnprocessedIsInHand
  BY DraftsHaveJobs DEF UnprocessedIsInHand, HandsInv
<1> QED BY <1>1, AlwaysQueueInv, AlwaysHandsInv, PTL

-----------------------------------------------------------------------------
(* Clients that wait, and jobs that stall.  A stalled job runs in several  *)
(* workers, one of which claims the draft; the others find nothing.        *)
GradesOn(w, a) == OnAttempt(w, a) /\ wpc[w] \in {"grade", "store"}

StallRecord(a) ==
  LET c == sub[a].data IN
  /\ pc[c] \in {"add", "ok"}
  /\ sub[a].status = "draft" =>
       pc[c] = "add" \/ job[c] = "waiting" \/ \E w \in Workers : OnAttempt(w, a) /\ wpc[w] = "claim"
  /\ sub[a].status = "processing" => \E w \in Workers : GradesOn(w, a)
  /\ sub[a].status = "processed" => attempt[a].score = c

StallRequest(c) ==
  LET a == req[c].att IN
  /\ pc[c] # "idle" => req[c].kind # "reset"
  /\ job[c] # "none" => req[c].kind = "submit"
  /\ pc[c] \in {"submit", "upsert"} /\ HandedIn(a) => sub[a].status = "processed"
  /\ pc[c] = "add" => sub[a].data = c
  /\ \A d \in Calls : Active(c) /\ Active(d) /\ req[d].att = a => c = d

StallRun(w) ==
  /\ wpc[w] # "storeError"
  /\ \A a \in Attempts : GradesOn(w, a) =>
       /\ sub[a].status = "processing" /\ wdata[w] = sub[a].data
       /\ wpc[w] = "store" => attempt[a].score = wdata[w]
       /\ \A v \in Workers : GradesOn(v, a) => v = w

StallInv ==
  /\ \A a \in Attempts : sub[a] # None => ~sub[a].error
  /\ \A a \in Attempts : HandedIn(a) => StallRecord(a)
  /\ \A c \in Calls : StallRequest(c)
  /\ \A w \in Workers : wpc[w] # "free" => StallRun(w)

OnlyStalls == OneAtATime /\ Faults \subseteq {"stall"} /\ "reset" \notin Kinds

(* The steps of this case.                                                 *)
LEMMA StallSteps ==
  ASSUME OnlyStalls, QueueInv, StallInv, [Next]_vars
  PROVE  /\ ~\E c \in Calls : CallFails(c) \/ ResetFind(c) \/ ResetDraft(c) \/ DropUnnamed(c)
         /\ ~\E w \in Workers : StoreError(w) \/ OperationFails(w) \/ HandlerThrows(w) \/ Crash(w)
<1>1. ASSUME NEW c \in Calls PROVE ~CallFails(c) /\ ~ResetFind(c) /\ ~ResetDraft(c) /\ ~DropUnnamed(c)
  <2>1. ~CallFails(c)
    BY DEF CallFails, OnlyStalls
  <2>2. ~ResetFind(c) /\ ~ResetDraft(c)
    BY DEF ResetFind, ResetDraft, QueueInv, CallInv, StallInv, StallRequest
  <2>3. ~DropUnnamed(c)
    BY DEF DropUnnamed, Named, StallInv, StallRequest
  <2> QED BY <2>1, <2>2, <2>3
<1>2. ASSUME NEW w \in Workers PROVE ~StoreError(w) /\ ~OperationFails(w) /\ ~HandlerThrows(w) /\ ~Crash(w)
  <2>1. wpc[w] # "storeError"
    BY DEF StallInv, StallRun
  <2> QED BY <2>1 DEF StoreError, OperationFails, HandlerThrows, Crash, OnlyStalls
<1> QED BY <1>1, <1>2

LEMMA InitStall == Init => StallInv
BY DEF Init, StallInv, HandedIn, StallRequest, Active

LEMMA StallErrors ==
  ASSUME OnlyStalls, QueueInv, StallInv, [Next]_vars, NEW a \in Attempts, sub'[a] # None
  PROVE  ~sub'[a].error
<1> USE DEF QueueInv, Type
<1>1. CASE sub'[a] = sub[a]
  BY <1>1 DEF StallInv
<1>2. ASSUME NEW c \in Calls, Handler(c), sub'[a] # sub[a] PROVE ~sub'[a].error
  <2>1. CASE SubmitUpsert(c)
    <3>1. sub'[a].error = (sub[a] # None /\ sub[a].error)
      BY <1>2, <2>1 DEF SubmitUpsert
    <3> QED BY <3>1 DEF StallInv
  <2>2. CASE QuestionUpsert(c)
    BY <1>2, <2>2 DEF QuestionUpsert
  <2> QED BY <1>2, <2>1, <2>2, StallSteps DEF Handler, SubmitClose, SubmitAdd
<1>3. ASSUME NEW w \in Workers, Work(w) \/ Fault(w), sub'[a] # sub[a] PROVE ~sub'[a].error
  <2>1. Claim(w) \/ Store(w)
    BY <1>3, StallSteps DEF Work, Fault, NothingToClaim, Grade, Stall
  <2>2. wpc[w] # "free"
    BY <2>1 DEF Claim, Store
  <2>3. sub[req[wjob[w]].att] \in Submissions /\ req[wjob[w]].att = a
    BY <1>3, <2>1, <2>2, Running DEF Claim, Store
  <2>4. CASE Claim(w)
    <3>1. sub'[a] = [sub[a] EXCEPT !.status = "processing"] /\ sub[a] # None
      BY <2>3, <2>4 DEF Claim
    <3> QED BY <2>3, <3>1 DEF StallInv, Submissions
  <2>5. CASE Store(w)
    <3>1. sub'[a] = [sub[a] EXCEPT !.status = "processed", !.error = FALSE]
      BY <2>3, <2>5 DEF Store
    <3> QED BY <2>3, <3>1 DEF Submissions
  <2> QED BY <2>1, <2>4, <2>5
<1>4. ASSUME NEW c \in Calls, Call(c) \/ (\E w \in Workers : Take(w, c)) PROVE UNCHANGED sub
  BY <1>4 DEF Call, Take
<1> QED BY <1>1, <1>2, <1>3, <1>4, StallSteps DEF Next, vars

(* A call that is made does not overlap another on its attempt, and a new  *)
(* hand-in follows a processed one.                                        *)
LEMMA StallCalls ==
  ASSUME OnlyStalls, QueueInv, StallInv, NEW x \in Calls, Call(x), NEW c \in Calls
  PROVE  StallRequest(c)'
<1>1. PICK r \in [kind : Kinds, att : Attempts] :
        /\ ClientWaits(r) /\ req' = [req EXCEPT ![x] = r] /\ pc' = [pc EXCEPT ![x] = r.kind]
  BY DEF Call, Goto, OnlyStalls
<1>2. r \in Requests /\ r.kind \in {"submit", "question"} /\ r.att \in Attempts
  BY ConstantsAssumption DEF ConstantsAssumption, Requests, AllKinds, OnlyStalls
<1>3. /\ pc[x] = "idle" /\ UNCHANGED <<sub, job>> /\ job[x] = "none"
      /\ pc'[x] = r.kind /\ req'[x] = r
      /\ \A y \in Calls \ {x} : pc'[y] = pc[y] /\ req'[y] = req[y]
  BY <1>1 DEF Call, queue, QueueInv, JobInv, Type
<1>4. ASSUME NEW d \in Calls, NEW e \in Calls, Active(d)', Active(e)', req'[d].att = req'[e].att
      PROVE  d = e
  <2>1. \A z \in Calls : Active(z) => req[z].att # r.att
    BY <1>1 DEF ClientWaits
  <2>2. \A z \in Calls \ {x} : Active(z)' <=> Active(z)
    BY <1>3 DEF Active
  <2>3. CASE d # x /\ e # x
    BY <1>3, <1>4, <2>2, <2>3 DEF StallInv, StallRequest
  <2>4. CASE d = x \/ e = x
    BY <1>3, <1>4, <2>1, <2>2, <2>4
  <2> QED BY <2>3, <2>4
<1>5. CASE c = x
  <2>1. pc'[c] = "submit" /\ HandedIn(r.att) => sub[r.att].status = "processed"
    BY <1>1, <1>3, <1>5 DEF ClientWaits, HandedIn
  <2> QED BY <1>2, <1>3, <1>4, <1>5, <2>1 DEF StallRequest, HandedIn
<1>6. CASE c # x
  BY <1>3, <1>4, <1>6 DEF StallInv, StallRequest, HandedIn
<1> QED BY <1>5, <1>6

LEMMA StallControl ==
  ASSUME OnlyStalls, QueueInv, StallInv, [Next]_vars, ~\E x \in Calls : Call(x), NEW c \in Calls
  PROVE  /\ UNCHANGED req /\ (Active(c)' => Active(c))
         /\ pc'[c] = "submit" => pc[c] = "submit"
         /\ pc'[c] = "upsert" => pc[c] \in {"submit", "upsert"}
         /\ pc'[c] = "add" => pc[c] = "add" \/ SubmitUpsert(c)
         /\ pc[c] \in {"add", "ok"} => pc'[c] = pc[c] \/ (pc'[c] = "ok" /\ job'[c] = "waiting")
         /\ job'[c] # job[c] /\ job[c] = "none" => pc[c] = "add"
         /\ pc[c] = "idle" => pc'[c] = "idle"
<1> USE DEF QueueInv, Type
<1>1. CASE \E w \in Workers : Work(w) \/ Fault(w)
  <2>1. UNCHANGED <<req, pc>>
    BY <1>1, WorkOnSubmission
  <2>2. PICK w \in Workers : UNCHANGED job \/ (w \in locked /\ \A d \in Calls \ {wjob[w]} : job'[d] = job[d])
    BY <1>1, WorkerMoves
  <2> QED BY <2>1, <2>2 DEF WorkerInv, Active
<1>2. CASE \E w \in Workers, x \in Calls : Take(w, x)
  BY <1>2 DEF Take, Active
<1>3. ASSUME NEW x \in Calls, Handler(x)
      PROVE  /\ pc' = [pc EXCEPT ![x] = pc'[x]] /\ UNCHANGED req
             /\ \A d \in Calls \ {x} : job'[d] = job[d]
             /\ \/ pc[x] = "submit" /\ pc'[x] = "upsert" /\ UNCHANGED job
                \/ SubmitUpsert(x) /\ pc[x] = "upsert" /\ pc'[x] = "add" /\ UNCHANGED job
                \/ pc[x] = "add" /\ pc'[x] = "ok" /\ job'[x] = "waiting"
                \/ pc[x] = "question" /\ pc'[x] = "ok" /\ UNCHANGED job
  <2>1. pc[x] # "addUnnamed"
    BY DEF StallInv, StallRequest, CallInv
  <2> QED BY <1>3, <2>1, StallSteps DEF Handler, SubmitClose, SubmitUpsert, SubmitAdd, QuestionUpsert, Goto, queue
<1>4. CASE \E x \in Calls : Handler(x)
  <2>1. PICK x \in Calls : Handler(x)
    BY <1>4
  <2>2. CASE x = c
    BY <1>3, <2>1, <2>2 DEF Active
  <2>3. CASE x # c
    <3>1. pc'[c] = pc[c] /\ UNCHANGED req /\ job'[c] = job[c]
      BY <1>3, <2>1, <2>3
    <3> QED BY <3>1 DEF Active
  <2> QED BY <2>2, <2>3
<1>5. CASE UNCHANGED vars
  BY <1>5 DEF vars, queue, Active
<1> QED BY <1>1, <1>2, <1>4, <1>5, StallSteps DEF Next

(* While a worker grades an attempt, no other step touches its submission. *)
LEMMA GradingAlone ==
  ASSUME OnlyStalls, QueueInv, StallInv, [Next]_vars, NEW a \in Attempts, NEW w \in Workers,
         GradesOn(w, a), sub'[a] # sub[a]
  PROVE  Store(w) /\ sub'[a].status = "processed" /\ sub'[a].data = sub[a].data
<1>1. /\ sub[a].status = "processing" /\ wpc[w] # "free" /\ wjob[w] \in Calls /\ req[wjob[w]].att = a
      /\ HandedIn(a)
  BY Running, NoneAssumption DEF StallInv, StallRun, GradesOn, OnAttempt, HandedIn, NoneAssumption
<1>2. ASSUME NEW c \in Calls, pc[c] = "upsert", req[c].att = a PROVE FALSE
  BY <1>1, <1>2 DEF StallInv, StallRequest
<1>3. ASSUME NEW c \in Calls, pc[c] = "redraft" PROVE FALSE
  BY <1>3 DEF StallInv, StallRequest, QueueInv, CallInv
<1>4. PICK v \in Workers : /\ wpc[v] # "free" /\ req[wjob[v]].att = a /\ sub'[a].data = sub[a].data
                           /\ Claim(v) \/ (sub'[a].status = "processed" /\ (Store(v) \/ StoreError(v)))
  BY <1>1, <1>2, <1>3, SubmissionSteps DEF HandedIn
<1>5. ~Claim(v)
  BY <1>1, <1>4 DEF Claim
<1>6. Store(v)
  BY <1>4, <1>5, StallSteps
<1>7. v = w
  BY <1>4, <1>6 DEF StallInv, StallRun, GradesOn, OnAttempt, Store
<1> QED BY <1>4, <1>5, <1>6, <1>7

LEMMA StallRequestStep ==
  ASSUME OnlyStalls, QueueInv, StallInv, [Next]_vars, NEW c \in Calls
  PROVE  StallRequest(c)'
<1> USE DEF QueueInv, Type
<1>1. CASE \E x \in Calls : Call(x)
  BY <1>1, StallCalls
<1>2. CASE ~\E x \in Calls : Call(x)
  <2>1. UNCHANGED req /\ \A d \in Calls : Active(d)' => Active(d)
    BY <1>2, StallControl
  <2>2. StallRequest(c) /\ \A d \in Calls : Active(c) /\ Active(d) /\ req[d].att = req[c].att => c = d
    BY DEF StallInv, StallRequest
  <2>3. pc'[c] # "idle" => req'[c].kind # "reset"
    BY <1>2, <2>1, <2>2, StallControl DEF StallRequest
  <2>4. job'[c] # "none" => req'[c].kind = "submit"
    BY <1>2, <2>1, <2>2, StallControl DEF StallRequest, CallInv
  <2>5. Active(c) => req[c].att \in Attempts
    BY DEF CallInv, Active, Requests
  <2>6. ASSUME pc'[c] \in {"submit", "upsert"}, sub'[req[c].att] # None, sub'[req[c].att].data # None
        PROVE  sub'[req[c].att].status = "processed"
    <3> DEFINE a == req[c].att
    <3>1. pc[c] \in {"submit", "upsert"} /\ Active(c) /\ a \in Attempts
      BY <1>2, <2>5, <2>6, StallControl DEF Active
    <3>2. CASE sub'[a] = sub[a]
      BY <2>2, <2>6, <3>1, <3>2 DEF StallRequest, HandedIn
    <3>3. CASE sub'[a] # sub[a]
      <4>1. ASSUME NEW x \in Calls, pc[x] = "upsert", pc'[x] = "add", req[x].att = a PROVE FALSE
        <5>1. c = x
          BY <2>2, <3>1, <4>1 DEF Active
        <5> QED BY <2>6, <4>1, <5>1
      <4>2. ASSUME NEW x \in Calls, pc[x] = "redraft" PROVE FALSE
        BY <4>2 DEF StallInv, StallRequest, CallInv
      <4>3. ASSUME NEW w \in Workers, wpc[w] # "free", req[wjob[w]].att = a, Claim(w) PROVE FALSE
        <5>1. HandedIn(a)
          BY <4>3, Running, NoneAssumption DEF HandedIn, NoneAssumption
        <5> QED BY <2>2, <3>1, <4>3, <5>1 DEF StallRequest, Claim
      <4>4. \/ sub'[a].status = "processed"
            \/ sub'[a].data = None
            \/ \E x \in Calls : pc[x] = "upsert" /\ pc'[x] = "add" /\ req[x].att = a
            \/ \E x \in Calls : pc[x] = "redraft"
            \/ \E w \in Workers : wpc[w] # "free" /\ req[wjob[w]].att = a /\ Claim(w)
        BY <3>1, <3>3, SubmissionSteps
      <4> HIDE DEF a
      <4> QED BY <2>6, <4>1, <4>2, <4>3, <4>4 DEF a
    <3> QED BY <3>2, <3>3
  <2>7. ASSUME pc'[c] = "add" PROVE sub'[req[c].att].data = c
    <3> DEFINE a == req[c].att
    <3>1. CASE SubmitUpsert(c)
      <4>1. sub'[a] = [status |-> "draft", data |-> c, error |-> sub[a] # None /\ sub[a].error]
        BY <3>1 DEF SubmitUpsert, CallInv, Requests
      <4> QED BY <4>1
    <3>2. CASE pc[c] = "add"
      <4>1. Active(c) /\ a \in Attempts /\ sub[a].data = c /\ sub[a] # None
        BY <2>2, <2>5, <3>2, NoneAssumption DEF StallRequest, Active, CallInv, HandedIn
      <4>2. ASSUME NEW x \in Calls, pc[x] = "upsert", pc'[x] = "add", req[x].att = a PROVE FALSE
        BY <2>2, <3>2, <4>1, <4>2 DEF Active
      <4>3. ASSUME NEW x \in Calls, pc[x] = "redraft" PROVE FALSE
        BY <4>3 DEF StallInv, StallRequest, CallInv
      <4> QED BY <4>1, <4>2, <4>3, SubmissionSteps
    <3> QED BY <1>2, <2>7, <3>1, <3>2, StallControl
  <2> QED BY <2>1, <2>2, <2>3, <2>4, <2>6, <2>7 DEF StallRequest, HandedIn
<1> QED BY <1>1, <1>2

(* A worker that grades an attempt has claimed it or goes on grading it.   *)
LEMMA GradeSteps ==
  ASSUME QueueInv, [Next]_vars, NEW w \in Workers, NEW a \in Attempts, GradesOn(w, a)'
  PROVE  \/ Claim(w) /\ OnAttempt(w, a) /\ wdata'[w] = sub[a].data /\ wpc'[w] = "grade"
         \/ GradesOn(w, a) /\ wdata'[w] = wdata[w] /\ (wpc'[w] = wpc[w] \/ Grade(w))
<1> USE DEF QueueInv, Type
<1> DEFINE Goes == GradesOn(w, a) /\ wdata'[w] = wdata[w] /\ wpc'[w] = wpc[w]
<1>1. ASSUME wpc'[w] = wpc[w], wjob'[w] = wjob[w], wdata'[w] = wdata[w] PROVE Goes
  <2>1. wpc[w] # "free" /\ wjob[w] \in Calls /\ pc[wjob[w]] \in {"ok", "error"}
    BY <1>1, Running DEF GradesOn, OnAttempt
  <2>2. req'[wjob[w]] = req[wjob[w]]
    BY <2>1, NothingTaken
  <2> QED BY <1>1, <2>1, <2>2 DEF GradesOn, OnAttempt
<1>2. ASSUME NEW x \in Calls, Call(x) \/ CallFails(x) \/ Handler(x) \/ DropUnnamed(x) PROVE Goes
  <2>1. UNCHANGED worker
    BY <1>2, HandlerOnSubmission DEF Call, CallFails, DropUnnamed
  <2> QED BY <1>1, <2>1 DEF worker
<1>3. ASSUME NEW x \in Calls, NEW v \in Workers, Take(v, x) PROVE Goes
  <2>1. CASE v = w
    BY <1>3, <2>1 DEF Take, GradesOn
  <2>2. CASE v # w
    BY <1>1, <1>3, <2>2 DEF Take
  <2> QED BY <2>1, <2>2
<1>4. ASSUME NEW v \in Workers \ {w}, Work(v) \/ Fault(v) PROVE Goes
  BY <1>1, <1>4, WorkerMoves
<1>5. CASE Claim(w)
  BY <1>5 DEF Claim, GradesOn, OnAttempt
<1>6. CASE Grade(w)
  BY <1>6 DEF Grade, WGoto, GradesOn, OnAttempt
<1>7. CASE Stall(w)
  BY <1>1, <1>7 DEF Stall
<1>8. ASSUME NothingToClaim(w) \/ Store(w) \/ StoreError(w) \/ OperationFails(w) \/ HandlerThrows(w) \/ Crash(w)
      PROVE  FALSE
  BY <1>8 DEF NothingToClaim, Store, StoreError, OperationFails, HandlerThrows, Crash, Complete, Free, WGoto,
              GradesOn, OnAttempt
<1>9. CASE UNCHANGED vars
  BY <1>1, <1>9 DEF vars, worker
<1> QED BY <1>2, <1>3, <1>4, <1>5, <1>6, <1>7, <1>8, <1>9 DEF Next, Work, Fault

(* Marks change when a worker grades the attempt, and at no other step.    *)
LEMMA ScoreSteps ==
  ASSUME QueueInv, [Next]_vars, NEW a \in Attempts, attempt'[a].score # attempt[a].score
  PROVE  \E w \in Workers : Grade(w) /\ GradesOn(w, a) /\ attempt'[a].score = wdata[w]
<1> USE DEF QueueInv, Type
<1>1. ASSUME NEW c \in Calls, SubmitClose(c) PROVE FALSE
  <2>1. attempt' = [attempt EXCEPT ![req[c].att].ongoing = FALSE, ![req[c].att].evaluated = FALSE]
    BY <1>1 DEF SubmitClose
  <2>2. attempt[a] \in AttemptDocs
    OBVIOUS
  <2> QED BY <2>1, <2>2 DEF AttemptDocs
<1>2. ASSUME NEW c \in Calls, Call(c) \/ CallFails(c) \/ (Handler(c) /\ ~SubmitClose(c)) \/ DropUnnamed(c)
      PROVE  UNCHANGED attempt
  BY <1>2 DEF Call, CallFails, DropUnnamed, Handler, SubmitUpsert, SubmitAdd, ResetFind, ResetDraft,
              QuestionUpsert
<1>3. ASSUME NEW c \in Calls, NEW w \in Workers, Take(w, c) PROVE UNCHANGED attempt
  BY <1>3 DEF Take
<1>4. ASSUME NEW w \in Workers, Grade(w) PROVE GradesOn(w, a) /\ attempt'[a].score = wdata[w]
  BY <1>4 DEF Grade, GradesOn, OnAttempt
<1>5. ASSUME NEW w \in Workers, (Work(w) \/ Fault(w)) /\ ~Grade(w) PROVE UNCHANGED attempt
  BY <1>5 DEF Work, Fault, Claim, NothingToClaim, Store, StoreError, OperationFails, HandlerThrows,
              Stall, Crash
<1> QED BY <1>1, <1>2, <1>3, <1>4, <1>5 DEF Next, vars

LEMMA StallRunStep ==
  ASSUME OnlyStalls, QueueInv, StallInv, [Next]_vars, NEW w \in Workers, wpc'[w] # "free"
  PROVE  StallRun(w)'
<1> USE DEF QueueInv, Type
<1>1. wpc'[w] # "storeError"
  <2>1. wpc[w] # "storeError"
    BY DEF StallInv, StallRun
  <2>2. ASSUME NEW x \in Calls, Call(x) \/ Handler(x) PROVE UNCHANGED wpc
    BY <2>2, HandlerOnSubmission DEF Call, worker
  <2>3. ASSUME NEW x \in Calls, NEW v \in Workers, Take(v, x) PROVE wpc'[w] \in {wpc[w], "claim"}
    BY <2>3 DEF Take
  <2>4. ASSUME NEW v \in Workers \ {w}, Work(v) \/ Fault(v) PROVE wpc'[w] = wpc[w]
    BY <2>4, WorkerMoves
  <2>5. ASSUME Work(w) \/ Fault(w) PROVE wpc'[w] \in {wpc[w], "free", "grade", "store"}
    BY <2>5, StallSteps DEF Work, Fault, Claim, NothingToClaim, Grade, Store, Stall, Complete, Free, WGoto
  <2> QED BY <2>1, <2>2, <2>3, <2>4, <2>5, StallSteps DEF Next, vars, worker
<1>2. ASSUME NEW a \in Attempts, GradesOn(w, a)'
      PROVE  /\ sub'[a].status = "processing" /\ wdata'[w] = sub'[a].data
             /\ wpc'[w] = "store" => attempt'[a].score = wdata'[w]
             /\ \A v \in Workers : GradesOn(v, a)' => v = w
  <2>1. CASE Claim(w) /\ OnAttempt(w, a) /\ wdata'[w] = sub[a].data /\ wpc'[w] = "grade"
    <3>1. sub[a] \in Submissions /\ sub[a].status = "draft" /\ sub'[a] = [sub[a] EXCEPT !.status = "processing"]
      BY <2>1, Running DEF Claim, OnAttempt
    <3>2. sub'[a].status = "processing" /\ sub'[a].data = sub[a].data
      BY <3>1 DEF Submissions
    <3>3. ASSUME NEW v \in Workers \ {w}, GradesOn(v, a)' PROVE FALSE
      <4>1. wpc'[v] = wpc[v] /\ wjob'[v] = wjob[v] /\ UNCHANGED req
        BY <2>1, WorkerMoves, WorkOnSubmission DEF Work
      <4>2. GradesOn(v, a) /\ wpc[v] # "free"
        BY <3>3, <4>1 DEF GradesOn, OnAttempt
      <4> QED BY <3>1, <4>2 DEF StallInv, StallRun
    <3> QED BY <2>1, <3>2, <3>3
  <2>2. CASE GradesOn(w, a) /\ wdata'[w] = wdata[w] /\ (wpc'[w] = wpc[w] \/ Grade(w))
    <3>1. /\ wpc[w] # "free" /\ sub[a].status = "processing" /\ wdata[w] = sub[a].data
          /\ wpc[w] = "store" => attempt[a].score = wdata[w]
          /\ \A v \in Workers : GradesOn(v, a) => v = w
      BY <2>2 DEF StallInv, StallRun, GradesOn, OnAttempt
    <3>2. sub'[a] = sub[a]
      <4>1. ~Store(w)
        BY <2>2, <3>1 DEF Store, Complete, Free, Grade, GradesOn, OnAttempt, WGoto
      <4> QED BY <2>2, <4>1, GradingAlone
    <3>3. ASSUME wpc'[w] = "store" PROVE attempt'[a].score = wdata[w]
      <4>1. CASE Grade(w)
        BY <2>2, <4>1 DEF Grade, GradesOn, OnAttempt
      <4>2. CASE wpc[w] = "store"
        BY <3>1, <4>2, ScoreSteps DEF Grade
      <4> QED BY <2>2, <3>3, <4>1, <4>2
    <3>4. ASSUME NEW v \in Workers, GradesOn(v, a)' PROVE v = w
      <4>1. CASE GradesOn(v, a)
        BY <3>1, <4>1
      <4>2. CASE Claim(v) /\ OnAttempt(v, a)
        BY <3>1, <4>2 DEF Claim, OnAttempt
      <4> QED BY <3>4, <4>1, <4>2, GradeSteps
    <3> QED BY <2>2, <3>1, <3>2, <3>3, <3>4
  <2> QED BY <1>2, <2>1, <2>2, GradeSteps
<1> QED BY <1>1, <1>2 DEF StallRun

(* Where a worker that waits for its claim goes next.                      *)
LEMMA ClaimSteps ==
  ASSUME OnlyStalls, QueueInv, StallInv, [Next]_vars, NEW w \in Workers, NEW a \in Attempts,
         OnAttempt(w, a), wpc[w] = "claim"
  PROVE  \/ OnAttempt(w, a)' /\ wpc'[w] = "claim"
         \/ Claim(w)
         \/ NothingToClaim(w)
<1> USE DEF QueueInv, Type
<1>1. wjob[w] \in Calls /\ req'[wjob[w]] = req[wjob[w]]
  BY Running, NothingTaken DEF OnAttempt
<1>2. ASSUME wpc'[w] = wpc[w], wjob'[w] = wjob[w] PROVE OnAttempt(w, a)' /\ wpc'[w] = "claim"
  BY <1>1, <1>2 DEF OnAttempt
<1>3. ASSUME NEW x \in Calls, Call(x) \/ Handler(x) PROVE UNCHANGED worker
  BY <1>3, HandlerOnSubmission DEF Call
<1>4. ASSUME NEW x \in Calls, NEW v \in Workers, Take(v, x) PROVE wpc'[w] = wpc[w] /\ wjob'[w] = wjob[w]
  BY <1>4 DEF Take
<1>5. ASSUME NEW v \in Workers \ {w}, Work(v) \/ Fault(v) PROVE wpc'[w] = wpc[w] /\ wjob'[w] = wjob[w]
  BY <1>5, WorkerMoves
<1>6. ASSUME Work(w) \/ Fault(w) PROVE Claim(w) \/ NothingToClaim(w) \/ UNCHANGED <<wpc, wjob>>
  BY <1>6, StallSteps DEF Work, Fault, Grade, Store, Stall
<1> QED BY <1>2, <1>3, <1>4, <1>5, <1>6, StallSteps DEF Next, vars, worker

(* A call that stored its answers adds its job and is done.                *)
LEMMA StoredCallStays ==
  ASSUME OnlyStalls, QueueInv, StallInv, [Next]_vars, NEW c \in Calls, pc[c] \in {"add", "ok"}
  PROVE  pc'[c] = pc[c] \/ (pc'[c] = "ok" /\ job'[c] = "waiting")
<1>1. ASSUME NEW x \in Calls, Call(x) PROVE pc'[c] = pc[c]
  BY <1>1 DEF Call, Goto
<1> QED BY <1>1, StallControl

(* A waiting job goes to a worker, which starts with its claim.            *)
LEMMA TakenJob ==
  ASSUME OnlyStalls, QueueInv, StallInv, [Next]_vars, NEW c \in Calls, job[c] = "waiting", job'[c] # "waiting"
  PROVE  \E w \in Workers : UNCHANGED req /\ wpc'[w] = "claim" /\ wjob'[w] = c
<1> USE DEF QueueInv, Type
<1>1. ASSUME NEW x \in Calls, Call(x) PROVE FALSE
  BY <1>1 DEF Call, queue
<1>2. ASSUME NEW x \in Calls, Handler(x) PROVE FALSE
  BY <1>2 DEF Handler, SubmitClose, SubmitUpsert, SubmitAdd, ResetFind, ResetDraft, QuestionUpsert, queue
<1>3. ASSUME NEW x \in Calls, NEW w \in Workers, Take(w, x)
      PROVE  UNCHANGED req /\ wpc'[w] = "claim" /\ wjob'[w] = c
  BY <1>3 DEF Take
<1>4. ASSUME NEW w \in Workers, Work(w) \/ Fault(w) PROVE FALSE
  BY <1>4, WorkerMoves DEF WorkerInv
<1> QED BY <1>1, <1>2, <1>3, <1>4, StallSteps DEF Next, vars, queue

LEMMA StallRecordStep ==
  ASSUME OnlyStalls, QueueInv, HandsInv, StallInv, [Next]_vars, NEW a \in Attempts, HandedIn(a)'
  PROVE  StallRecord(a)'
<1> USE DEF QueueInv, Type
<1>1. CASE sub'[a] = sub[a]
  <2> DEFINE c == sub[a].data
  <2>1. HandedIn(a) /\ c \in Calls
    BY <1>1 DEF HandedIn, Submissions
  <2>2. /\ pc[c] \in {"add", "ok"}
        /\ sub[a].status = "draft" =>
             pc[c] = "add" \/ job[c] = "waiting" \/ \E w \in Workers : OnAttempt(w, a) /\ wpc[w] = "claim"
        /\ sub[a].status = "processing" => \E w \in Workers : GradesOn(w, a)
        /\ sub[a].status = "processed" => attempt[a].score = c
    BY <2>1 DEF StallInv, StallRecord
  <2>3. pc'[c] = pc[c] \/ (pc'[c] = "ok" /\ job'[c] = "waiting")
    BY <2>1, <2>2, StoredCallStays
  <2>4. ASSUME sub[a].status = "draft"
        PROVE  pc'[c] = "add" \/ job'[c] = "waiting" \/ \E w \in Workers : OnAttempt(w, a)' /\ wpc'[w] = "claim"
    <3>1. CASE pc[c] = "add"
      BY <2>3, <3>1
    <3>2. CASE job[c] = "waiting" /\ job'[c] # "waiting"
      <4>1. req[c].att = a
        BY <2>1 DEF HandsInv, StoredByCall
      <4>2. PICK w \in Workers : UNCHANGED req /\ wpc'[w] = "claim" /\ wjob'[w] = c
        BY <2>1, <3>2, TakenJob
      <4> QED BY <4>1, <4>2 DEF OnAttempt
    <3>3. ASSUME NEW w \in Workers, OnAttempt(w, a), wpc[w] = "claim"
          PROVE  OnAttempt(w, a)' /\ wpc'[w] = "claim"
      <4>1. ~NothingToClaim(w)
        BY <2>1, <2>4, <3>3 DEF NothingToClaim, OnAttempt, HandedIn
      <4>2. ~Claim(w)
        <5>1. sub[a] \in Submissions
          BY <2>1 DEF HandedIn
        <5>2. ASSUME Claim(w) PROVE sub'[a].status = "processing"
          BY <3>3, <5>1, <5>2 DEF Claim, OnAttempt, Submissions
        <5> QED BY <1>1, <2>4, <5>2
      <4> QED BY <3>3, <4>1, <4>2, ClaimSteps
    <3> QED BY <2>2, <2>4, <3>1, <3>2, <3>3
  <2>5. ASSUME sub[a].status = "processing" PROVE \E w \in Workers : GradesOn(w, a)'
    <3>1. PICK w \in Workers : GradesOn(w, a)
      BY <2>2, <2>5
    <3>2. wpc[w] # "free" /\ wjob[w] \in Calls /\ req'[wjob[w]] = req[wjob[w]] /\ req[wjob[w]].att = a
      BY <3>1, Running, NothingTaken DEF GradesOn, OnAttempt
    <3>3. ASSUME wjob'[w] = wjob[w], wpc'[w] \in {"grade", "store"} PROVE GradesOn(w, a)'
      BY <3>2, <3>3 DEF GradesOn, OnAttempt
    <3>4. ASSUME Store(w) PROVE FALSE
      <4>1. sub[a] \in Submissions /\ sub'[a] = [sub[a] EXCEPT !.status = "processed", !.error = FALSE]
        BY <2>1, <3>2, <3>4 DEF Store, HandedIn
      <4> QED BY <1>1, <2>5, <4>1 DEF Submissions
    <3>5. ASSUME NEW x \in Calls, Call(x) \/ Handler(x) PROVE UNCHANGED worker
      BY <3>5, HandlerOnSubmission DEF Call
    <3>6. ASSUME NEW x \in Calls, NEW v \in Workers, Take(v, x) PROVE wjob'[w] = wjob[w] /\ wpc'[w] = wpc[w]
      BY <3>2, <3>6 DEF Take
    <3>7. ASSUME NEW v \in Workers \ {w}, Work(v) \/ Fault(v) PROVE wjob'[w] = wjob[w] /\ wpc'[w] = wpc[w]
      BY <3>7, WorkerMoves
    <3>8. ASSUME Work(w) \/ Fault(w)
          PROVE  wjob'[w] = wjob[w] /\ wpc'[w] \in {"grade", "store"}
      BY <3>1, <3>4, <3>8, StallSteps
         DEF Work, Fault, Claim, NothingToClaim, Grade, Stall, WGoto, GradesOn, OnAttempt
    <3> QED BY <3>1, <3>3, <3>5, <3>6, <3>7, <3>8, StallSteps DEF Next, vars, worker, GradesOn
  <2>6. ASSUME sub[a].status = "processed" PROVE attempt'[a].score = c
    <3>1. ASSUME NEW w \in Workers, GradesOn(w, a) PROVE FALSE
      BY <2>6, <3>1 DEF StallInv, StallRun, GradesOn, OnAttempt
    <3> QED BY <2>2, <2>6, <3>1, ScoreSteps
  <2> QED BY <1>1, <2>2, <2>3, <2>4, <2>5, <2>6 DEF StallRecord
<1>2. CASE sub'[a] # sub[a]
  <2>1. ASSUME NEW c \in Calls, pc'[c] = "add", sub'[a].status = "draft", sub'[a].data = c
        PROVE  StallRecord(a)'
    BY <2>1 DEF StallRecord
  <2>2. ASSUME NEW c \in Calls, pc[c] = "redraft" PROVE FALSE
    BY <2>2 DEF StallInv, StallRequest, CallInv
  <2>3. ASSUME NEW w \in Workers, wpc[w] # "free", req[wjob[w]].att = a, UNCHANGED req,
               sub[a] # None, sub'[a].data = sub[a].data, Claim(w) \/ Store(w)
        PROVE  pc'[sub'[a].data] \in {"add", "ok"}
    <3>1. HandedIn(a) /\ UNCHANGED pc
      BY <2>3, Running, WorkOnSubmission DEF HandedIn, Work
    <3> QED BY <2>3, <3>1 DEF StallInv, StallRecord
  <2>4. ASSUME NEW w \in Workers, wpc[w] # "free", req[wjob[w]].att = a, UNCHANGED req,
               sub[a] # None, sub'[a].data = sub[a].data, Claim(w), sub'[a].status = "processing",
               wpc'[w] = "grade", wjob'[w] = wjob[w]
        PROVE  StallRecord(a)'
    <3>1. GradesOn(w, a)'
      BY <2>4 DEF GradesOn, OnAttempt
    <3> QED BY <2>3, <2>4, <3>1 DEF StallRecord
  <2>5. ASSUME NEW w \in Workers, wpc[w] # "free", req[wjob[w]].att = a, UNCHANGED req,
               sub[a] # None, sub'[a].data = sub[a].data, Store(w), sub'[a].status = "processed"
        PROVE  StallRecord(a)'
    <3>1. UNCHANGED attempt /\ GradesOn(w, a) /\ wpc[w] = "store"
      BY <2>5 DEF Store, GradesOn, OnAttempt
    <3>2. attempt[a].score = sub[a].data
      BY <2>5, <3>1 DEF StallInv, StallRun
    <3> QED BY <2>3, <2>5, <3>1, <3>2 DEF StallRecord
  <2>6. ASSUME sub'[a].data = None PROVE FALSE
    BY <2>6 DEF HandedIn
  <2> QED BY <1>2, <2>1, <2>2, <2>4, <2>5, <2>6, StallSteps, SubmissionSteps
<1> QED BY <1>1, <1>2

LEMMA StallStep ==
  OnlyStalls /\ QueueInv /\ HandsInv /\ StallInv /\ [Next]_vars => StallInv'
<1> SUFFICES ASSUME OnlyStalls, QueueInv, HandsInv, StallInv, [Next]_vars PROVE StallInv'
  OBVIOUS
<1>1. \A a \in Attempts : sub'[a] # None => ~sub'[a].error
  BY StallErrors
<1>2. \A a \in Attempts : HandedIn(a)' => StallRecord(a)'
  BY StallRecordStep
<1>3. \A c \in Calls : StallRequest(c)'
  BY StallRequestStep
<1>4. \A w \in Workers : wpc'[w] # "free" => StallRun(w)'
  BY StallRunStep
<1> QED BY <1>1, <1>2, <1>3, <1>4 DEF StallInv

(* NothingLeftBehind: when a client hands an attempt in again only after   *)
(* its answers were processed, and however often Bull takes a running job  *)
(* for stalled and gives it to another worker, a queue at rest has         *)
(* processed every hand-in without an error, and the marks are those of    *)
(* the answers on record (submitToQueue, AttemptQueueProcessor).           *)
THEOREM NothingIsLeftBehindByStalls ==
  ASSUME OneAtATime, Faults \subseteq {"stall"}, "reset" \notin Kinds
  PROVE  Spec => []NothingLeftBehind
<1>1. QueueInv /\ StallInv => NothingLeftBehind
  <2> SUFFICES ASSUME QueueInv, StallInv, AtRest, NEW a \in Attempts, HandedIn(a)
               PROVE  sub[a].status = "processed" /\ attempt[a].score = sub[a].data
    BY DEF NothingLeftBehind, HandedIn
  <2>1. sub[a].data \in Calls /\ sub[a].status \in {"draft", "processing", "processed"} /\ StallRecord(a)
    BY DEF HandedIn, StallInv, QueueInv, Type, Submissions
  <2>2. pc[sub[a].data] # "add" /\ job[sub[a].data] # "waiting"
    BY <2>1 DEF AtRest, Active
  <2>3. \A w \in Workers : ~OnAttempt(w, a)
    BY DEF AtRest, OnAttempt
  <2> QED BY <2>1, <2>2, <2>3 DEF StallRecord, GradesOn
<1>2. QueueInv /\ HandsInv /\ StallInv /\ [Next]_vars => StallInv'
  BY StallStep DEF OnlyStalls
<1> QED BY <1>1, <1>2, InitStall, AlwaysQueueInv, AlwaysHandsInv, PTL DEF Spec
=============================================================================
