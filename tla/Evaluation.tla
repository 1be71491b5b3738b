----------------------------- MODULE Evaluation -----------------------------
(***************************************************************************)
(* Manual marking of one test (evaluation.service.ts): staff assign the    *)
(* pending questions to evaluators or take an evaluator away, teachers     *)
(* open the test themselves, and mark question by question; the attempt is *)
(* evaluated, and its student told, when no question is pending. Each      *)
(* awaited database operation is a step.                                   *)
(***************************************************************************)
EXTENDS Naturals, Sequences, FiniteSets, SequencesExt

CONSTANTS
    Attempts,   \* handed in, not abandoned, of the test
    Questions,  \* the entries (QA) of their details that want marking
    AttemptOf,  \* the attempt of each question
    Teachers,
    Desks,      \* gRPC calls served at the same time
    Nobody,     \* no question, no teacher
    MaxVisits   \* bounds the number of calls

ASSUME EvaluationAssumption ==
    /\ IsFiniteSet(Questions) /\ IsFiniteSet(Teachers)
    /\ AttemptOf \in [Questions -> Attempts]
    /\ Nobody \notin Questions \cup Teachers
    /\ MaxVisits \in Nat

VARIABLES
    pendingQA,  \* questions whose QA has status 4
    marked,     \* (history) questions that were once stored with another status
    assignedQA, \* questions whose QA has evaluatorAssigned
    evals,      \* the evaluation documents
    result,     \* result[a]: isEvaluated of attempt a, and whether its student was told
    desk,       \* desk[d]: the call it serves
    visits,     \* calls served
    inTurn,     \* whether each call waits for the one before
    broken      \* whether an operation has failed

evaluationVars == <<pendingQA, marked, assignedQA, evals, result, desk, visits, inTurn, broken>>

Evaluations ==
    [q : Questions, t : Teachers, system : BOOLEAN, active : BOOLEAN, done : BOOLEAN]

Options == {"unassigned", "existing", "new"}

(* now: question or teacher at hand; todo: questions to go; to: evaluators *)
(* in turn; left: the pending questions it counted.                        *)
Vacant == [at |-> "free", now |-> Nobody, admin |-> TRUE, todo |-> {}, to |-> <<>>, left |-> 0]

EvaluationInit ==
    /\ pendingQA = Questions
    /\ marked = {}
    /\ assignedQA = {}
    /\ evals = {}
    /\ result = [a \in Attempts |-> [evaluated |-> FALSE, told |-> FALSE]]
    /\ desk = [d \in Desks |-> Vacant]
    /\ visits = 0
    /\ inTurn \in BOOLEAN
    /\ broken = FALSE

Opens(d, call) ==
    /\ desk[d] = Vacant /\ visits < MaxVisits
    /\ inTurn => \A e \in Desks : desk[e] = Vacant
    /\ visits' = visits + 1
    /\ desk' = [desk EXCEPT ![d] = call]
    /\ UNCHANGED <<inTurn, broken>>

Moves(d, call) == desk' = [desk EXCEPT ![d] = call] /\ UNCHANGED <<visits, inTurn, broken>>

Closes(d) == Moves(d, Vacant)

Assignment(q, t, system) == [q |-> q, t |-> t, system |-> system, active |-> TRUE, done |-> FALSE]

(* Orders in which a list of distinct teachers may come. *)
Lists(T) == SetToSeqs(T)

(***************************************************************************)
(* assignEvaluators                                                        *)
(***************************************************************************)
(* Mutant of ToAssign: questions that have an evaluator are found again. *)
ToAssignAll == pendingQA

ToAssign == pendingQA \ assignedQA

AssignFind(d) ==
    /\ \E T \in (SUBSET Teachers) \ {{}} : \E to \in Lists(T) :
        Opens(d, [Vacant EXCEPT !.at = "assign", !.todo = ToAssign, !.to = to])
    /\ UNCHANGED <<pendingQA, marked, assignedQA, evals, result>>

(* One evaluation, for the evaluator whose turn it is. *)
AssignCreate(d) ==
    /\ desk[d].at = "assign"
    /\ \E q \in desk[d].todo :
        /\ evals' = evals \cup {Assignment(q, Head(desk[d].to), FALSE)}
        /\ Moves(d, [desk[d] EXCEPT !.at = "flag", !.now = q, !.todo = @ \ {q},
                                    !.to = Append(Tail(@), Head(@))])
    /\ UNCHANGED <<pendingQA, marked, assignedQA, result>>

AssignFlag(d) ==
    /\ desk[d].at = "flag"
    /\ assignedQA' = assignedQA \cup {desk[d].now}
    /\ Moves(d, [desk[d] EXCEPT !.at = "assign", !.now = Nobody])
    /\ UNCHANGED <<pendingQA, marked, evals, result>>

(***************************************************************************)
(* removeEvaluators                                                        *)
(***************************************************************************)
(* A director's queries ask for a location, which no evaluation made by    *)
(* staff has: it is set on the returned copy only (1796, 1889).            *)
StaffEvals(t, admin) == {e \in evals : admin /\ e.t = t /\ ~e.system}

RemoveFind(d) ==
    /\ \E t \in Teachers, option \in Options, admin \in BOOLEAN, T \in (SUBSET Teachers) \ {{}} :
        \E to \in Lists(T) :
            Opens(d, [Vacant EXCEPT !.at = option, !.now = t, !.admin = admin,
                !.to = IF option = "new" THEN to ELSE <<>>,
                !.todo = {e.q : e \in {f \in StaffEvals(t, admin) : f.active /\ ~f.done}}])
    /\ UNCHANGED <<pendingQA, marked, assignedQA, evals, result>>

(* distinct teachers, read before the evaluations of this one are switched *)
(* off; without any the call is refused.                                   *)
RemoveList(d) ==
    LET others == {t \in Teachers : \E e \in StaffEvals(t, desk[d].admin) : e.active}
    IN  /\ desk[d].at = "existing"
        /\ IF others = {}
           THEN Closes(d)
           ELSE \E to \in Lists(others) : Moves(d, [desk[d] EXCEPT !.at = "new", !.to = to])
        /\ UNCHANGED <<pendingQA, marked, assignedQA, evals, result>>

RemoveDeactivate(d) ==
    LET mine == StaffEvals(desk[d].now, desk[d].admin)
    IN  /\ desk[d].at \in {"unassigned", "new"}
        /\ evals' = (evals \ mine) \cup {[e EXCEPT !.active = FALSE] : e \in mine}
        /\ Moves(d, [desk[d] EXCEPT !.now = Nobody,
                        !.at = IF @ = "new" THEN "hand on" ELSE "unflag"])
        /\ UNCHANGED <<pendingQA, marked, assignedQA, result>>

(* Mutant of RemoveUnflag: the questions keep their flag. *)
RemoveUnflagNot(d) ==
    /\ desk[d].at = "unflag"
    /\ \E q \in desk[d].todo : Moves(d, [desk[d] EXCEPT !.todo = @ \ {q}])
    /\ UNCHANGED <<pendingQA, marked, assignedQA, evals, result>>

RemoveUnflag(d) ==
    /\ desk[d].at = "unflag"
    /\ \E q \in desk[d].todo :
        /\ assignedQA' = assignedQA \ {q}
        /\ Moves(d, [desk[d] EXCEPT !.todo = @ \ {q}])
    /\ UNCHANGED <<pendingQA, marked, evals, result>>

RemoveHandOn(d) ==
    /\ desk[d].at = "hand on"
    /\ \E q \in desk[d].todo :
        /\ evals' = evals \cup {Assignment(q, Head(desk[d].to), FALSE)}
        /\ Moves(d, [desk[d] EXCEPT !.todo = @ \ {q}, !.to = Append(Tail(@), Head(@))])
    /\ UNCHANGED <<pendingQA, marked, assignedQA, result>>

Done(d) ==
    /\ desk[d].at \in {"assign", "unflag", "hand on"} /\ desk[d].todo = {}
    /\ Closes(d)
    /\ UNCHANGED <<pendingQA, marked, assignedQA, evals, result>>

(***************************************************************************)
(* startTestEvaluation with query.system                                   *)
(***************************************************************************)
(* A director's query asks for the location here too, and such a call      *)
(* stores it: a director finds none of those that staff assigned.          *)
StartFind(d) ==
    /\ \E t \in Teachers, admin \in BOOLEAN :
        Opens(d, [Vacant EXCEPT !.at = "match", !.now = t,
                    !.todo = {e.q : e \in {f \in evals : f.t = t /\ (admin \/ f.system)}}])
    /\ UNCHANGED <<pendingQA, marked, assignedQA, evals, result>>

StartMatch(d) ==
    /\ desk[d].at = "match"
    /\ Moves(d, [desk[d] EXCEPT !.at = "insert", !.todo = pendingQA \ @])
    /\ UNCHANGED <<pendingQA, marked, assignedQA, evals, result>>

StartInsert(d) ==
    /\ desk[d].at = "insert"
    /\ evals' = evals \cup {Assignment(q, desk[d].now, TRUE) : q \in desk[d].todo}
    /\ Moves(d, [desk[d] EXCEPT !.at = "flag first", !.now = Nobody])
    /\ UNCHANGED <<pendingQA, marked, assignedQA, result>>

(* QA.$ is one entry of each detail: the others stay without the flag.     *)
StartFlag(d) ==
    /\ desk[d].at = "flag first"
    /\ \E F \in SUBSET desk[d].todo :
        /\ \A a \in Attempts : Cardinality({q \in F : AttemptOf[q] = a})
                = IF \E q \in desk[d].todo : AttemptOf[q] = a THEN 1 ELSE 0
        /\ assignedQA' = assignedQA \cup F
    /\ Closes(d)
    /\ UNCHANGED <<pendingQA, marked, evals, result>>

(***************************************************************************)
(* questionEvaluation                                                      *)
(***************************************************************************)
(* The status is stored as the client sends it: it marks the question, or  *)
(* puts a marked one back among the pending.                               *)
MarkStore(d) ==
    /\ \E q \in Questions :
        /\ Opens(d, [Vacant EXCEPT !.at = "count", !.now = q])
        /\ \/ pendingQA' = pendingQA \ {q} /\ marked' = marked \cup {q}
           \/ pendingQA' = pendingQA \cup {q} /\ marked' = marked
    /\ UNCHANGED <<assignedQA, evals, result>>

(* Mutant of Pending: the question at hand is not counted as marked yet,   *)
(* and the count is corrected for it.                                      *)
PendingButOne(q) ==
    LET n == Cardinality({p \in pendingQA : AttemptOf[p] = AttemptOf[q]}) IN IF n > 0 THEN n - 1 ELSE 0

(* The aggregate counts the entries with status 4.                         *)
Pending(q) == Cardinality({p \in pendingQA : AttemptOf[p] = AttemptOf[q]})

MarkCount(d) ==
    /\ desk[d].at = "count"
    /\ Moves(d, [desk[d] EXCEPT !.at = "result", !.left = Pending(desk[d].now)])
    /\ UNCHANGED <<pendingQA, marked, assignedQA, evals, result>>

(* Mutant of MarkResult: isEvaluated is written by the first marking only. *)
MarkResultKept(d) ==
    /\ desk[d].at = "result"
    /\ Moves(d, [desk[d] EXCEPT !.at = "close"])
    /\ UNCHANGED <<pendingQA, marked, assignedQA, evals, result>>

MarkResult(d) ==
    /\ desk[d].at = "result"
    /\ result' = [result EXCEPT ![AttemptOf[desk[d].now]].evaluated = (desk[d].left = 0)]
    /\ Moves(d, [desk[d] EXCEPT !.at = "close"])
    /\ UNCHANGED <<pendingQA, marked, assignedQA, evals>>

(* The evaluations of the question are done (if the client names one).     *)
MarkClose(d) ==
    LET mine == {e \in evals : e.q = desk[d].now /\ e.active}
    IN  /\ desk[d].at = "close"
        /\ evals' \in {(evals \ mine) \cup {[e EXCEPT !.done = TRUE] : e \in mine}, evals}
        /\ IF desk[d].left = 0 THEN Moves(d, [desk[d] EXCEPT !.at = "tell"]) ELSE Closes(d)
        /\ UNCHANGED <<pendingQA, marked, assignedQA, result>>

(* The attempts are those that students may see (isShowAttempt). *)
MarkTell(d) ==
    /\ desk[d].at = "tell"
    /\ result' = [result EXCEPT ![AttemptOf[desk[d].now]].told = TRUE]
    /\ Closes(d)
    /\ UNCHANGED <<pendingQA, marked, assignedQA, evals>>

(* An operation fails after the call has written: what it did stays.       *)
DeskFails(d) ==
    /\ desk[d] # Vacant
    /\ desk' = [desk EXCEPT ![d] = Vacant]
    /\ broken' = TRUE
    /\ UNCHANGED <<pendingQA, marked, assignedQA, evals, result, visits, inTurn>>

DeskStep(d) ==
    \/ AssignFind(d) \/ AssignCreate(d) \/ AssignFlag(d)
    \/ RemoveFind(d) \/ RemoveList(d) \/ RemoveDeactivate(d) \/ RemoveUnflag(d) \/ RemoveHandOn(d)
    \/ Done(d)
    \/ StartFind(d) \/ StartMatch(d) \/ StartInsert(d) \/ StartFlag(d)
    \/ MarkStore(d) \/ MarkCount(d) \/ MarkResult(d) \/ MarkClose(d) \/ MarkTell(d)
    \/ DeskFails(d)

EvaluationNext == \E d \in Desks : DeskStep(d)

EvaluationSpec == EvaluationInit /\ [][EvaluationNext]_evaluationVars

(***************************************************************************)
(* Properties                                                              *)
(***************************************************************************)
EvaluationType ==
    /\ pendingQA \subseteq Questions
    /\ marked \subseteq Questions
    /\ assignedQA \subseteq Questions
    /\ evals \subseteq Evaluations
    /\ result \in [Attempts -> [evaluated : BOOLEAN, told : BOOLEAN]]
    /\ \A d \in Desks :
        /\ desk[d].now \in Questions \cup Teachers \cup {Nobody}
        /\ desk[d].admin \in BOOLEAN
        /\ desk[d].todo \subseteq Questions
        /\ desk[d].to \in Seq(Teachers)
        /\ desk[d].left \in 0 .. Cardinality(Questions)
    /\ visits \in 0 .. MaxVisits
    /\ inTurn \in BOOLEAN
    /\ broken \in BOOLEAN

Resting == \A d \in Desks : desk[d] = Vacant

Unmarked(a) == {q \in pendingQA : AttemptOf[q] = a}

AllMarked(a) == \A q \in Questions : AttemptOf[q] = a => q \in marked

(* An attempt counts as evaluated, and its student is told so, only when   *)
(* every question of it has been marked, however evaluators overlap. (A    *)
(* mark may have been put back to pending since.)                          *)
EvaluatedIsMarked ==
    \A a \in Attempts : result[a].evaluated \/ result[a].told => AllMarked(a)

(* When calls follow one another and none fails, an attempt is evaluated   *)
(* exactly when nothing of it is pending, through marks put back and made  *)
(* again, and its student has been told. (When two evaluators overlap, the *)
(* one that counted first may write last, and isEvaluated is wrong.)       *)
MarkedIsEvaluated ==
    (inTurn /\ ~broken /\ Resting) =>
        \A q \in Questions : LET a == AttemptOf[q] IN
            /\ result[a].evaluated <=> Unmarked(a) = {}
            /\ Unmarked(a) = {} => result[a].told

(* When calls follow one another and none fails, no question is in the     *)
(* hands of two evaluators that staff chose, through assigning, removing,  *)
(* reassigning and marks put back.                                         *)
OneEvaluator ==
    (inTurn /\ ~broken) => \A q \in Questions :
        Cardinality({e \in evals : e.q = q /\ e.active /\ ~e.system}) <= 1

(* When calls follow one another and none fails, a question that assigning *)
(* will pass over, because it is flagged, has an evaluator, or one was     *)
(* done with it. (An evaluation that is done is switched off with the rest *)
(* and not handed on: one stored as pending again may have nobody then.)   *)
FlaggedHasEvaluator ==
    (inTurn /\ ~broken /\ Resting) => \A q \in assignedQA :
        \E e \in evals : e.q = q /\ (e.active \/ e.done)

=============================================================================
