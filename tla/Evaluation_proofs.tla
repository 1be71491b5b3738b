-------------------------- MODULE Evaluation_proofs --------------------------
(***************************************************************************)
(* Proofs about Evaluation, for any attempts, questions, teachers and any  *)
(* number of calls at a time: an attempt is evaluated only when all of it  *)
(* has been marked, and, where calls follow one another, exactly while     *)
(* nothing of it is pending; and a question has one evaluator of its own.  *)
(***************************************************************************)
EXTENDS Evaluation, FiniteSetTheorems, TLAPS

Places ==
    {"free", "assign", "flag", "unassigned", "existing", "new", "hand on", "unflag",
     "match", "insert", "flag first", "count", "result", "close", "tell"}

Calls ==
    [at : Places, now : Questions \cup Teachers \cup {Nobody}, admin : BOOLEAN,
     todo : SUBSET Questions, to : Seq(Teachers), left : 0 .. Cardinality(Questions)]

(***************************************************************************)
(* The inductive invariant                                                 *)
(***************************************************************************)
(* What holds of a call in state r however calls overlap: who and what it  *)
(* is about; when it has counted none, all of the attempt had been marked, *)
(* which stays so: only what is pending can be put back.                   *)
Sound(r) ==
    /\ r.at = "free" => r = Vacant
    /\ r.at \in {"assign", "flag", "new", "hand on"} => r.to # <<>>
    /\ r.at \in {"unassigned", "existing", "new", "match", "insert"} => r.now \in Teachers
    /\ r.at = "flag" => r.now \in Questions
    /\ r.at \in {"count", "result", "close", "tell"} => r.now \in Questions
    /\ r.at = "tell" => r.left = 0
    /\ r.at \in {"result", "close", "tell"} /\ r.left = 0 => AllMarked(AttemptOf[r.now])

(* What was never marked is pending.                                       *)
OthersPending == Questions \ marked \subseteq pendingQA

AnyOrderInv ==
    /\ EvaluationType
    /\ desk \in [Desks -> Calls]
    /\ \A d \in Desks : Sound(desk[d])
    /\ OthersPending
    /\ EvaluatedIsMarked

(* The following is about calls that follow one another, where r is the    *)
(* state of the only one (vacant when there is none).                      *)
Chosen(e) == e \in evals /\ e.active /\ ~e.system

HasActive(q) == \E e \in evals : e.q = q /\ e.active

Held(q) == \E e \in evals : e.q = q /\ (e.active \/ e.done)

(* What it has read is still so.                                           *)
Knows(r) ==
    /\ r.at \in {"assign", "flag"} => r.todo \cap assignedQA = {}
    /\ r.at = "flag" => r.now \notin r.todo /\ HasActive(r.now)
    /\ r.at \in {"unassigned", "existing", "new"} =>
        r.todo = {e.q : e \in {f \in StaffEvals(r.now, r.admin) : f.active /\ ~f.done}}
    /\ r.at \in {"unflag", "hand on"} => \A e \in evals : Chosen(e) => e.q \notin r.todo
    /\ r.at = "hand on" => r.todo \subseteq assignedQA
    /\ r.at = "flag first" => \A q \in r.todo : HasActive(q)
    /\ r.at \in {"result", "close", "tell"} => (r.left = 0 <=> Unmarked(AttemptOf[r.now]) = {})
    /\ r.at \in {"close", "tell"} => (result[AttemptOf[r.now]].evaluated <=> r.left = 0)

(* An attempt is evaluated just when nothing of it is pending, or r is on  *)
(* its way to see to that.                                                 *)
Settled(a) ==
    /\ result[a].evaluated <=> Unmarked(a) = {}
    /\ Unmarked(a) = {} => result[a].told

MarkPlaces == {"count", "result", "close", "tell"}

SeenTo(r) ==
    \A q \in Questions :
        Settled(AttemptOf[q]) \/ (r.at \in MarkPlaces /\ AttemptOf[r.now] = AttemptOf[q])

ChosenOnce == \A e, f \in evals : Chosen(e) /\ Chosen(f) /\ e.q = f.q => e = f

(* Who has an evaluator is flagged, or r is about to flag it.              *)
ChosenIsFlagged(r) ==
    \A e \in evals : Chosen(e) => e.q \in assignedQA \/ (r.at = "flag" /\ r.now = e.q)

(* Who is flagged has or had an evaluator, or r is about to change that.   *)
FlaggedIsHeld(r) ==
    \A q \in assignedQA :
        Held(q) \/ (r.at \in {"unflag", "hand on"} /\ q \in r.todo)

Turn(r) == Knows(r) /\ SeenTo(r) /\ ChosenOnce /\ ChosenIsFlagged(r) /\ FlaggedIsHeld(r)

(* Only d serves a call, if any does.                                      *)
Alone(d) == \A e \in Desks \ {d} : desk[e] = Vacant

InTurnInv ==
    /\ inTurn => \A d \in Desks : desk[d] # Vacant => Alone(d)
    /\ inTurn /\ ~broken =>
        /\ Resting => Turn(Vacant)
        /\ \A d \in Desks : Alone(d) => Turn(desk[d])

EvaluationInv == AnyOrderInv /\ InTurnInv

LEMMA VacantCall ==
  /\ Vacant \in Calls /\ Vacant.at = "free" /\ Vacant.now = Nobody /\ Vacant.admin
  /\ Vacant.todo = {} /\ Vacant.to = <<>> /\ Vacant.left = 0
  /\ Sound(Vacant) /\ Sound(Vacant)'
<1>1. Cardinality(Questions) \in Nat
  BY FS_CardinalityType, EvaluationAssumption
<1>2. Vacant.to = <<>> /\ <<>> \in Seq(Teachers)
  BY DEF Vacant
<1>3. Vacant \in Calls
  BY <1>1, <1>2 DEF Vacant, Calls, Places
<1> QED BY <1>2, <1>3 DEF Vacant, Sound

(* A list of teachers that are not none is a sequence with a first one.    *)
LEMMA ListsAreSeqs ==
  ASSUME NEW T \in SUBSET Teachers, T # {}, NEW to \in Lists(T)
  PROVE  to \in Seq(Teachers) /\ to # <<>>
<1>1. IsFiniteSet(T)
  BY FS_Subset, EvaluationAssumption
<1>2. Cardinality(T) \in Nat /\ Cardinality(T) # 0
  BY <1>1, FS_CardinalityType, FS_EmptySet
<1>3. to \in [1 .. Cardinality(T) -> T]
  BY DEF Lists, SetToSeqs
<1>4. to \in Seq(Teachers)
  BY <1>2, <1>3
<1>5. DOMAIN to = 1 .. Cardinality(T) /\ 1 \in 1 .. Cardinality(T)
  BY <1>2, <1>3
<1>6. DOMAIN <<>> = {}
  OBVIOUS
<1> QED BY <1>4, <1>5, <1>6

(* Taking turns: the first of a list goes to its end.                      *)
LEMMA Rotated ==
  ASSUME NEW to \in Seq(Teachers), to # <<>>
  PROVE  /\ Head(to) \in Teachers
         /\ Append(Tail(to), Head(to)) \in Seq(Teachers)
         /\ Append(Tail(to), Head(to)) # <<>>
<1>1. Head(to) \in Teachers /\ Tail(to) \in Seq(Teachers)
  OBVIOUS
<1>2. PICK s \in Seq(Teachers) : s = Tail(to)
  BY <1>1
<1>3. Append(s, Head(to)) \in Seq(Teachers) /\ Len(Append(s, Head(to))) = Len(s) + 1
  BY <1>1
<1>4. Len(s) \in Nat /\ Len(<<>>) = 0
  OBVIOUS
<1> QED BY <1>1, <1>2, <1>3, <1>4

(* Counting none of the pending questions of an attempt means that there   *)
(* are none.                                                               *)
LEMMA CountOfPending ==
  ASSUME pendingQA \subseteq Questions, NEW q
  PROVE  /\ Pending(q) \in 0 .. Cardinality(Questions)
         /\ Pending(q) = 0 <=> Unmarked(AttemptOf[q]) = {}
<1> DEFINE S == {p \in pendingQA : AttemptOf[p] = AttemptOf[q]}
<1>1. S \in SUBSET Questions
  OBVIOUS
<1>2. IsFiniteSet(S) /\ Cardinality(S) <= Cardinality(Questions)
  BY <1>1, FS_Subset, EvaluationAssumption
<1>3. Cardinality(S) \in Nat /\ Cardinality(Questions) \in Nat
  BY <1>2, FS_CardinalityType, EvaluationAssumption
<1>4. Cardinality(S) = 0 <=> S = {}
  BY <1>2, FS_EmptySet
<1>5. Pending(q) = Cardinality(S) /\ Unmarked(AttemptOf[q]) = S
  BY DEF Pending, Unmarked
<1> HIDE DEF S
<1> QED BY <1>2, <1>3, <1>4, <1>5

LEMMA Types ==
  ASSUME AnyOrderInv
  PROVE  /\ pendingQA \subseteq Questions /\ marked \subseteq Questions
         /\ assignedQA \subseteq Questions /\ evals \subseteq Evaluations
         /\ result \in [Attempts -> [evaluated : BOOLEAN, told : BOOLEAN]]
         /\ desk \in [Desks -> Calls]
         /\ \A d \in Desks : desk[d] \in Calls /\ Sound(desk[d])
         /\ \A r \in Calls :
                /\ r.at \in Places /\ r.now \in Questions \cup Teachers \cup {Nobody}
                /\ r.admin \in BOOLEAN /\ r.todo \subseteq Questions /\ r.to \in Seq(Teachers)
         /\ visits \in 0 .. MaxVisits /\ MaxVisits \in Nat
         /\ inTurn \in BOOLEAN /\ broken \in BOOLEAN
         /\ \A q \in Questions : AttemptOf[q] \in Attempts
<1>1. AnyOrderInv /\ EvaluationType
  BY DEF AnyOrderInv
<1>2. MaxVisits \in Nat /\ \A q \in Questions : AttemptOf[q] \in Attempts
  BY EvaluationAssumption
<1>3. \A r \in Calls :
        /\ r.at \in Places /\ r.now \in Questions \cup Teachers \cup {Nobody}
        /\ r.admin \in BOOLEAN /\ r.todo \subseteq Questions /\ r.to \in Seq(Teachers)
  BY DEF Calls
<1>4. desk \in [Desks -> Calls] /\ \A d \in Desks : desk[d] \in Calls /\ Sound(desk[d])
  BY DEF AnyOrderInv
<1> QED BY <1>1, <1>2, <1>3, <1>4 DEF EvaluationType

(* The invariant holds before the first call.                              *)
THEOREM InitEvaluationInv == EvaluationInit => EvaluationInv
<1> SUFFICES ASSUME EvaluationInit PROVE EvaluationInv
  OBVIOUS
<1>1. desk = [d \in Desks |-> Vacant] /\ desk \in [Desks -> Calls]
  BY VacantCall DEF EvaluationInit
<1>2. \A d \in Desks : Sound(desk[d])
  BY <1>1, VacantCall
<1>3. EvaluationType
  <2>1. 0 \in 0 .. MaxVisits
    BY EvaluationAssumption
  <2>2. /\ pendingQA \subseteq Questions /\ marked \subseteq Questions
        /\ assignedQA \subseteq Questions /\ evals \subseteq Evaluations
        /\ visits \in 0 .. MaxVisits /\ inTurn \in BOOLEAN /\ broken \in BOOLEAN
    BY <2>1 DEF EvaluationInit
  <2>3. result \in [Attempts -> [evaluated : BOOLEAN, told : BOOLEAN]]
    BY DEF EvaluationInit
  <2>4. \A d \in Desks : desk[d] \in Calls
    BY <1>1
  <2> QED BY <2>2, <2>3, <2>4 DEF EvaluationType, Calls
<1>4. OthersPending /\ EvaluatedIsMarked
  BY DEF EvaluationInit, OthersPending, EvaluatedIsMarked
<1>5. Turn(Vacant)
  <2>1. \A q \in Questions : q \in Unmarked(AttemptOf[q]) /\ AttemptOf[q] \in Attempts
    BY EvaluationAssumption DEF EvaluationInit, Unmarked
  <2>2. evals = {} /\ assignedQA = {} /\ \A a \in Attempts : ~result[a].evaluated
    BY DEF EvaluationInit
  <2>3. Knows(Vacant)
    BY VacantCall DEF Knows
  <2>4. SeenTo(Vacant)
    BY <2>1, <2>2 DEF SeenTo, Settled
  <2> QED BY <2>2, <2>3, <2>4 DEF Turn, ChosenOnce, ChosenIsFlagged, FlaggedIsHeld, Chosen
<1>6. \A d \in Desks : desk[d] = Vacant
  BY <1>1
<1>7. InTurnInv
  BY <1>5, <1>6 DEF InTurnInv
<1> QED BY <1>1, <1>2, <1>3, <1>4, <1>7 DEF EvaluationInv, AnyOrderInv

(***************************************************************************)
(* In any order                                                            *)
(***************************************************************************)
LEMMA SoundStays ==
  ASSUME NEW r, Sound(r), marked \subseteq marked'
  PROVE  Sound(r)'
BY DEF Sound, AllMarked

(* One desk goes on to r, what was marked has been, and what is stored     *)
(* keeps its type.                                                         *)
LEMMA DeskMoves ==
  ASSUME AnyOrderInv, NEW d \in Desks, NEW r \in Calls, Sound(r)',
         desk' = [desk EXCEPT ![d] = r], pendingQA' \subseteq Questions,
         marked \subseteq marked', marked' \subseteq Questions,
         assignedQA' \subseteq Questions, evals' \subseteq Evaluations,
         result' \in [Attempts -> [evaluated : BOOLEAN, told : BOOLEAN]],
         visits' \in 0 .. MaxVisits, inTurn' \in BOOLEAN, broken' \in BOOLEAN,
         OthersPending', EvaluatedIsMarked'
  PROVE  AnyOrderInv'
<1>1. desk' \in [Desks -> Calls]
  BY Types
<1>2. ASSUME NEW e \in Desks PROVE Sound(desk[e])'
  <2>1. PICK s \in Calls : s = desk[e] /\ Sound(s)
    BY Types
  <2>2. Sound(s)'
    BY <2>1, SoundStays
  <2>3. desk'[e] = IF e = d THEN r ELSE s
    BY <2>1, Types
  <2>4. CASE e = d
    BY <2>3, <2>4
  <2>5. CASE e # d
    BY <2>2, <2>3, <2>5
  <2> QED BY <2>4, <2>5
<1>3. \A e \in Desks : desk'[e] \in Calls
  BY <1>1
<1>4. EvaluationType'
  BY <1>3 DEF EvaluationType, Calls
<1> QED BY <1>1, <1>2, <1>4 DEF AnyOrderInv

(* The marks and what is told of them are left alone: then a step only has *)
(* to bring its desk to a sound state.                                     *)
LEMMA OtherMoves ==
  ASSUME AnyOrderInv, NEW d \in Desks, NEW r \in Calls, Sound(r),
         desk' = [desk EXCEPT ![d] = r], UNCHANGED <<pendingQA, marked, result, inTurn>>,
         assignedQA' \subseteq Questions, evals' \subseteq Evaluations,
         visits' \in 0 .. MaxVisits, broken' \in BOOLEAN
  PROVE  AnyOrderInv'
<1>1. Sound(r)'
  BY SoundStays
<1>2. OthersPending'
  BY DEF AnyOrderInv, OthersPending
<1>3. EvaluatedIsMarked'
  BY DEF AnyOrderInv, EvaluatedIsMarked, AllMarked
<1> QED BY <1>1, <1>2, <1>3, DeskMoves, Types

(* What Opens and Moves leave.                                             *)
LEMMA OpensEffect ==
  ASSUME AnyOrderInv, NEW d \in Desks, NEW r, Opens(d, r)
  PROVE  /\ desk' = [desk EXCEPT ![d] = r] /\ visits' \in 0 .. MaxVisits /\ broken' \in BOOLEAN
         /\ UNCHANGED <<inTurn, broken>>
<1>1. visits \in 0 .. MaxVisits /\ MaxVisits \in Nat /\ visits < MaxVisits /\ visits' = visits + 1
  BY Types DEF Opens
<1>2. visits' \in 0 .. MaxVisits
  BY <1>1
<1> QED BY <1>2, Types DEF Opens

LEMMA MovesEffect ==
  ASSUME AnyOrderInv, NEW d \in Desks, NEW r, Moves(d, r)
  PROVE  /\ desk' = [desk EXCEPT ![d] = r] /\ visits' \in 0 .. MaxVisits /\ broken' \in BOOLEAN
         /\ UNCHANGED <<inTurn, broken>>
BY Types DEF Moves

LEMMA AssignAnyOrder ==
  ASSUME AnyOrderInv, NEW d \in Desks, AssignFind(d) \/ AssignCreate(d) \/ AssignFlag(d)
  PROVE  AnyOrderInv'
<1>1. CASE AssignFind(d)
  <2>0. PICK T \in (SUBSET Teachers) \ {{}} : \E to \in Lists(T) :
          Opens(d, [Vacant EXCEPT !.at = "assign", !.todo = ToAssign, !.to = to])
    BY <1>1 DEF AssignFind
  <2>1. PICK to \in Lists(T) :
          Opens(d, [Vacant EXCEPT !.at = "assign", !.todo = ToAssign, !.to = to])
    BY <2>0
  <2>2. to \in Seq(Teachers) /\ to # <<>>
    BY ListsAreSeqs
  <2>3. ToAssign \subseteq Questions
    BY Types DEF ToAssign
  <2>4. PICK r \in Calls : r = [Vacant EXCEPT !.at = "assign", !.todo = ToAssign, !.to = to]
    BY <2>2, <2>3, VacantCall DEF Calls, Places
  <2>5. Sound(r)
    BY <2>2, <2>4, VacantCall DEF Sound, Calls
  <2>6. Opens(d, r)
    BY <2>1, <2>4
  <2> QED BY <1>1, <2>5, <2>6, OpensEffect, OtherMoves, Types DEF AssignFind
<1>2. CASE AssignCreate(d)
  <2>1. PICK c \in Calls : c = desk[d] /\ c.at = "assign" /\ Sound(c)
    BY <1>2, Types DEF AssignCreate
  <2>2. PICK q \in c.todo :
          /\ evals' = evals \cup {Assignment(q, Head(c.to), FALSE)}
          /\ Moves(d, [c EXCEPT !.at = "flag", !.now = q, !.todo = @ \ {q},
                                !.to = Append(Tail(@), Head(@))])
    BY <1>2, <2>1 DEF AssignCreate
  <2>3. c.to \in Seq(Teachers) /\ c.to # <<>> /\ q \in Questions
    BY <2>1, Types DEF Sound
  <2>4. /\ Head(c.to) \in Teachers /\ Append(Tail(c.to), Head(c.to)) \in Seq(Teachers)
        /\ Append(Tail(c.to), Head(c.to)) # <<>>
    BY <2>3, Rotated
  <2>5. Assignment(q, Head(c.to), FALSE) \in Evaluations
    BY <2>3, <2>4 DEF Assignment, Evaluations
  <2>6. PICK r \in Calls : r = [c EXCEPT !.at = "flag", !.now = q, !.todo = @ \ {q},
                                         !.to = Append(Tail(@), Head(@))]
    BY <2>3, <2>4 DEF Calls, Places
  <2>7. Sound(r)
    BY <2>3, <2>4, <2>6 DEF Sound, Calls
  <2>8. Moves(d, r) /\ evals' \subseteq Evaluations
    BY <2>2, <2>5, <2>6, Types
  <2> QED BY <1>2, <2>7, <2>8, MovesEffect, OtherMoves, Types, ZenonT(30) DEF AssignCreate
<1>3. CASE AssignFlag(d)
  <2>1. PICK c \in Calls : c = desk[d] /\ c.at = "flag" /\ Sound(c)
    BY <1>3, Types DEF AssignFlag
  <2>2. c.now \in Questions /\ c.to # <<>>
    BY <2>1 DEF Sound
  <2>3. PICK r \in Calls : r = [c EXCEPT !.at = "assign", !.now = Nobody]
    BY DEF Calls, Places
  <2>4. Sound(r)
    BY <2>2, <2>3 DEF Sound, Calls
  <2>5. Moves(d, r) /\ assignedQA' \subseteq Questions
    BY <1>3, <2>1, <2>2, <2>3, Types DEF AssignFlag
  <2> QED BY <1>3, <2>4, <2>5, MovesEffect, OtherMoves, Types DEF AssignFlag
<1> QED BY <1>1, <1>2, <1>3

LEMMA RemoveFindAnyOrder ==
  ASSUME AnyOrderInv, NEW d \in Desks, RemoveFind(d)
  PROVE  AnyOrderInv'
<1>1. PICK t \in Teachers, option \in Options, admin \in BOOLEAN, T \in (SUBSET Teachers) \ {{}} :
        \E to \in Lists(T) :
            Opens(d, [Vacant EXCEPT !.at = option, !.now = t, !.admin = admin,
                !.to = IF option = "new" THEN to ELSE <<>>,
                !.todo = {e.q : e \in {f \in StaffEvals(t, admin) : f.active /\ ~f.done}}])
  BY DEF RemoveFind
<1>2. PICK to \in Lists(T) :
        Opens(d, [Vacant EXCEPT !.at = option, !.now = t, !.admin = admin,
            !.to = IF option = "new" THEN to ELSE <<>>,
            !.todo = {e.q : e \in {f \in StaffEvals(t, admin) : f.active /\ ~f.done}}])
  BY <1>1
<1>3. PICK todo : todo = {e.q : e \in {f \in StaffEvals(t, admin) : f.active /\ ~f.done}}
  OBVIOUS
<1>4. todo \subseteq Questions
  BY <1>3, Types DEF StaffEvals, Evaluations
<1>5. PICK list : list = IF option = "new" THEN to ELSE <<>>
  OBVIOUS
<1>6. list \in Seq(Teachers) /\ (option = "new" => list # <<>>)
  BY <1>5, ListsAreSeqs
<1>7. PICK r \in Calls : r = [Vacant EXCEPT !.at = option, !.now = t, !.admin = admin,
                                            !.to = list, !.todo = todo]
  BY <1>4, <1>6, VacantCall DEF Calls, Places, Options
<1>8. Sound(r)
  BY <1>6, <1>7, VacantCall DEF Sound, Calls, Options
<1>9. Opens(d, r)
  BY <1>2, <1>3, <1>5, <1>7
<1> QED BY <1>8, <1>9, OpensEffect, OtherMoves, Types DEF RemoveFind

LEMMA RemoveListAnyOrder ==
  ASSUME AnyOrderInv, NEW d \in Desks, RemoveList(d)
  PROVE  AnyOrderInv'
<1>1. PICK c \in Calls : c = desk[d] /\ c.at = "existing" /\ Sound(c)
  BY Types DEF RemoveList
<1>2. CASE Closes(d)
  <2>1. Moves(d, Vacant)
    BY <1>2 DEF Closes
  <2> QED BY <2>1, VacantCall, MovesEffect, OtherMoves, Types DEF RemoveList
<1>3. CASE ~Closes(d)
  <2>1. PICK others \in SUBSET Teachers :
          others # {} /\ \E to \in Lists(others) : Moves(d, [c EXCEPT !.at = "new", !.to = to])
    BY <1>1, <1>3 DEF RemoveList
  <2>2. PICK to \in Lists(others) : Moves(d, [c EXCEPT !.at = "new", !.to = to])
    BY <2>1
  <2>3. to \in Seq(Teachers) /\ to # <<>>
    BY <2>1, ListsAreSeqs
  <2>4. PICK r \in Calls : r = [c EXCEPT !.at = "new", !.to = to]
    BY <2>3 DEF Calls, Places
  <2>5. Sound(r)
    BY <1>1, <2>3, <2>4 DEF Sound, Calls
  <2>6. Moves(d, r)
    BY <2>2, <2>4
  <2> QED BY <2>5, <2>6, MovesEffect, OtherMoves, Types DEF RemoveList
<1> QED BY <1>2, <1>3

LEMMA RemoveDeactivateAnyOrder ==
  ASSUME AnyOrderInv, NEW d \in Desks, RemoveDeactivate(d)
  PROVE  AnyOrderInv'
<1>1. PICK c \in Calls : c = desk[d] /\ c.at \in {"unassigned", "new"} /\ Sound(c)
  BY Types DEF RemoveDeactivate
<1>2. PICK mine : mine = StaffEvals(c.now, c.admin)
  OBVIOUS
<1>3. mine \subseteq evals
  BY <1>2 DEF StaffEvals
<1>4. /\ evals' = (evals \ mine) \cup {[e EXCEPT !.active = FALSE] : e \in mine}
      /\ Moves(d, [c EXCEPT !.now = Nobody, !.at = IF @ = "new" THEN "hand on" ELSE "unflag"])
  BY <1>1, <1>2 DEF RemoveDeactivate
<1>5. \A e \in mine : [e EXCEPT !.active = FALSE] \in Evaluations
  <2>1. \A e \in Evaluations : [e EXCEPT !.active = FALSE] \in Evaluations
    BY DEF Evaluations
  <2>2. mine \subseteq Evaluations
    BY <1>3, Types
  <2> QED BY <2>1, <2>2
<1>6. evals' \subseteq Evaluations
  BY <1>3, <1>4, <1>5, Types
<1>7. PICK r \in Calls :
        r = [c EXCEPT !.now = Nobody, !.at = IF @ = "new" THEN "hand on" ELSE "unflag"]
  BY DEF Calls, Places
<1>8. Sound(r)
  BY <1>1, <1>7 DEF Sound, Calls
<1>9. Moves(d, r)
  BY <1>4, <1>7
<1> QED BY <1>6, <1>8, <1>9, MovesEffect, OtherMoves, Types DEF RemoveDeactivate

LEMMA RemoveOneAnyOrder ==
  ASSUME AnyOrderInv, NEW d \in Desks, RemoveUnflag(d) \/ RemoveHandOn(d) \/ Done(d)
  PROVE  AnyOrderInv'
<1>1. CASE RemoveUnflag(d)
  <2>1. PICK c \in Calls : c = desk[d] /\ c.at = "unflag" /\ Sound(c)
    BY <1>1, Types DEF RemoveUnflag
  <2>2. PICK q \in c.todo : assignedQA' = assignedQA \ {q} /\ Moves(d, [c EXCEPT !.todo = @ \ {q}])
    BY <1>1, <2>1 DEF RemoveUnflag
  <2>3. PICK r \in Calls : r = [c EXCEPT !.todo = @ \ {q}]
    BY DEF Calls
  <2>4. Sound(r)
    BY <2>1, <2>3 DEF Sound, Calls
  <2>5. Moves(d, r)
    BY <2>2, <2>3
  <2> QED BY <1>1, <2>2, <2>4, <2>5, MovesEffect, OtherMoves, Types DEF RemoveUnflag
<1>2. CASE RemoveHandOn(d)
  <2>1. PICK c \in Calls : c = desk[d] /\ c.at = "hand on" /\ Sound(c)
    BY <1>2, Types DEF RemoveHandOn
  <2>2. PICK q \in c.todo :
          /\ evals' = evals \cup {Assignment(q, Head(c.to), FALSE)}
          /\ Moves(d, [c EXCEPT !.todo = @ \ {q}, !.to = Append(Tail(@), Head(@))])
    BY <1>2, <2>1 DEF RemoveHandOn
  <2>3. c.to \in Seq(Teachers) /\ c.to # <<>> /\ q \in Questions
    BY <2>1, Types DEF Sound
  <2>4. /\ Head(c.to) \in Teachers /\ Append(Tail(c.to), Head(c.to)) \in Seq(Teachers)
        /\ Append(Tail(c.to), Head(c.to)) # <<>>
    BY <2>3, Rotated
  <2>5. Assignment(q, Head(c.to), FALSE) \in Evaluations
    BY <2>3, <2>4 DEF Assignment, Evaluations
  <2>6. PICK r \in Calls : r = [c EXCEPT !.todo = @ \ {q}, !.to = Append(Tail(@), Head(@))]
    BY <2>3, <2>4 DEF Calls, Places
  <2>7. Sound(r)
    BY <2>1, <2>4, <2>6 DEF Sound, Calls
  <2>8. Moves(d, r) /\ evals' \subseteq Evaluations
    BY <2>2, <2>5, <2>6, Types
  <2> QED BY <1>2, <2>7, <2>8, MovesEffect, OtherMoves, Types, ZenonT(30) DEF RemoveHandOn
<1>3. CASE Done(d)
  <2>1. Moves(d, Vacant)
    BY <1>3 DEF Done, Closes
  <2> QED BY <1>3, <2>1, VacantCall, MovesEffect, OtherMoves, Types DEF Done
<1> QED BY <1>1, <1>2, <1>3

LEMMA StartAnyOrder ==
  ASSUME AnyOrderInv, NEW d \in Desks,
         StartFind(d) \/ StartMatch(d) \/ StartInsert(d) \/ StartFlag(d)
  PROVE  AnyOrderInv'
<1>1. CASE StartFind(d)
  <2>1. PICK t \in Teachers, admin \in BOOLEAN :
          Opens(d, [Vacant EXCEPT !.at = "match", !.now = t,
                      !.todo = {e.q : e \in {f \in evals : f.t = t /\ (admin \/ f.system)}}])
    BY <1>1 DEF StartFind
  <2>2. PICK todo : todo = {e.q : e \in {f \in evals : f.t = t /\ (admin \/ f.system)}}
    OBVIOUS
  <2>3. todo \subseteq Questions
    BY <2>2, Types DEF Evaluations
  <2>4. PICK r \in Calls : r = [Vacant EXCEPT !.at = "match", !.now = t, !.todo = todo]
    BY <2>3, VacantCall DEF Calls, Places
  <2>5. Sound(r)
    BY <2>4, VacantCall DEF Sound, Calls
  <2>6. Opens(d, r)
    BY <2>1, <2>2, <2>4
  <2> QED BY <1>1, <2>5, <2>6, OpensEffect, OtherMoves, Types DEF StartFind
<1>2. CASE StartMatch(d)
  <2>1. PICK c \in Calls : c = desk[d] /\ c.at = "match" /\ Sound(c)
    BY <1>2, Types DEF StartMatch
  <2>2. pendingQA \ c.todo \subseteq Questions
    BY Types
  <2>3. PICK r \in Calls : r = [c EXCEPT !.at = "insert", !.todo = pendingQA \ @]
    BY <2>2 DEF Calls, Places
  <2>4. Sound(r)
    BY <2>1, <2>3 DEF Sound, Calls
  <2>5. Moves(d, r)
    BY <1>2, <2>1, <2>3 DEF StartMatch
  <2> QED BY <1>2, <2>4, <2>5, MovesEffect, OtherMoves, Types DEF StartMatch
<1>3. CASE StartInsert(d)
  <2>1. PICK c \in Calls : c = desk[d] /\ c.at = "insert" /\ Sound(c)
    BY <1>3, Types DEF StartInsert
  <2>2. evals' = evals \cup {Assignment(q, c.now, TRUE) : q \in c.todo}
    BY <1>3, <2>1 DEF StartInsert
  <2>3. c.now \in Teachers
    BY <2>1 DEF Sound
  <2>4. \A q \in c.todo : Assignment(q, c.now, TRUE) \in Evaluations
    BY <2>3, Types DEF Assignment, Evaluations
  <2>5. evals' \subseteq Evaluations
    BY <2>2, <2>4, Types
  <2>6. PICK r \in Calls : r = [c EXCEPT !.at = "flag first", !.now = Nobody]
    BY DEF Calls, Places
  <2>7. Sound(r)
    BY <2>1, <2>6 DEF Sound, Calls
  <2>8. Moves(d, r)
    BY <1>3, <2>1, <2>6 DEF StartInsert
  <2> QED BY <1>3, <2>5, <2>7, <2>8, MovesEffect, OtherMoves, Types DEF StartInsert
<1>4. CASE StartFlag(d)
  <2>1. Moves(d, Vacant)
    BY <1>4 DEF StartFlag, Closes
  <2>2. desk[d].todo \subseteq Questions
    BY Types
  <2>3. assignedQA' \subseteq Questions
    BY <1>4, <2>2, Types DEF StartFlag
  <2> QED BY <1>4, <2>1, <2>3, VacantCall, MovesEffect, OtherMoves, Types, ZenonT(30) DEF StartFlag
<1> QED BY <1>1, <1>2, <1>3, <1>4

LEMMA MarkStoreAnyOrder ==
  ASSUME AnyOrderInv, NEW d \in Desks, MarkStore(d)
  PROVE  AnyOrderInv'
<1>1. PICK q \in Questions :
        /\ Opens(d, [Vacant EXCEPT !.at = "count", !.now = q])
        /\ \/ pendingQA' = pendingQA \ {q} /\ marked' = marked \cup {q}
           \/ pendingQA' = pendingQA \cup {q} /\ marked' = marked
  BY DEF MarkStore
<1>2. PICK r \in Calls : r = [Vacant EXCEPT !.at = "count", !.now = q]
  BY VacantCall DEF Calls, Places
<1>3. Sound(r)'
  BY <1>2, VacantCall DEF Sound, Calls
<1>4. Opens(d, r)
  BY <1>1, <1>2
<1>5. /\ pendingQA' \subseteq Questions /\ marked \subseteq marked' /\ marked' \subseteq Questions
      /\ OthersPending'
  BY <1>1, Types DEF AnyOrderInv, OthersPending
<1>6. EvaluatedIsMarked'
  BY <1>5 DEF MarkStore, AnyOrderInv, EvaluatedIsMarked, AllMarked
<1> QED BY <1>3, <1>4, <1>5, <1>6, OpensEffect, DeskMoves, Types DEF MarkStore

LEMMA MarkCountAnyOrder ==
  ASSUME AnyOrderInv, NEW d \in Desks, MarkCount(d)
  PROVE  AnyOrderInv'
<1>1. PICK c \in Calls : c = desk[d] /\ c.at = "count" /\ Sound(c)
  BY Types DEF MarkCount
<1>2. PICK n \in 0 .. Cardinality(Questions) : n = Pending(c.now)
  BY CountOfPending, Types
<1>3. n = 0 <=> Unmarked(AttemptOf[c.now]) = {}
  BY <1>2, CountOfPending, Types
<1>4. PICK r \in Calls : r = [c EXCEPT !.at = "result", !.left = n]
  BY DEF Calls, Places
<1>5. Unmarked(AttemptOf[c.now]) = {} => AllMarked(AttemptOf[c.now])
  BY DEF AnyOrderInv, OthersPending, Unmarked, AllMarked
<1>6. Sound(r)
  BY <1>1, <1>3, <1>4, <1>5 DEF Sound, Calls
<1>7. Moves(d, r)
  BY <1>1, <1>2, <1>4 DEF MarkCount
<1> QED BY <1>6, <1>7, MovesEffect, OtherMoves, Types DEF MarkCount

(* isEvaluated, and the telling, are written of an attempt of which all    *)
(* has been marked.                                                        *)
LEMMA ResultAnyOrder ==
  ASSUME AnyOrderInv, NEW d \in Desks, NEW r \in Calls, Sound(r), Moves(d, r),
         NEW a \in Attempts, NEW e \in BOOLEAN, NEW t \in BOOLEAN,
         result' = [result EXCEPT ![a] = [evaluated |-> e, told |-> t]],
         e \/ t => AllMarked(a),
         UNCHANGED <<pendingQA, marked, assignedQA, evals>>
  PROVE  AnyOrderInv'
<1>1. result' \in [Attempts -> [evaluated : BOOLEAN, told : BOOLEAN]]
  BY Types
<1>2. Sound(r)'
  BY SoundStays
<1>3. OthersPending'
  BY DEF AnyOrderInv, OthersPending
<1>4. \A b \in Attempts : result'[b].evaluated \/ result'[b].told => AllMarked(b)
  <2>1. \A b \in Attempts : result[b].evaluated \/ result[b].told => AllMarked(b)
    BY DEF AnyOrderInv, EvaluatedIsMarked
  <2>2. ASSUME NEW b \in Attempts, b # a PROVE result'[b] = result[b]
    BY <2>2, Types
  <2>3. result'[a].evaluated = e /\ result'[a].told = t
    BY Types
  <2> QED BY <2>1, <2>2, <2>3
<1>5. EvaluatedIsMarked'
  BY <1>4 DEF EvaluatedIsMarked, AllMarked
<1> QED BY <1>1, <1>2, <1>3, <1>5, MovesEffect, DeskMoves, Types

LEMMA MarkResultAnyOrder ==
  ASSUME AnyOrderInv, NEW d \in Desks, MarkResult(d)
  PROVE  AnyOrderInv'
<1>1. PICK c \in Calls : c = desk[d] /\ c.at = "result" /\ Sound(c)
  BY Types DEF MarkResult
<1>2. PICK a \in Attempts : a = AttemptOf[c.now]
  BY <1>1, Types DEF Sound
<1>3. PICK e \in BOOLEAN : e = (c.left = 0)
  OBVIOUS
<1>4. PICK t \in BOOLEAN : t = result[a].told
  BY Types
<1>5. result' = [result EXCEPT ![a] = [evaluated |-> e, told |-> t]]
  <2>1. result' = [result EXCEPT ![a].evaluated = e]
    BY <1>1, <1>2, <1>3 DEF MarkResult
  <2>2. result[a] \in [evaluated : BOOLEAN, told : BOOLEAN]
    BY Types
  <2>3. [result[a] EXCEPT !.evaluated = e] = [evaluated |-> e, told |-> t]
    BY <2>2, <1>4
  <2> QED BY <2>1, <2>3, Types
<1>6. e \/ t => AllMarked(a)
  <2>1. e => AllMarked(a)
    BY <1>1, <1>2, <1>3 DEF Sound
  <2>2. t => AllMarked(a)
    BY <1>4 DEF AnyOrderInv, EvaluatedIsMarked
  <2> QED BY <2>1, <2>2
<1>7. PICK r \in Calls : r = [c EXCEPT !.at = "close"]
  BY DEF Calls, Places
<1>8. Sound(r)
  BY <1>1, <1>7 DEF Sound, Calls
<1>9. Moves(d, r)
  BY <1>1, <1>7 DEF MarkResult
<1> QED BY <1>5, <1>6, <1>8, <1>9, ResultAnyOrder DEF MarkResult

LEMMA MarkCloseAnyOrder ==
  ASSUME AnyOrderInv, NEW d \in Desks, MarkClose(d)
  PROVE  AnyOrderInv'
<1>1. PICK c \in Calls : c = desk[d] /\ c.at = "close" /\ Sound(c)
  BY Types DEF MarkClose
<1>2. PICK mine : mine = {e \in evals : e.q = c.now /\ e.active}
  OBVIOUS
<1>3. evals' \in {(evals \ mine) \cup {[e EXCEPT !.done = TRUE] : e \in mine}, evals}
  BY <1>1, <1>2 DEF MarkClose
<1>4. \A e \in mine : [e EXCEPT !.done = TRUE] \in Evaluations
  BY <1>2, Types DEF Evaluations
<1>5. mine \subseteq evals
  BY <1>2
<1>6. evals' \subseteq Evaluations
  BY <1>3, <1>4, <1>5, Types
<1>7. CASE c.left = 0
  <2>1. PICK r \in Calls : r = [c EXCEPT !.at = "tell"]
    BY DEF Calls, Places
  <2>2. Sound(r)
    BY <1>1, <1>7, <2>1 DEF Sound, Calls
  <2>3. Moves(d, r)
    BY <1>1, <1>7, <2>1 DEF MarkClose
  <2> QED BY <1>6, <2>2, <2>3, MovesEffect, OtherMoves, Types DEF MarkClose
<1>8. CASE c.left # 0
  <2>1. Moves(d, Vacant)
    BY <1>1, <1>8 DEF MarkClose, Closes
  <2> QED BY <1>6, <2>1, VacantCall, MovesEffect, OtherMoves, Types DEF MarkClose
<1> QED BY <1>7, <1>8

LEMMA MarkTellAnyOrder ==
  ASSUME AnyOrderInv, NEW d \in Desks, MarkTell(d)
  PROVE  AnyOrderInv'
<1>1. PICK c \in Calls : c = desk[d] /\ c.at = "tell" /\ Sound(c)
  BY Types DEF MarkTell
<1>2. PICK a \in Attempts : a = AttemptOf[c.now]
  BY <1>1, Types DEF Sound
<1>3. PICK e \in BOOLEAN : e = result[a].evaluated
  BY Types
<1>4. PICK t \in BOOLEAN : t = TRUE
  OBVIOUS
<1>5. result' = [result EXCEPT ![a] = [evaluated |-> e, told |-> t]]
  <2>1. result' = [result EXCEPT ![a].told = t]
    BY <1>1, <1>2, <1>4 DEF MarkTell
  <2>2. result[a] \in [evaluated : BOOLEAN, told : BOOLEAN]
    BY Types
  <2>3. [result[a] EXCEPT !.told = t] = [evaluated |-> e, told |-> t]
    BY <2>2, <1>3
  <2> QED BY <2>1, <2>3, Types
<1>6. AllMarked(a)
  BY <1>1, <1>2 DEF Sound
<1>7. Moves(d, Vacant)
  BY DEF MarkTell, Closes
<1> QED BY <1>5, <1>6, <1>7, VacantCall, ResultAnyOrder DEF MarkTell

LEMMA DeskFailsAnyOrder ==
  ASSUME AnyOrderInv, NEW d \in Desks, DeskFails(d)
  PROVE  AnyOrderInv'
BY VacantCall, OtherMoves, Types DEF DeskFails

LEMMA DeskStepAnyOrder ==
  ASSUME AnyOrderInv, NEW d \in Desks, DeskStep(d)
  PROVE  AnyOrderInv'
<1>1. CASE AssignFind(d) \/ AssignCreate(d) \/ AssignFlag(d)
  BY <1>1, AssignAnyOrder
<1>2. CASE RemoveFind(d) \/ RemoveList(d) \/ RemoveDeactivate(d)
  BY <1>2, RemoveFindAnyOrder, RemoveListAnyOrder, RemoveDeactivateAnyOrder
<1>3. CASE RemoveUnflag(d) \/ RemoveHandOn(d) \/ Done(d)
  BY <1>3, RemoveOneAnyOrder
<1>4. CASE StartFind(d) \/ StartMatch(d) \/ StartInsert(d) \/ StartFlag(d)
  BY <1>4, StartAnyOrder
<1>5. CASE MarkStore(d) \/ MarkCount(d) \/ MarkResult(d) \/ MarkClose(d) \/ MarkTell(d)
  BY <1>5, MarkStoreAnyOrder, MarkCountAnyOrder, MarkResultAnyOrder, MarkCloseAnyOrder,
     MarkTellAnyOrder
<1>6. CASE DeskFails(d)
  BY <1>6, DeskFailsAnyOrder
<1> QED BY <1>1, <1>2, <1>3, <1>4, <1>5, <1>6 DEF DeskStep

(***************************************************************************)
(* In turn                                                                 *)
(***************************************************************************)
LEMMA DeskAfter ==
  ASSUME AnyOrderInv, NEW d \in Desks, NEW r, Moves(d, r) \/ Opens(d, r)
  PROVE  desk'[d] = r
BY Types DEF Moves, Opens

(* No call that marks moves: attempts are as evaluated as they were.       *)
LEMMA SeenStays ==
  ASSUME NEW c, NEW r, SeenTo(c), c.at \notin MarkPlaces, UNCHANGED <<pendingQA, result>>
  PROVE  SeenTo(r)'
BY DEF SeenTo, Settled, Unmarked

(* Evaluators and flags stay, and so does what r knows.                    *)
LEMMA HoldersStay ==
  ASSUME NEW c, NEW r, Turn(c), UNCHANGED <<evals, assignedQA>>,
         c.at # "flag", c.at \in {"unflag", "hand on"} => c.todo = {}
  PROVE  ChosenOnce' /\ ChosenIsFlagged(r)' /\ FlaggedIsHeld(r)'
<1>1. \A e : Chosen(e)' => Chosen(e)
  BY DEF Chosen
<1>2. ChosenOnce'
  BY <1>1 DEF Turn, ChosenOnce
<1>3. ChosenIsFlagged(r)'
  BY <1>1 DEF Turn, ChosenIsFlagged
<1>4. FlaggedIsHeld(r)'
  BY DEF Turn, FlaggedIsHeld, Held
<1> QED BY <1>2, <1>3, <1>4

LEMMA AssignFindInTurn ==
  ASSUME AnyOrderInv, AnyOrderInv', NEW d \in Desks, Turn(Vacant), AssignFind(d)
  PROVE  Turn(desk[d])'
<1>1. PICK T \in (SUBSET Teachers) \ {{}} : \E to \in Lists(T) :
        Opens(d, [Vacant EXCEPT !.at = "assign", !.todo = ToAssign, !.to = to])
  BY DEF AssignFind
<1>2. PICK to \in Lists(T) :
        Opens(d, [Vacant EXCEPT !.at = "assign", !.todo = ToAssign, !.to = to])
  BY <1>1
<1>3. desk'[d] = [Vacant EXCEPT !.at = "assign", !.todo = ToAssign, !.to = to]
  BY <1>2, DeskAfter
<1>4. PICK r \in Calls : r = desk'[d]
  BY DEF AnyOrderInv
<1>5. r.at = "assign" /\ r.todo = pendingQA \ assignedQA
  BY <1>3, <1>4, VacantCall DEF ToAssign, Calls
<1>6. Knows(r)'
  BY <1>5 DEF Knows, AssignFind
<1>7. SeenTo(r)' /\ ChosenOnce' /\ ChosenIsFlagged(r)' /\ FlaggedIsHeld(r)'
  BY VacantCall, SeenStays, HoldersStay DEF AssignFind, Turn, MarkPlaces
<1> QED BY <1>4, <1>6, <1>7 DEF Turn

LEMMA AssignCreateInTurn ==
  ASSUME AnyOrderInv, AnyOrderInv', NEW d \in Desks, Turn(desk[d]), AssignCreate(d)
  PROVE  Turn(desk[d])'
<1>1. PICK c \in Calls : c = desk[d] /\ c.at = "assign" /\ Sound(c) /\ Turn(c)
  BY Types DEF AssignCreate
<1>2. PICK q \in c.todo :
        /\ evals' = evals \cup {Assignment(q, Head(c.to), FALSE)}
        /\ Moves(d, [c EXCEPT !.at = "flag", !.now = q, !.todo = @ \ {q},
                              !.to = Append(Tail(@), Head(@))])
  BY <1>1 DEF AssignCreate
<1>3. PICK r \in Calls : r = desk'[d]
  BY DEF AnyOrderInv
<1>4. r.at = "flag" /\ r.now = q /\ r.todo = c.todo \ {q}
  BY <1>2, <1>3, DeskAfter DEF Calls
<1>5. PICK new : new = Assignment(q, Head(c.to), FALSE)
  OBVIOUS
<1>6. evals' = evals \cup {new} /\ new.q = q /\ new.active /\ ~new.system
  BY <1>2, <1>5 DEF Assignment
<1>7. q \notin assignedQA /\ c.todo \cap assignedQA = {}
  BY <1>1 DEF Turn, Knows
<1>8. \A e \in evals : Chosen(e) => e.q # q
  BY <1>1, <1>7 DEF Turn, ChosenIsFlagged
<1>9. \A e : Chosen(e)' => Chosen(e) \/ e = new
  BY <1>6 DEF Chosen, AssignCreate
<1>10. Knows(r)'
  BY <1>4, <1>6, <1>7 DEF Knows, HasActive, AssignCreate
<1>11. ChosenOnce'
  BY <1>1, <1>6, <1>8, <1>9 DEF Turn, ChosenOnce, Chosen
<1>12. ChosenIsFlagged(r)'
  BY <1>1, <1>4, <1>6, <1>9 DEF Turn, ChosenIsFlagged, AssignCreate
<1>13. FlaggedIsHeld(r)'
  BY <1>1, <1>6 DEF Turn, FlaggedIsHeld, Held, AssignCreate
<1>14. SeenTo(r)'
  BY <1>1, SeenStays DEF Turn, MarkPlaces, AssignCreate
<1> QED BY <1>3, <1>10, <1>11, <1>12, <1>13, <1>14 DEF Turn

LEMMA AssignFlagInTurn ==
  ASSUME AnyOrderInv, AnyOrderInv', NEW d \in Desks, Turn(desk[d]), AssignFlag(d)
  PROVE  Turn(desk[d])'
<1>1. PICK c \in Calls : c = desk[d] /\ c.at = "flag" /\ Sound(c) /\ Turn(c)
  BY Types DEF AssignFlag
<1>2. assignedQA' = assignedQA \cup {c.now} /\ Moves(d, [c EXCEPT !.at = "assign", !.now = Nobody])
  BY <1>1 DEF AssignFlag
<1>3. PICK r \in Calls : r = desk'[d]
  BY DEF AnyOrderInv
<1>4. r.at = "assign" /\ r.todo = c.todo
  BY <1>2, <1>3, DeskAfter DEF Calls
<1>5. c.todo \cap assignedQA = {} /\ c.now \notin c.todo /\ HasActive(c.now)
  BY <1>1 DEF Turn, Knows
<1>6. \A e : Chosen(e)' <=> Chosen(e)
  BY DEF Chosen, AssignFlag
<1>7. Knows(r)'
  BY <1>2, <1>4, <1>5 DEF Knows
<1>8. ChosenOnce' /\ ChosenIsFlagged(r)'
  BY <1>1, <1>2, <1>6 DEF Turn, ChosenOnce, ChosenIsFlagged, AssignFlag
<1>9. FlaggedIsHeld(r)'
  BY <1>1, <1>2, <1>5 DEF Turn, FlaggedIsHeld, HasActive, Held, AssignFlag
<1>10. SeenTo(r)'
  BY <1>1, SeenStays DEF Turn, MarkPlaces, AssignFlag
<1> QED BY <1>3, <1>7, <1>8, <1>9, <1>10 DEF Turn

LEMMA RemoveFindInTurn ==
  ASSUME AnyOrderInv, AnyOrderInv', NEW d \in Desks, Turn(Vacant), RemoveFind(d)
  PROVE  Turn(desk[d])'
<1>1. PICK t \in Teachers, option \in Options, admin \in BOOLEAN, T \in (SUBSET Teachers) \ {{}} :
        \E to \in Lists(T) :
            Opens(d, [Vacant EXCEPT !.at = option, !.now = t, !.admin = admin,
                !.to = IF option = "new" THEN to ELSE <<>>,
                !.todo = {e.q : e \in {f \in StaffEvals(t, admin) : f.active /\ ~f.done}}])
  BY DEF RemoveFind
<1>2. PICK to :
        desk'[d] = [Vacant EXCEPT !.at = option, !.now = t, !.admin = admin,
            !.to = IF option = "new" THEN to ELSE <<>>,
            !.todo = {e.q : e \in {f \in StaffEvals(t, admin) : f.active /\ ~f.done}}]
  BY <1>1, DeskAfter
<1>3. PICK todo : todo = {e.q : e \in {f \in StaffEvals(t, admin) : f.active /\ ~f.done}}
  OBVIOUS
<1>4. PICK r \in Calls : r = desk'[d]
  BY DEF AnyOrderInv
<1>5. r.at = option /\ r.now = t /\ r.admin = admin /\ r.todo = todo
  BY <1>2, <1>3, <1>4, VacantCall DEF Calls
<1>6. r.todo = {e.q : e \in {f \in StaffEvals(r.now, r.admin) : f.active /\ ~f.done}}
  BY <1>3, <1>5
<1>7. (r.todo = {e.q : e \in {f \in StaffEvals(r.now, r.admin) : f.active /\ ~f.done}})'
  BY <1>6 DEF StaffEvals, RemoveFind
<1>8. Knows(r)'
  BY <1>5, <1>7 DEF Knows, Options
<1>9. SeenTo(r)' /\ ChosenOnce' /\ ChosenIsFlagged(r)' /\ FlaggedIsHeld(r)'
  BY VacantCall, SeenStays, HoldersStay DEF RemoveFind, Turn, MarkPlaces
<1> QED BY <1>4, <1>8, <1>9 DEF Turn

(* A call ends, and leaves nothing half done.                              *)
LEMMA EndsInTurn ==
  ASSUME NEW c, Turn(c), c.at \notin MarkPlaces, c.at # "flag",
         c.at \in {"unflag", "hand on"} => c.todo = {},
         UNCHANGED <<pendingQA, assignedQA, evals, result>>
  PROVE  Turn(Vacant)'
<1>1. Knows(Vacant)'
  BY VacantCall DEF Knows
<1>2. SeenTo(Vacant)' /\ ChosenOnce' /\ ChosenIsFlagged(Vacant)' /\ FlaggedIsHeld(Vacant)'
  BY SeenStays, HoldersStay DEF Turn
<1> QED BY <1>1, <1>2 DEF Turn

LEMMA RemoveListInTurn ==
  ASSUME AnyOrderInv, AnyOrderInv', NEW d \in Desks, Turn(desk[d]), RemoveList(d)
  PROVE  Turn(desk[d])'
<1>1. PICK c \in Calls : c = desk[d] /\ c.at = "existing" /\ Sound(c) /\ Turn(c)
  BY Types DEF RemoveList
<1>2. CASE Closes(d)
  <2>1. desk'[d] = Vacant
    BY <1>2, DeskAfter DEF Closes
  <2>2. Turn(Vacant)'
    BY <1>1, EndsInTurn DEF RemoveList, MarkPlaces
  <2> QED BY <2>1, <2>2
<1>3. CASE ~Closes(d)
  <2>1. PICK to : Moves(d, [c EXCEPT !.at = "new", !.to = to])
    BY <1>1, <1>3 DEF RemoveList
  <2>2. PICK r \in Calls : r = desk'[d]
    BY DEF AnyOrderInv
  <2>3. r.at = "new" /\ r.now = c.now /\ r.admin = c.admin /\ r.todo = c.todo
    BY <2>1, <2>2, DeskAfter DEF Calls
  <2>4. c.todo = {e.q : e \in {f \in StaffEvals(c.now, c.admin) : f.active /\ ~f.done}}
    BY <1>1 DEF Turn, Knows
  <2>5. (r.todo = {e.q : e \in {f \in StaffEvals(r.now, r.admin) : f.active /\ ~f.done}})'
    BY <2>3, <2>4 DEF StaffEvals, RemoveList
  <2>6. Knows(r)'
    BY <2>3, <2>5 DEF Knows
  <2>7. SeenTo(r)' /\ ChosenOnce' /\ ChosenIsFlagged(r)' /\ FlaggedIsHeld(r)'
    BY <1>1, SeenStays, HoldersStay DEF RemoveList, Turn, MarkPlaces
  <2> QED BY <2>2, <2>6, <2>7 DEF Turn
<1> QED BY <1>2, <1>3

LEMMA RemoveDeactivateInTurn ==
  ASSUME AnyOrderInv, AnyOrderInv', NEW d \in Desks, Turn(desk[d]), RemoveDeactivate(d)
  PROVE  Turn(desk[d])'
<1>1. PICK c \in Calls : c = desk[d] /\ c.at \in {"unassigned", "new"} /\ Sound(c) /\ Turn(c)
  BY Types DEF RemoveDeactivate
<1>2. PICK mine : mine = StaffEvals(c.now, c.admin)
  OBVIOUS
<1>3. mine \subseteq evals /\ \A e \in mine : ~e.system
  BY <1>2 DEF StaffEvals
<1>4. /\ evals' = (evals \ mine) \cup {[e EXCEPT !.active = FALSE] : e \in mine}
      /\ Moves(d, [c EXCEPT !.now = Nobody, !.at = IF @ = "new" THEN "hand on" ELSE "unflag"])
  BY <1>1, <1>2 DEF RemoveDeactivate
<1>5. PICK r \in Calls : r = desk'[d]
  BY DEF AnyOrderInv
<1>6. r.at \in {"unflag", "hand on"} /\ r.todo = c.todo
  <2>1. PICK at : at = (IF c.at = "new" THEN "hand on" ELSE "unflag")
    OBVIOUS
  <2>2. r = [c EXCEPT !.now = Nobody, !.at = at]
    BY <1>4, <1>5, <2>1, DeskAfter
  <2>3. r.at = at /\ r.todo = c.todo
    BY <2>2 DEF Calls
  <2> QED BY <2>1, <2>3
<1>7. \A e \in mine : ~[e EXCEPT !.active = FALSE].active
  BY <1>3, Types DEF Evaluations
<1>8. \A e \in evals' : e.active => e \in evals /\ e \notin mine
  BY <1>4, <1>7
<1>9. \A e : Chosen(e)' => Chosen(e) /\ e \notin mine
  BY <1>8 DEF Chosen, RemoveDeactivate
<1>10. c.todo = {e.q : e \in {f \in mine : f.active /\ ~f.done}}
  BY <1>1, <1>2 DEF Turn, Knows
<1>11. ASSUME NEW q \in c.todo
       PROVE  \E f \in mine : Chosen(f) /\ f.q = q
  BY <1>3, <1>10 DEF Chosen
<1>12. \A e \in evals' : Chosen(e)' => e.q \notin r.todo
  <2> SUFFICES ASSUME NEW e, Chosen(e)', e.q \in r.todo PROVE FALSE
    OBVIOUS
  <2>1. Chosen(e) /\ e \notin mine /\ e \in evals /\ e.q \in c.todo
    BY <1>6, <1>9 DEF Chosen
  <2>2. PICK f \in mine : Chosen(f) /\ f.q = e.q
    BY <1>11, <2>1
  <2>3. e = f
    BY <1>1, <1>3, <2>1, <2>2 DEF Turn, ChosenOnce
  <2> QED BY <2>1, <2>3
<1>13. r.todo \subseteq assignedQA'
  <2>1. ASSUME NEW q \in c.todo PROVE q \in assignedQA
    <3>1. PICK f \in mine : Chosen(f) /\ f.q = q
      BY <1>11, <2>1
    <3> QED BY <1>1, <1>3, <3>1 DEF Turn, ChosenIsFlagged
  <2> QED BY <1>6, <2>1 DEF RemoveDeactivate
<1>14. Knows(r)'
  BY <1>6, <1>12, <1>13 DEF Knows
<1>15. ChosenOnce' /\ ChosenIsFlagged(r)'
  <2>1. \A e : Chosen(e) => e \in evals
    BY DEF Chosen
  <2> QED BY <1>1, <1>9, <2>1 DEF Turn, ChosenOnce, ChosenIsFlagged, RemoveDeactivate
<1>16. FlaggedIsHeld(r)'
  <2> SUFFICES ASSUME NEW q \in assignedQA PROVE Held(q)' \/ q \in r.todo
    BY <1>6 DEF FlaggedIsHeld, RemoveDeactivate
  <2>1. PICK e \in evals : e.q = q /\ (e.active \/ e.done)
    BY <1>1 DEF Turn, FlaggedIsHeld, Held
  <2>2. CASE e \in mine /\ ~e.done
    BY <1>6, <1>10, <2>1, <2>2
  <2>3. CASE e \in mine /\ e.done
    <3>1. PICK f : f = [e EXCEPT !.active = FALSE]
      OBVIOUS
    <3>2. f \in evals' /\ f.q = q /\ f.done
      BY <1>4, <2>1, <2>3, <3>1, Types DEF Evaluations
    <3> QED BY <3>2 DEF Held
  <2>4. CASE e \notin mine
    BY <1>4, <2>1, <2>4 DEF Held
  <2> QED BY <2>2, <2>3, <2>4
<1>17. SeenTo(r)'
  BY <1>1, SeenStays DEF Turn, MarkPlaces, RemoveDeactivate
<1> QED BY <1>5, <1>14, <1>15, <1>16, <1>17 DEF Turn

LEMMA RemoveUnflagInTurn ==
  ASSUME AnyOrderInv, AnyOrderInv', NEW d \in Desks, Turn(desk[d]), RemoveUnflag(d)
  PROVE  Turn(desk[d])'
<1>1. PICK c \in Calls : c = desk[d] /\ c.at = "unflag" /\ Sound(c) /\ Turn(c)
  BY Types DEF RemoveUnflag
<1>2. PICK q \in c.todo : assignedQA' = assignedQA \ {q} /\ Moves(d, [c EXCEPT !.todo = @ \ {q}])
  BY <1>1 DEF RemoveUnflag
<1>3. PICK r \in Calls : r = desk'[d]
  BY DEF AnyOrderInv
<1>4. r.at = "unflag" /\ r.todo = c.todo \ {q}
  BY <1>1, <1>2, <1>3, DeskAfter DEF Calls
<1>5. \A e : Chosen(e)' => Chosen(e) /\ e \in evals
  BY DEF Chosen, RemoveUnflag
<1>6. \A e \in evals : Chosen(e) => e.q \notin c.todo
  BY <1>1 DEF Turn, Knows
<1>7. Knows(r)'
  BY <1>4, <1>5, <1>6 DEF Knows
<1>8. ChosenOnce'
  BY <1>1, <1>5 DEF Turn, ChosenOnce
<1>9. ChosenIsFlagged(r)'
  BY <1>1, <1>2, <1>5, <1>6 DEF Turn, ChosenIsFlagged
<1>10. FlaggedIsHeld(r)'
  BY <1>1, <1>2, <1>4 DEF Turn, FlaggedIsHeld, Held, RemoveUnflag
<1>11. SeenTo(r)'
  BY <1>1, SeenStays DEF Turn, MarkPlaces, RemoveUnflag
<1> QED BY <1>3, <1>7, <1>8, <1>9, <1>10, <1>11 DEF Turn

LEMMA RemoveHandOnInTurn ==
  ASSUME AnyOrderInv, AnyOrderInv', NEW d \in Desks, Turn(desk[d]), RemoveHandOn(d)
  PROVE  Turn(desk[d])'
<1>1. PICK c \in Calls : c = desk[d] /\ c.at = "hand on" /\ Sound(c) /\ Turn(c)
  BY Types DEF RemoveHandOn
<1>2. PICK q \in c.todo :
        /\ evals' = evals \cup {Assignment(q, Head(c.to), FALSE)}
        /\ Moves(d, [c EXCEPT !.todo = @ \ {q}, !.to = Append(Tail(@), Head(@))])
  BY <1>1 DEF RemoveHandOn
<1>3. PICK r \in Calls : r = desk'[d]
  BY DEF AnyOrderInv
<1>4. r.at = "hand on" /\ r.todo = c.todo \ {q}
  <2>1. PICK to : to = Append(Tail(c.to), Head(c.to))
    OBVIOUS
  <2>2. r = [c EXCEPT !.todo = @ \ {q}, !.to = to]
    BY <1>2, <1>3, <2>1, DeskAfter
  <2> QED BY <1>1, <2>2 DEF Calls
<1>5. PICK new : new = Assignment(q, Head(c.to), FALSE)
  OBVIOUS
<1>6. evals' = evals \cup {new} /\ new.q = q /\ new.active /\ ~new.system
  BY <1>2, <1>5 DEF Assignment
<1>7. \A e : Chosen(e)' => (Chosen(e) /\ e \in evals) \/ e = new
  BY <1>6 DEF Chosen, RemoveHandOn
<1>8. \A e \in evals : Chosen(e) => e.q \notin c.todo
  BY <1>1 DEF Turn, Knows
<1>9. c.todo \subseteq assignedQA
  BY <1>1 DEF Turn, Knows
<1>10. Knows(r)'
  BY <1>4, <1>6, <1>7, <1>8, <1>9 DEF Knows, RemoveHandOn
<1>11. ChosenOnce'
  BY <1>1, <1>6, <1>7, <1>8 DEF Turn, ChosenOnce
<1>12. ChosenIsFlagged(r)'
  <2> SUFFICES ASSUME NEW e, Chosen(e)' PROVE e.q \in assignedQA
    BY DEF ChosenIsFlagged, RemoveHandOn
  <2>1. CASE e = new
    BY <1>6, <1>9, <2>1 DEF Chosen, RemoveHandOn
  <2>2. CASE e # new
    BY <1>1, <1>7, <2>2 DEF Turn, ChosenIsFlagged
  <2> QED BY <2>1, <2>2
<1>13. FlaggedIsHeld(r)'
  BY <1>1, <1>4, <1>6 DEF Turn, FlaggedIsHeld, Held, RemoveHandOn
<1>14. SeenTo(r)'
  BY <1>1, SeenStays DEF Turn, MarkPlaces, RemoveHandOn
<1> QED BY <1>3, <1>10, <1>11, <1>12, <1>13, <1>14 DEF Turn

LEMMA DoneInTurn ==
  ASSUME AnyOrderInv, NEW d \in Desks, Turn(desk[d]), Done(d)
  PROVE  Turn(desk[d])'
<1>1. desk'[d] = Vacant
  BY DeskAfter DEF Done, Closes
<1>2. Turn(Vacant)'
  BY EndsInTurn DEF Done, MarkPlaces
<1> QED BY <1>1, <1>2

LEMMA StartFindInTurn ==
  ASSUME AnyOrderInv, AnyOrderInv', NEW d \in Desks, Turn(Vacant), StartFind(d)
  PROVE  Turn(desk[d])'
<1>1. PICK t \in Teachers, admin \in BOOLEAN :
        desk'[d] = [Vacant EXCEPT !.at = "match", !.now = t,
                      !.todo = {e.q : e \in {f \in evals : f.t = t /\ (admin \/ f.system)}}]
  BY DeskAfter DEF StartFind
<1>2. PICK r \in Calls : r = desk'[d]
  BY DEF AnyOrderInv
<1>3. r.at = "match"
  BY <1>1, <1>2, VacantCall DEF Calls
<1>4. Knows(r)'
  BY <1>3 DEF Knows
<1>5. SeenTo(r)' /\ ChosenOnce' /\ ChosenIsFlagged(r)' /\ FlaggedIsHeld(r)'
  BY VacantCall, SeenStays, HoldersStay DEF StartFind, Turn, MarkPlaces
<1> QED BY <1>2, <1>4, <1>5 DEF Turn

LEMMA StartMatchInTurn ==
  ASSUME AnyOrderInv, AnyOrderInv', NEW d \in Desks, Turn(desk[d]), StartMatch(d)
  PROVE  Turn(desk[d])'
<1>1. PICK c \in Calls : c = desk[d] /\ c.at = "match" /\ Turn(c)
  BY Types DEF StartMatch
<1>2. PICK r \in Calls : r = desk'[d]
  BY DEF AnyOrderInv
<1>3. r.at = "insert"
  BY <1>1, <1>2, DeskAfter DEF StartMatch, Calls
<1>4. Knows(r)'
  BY <1>3 DEF Knows
<1>5. SeenTo(r)' /\ ChosenOnce' /\ ChosenIsFlagged(r)' /\ FlaggedIsHeld(r)'
  BY <1>1, SeenStays, HoldersStay DEF StartMatch, Turn, MarkPlaces
<1> QED BY <1>2, <1>4, <1>5 DEF Turn

LEMMA StartInsertInTurn ==
  ASSUME AnyOrderInv, AnyOrderInv', NEW d \in Desks, Turn(desk[d]), StartInsert(d)
  PROVE  Turn(desk[d])'
<1>1. PICK c \in Calls : c = desk[d] /\ c.at = "insert" /\ Turn(c)
  BY Types DEF StartInsert
<1>2. PICK r \in Calls : r = desk'[d]
  BY DEF AnyOrderInv
<1>3. /\ evals' = evals \cup {Assignment(q, c.now, TRUE) : q \in c.todo}
      /\ Moves(d, [c EXCEPT !.at = "flag first", !.now = Nobody])
  BY <1>1 DEF StartInsert
<1>4. r.at = "flag first" /\ r.todo = c.todo
  BY <1>2, <1>3, DeskAfter DEF Calls
<1>5. \A q : LET new == Assignment(q, c.now, TRUE) IN new.q = q /\ new.active /\ new.system
  BY DEF Assignment
<1>6. \A q \in c.todo : HasActive(q)'
  BY <1>3, <1>5 DEF HasActive
<1>7. \A e : Chosen(e)' => Chosen(e) /\ e \in evals
  BY <1>3, <1>5 DEF Chosen, StartInsert
<1>8. Knows(r)'
  BY <1>4, <1>6 DEF Knows
<1>9. ChosenOnce' /\ ChosenIsFlagged(r)'
  BY <1>1, <1>7 DEF Turn, ChosenOnce, ChosenIsFlagged, StartInsert
<1>10. FlaggedIsHeld(r)'
  BY <1>1, <1>3 DEF Turn, FlaggedIsHeld, Held, StartInsert
<1>11. SeenTo(r)'
  BY <1>1, SeenStays DEF Turn, MarkPlaces, StartInsert
<1> QED BY <1>2, <1>8, <1>9, <1>10, <1>11 DEF Turn

LEMMA StartFlagInTurn ==
  ASSUME AnyOrderInv, AnyOrderInv', NEW d \in Desks, Turn(desk[d]), StartFlag(d)
  PROVE  Turn(desk[d])'
<1>1. PICK c \in Calls : c = desk[d] /\ c.at = "flag first" /\ Turn(c)
  BY Types DEF StartFlag
<1>2. PICK F \in SUBSET c.todo : assignedQA' = assignedQA \cup F
  BY <1>1 DEF StartFlag
<1>3. desk'[d] = Vacant
  BY DeskAfter DEF StartFlag, Closes
<1>4. \A q \in c.todo : HasActive(q)
  BY <1>1 DEF Turn, Knows
<1>5. \A e : Chosen(e)' => Chosen(e)
  BY DEF Chosen, StartFlag
<1>6. Knows(Vacant)'
  BY VacantCall DEF Knows
<1>7. ChosenOnce' /\ ChosenIsFlagged(Vacant)'
  BY <1>1, <1>2, <1>5 DEF Turn, ChosenOnce, ChosenIsFlagged, StartFlag
<1>8. FlaggedIsHeld(Vacant)'
  BY <1>1, <1>2, <1>4 DEF Turn, FlaggedIsHeld, HasActive, Held, StartFlag
<1>9. SeenTo(Vacant)'
  BY <1>1, SeenStays DEF Turn, MarkPlaces, StartFlag
<1> QED BY <1>3, <1>6, <1>7, <1>8, <1>9 DEF Turn

LEMMA MarkStoreInTurn ==
  ASSUME AnyOrderInv, AnyOrderInv', NEW d \in Desks, Turn(Vacant), MarkStore(d)
  PROVE  Turn(desk[d])'
<1>1. PICK q \in Questions :
        /\ desk'[d] = [Vacant EXCEPT !.at = "count", !.now = q]
        /\ pendingQA' = pendingQA \ {q} \/ pendingQA' = pendingQA \cup {q}
  BY DeskAfter DEF MarkStore
<1>2. PICK r \in Calls : r = desk'[d]
  BY DEF AnyOrderInv
<1>3. r.at = "count" /\ r.now = q
  BY <1>1, <1>2, VacantCall DEF Calls
<1>4. Knows(r)'
  BY <1>3 DEF Knows
<1>5. ChosenOnce' /\ ChosenIsFlagged(r)' /\ FlaggedIsHeld(r)'
  BY VacantCall, HoldersStay DEF MarkStore
<1>6. SeenTo(r)'
  <2> SUFFICES ASSUME NEW p \in Questions, AttemptOf[q] # AttemptOf[p]
               PROVE  Settled(AttemptOf[p])'
    BY <1>3 DEF SeenTo, MarkPlaces
  <2>1. Unmarked(AttemptOf[p])' = Unmarked(AttemptOf[p])
    BY <1>1 DEF Unmarked
  <2>2. Settled(AttemptOf[p])
    BY VacantCall DEF Turn, SeenTo, MarkPlaces
  <2> QED BY <2>1, <2>2 DEF Settled, MarkStore
<1> QED BY <1>2, <1>4, <1>5, <1>6 DEF Turn

LEMMA MarkCountInTurn ==
  ASSUME AnyOrderInv, AnyOrderInv', NEW d \in Desks, Turn(desk[d]), MarkCount(d)
  PROVE  Turn(desk[d])'
<1>1. PICK c \in Calls : c = desk[d] /\ c.at = "count" /\ Turn(c)
  BY Types DEF MarkCount
<1>2. PICK r \in Calls : r = desk'[d]
  BY DEF AnyOrderInv
<1>3. Moves(d, [c EXCEPT !.at = "result", !.left = Pending(c.now)])
  BY <1>1 DEF MarkCount
<1>4. r.at = "result" /\ r.left = Pending(c.now) /\ r.now = c.now
  BY <1>2, <1>3, DeskAfter DEF Calls
<1>5. Knows(r)'
  <2>1. r.left = 0 <=> Unmarked(AttemptOf[r.now]) = {}
    BY <1>4, CountOfPending, Types
  <2>2. \A a : Unmarked(a)' = Unmarked(a)
    BY DEF Unmarked, MarkCount
  <2> QED BY <1>4, <2>1, <2>2 DEF Knows
<1>6. ChosenOnce' /\ ChosenIsFlagged(r)' /\ FlaggedIsHeld(r)'
  BY <1>1, HoldersStay DEF MarkCount
<1>7. SeenTo(r)'
  BY <1>1, <1>4 DEF Turn, SeenTo, Settled, Unmarked, MarkPlaces, MarkCount
<1> QED BY <1>2, <1>5, <1>6, <1>7 DEF Turn

LEMMA MarkResultInTurn ==
  ASSUME AnyOrderInv, AnyOrderInv', NEW d \in Desks, Turn(desk[d]), MarkResult(d)
  PROVE  Turn(desk[d])'
<1>1. PICK c \in Calls : c = desk[d] /\ c.at = "result" /\ Turn(c) /\ Sound(c)
  BY Types DEF MarkResult
<1>2. PICK r \in Calls : r = desk'[d]
  BY DEF AnyOrderInv
<1>3. Moves(d, [c EXCEPT !.at = "close"])
  BY <1>1 DEF MarkResult
<1>4. r.at = "close" /\ r.left = c.left /\ r.now = c.now
  BY <1>2, <1>3, DeskAfter DEF Calls
<1>5. PICK a \in Attempts : a = AttemptOf[c.now]
  BY <1>1, Types DEF Sound
<1>6. result' = [result EXCEPT ![a].evaluated = (c.left = 0)]
  BY <1>1, <1>5 DEF MarkResult
<1>7. /\ \A b \in Attempts : b # a => result'[b] = result[b]
      /\ result'[a].evaluated <=> c.left = 0
  <2>1. result[a] \in [evaluated : BOOLEAN, told : BOOLEAN]
    BY Types
  <2>2. PICK e \in BOOLEAN : e = (c.left = 0)
    OBVIOUS
  <2>3. result'[a] = [result[a] EXCEPT !.evaluated = e]
    BY <1>6, <2>2, Types
  <2>4. result'[a].evaluated = e
    BY <2>1, <2>3
  <2> QED BY <1>6, <2>2, <2>4, Types
<1>8. Knows(r)'
  <2>1. c.left = 0 <=> Unmarked(a) = {}
    BY <1>1, <1>5 DEF Turn, Knows
  <2>2. Unmarked(a)' = Unmarked(a)
    BY DEF Unmarked, MarkResult
  <2> QED BY <1>4, <1>5, <1>7, <2>1, <2>2 DEF Knows
<1>9. ChosenOnce' /\ ChosenIsFlagged(r)' /\ FlaggedIsHeld(r)'
  BY <1>1, HoldersStay DEF MarkResult
<1>10. SeenTo(r)'
  <2> SUFFICES ASSUME NEW p \in Questions, AttemptOf[p] # a PROVE Settled(AttemptOf[p])'
    BY <1>4, <1>5 DEF SeenTo, MarkPlaces
  <2>1. Unmarked(AttemptOf[p])' = Unmarked(AttemptOf[p])
    BY DEF Unmarked, MarkResult
  <2>2. Settled(AttemptOf[p])
    BY <1>1, <1>5 DEF Turn, SeenTo
  <2> QED BY <1>7, <2>1, <2>2, Types DEF Settled
<1> QED BY <1>2, <1>8, <1>9, <1>10 DEF Turn

LEMMA MarkCloseInTurn ==
  ASSUME AnyOrderInv, AnyOrderInv', NEW d \in Desks, Turn(desk[d]), MarkClose(d)
  PROVE  Turn(desk[d])'
<1>1. PICK c \in Calls : c = desk[d] /\ c.at = "close" /\ Turn(c) /\ Sound(c)
  BY Types DEF MarkClose
<1>2. PICK r \in Calls : r = desk'[d]
  BY DEF AnyOrderInv
<1>3. PICK mine : mine = {e \in evals : e.q = c.now /\ e.active}
  OBVIOUS
<1>4. evals' \in {(evals \ mine) \cup {[e EXCEPT !.done = TRUE] : e \in mine}, evals}
  BY <1>1, <1>3 DEF MarkClose
<1> DEFINE After(e) == IF e \in mine THEN [e EXCEPT !.done = TRUE] ELSE e
<1>5. \A e \in evals : /\ After(e).q = e.q /\ After(e).active = e.active
                       /\ After(e).system = e.system /\ (e.done => After(e).done)
  BY Types DEF Evaluations
<1>6. evals' = evals \/ evals' = {After(e) : e \in evals}
  <2>1. {After(e) : e \in evals} = (evals \ mine) \cup {[e EXCEPT !.done = TRUE] : e \in mine}
    BY <1>3
  <2> QED BY <1>4, <2>1
<1> HIDE DEF After
<1>7. ChosenOnce'
  <2>1. CASE evals' = evals
    BY <1>1, <2>1 DEF Turn, ChosenOnce, Chosen
  <2>2. CASE evals' = {After(e) : e \in evals}
    <3> SUFFICES ASSUME NEW e \in evals, NEW f \in evals, Chosen(After(e))', Chosen(After(f))',
                        After(e).q = After(f).q
                 PROVE  After(e) = After(f)
      BY <2>2 DEF ChosenOnce
    <3>1. Chosen(e) /\ Chosen(f) /\ e.q = f.q
      BY <1>5 DEF Chosen
    <3>2. e = f
      BY <1>1, <3>1 DEF Turn, ChosenOnce
    <3> QED BY <3>2
  <2> QED BY <1>6, <2>1, <2>2
<1>8. ASSUME NEW f, Chosen(f)' PROVE \E e \in evals : Chosen(e) /\ e.q = f.q
  <2>1. PICK e \in evals : f = e \/ f = After(e)
    BY <1>6, <1>8 DEF Chosen
  <2>2. Chosen(e) /\ e.q = f.q
    BY <1>5, <1>8, <2>1 DEF Chosen
  <2> QED BY <2>2
<1>9. ASSUME NEW q, Held(q) PROVE Held(q)'
  <2>1. PICK e \in evals : e.q = q /\ (e.active \/ e.done)
    BY <1>9 DEF Held
  <2>2. CASE evals' = evals
    BY <2>1, <2>2 DEF Held
  <2>3. CASE evals' = {After(f) : f \in evals}
    <3>1. After(e) \in evals' /\ After(e).q = q /\ (After(e).active \/ After(e).done)
      BY <1>5, <2>1, <2>3
    <3> QED BY <3>1 DEF Held
  <2> QED BY <1>6, <2>2, <2>3
<1>10. ChosenOnce' /\ ChosenIsFlagged(r)' /\ FlaggedIsHeld(r)'
  <2>1. ChosenIsFlagged(r)'
    BY <1>1, <1>8 DEF Turn, ChosenIsFlagged, MarkClose
  <2>2. FlaggedIsHeld(r)'
    BY <1>1, <1>9 DEF Turn, FlaggedIsHeld, MarkClose
  <2> QED BY <1>7, <2>1, <2>2
<1>11. \A q : Unmarked(AttemptOf[q])' = Unmarked(AttemptOf[q])
  BY DEF Unmarked, MarkClose
<1>12. /\ c.left = 0 <=> Unmarked(AttemptOf[c.now]) = {}
       /\ result[AttemptOf[c.now]].evaluated <=> c.left = 0
  BY <1>1 DEF Turn, Knows
<1>13. \A q \in Questions :
        Settled(AttemptOf[q])' \/ AttemptOf[c.now] = AttemptOf[q]
  BY <1>1, <1>11 DEF Turn, SeenTo, Settled, MarkClose
<1>14. CASE c.left = 0
  <2>1. Moves(d, [c EXCEPT !.at = "tell"])
    BY <1>1, <1>14 DEF MarkClose
  <2>2. r.at = "tell" /\ r.now = c.now /\ r.left = c.left
    BY <1>2, <2>1, DeskAfter DEF Calls
  <2>3. Knows(r)'
    BY <1>11, <1>12, <2>2 DEF Knows, MarkClose
  <2>4. SeenTo(r)'
    BY <1>13, <2>2 DEF SeenTo, MarkPlaces
  <2> QED BY <1>2, <1>10, <2>3, <2>4 DEF Turn
<1>15. CASE c.left # 0
  <2>1. r = Vacant
    BY <1>1, <1>2, <1>15, DeskAfter DEF MarkClose, Closes
  <2>2. Knows(r)'
    BY <2>1, VacantCall DEF Knows
  <2>3. Settled(AttemptOf[c.now])'
    BY <1>11, <1>12, <1>15 DEF Settled, MarkClose
  <2>4. SeenTo(r)'
    BY <1>13, <2>3 DEF SeenTo
  <2> QED BY <1>2, <1>10, <2>2, <2>4 DEF Turn
<1> QED BY <1>14, <1>15

LEMMA MarkTellInTurn ==
  ASSUME AnyOrderInv, AnyOrderInv', NEW d \in Desks, Turn(desk[d]), MarkTell(d)
  PROVE  Turn(desk[d])'
<1>1. PICK c \in Calls : c = desk[d] /\ c.at = "tell" /\ Turn(c) /\ Sound(c)
  BY Types DEF MarkTell
<1>2. desk'[d] = Vacant
  BY DeskAfter DEF MarkTell, Closes
<1>3. PICK a \in Attempts : a = AttemptOf[c.now]
  BY <1>1, Types DEF Sound
<1>4. result' = [result EXCEPT ![a].told = TRUE]
  BY <1>1, <1>3 DEF MarkTell
<1>5. /\ \A b \in Attempts : b # a => result'[b] = result[b]
      /\ result'[a].told /\ result'[a].evaluated = result[a].evaluated
  <2>1. result[a] \in [evaluated : BOOLEAN, told : BOOLEAN]
    BY Types
  <2>2. result'[a] = [result[a] EXCEPT !.told = TRUE]
    BY <1>4, Types
  <2> QED BY <1>4, <2>1, <2>2, Types
<1>6. result[a].evaluated /\ Unmarked(a) = {}
  BY <1>1, <1>3 DEF Turn, Knows, Sound
<1>7. Knows(Vacant)'
  BY VacantCall DEF Knows
<1>8. ChosenOnce' /\ ChosenIsFlagged(Vacant)' /\ FlaggedIsHeld(Vacant)'
  BY <1>1, HoldersStay DEF MarkTell
<1>9. SeenTo(Vacant)'
  <2> SUFFICES ASSUME NEW p \in Questions PROVE Settled(AttemptOf[p])'
    BY DEF SeenTo
  <2>0. Unmarked(AttemptOf[p])' = Unmarked(AttemptOf[p])
    BY DEF Unmarked, MarkTell
  <2>1. CASE AttemptOf[p] = a
    BY <1>5, <1>6, <2>0, <2>1 DEF Settled
  <2>2. CASE AttemptOf[p] # a
    <3>1. Settled(AttemptOf[p])
      BY <1>1, <1>3, <2>2 DEF Turn, SeenTo
    <3> QED BY <1>5, <2>0, <2>2, <3>1, Types DEF Settled
  <2> QED BY <2>1, <2>2
<1> QED BY <1>2, <1>7, <1>8, <1>9 DEF Turn

(* What the only call knows and does, step by step.                        *)
LEMMA DeskStepInTurn ==
  ASSUME AnyOrderInv, AnyOrderInv', NEW d \in Desks, Turn(desk[d]), DeskStep(d), ~DeskFails(d)
  PROVE  Turn(desk[d])'
<1>1. CASE desk[d] = Vacant
  <2>1. Turn(Vacant)
    BY <1>1
  <2>2. CASE AssignFind(d) \/ RemoveFind(d) \/ StartFind(d) \/ MarkStore(d)
    BY <2>1, <2>2, AssignFindInTurn, RemoveFindInTurn, StartFindInTurn, MarkStoreInTurn
  <2>3. CASE ~(AssignFind(d) \/ RemoveFind(d) \/ StartFind(d) \/ MarkStore(d))
    BY <1>1, <2>3, VacantCall
       DEF DeskStep, AssignCreate, AssignFlag, RemoveList, RemoveDeactivate, RemoveUnflag,
           RemoveHandOn, Done, StartMatch, StartInsert, StartFlag, MarkCount, MarkResult,
           MarkClose, MarkTell
  <2> QED BY <2>2, <2>3
<1>2. CASE desk[d] # Vacant
  <2>1. ~(AssignFind(d) \/ RemoveFind(d) \/ StartFind(d) \/ MarkStore(d))
    BY <1>2 DEF AssignFind, RemoveFind, StartFind, MarkStore, Opens
  <2>2. CASE AssignCreate(d) \/ AssignFlag(d)
    BY <2>2, AssignCreateInTurn, AssignFlagInTurn
  <2>3. CASE RemoveList(d) \/ RemoveDeactivate(d) \/ RemoveUnflag(d) \/ RemoveHandOn(d) \/ Done(d)
    BY <2>3, RemoveListInTurn, RemoveDeactivateInTurn, RemoveUnflagInTurn, RemoveHandOnInTurn,
       DoneInTurn
  <2>4. CASE StartMatch(d) \/ StartInsert(d) \/ StartFlag(d)
    BY <2>4, StartMatchInTurn, StartInsertInTurn, StartFlagInTurn
  <2>5. CASE MarkCount(d) \/ MarkResult(d) \/ MarkClose(d) \/ MarkTell(d)
    BY <2>5, MarkCountInTurn, MarkResultInTurn, MarkCloseInTurn, MarkTellInTurn
  <2> QED BY <2>1, <2>2, <2>3, <2>4, <2>5 DEF DeskStep
<1> QED BY <1>1, <1>2

(* A step of desk d leaves the other desks alone, and goes on with the     *)
(* call that d serves, or begins one when it may.                          *)
LEMMA DeskStepOthers ==
  ASSUME AnyOrderInv, NEW d \in Desks, DeskStep(d)
  PROVE  /\ \A e \in Desks \ {d} : desk'[e] = desk[e]
         /\ inTurn' = inTurn /\ (broken => broken') /\ (DeskFails(d) => broken')
         /\ desk[d] = Vacant => (inTurn => \A e \in Desks : desk[e] = Vacant)
<1>1. CASE DeskFails(d)
  <2>1. desk' = [desk EXCEPT ![d] = Vacant] /\ inTurn' = inTurn /\ broken' /\ desk[d] # Vacant
    BY <1>1 DEF DeskFails
  <2> QED BY <2>1, Types
<1>2. CASE \E r : Moves(d, r) /\ desk[d] # Vacant
  <2>1. PICK r : Moves(d, r) /\ desk[d] # Vacant
    BY <1>2
  <2>2. desk' = [desk EXCEPT ![d] = r] /\ inTurn' = inTurn /\ broken' = broken
    BY <2>1 DEF Moves
  <2>3. DeskFails(d) => broken'
    BY DEF DeskFails
  <2> QED BY <2>1, <2>2, <2>3, Types
<1>3. CASE \E r : Opens(d, r)
  <2>1. PICK r : Opens(d, r)
    BY <1>3
  <2>2. /\ desk' = [desk EXCEPT ![d] = r] /\ inTurn' = inTurn /\ broken' = broken
        /\ inTurn => \A e \in Desks : desk[e] = Vacant
    BY <2>1 DEF Opens
  <2>3. DeskFails(d) => broken'
    BY DEF DeskFails
  <2> QED BY <2>2, <2>3, Types
<1>4. AssignFind(d) \/ RemoveFind(d) \/ StartFind(d) \/ MarkStore(d) => \E r : Opens(d, r)
  BY DEF AssignFind, RemoveFind, StartFind, MarkStore
<1>5. AssignCreate(d) \/ AssignFlag(d) \/ RemoveList(d) \/ RemoveDeactivate(d) =>
        \E r : Moves(d, r) /\ desk[d] # Vacant
  BY VacantCall DEF AssignCreate, AssignFlag, RemoveList, RemoveDeactivate, Closes
<1>6. RemoveUnflag(d) \/ RemoveHandOn(d) \/ Done(d) \/ StartMatch(d) =>
        \E r : Moves(d, r) /\ desk[d] # Vacant
  BY VacantCall DEF RemoveUnflag, RemoveHandOn, Done, StartMatch, Closes
<1>7. StartInsert(d) \/ StartFlag(d) \/ MarkCount(d) \/ MarkResult(d) =>
        \E r : Moves(d, r) /\ desk[d] # Vacant
  BY VacantCall DEF StartInsert, StartFlag, MarkCount, MarkResult, Closes
<1>8. MarkClose(d) \/ MarkTell(d) => \E r : Moves(d, r) /\ desk[d] # Vacant
  BY VacantCall DEF MarkClose, MarkTell, Closes
<1> QED BY <1>1, <1>2, <1>3, <1>4, <1>5, <1>6, <1>7, <1>8 DEF DeskStep

(***************************************************************************)
(* The invariant                                                           *)
(***************************************************************************)
THEOREM StepEvaluationInv ==
  ASSUME EvaluationInv, [EvaluationNext]_evaluationVars
  PROVE  EvaluationInv'
<1>0. AnyOrderInv /\ InTurnInv
  BY DEF EvaluationInv
<1>1. CASE UNCHANGED evaluationVars
  <2>1. AnyOrderInv'
    BY <1>0, <1>1, ZenonT(30) DEF evaluationVars, AnyOrderInv, EvaluationType, Sound, AllMarked,
       OthersPending, EvaluatedIsMarked
  <2>2. ASSUME NEW r PROVE Turn(r)' <=> Turn(r)
    <3>1. UNCHANGED <<pendingQA, assignedQA, evals, result>>
      BY <1>1 DEF evaluationVars
    <3>2. \A e : Chosen(e)' <=> Chosen(e)
      BY <3>1 DEF Chosen
    <3>3. \A q : /\ (HasActive(q)' <=> HasActive(q)) /\ (Held(q)' <=> Held(q))
                 /\ Unmarked(q)' = Unmarked(q)
      BY <3>1 DEF HasActive, Held, Unmarked
    <3>4. StaffEvals(r.now, r.admin)' = StaffEvals(r.now, r.admin)
      BY <3>1 DEF StaffEvals
    <3>5. Knows(r)' <=> Knows(r)
      BY <3>1, <3>2, <3>3, <3>4 DEF Knows
    <3>6. SeenTo(r)' <=> SeenTo(r)
      BY <3>1, <3>3 DEF SeenTo, Settled
    <3>7. /\ ChosenOnce' <=> ChosenOnce
          /\ ChosenIsFlagged(r)' <=> ChosenIsFlagged(r)
          /\ FlaggedIsHeld(r)' <=> FlaggedIsHeld(r)
      BY <3>1, <3>2, <3>3 DEF ChosenOnce, ChosenIsFlagged, FlaggedIsHeld
    <3> QED BY <3>5, <3>6, <3>7 DEF Turn
  <2>3. InTurnInv'
    BY <1>0, <1>1, <2>2 DEF evaluationVars, InTurnInv, Alone, Resting
  <2> QED BY <2>1, <2>3 DEF EvaluationInv
<1>2. CASE EvaluationNext
  <2>1. PICK d \in Desks : DeskStep(d)
    BY <1>2 DEF EvaluationNext
  <2>2. AnyOrderInv'
    BY <1>0, <2>1, DeskStepAnyOrder
  <2>3. /\ \A e \in Desks \ {d} : desk'[e] = desk[e]
        /\ inTurn' = inTurn /\ (broken => broken') /\ (DeskFails(d) => broken')
        /\ desk[d] = Vacant => (inTurn => \A e \in Desks : desk[e] = Vacant)
    BY <1>0, <2>1, DeskStepOthers
  <2>4. inTurn => Alone(d)
    BY <1>0, <2>3 DEF InTurnInv, Alone
  <2>5. inTurn' => \A e \in Desks : desk'[e] # Vacant => e = d
    BY <2>3, <2>4 DEF Alone
  <2>6. ASSUME inTurn', ~broken' PROVE Turn(desk[d])'
    <3>1. Turn(desk[d])
      BY <1>0, <2>3, <2>4, <2>6, Types DEF InTurnInv
    <3>2. ~DeskFails(d)
      BY <2>3, <2>6
    <3> QED BY <1>0, <2>1, <2>2, <3>1, <3>2, DeskStepInTurn
  <2>7. (inTurn => \A e \in Desks : desk[e] # Vacant => Alone(e))'
    BY <2>5 DEF Alone
  <2>8. ASSUME inTurn', ~broken', NEW e \in Desks, Alone(e)' PROVE Turn(desk[e])'
    <3>1. CASE e = d
      BY <2>6, <2>8, <3>1
    <3>2. CASE e # d
      <4>1. desk'[d] = Vacant /\ desk'[e] = Vacant
        BY <2>5, <2>8, <3>2 DEF Alone
      <4>2. Turn(desk[d])'
        BY <2>6, <2>8
      <4> QED BY <4>1, <4>2
    <3> QED BY <3>1, <3>2
  <2>9. ASSUME inTurn', ~broken', Resting' PROVE Turn(Vacant)'
    <3>1. desk'[d] = Vacant
      BY <2>9 DEF Resting
    <3>2. Turn(desk[d])'
      BY <2>6, <2>9
    <3> QED BY <3>1, <3>2
  <2>10. InTurnInv'
    BY <2>7, <2>8, <2>9 DEF InTurnInv
  <2> QED BY <2>2, <2>10 DEF EvaluationInv
<1> QED BY <1>1, <1>2

THEOREM EvaluationInvariant == EvaluationSpec => []EvaluationInv
<1>1. EvaluationInit => EvaluationInv
  BY InitEvaluationInv
<1>2. EvaluationInv /\ [EvaluationNext]_evaluationVars => EvaluationInv'
  BY StepEvaluationInv
<1> QED BY <1>1, <1>2, PTL DEF EvaluationSpec

(***************************************************************************)
(* What follows for the properties                                         *)
(***************************************************************************)
(* Whatever the evaluators do at the same time, and whatever fails: every  *)
(* variable keeps its type; in particular, no call tells of more pending   *)
(* questions than there are.                                               *)
THEOREM EvaluationTypeCorrect == EvaluationSpec => []EvaluationType
<1>1. EvaluationInv => EvaluationType
  BY DEF EvaluationInv, AnyOrderInv
<1> QED BY <1>1, EvaluationInvariant, PTL

(* For any attempts, questions, evaluators and number of calls at a time:  *)
(* an attempt is evaluated, and its student told so, only when every       *)
(* question of it has been marked, although storing a mark (or putting one *)
(* back), counting and writing the result are separate operations.         *)
THEOREM EvaluatedIsMarkedAlways == EvaluationSpec => []EvaluatedIsMarked
<1>1. EvaluationInv => EvaluatedIsMarked
  BY DEF EvaluationInv, AnyOrderInv
<1> QED BY <1>1, EvaluationInvariant, PTL

(* When calls follow one another and none fails, an attempt is evaluated   *)
(* just when nothing of it is pending, and its student has been told,      *)
(* whether marks were made, changed, put back or made again.               *)
THEOREM MarkedIsEvaluatedInTurn == EvaluationSpec => []MarkedIsEvaluated
<1>1. EvaluationInv => MarkedIsEvaluated
  BY VacantCall DEF EvaluationInv, InTurnInv, Turn, SeenTo, Settled, MarkPlaces, MarkedIsEvaluated
<1> QED BY <1>1, EvaluationInvariant, PTL

(* When calls follow one another and none fails, no question has           *)
(* two evaluators that staff chose, however often it is assigned, taken    *)
(* away and handed on.                                                     *)
THEOREM OneEvaluatorInTurn == EvaluationSpec => []OneEvaluator
<1>1. ASSUME EvaluationInv, inTurn, ~broken PROVE ChosenOnce
  <2>1. CASE Resting
    BY <1>1, <2>1 DEF EvaluationInv, InTurnInv, Turn
  <2>2. CASE ~Resting
    <3>1. PICK d \in Desks : desk[d] # Vacant
      BY <2>2 DEF Resting
    <3> QED BY <1>1, <3>1 DEF EvaluationInv, InTurnInv, Turn
  <2> QED BY <2>1, <2>2
<1>2. EvaluationInv => OneEvaluator
  <2> SUFFICES ASSUME EvaluationInv, inTurn, ~broken, NEW q \in Questions
               PROVE  Cardinality({e \in evals : e.q = q /\ e.active /\ ~e.system}) <= 1
    BY DEF OneEvaluator
  <2> DEFINE S == {e \in evals : e.q = q /\ e.active /\ ~e.system}
  <2>1. \A e, f \in S : e = f
    BY <1>1 DEF ChosenOnce, Chosen
  <2>2. S = {} \/ \E e : S = {e}
    BY <2>1
  <2>3. Cardinality(S) = 0 \/ Cardinality(S) = 1
    BY <2>2, FS_EmptySet, FS_Singleton
  <2> QED BY <2>3
<1> QED BY <1>2, EvaluationInvariant, PTL

(* When calls follow one another and none fails, a question that is        *)
(* flagged, and so passed over by assigning, has an evaluator or one was   *)
(* done with it.                                                           *)
THEOREM FlaggedHasEvaluatorInTurn == EvaluationSpec => []FlaggedHasEvaluator
<1>1. EvaluationInv => FlaggedHasEvaluator
  BY VacantCall
     DEF EvaluationInv, InTurnInv, Turn, FlaggedIsHeld, Held, FlaggedHasEvaluator
<1> QED BY <1>1, EvaluationInvariant, PTL
=============================================================================
