----------------------- MODULE AttemptLifecycle_proofs -----------------------
(***************************************************************************)
(* Proofs about AttemptLifecycle, for every set of users, attempts and     *)
(* calls and every setting of the test.                                    *)
(*                                                                         *)
(* For all clients: the state is well formed (TypeCorrect), the marks of   *)
(* an attempt come from a hand-in of its owner (OwnersMarks), marks are    *)
(* replaced only by a call that has not read them (RegradeFromStaleRead),  *)
(* and totalJoinedStudent counts every starter (StartersAreCounted).       *)
(* For clients that wait for an answer before they call again: graded      *)
(* attempts stay graded (GradedStays), answered hand-ins are complete      *)
(* (HandInsComplete), manual tests show no automatic marks                 *)
(* (ManualMarksStayWithheld), the limit on attempts is kept (LimitIsKept)  *)
(* and the service keeps a ledger of hand-ins, each entered once           *)
(* (HandInsAreEnteredOnce).  The invariants build on each other: OwnerInv, *)
(* then VersionsInv, then WaitInv, then ManualInv and LimitInv.            *)
(***************************************************************************)
EXTENDS AttemptLifecycle, FiniteSetTheorems, TLAPS

(* A request that goes on keeps the state well formed, if what it keeps is. *)
LEMMA KeepType ==
  ASSUME Type, NEW c \in Calls, NEW step \in Steps,
         NEW d \in AttemptDocs \union {None}, NEW k \in Nat, Keep(c, step, d, k)
  PROVE  /\ pc' \in [Calls -> Steps]
         /\ seen' \in [Calls -> AttemptDocs \union {None}]
         /\ n' \in [Calls -> Nat]
BY SMT DEF Type, Keep

LEMMA GotoType ==
  ASSUME Type, NEW c \in Calls, NEW step \in Steps, Goto(c, step)
  PROVE  /\ pc' \in [Calls -> Steps]
         /\ seen' \in [Calls -> AttemptDocs \union {None}]
         /\ n' \in [Calls -> Nat]
BY KeepType DEF Type, Goto

LEMMA CountedFinite == Cardinality(Counted) \in Nat
<1>1. Counted \subseteq Attempts
  BY DEF Counted
<1>2. IsFiniteSet(Counted)
  BY <1>1, ConstantsAssumption, FS_Subset DEF ConstantsAssumption
<1> QED BY <1>2, FS_CardinalityType

(* Before the first call no attempt, copy or request carries marks.         *)
THEOREM InitOwnerInv == Init => OwnerInv
<1> SUFFICES ASSUME Init PROVE OwnerInv
  OBVIOUS
<1> USE ConstantsAssumption, NoneAssumption DEF ConstantsAssumption, NoneAssumption
<1>1. \A u \in Users : NewAttempt(u, TRUE, TRUE) \in AttemptDocs
  BY DEF NewAttempt, AttemptDocs
<1>2. doc \in [Attempts -> AttemptDocs \union {None}]
  BY <1>1 DEF Init
<1>3. joined \in Nat
  <2> DEFINE Starters == {u \in Users : \E a \in Attempts : Held[a] = u}
  <2>1. IsFiniteSet(Starters)
    BY FS_Subset
  <2> QED BY <2>1, FS_CardinalityType DEF Init
<1>4. detail \in [Attempts -> DetailDocs \union {None}]
  BY DEF Init, NewDetail, DetailDocs
<1>5. Type
  BY <1>2, <1>3, <1>4 DEF Init, Type, Steps
<1>6. \A a \in Attempts : doc[a] # None => doc[a].score = None
  BY DEF Init, NewAttempt
<1>7. Control /\ HeldFromOwner
  BY DEF Init, Control, HeldFromOwner, HoldsAttempt, WritesBack, Creates
<1> QED BY <1>5, <1>6, <1>7 DEF OwnerInv, StoredFromOwner, FromOwner

(* What a handler that holds an attempt reads is a document.               *)
LEMMA Holding ==
  ASSUME Type, Control, NEW c \in Calls, pc[c] \in HoldsAttempt
  PROVE  /\ req[c] \in Requests
         /\ req[c].att \in Attempts
         /\ doc[req[c].att] \in AttemptDocs
BY DEF Type, Control, HoldsAttempt

LEMMA LateType ==
  ASSUME NEW d \in AttemptDocs, NEW a
  PROVE  [d EXCEPT !.late = a \in overdue] \in AttemptDocs
<1> DEFINE flagged(b) == [d EXCEPT !.late = b]
<1>1. (a \in overdue) \in BOOLEAN
  OBVIOUS
<1>2. \A b \in BOOLEAN : flagged(b) \in AttemptDocs
  BY DEF AttemptDocs
<1> HIDE DEF flagged
<1>3. flagged(a \in overdue) \in AttemptDocs
  BY <1>1, <1>2, Zenon
<1> QED BY <1>3, Zenon DEF flagged

(* The reads and the replies: they write no collection.                    *)
LEMMA TypeOfReads ==
  ASSUME Type, Control, NEW c \in Calls,
         \/ Fail(c) \/ StartCheck(c) \/ StartLimit(c) \/ StartLookup(c) \/ FinishLoad(c)
         \/ Tally(c) \/ MarkCount(c) \/ ClockRead(c) \/ SaveRead(c) \/ CaptureRead(c)
  PROVE  Type'
<1> USE DEF db
<1>1. CASE Fail(c)
  <2>1. Goto(c, "error")
    BY <1>1 DEF Fail
  <2> QED BY <1>1, <2>1, GotoType DEF Fail, Type, Steps, Replies
<1>2. CASE StartCheck(c)
  <2>1. \E step \in {"lookup", "error", "limit"} : Goto(c, step)
    BY <1>2 DEF StartCheck
  <2> QED BY <1>2, <2>1, GotoType DEF StartCheck, Type, Steps, Replies
<1>3. CASE StartLimit(c)
  <2>1. \E step \in {"lookup", "error"} : Goto(c, step)
    BY <1>3 DEF StartLimit
  <2> QED BY <1>3, <2>1, GotoType DEF StartLimit, Type, Steps, Replies
<1>4. CASE StartLookup(c)
  <2>1. \E step \in {"join", "create", "error"} : Goto(c, step)
    BY <1>4 DEF StartLookup
  <2> QED BY <1>4, <2>1, GotoType DEF StartLookup, Type, Steps, Replies
<1>5. CASE FinishLoad(c)
  <2>1. doc[req[c].att] \in AttemptDocs
    BY <1>5, Holding DEF FinishLoad, HoldsAttempt
  <2>2. \E step \in {"grade", "error"} : Keep(c, step, doc[req[c].att], 0)
    BY <1>5 DEF FinishLoad
  <2> QED BY <1>5, <2>1, <2>2, KeepType DEF FinishLoad, Type, Steps, Replies
<1>6. CASE Tally(c) \/ MarkCount(c)
  <2>1. \E step \in {"tallyWrite", "markTotal"} : Keep(c, step, None, Cardinality(Counted))
    BY <1>6 DEF Tally, MarkCount, CountHandIns
  <2> QED BY <1>6, <2>1, KeepType, CountedFinite
          DEF Tally, MarkCount, CountHandIns, Type, Steps, Replies
<1>7. CASE ClockRead(c)
  <2> DEFINE d == [doc[req[c].att] EXCEPT !.late = req[c].att \in overdue]
  <2>3. d \in AttemptDocs
    BY <1>7, Holding, LateType DEF ClockRead, HoldsAttempt
  <2>4. Keep(c, "clockWrite", d, 0)
    BY <1>7 DEF ClockRead
  <2> HIDE DEF d
  <2> QED BY <1>7, <2>3, <2>4, KeepType DEF ClockRead, Type, Steps, Replies
<1>8. CASE SaveRead(c)
  <2>1. doc[req[c].att] \in AttemptDocs
    BY <1>8, Holding DEF SaveRead, HoldsAttempt
  <2>2. \E step \in {"saveQA", "create"} : Keep(c, step, doc[req[c].att], 0)
    BY <1>8 DEF SaveRead
  <2> QED BY <1>8, <2>1, <2>2, KeepType DEF SaveRead, Type, Steps, Replies
<1>9. CASE CaptureRead(c)
  <2>1. doc[req[c].att] \in AttemptDocs
    BY <1>9, Holding DEF CaptureRead, HoldsAttempt
  <2> QED BY <1>9, <2>1, KeepType DEF CaptureRead, Type, Steps, Replies
<1> QED BY <1>1, <1>2, <1>3, <1>4, <1>5, <1>6, <1>7, <1>8, <1>9

(* The writes.                                                             *)
LEMMA TypeOfStart ==
  ASSUME Type, Control, NEW c \in Calls,
         \/ StartJoin(c) \/ CreateAttempt(c) \/ CreateDetail(c) \/ LinkDetail(c)
  PROVE  Type'
<1>1. CASE StartJoin(c)
  <2>1. Goto(c, "create")
    BY <1>1 DEF StartJoin
  <2> QED BY <1>1, <2>1, GotoType DEF StartJoin, Type, Steps
<1>2. CASE CreateAttempt(c)
  <2>1. Goto(c, "detail")
    BY <1>2 DEF CreateAttempt
  <2>2. req[c] \in Requests
    BY <1>2 DEF CreateAttempt, Control
  <2>3. PICK a \in Attempts :
          /\ doc' = [doc EXCEPT ![a] = NewAttempt(req[c].user, req[c].kind = "start", FALSE)]
          /\ req' = [req EXCEPT ![c].att = a]
    BY <1>2 DEF CreateAttempt
  <2>4. \A u \in Users, b \in BOOLEAN : NewAttempt(u, b, FALSE) \in AttemptDocs
    BY NoneAssumption DEF NewAttempt, AttemptDocs
  <2>5. NewAttempt(req[c].user, req[c].kind = "start", FALSE) \in AttemptDocs
    <3>1. req[c].user \in Users
      BY <2>2 DEF Requests
    <3> QED BY <2>4, <3>1, Zenon
  <2>6. doc' \in [Attempts -> AttemptDocs \union {None}]
    BY <2>3, <2>5 DEF Type
  <2>7. req' \in [Calls -> Requests \union {None}]
    BY <2>2, <2>3 DEF Type, Requests
  <2> QED BY <1>2, <2>1, <2>6, <2>7, GotoType DEF CreateAttempt, Type, Steps
<1>3. CASE CreateDetail(c)
  <2>1. Goto(c, "link")
    BY <1>3 DEF CreateDetail
  <2>2. req[c].att \in Attempts
    BY <1>3, Holding DEF CreateDetail, HoldsAttempt
  <2>3. detail' \in [Attempts -> DetailDocs \union {None}]
    BY <1>3, <2>2 DEF CreateDetail, NewDetail, DetailDocs, Type
  <2> QED BY <1>3, <2>1, <2>3, GotoType DEF CreateDetail, Type, Steps
<1>4. CASE LinkDetail(c)
  <2>1. Goto(c, "ok")
    BY <1>4 DEF LinkDetail
  <2>2. req[c].att \in Attempts /\ doc[req[c].att] \in AttemptDocs
    BY <1>4, Holding DEF LinkDetail, HoldsAttempt
  <2>3. doc' \in [Attempts -> AttemptDocs \union {None}]
    BY <1>4, <2>2 DEF LinkDetail, AttemptDocs, Type
  <2> QED BY <1>4, <2>1, <2>3, GotoType DEF LinkDetail, Type, Steps, Replies
<1> QED BY <1>1, <1>2, <1>3, <1>4

LEMMA GradedType ==
  ASSUME NEW d \in AttemptDocs, NEW c \in Calls
  PROVE  [d EXCEPT !.ongoing = FALSE, !.total = TRUE, !.score = c,
                   !.evaluated = TRUE, !.over = Timed /\ req[c].long,
                   !.abandoned = req[c].quit \/ ShowFeedback] \in AttemptDocs
<1>1. \A over, abandoned \in BOOLEAN :
        [d EXCEPT !.ongoing = FALSE, !.total = TRUE, !.score = c, !.evaluated = TRUE,
                  !.over = over, !.abandoned = abandoned] \in AttemptDocs
  BY DEF AttemptDocs
<1> QED BY <1>1, Zenon

LEMMA GradedAgainType ==
  ASSUME NEW d \in AttemptDocs
  PROVE  [d EXCEPT !.abandoned = @ /\ ~Adaptive] \in AttemptDocs
<1>1. \A b \in BOOLEAN : [d EXCEPT !.abandoned = b] \in AttemptDocs
  BY DEF AttemptDocs
<1> QED BY <1>1, Zenon

LEMMA TypeOfProcess ==
  ASSUME Type, Control, NEW c \in Calls,
         \/ GradeWrite(c) \/ GradeDetail(c) \/ GradeBack(c) \/ MarkPending(c) \/ TallyWrite(c)
  PROVE  Type'
<1>1. CASE GradeWrite(c)
  <2> DEFINE a == req[c].att
             d == [doc[a] EXCEPT !.ongoing = FALSE, !.total = TRUE, !.score = c,
                                 !.evaluated = TRUE, !.over = Timed /\ req[c].long,
                                 !.abandoned = req[c].quit \/ ShowFeedback]
             e == [d EXCEPT !.abandoned = @ /\ ~Adaptive]
  <2>1. a \in Attempts /\ doc[a] \in AttemptDocs
    BY <1>1, Holding DEF GradeWrite, HoldsAttempt
  <2>3. d \in AttemptDocs
    BY <2>1, GradedType
  <2>4. doc' = [doc EXCEPT ![a] = d] /\ Keep(c, "gradeDetail", e, 0)
    BY <1>1 DEF GradeWrite
  <2> HIDE DEF d
  <2>6. e \in AttemptDocs
    BY <2>3, GradedAgainType
  <2> HIDE DEF e
  <2>7. doc' \in [Attempts -> AttemptDocs \union {None}]
    BY <2>1, <2>3, <2>4 DEF Type
  <2> QED BY <1>1, <2>4, <2>6, <2>7, KeepType DEF GradeWrite, Type, Steps
<1>2. CASE GradeDetail(c)
  <2>1. Goto(c, "gradeBack")
    BY <1>2 DEF GradeDetail
  <2>2. req[c].att \in Attempts /\ seen[c] \in AttemptDocs
    BY <1>2, Holding DEF GradeDetail, HoldsAttempt, WritesBack, Control, Type
  <2>3. detail' \in [Attempts -> DetailDocs \union {None}]
    BY <1>2, <2>2 DEF GradeDetail, DetailDocs, AttemptDocs, Type
  <2> QED BY <1>2, <2>1, <2>3, GotoType DEF GradeDetail, Type, Steps
<1>3. CASE GradeBack(c)
  <2>1. \E step \in {"pend", "mark", "clock", "ok", "tally"} : Goto(c, step)
    BY <1>3 DEF GradeBack, AfterProcess
  <2>2. req[c].att \in Attempts /\ seen[c] \in AttemptDocs
    BY <1>3, Holding DEF GradeBack, HoldsAttempt, WritesBack, Control, Type
  <2>3. doc' \in [Attempts -> AttemptDocs \union {None}]
    BY <1>3, <2>2 DEF GradeBack, AttemptDocs, Type
  <2> QED BY <1>3, <2>1, <2>3, GotoType DEF GradeBack, Type, Steps, Replies
<1>4. CASE MarkPending(c)
  <2>1. Goto(c, "error")
    BY <1>4 DEF MarkPending
  <2>2. req[c].att \in Attempts /\ doc[req[c].att] \in AttemptDocs
    BY <1>4, Holding DEF MarkPending, HoldsAttempt
  <2>3. doc' \in [Attempts -> AttemptDocs \union {None}]
    BY <1>4, <2>2 DEF MarkPending, AttemptDocs, Type
  <2> QED BY <1>4, <2>1, <2>3, GotoType DEF MarkPending, Type, Steps, Replies
<1>5. CASE TallyWrite(c)
  <2>1. \E step \in {"mark", "clock", "ok"} : Goto(c, step)
    BY <1>5 DEF TallyWrite, StoreCount, AfterProcess
  <2> QED BY <1>5, <2>1, GotoType DEF TallyWrite, StoreCount, Type, Steps, Replies
<1> QED BY <1>1, <1>2, <1>3, <1>4, <1>5

LEMMA TypeOfMark ==
  ASSUME Type, Control, NEW c \in Calls,
         MarkDone(c) \/ MarkDetail(c) \/ MarkTotal(c) \/ ClockWrite(c)
  PROVE  Type'
<1>1. CASE MarkDone(c)
  <2>1. \E step \in {"markDetail", "error"} : Goto(c, step)
    BY <1>1 DEF MarkDone
  <2>2. req[c].att \in Attempts /\ doc[req[c].att] \in AttemptDocs
    BY <1>1, Holding DEF MarkDone, HoldsAttempt
  <2>3. doc' \in [Attempts -> AttemptDocs \union {None}]
    <3>1. CASE doc' = [doc EXCEPT ![req[c].att].abandoned = FALSE]
      BY <2>2, <3>1 DEF AttemptDocs, Type
    <3>2. CASE doc' = doc
      BY <3>2 DEF Type
    <3> QED BY <1>1, <3>1, <3>2 DEF MarkDone
  <2> QED BY <1>1, <2>1, <2>3, GotoType DEF MarkDone, Type, Steps, Replies
<1>2. CASE MarkDetail(c)
  <2>1. Goto(c, "markCount")
    BY <1>2 DEF MarkDetail
  <2>2. req[c].att \in Attempts
    BY <1>2, Holding DEF MarkDetail, HoldsAttempt
  <2>3. detail' \in [Attempts -> DetailDocs \union {None}]
    BY <1>2, <2>2, ZenonT(30) DEF MarkDetail, DetailDocs, Type
  <2> QED BY <1>2, <2>1, <2>3, GotoType DEF MarkDetail, Type, Steps
<1>3. CASE MarkTotal(c)
  <2>1. \E step \in {"clock", "ok"} : Goto(c, step)
    BY <1>3 DEF MarkTotal, StoreCount
  <2> QED BY <1>3, <2>1, GotoType DEF MarkTotal, StoreCount, Type, Steps, Replies
<1>4. CASE ClockWrite(c)
  <2>1. Goto(c, "ok")
    BY <1>4 DEF ClockWrite
  <2>2. /\ req[c].att \in Attempts
        /\ doc[req[c].att] \in AttemptDocs /\ seen[c] \in AttemptDocs
    BY <1>4, Holding DEF ClockWrite, HoldsAttempt, WritesBack, Control, Type
  <2>3. doc' \in [Attempts -> AttemptDocs \union {None}]
    BY <1>4, <2>2 DEF ClockWrite, AttemptDocs, Type
  <2> QED BY <1>4, <2>1, <2>3, GotoType DEF ClockWrite, Type, Steps, Replies
<1> QED BY <1>1, <1>2, <1>3, <1>4

LEMMA TypeOfUpload ==
  ASSUME Type, Control, NEW c \in Calls,
         SaveAnswers(c) \/ CaptureWrite(c) \/ ResetIp(c)
  PROVE  Type'
<1> USE DEF Replies
<1>1. CASE SaveAnswers(c)
  <2>1. Goto(c, "ok")
    BY <1>1 DEF SaveAnswers
  <2>2. req[c].att \in Attempts
    BY <1>1, Holding DEF SaveAnswers, HoldsAttempt
  <2>3. detail' \in [Attempts -> DetailDocs \union {None}]
    BY <1>1, <2>2 DEF SaveAnswers, DetailDocs, Type
  <2> QED BY <1>1, <2>1, <2>3, GotoType DEF SaveAnswers, Type, Steps
<1>2. CASE CaptureWrite(c)
  <2>1. Goto(c, "ok")
    BY <1>2 DEF CaptureWrite
  <2>2. /\ req[c].att \in Attempts
        /\ doc[req[c].att] \in AttemptDocs /\ seen[c] \in AttemptDocs
    BY <1>2, Holding DEF CaptureWrite, HoldsAttempt, WritesBack, Control, Type
  <2>3. doc' \in [Attempts -> AttemptDocs \union {None}]
    BY <1>2, <2>2, ZenonT(30) DEF CaptureWrite, AttemptDocs, Type
  <2> QED BY <1>2, <2>1, <2>3, GotoType DEF CaptureWrite, Type, Steps
<1>3. CASE ResetIp(c)
  <2>1. Goto(c, "ok")
    BY <1>3 DEF ResetIp
  <2>2. ASSUME NEW a \in Attempts PROVE doc'[a] \in AttemptDocs \union {None}
    <3>1. CASE a \in OwnedBy(req[c].user)
      <4>1. doc[a] \in AttemptDocs
        BY <3>1 DEF OwnedBy, Type
      <4>2. doc'[a] = [doc[a] EXCEPT !.ongoing = FALSE]
        BY <1>3, <3>1 DEF ResetIp
      <4> QED BY <4>1, <4>2 DEF AttemptDocs
    <3>2. CASE a \notin OwnedBy(req[c].user)
      BY <1>3, <3>2 DEF ResetIp, Type
    <3> QED BY <3>1, <3>2
  <2>3. doc' \in [Attempts -> AttemptDocs \union {None}]
    BY <1>3, <2>2 DEF ResetIp
  <2> QED BY <1>3, <2>1, <2>3, GotoType DEF ResetIp, Type, Steps
<1> QED BY <1>1, <1>2, <1>3

(* The environment.                                                        *)
LEMMA Asked ==
  ASSUME Type, NEW c \in Calls, Call(c)
  PROVE  \E r \in Requests :
           /\ req' = [req EXCEPT ![c] = r]
           /\ pc' = [pc EXCEPT ![c] = r.kind]
           /\ r.kind \notin {"start", "resetIp"} => r.att \in Attempts /\ doc[r.att] # None
<1> DEFINE Request(k, u, a, q, l, s) ==
             [kind |-> k, user |-> u, att |-> a, quit |-> q, long |-> l, staff |-> s,
              overdue |-> a \in overdue]
           Targets(k) == IF k \in {"start", "resetIp"} THEN {None}
                         ELSE {b \in Attempts : doc[b] # None}
<1>1. PICK k \in Kinds, u \in Users, q, l, s \in BOOLEAN : \E a \in Targets(k) :
        LET r == Request(k, u, a, q, l, s)
        IN  /\ k # "finish" => ~q /\ ~l
            /\ k # "mark" => ~s
            /\ OneAtATime => ClientWaits(r)
            /\ req' = [req EXCEPT ![c] = r]
            /\ pc' = [pc EXCEPT ![c] = k]
  BY Zenon DEF Call
<1>2. PICK a \in Targets(k) : /\ req' = [req EXCEPT ![c] = Request(k, u, a, q, l, s)]
                             /\ pc' = [pc EXCEPT ![c] = k]
  BY <1>1, Zenon
<1>3. k \in AllKinds /\ a \in Attempts \union {None}
  BY ConstantsAssumption DEF ConstantsAssumption
<1>4. Request(k, u, a, q, l, s) \in Requests
  <2>1. (a \in overdue) \in BOOLEAN
    OBVIOUS
  <2>2. \A b \in BOOLEAN : [kind |-> k, user |-> u, att |-> a, quit |-> q, long |-> l,
                           staff |-> s, overdue |-> b] \in Requests
    BY <1>3 DEF Requests
  <2> QED BY <2>1, <2>2, Zenon
<1>5. Request(k, u, a, q, l, s).kind = k /\ Request(k, u, a, q, l, s).att = a
  OBVIOUS
<1> HIDE DEF Request
<1>6. k \notin {"start", "resetIp"} => a \in Attempts /\ doc[a] # None
  OBVIOUS
<1> QED BY <1>2, <1>4, <1>5, <1>6, Zenon

LEMMA TypeOfCall ==
  ASSUME Type, NEW c \in Calls, Call(c)
  PROVE  Type'
<1>1. PICK r \in Requests : /\ req' = [req EXCEPT ![c] = r]
                           /\ pc' = [pc EXCEPT ![c] = r.kind]
  BY Asked
<1>2. r.kind \in AllKinds
  BY DEF Requests
<1>3. req' \in [Calls -> Requests \union {None}]
  BY <1>1 DEF Type
<1>4. pc' \in [Calls -> Steps]
  BY <1>1, <1>2 DEF Type, Steps, AllKinds
<1>5. UNCHANGED <<doc, detail, joined, tallied, open, overdue, seen, n>>
  BY DEF Call, db
<1> QED BY <1>3, <1>4, <1>5 DEF Type

LEMMA TypeStep == Type /\ Control /\ [Next]_vars => Type'
<1> SUFFICES ASSUME Type, Control, [Next]_vars PROVE Type'
  OBVIOUS
<1>1. CASE \E c \in Calls : Call(c)
  BY <1>1, TypeOfCall
<1>2. CASE \E c \in Calls : Fail(c) \/ Start(c) \/ Finish(c) \/ Upload(c) \/ ResetIp(c)
  BY <1>2, TypeOfReads, TypeOfStart, TypeOfProcess, TypeOfMark, TypeOfUpload
     DEF Start, Finish, Process, Mark, Upload
<1>3. CASE TestCloses
  BY <1>3 DEF TestCloses, Type, db
<1>4. CASE \E a \in Attempts : TimeRunsOut(a)
  BY <1>4 DEF TimeRunsOut, Type, db
<1>5. CASE UNCHANGED vars
  BY <1>5 DEF vars, Type
<1> QED BY <1>1, <1>2, <1>3, <1>4, <1>5 DEF Next

-----------------------------------------------------------------------------
(* Where marks come from.  What a step of call c has to respect, so that   *)
(* every document, stored or held, keeps its owner and its owner's marks.  *)
LEMMA Goes ==
  ASSUME OwnerInv, Type', NEW c \in Calls, NEW step \in Steps \ {"idle", "finish"},
         pc[c] # "idle", req' = req, pc' = [pc EXCEPT ![c] = step],
         \A x \in Calls \ {c} : seen'[x] = seen[x],
         \A a \in Attempts : doc[a] # None => doc'[a] # None /\ doc'[a].user = doc[a].user,
         \A a \in Attempts : doc'[a] # None => FromOwner(a, doc'[a]),
         step \in HoldsAttempt => req[c].att \in Attempts /\ doc[req[c].att] # None,
         step \in Creates => req[c].kind # "finish",
         step = "grade" => req[c].kind = "finish" /\ req[c].user = doc[req[c].att].user,
         step \in WritesBack => /\ seen'[c] # None
                               /\ seen'[c].user = doc[req[c].att].user
                               /\ FromOwner(req[c].att, seen'[c])
  PROVE  Control' /\ StoredFromOwner' /\ HeldFromOwner'
<1>1. \A x \in Calls : pc[x] # "idle" => pc'[x] # "idle"
  BY DEF OwnerInv, Type
<1>2. ASSUME NEW a, NEW d \in AttemptDocs, FromOwner(a, d)
      PROVE  d.score # None => /\ pc'[d.score] # "idle"
                               /\ req'[d.score].kind = "finish"
                               /\ req'[d.score].att = a
                               /\ req'[d.score].user = d.user
  BY <1>1, <1>2 DEF FromOwner, AttemptDocs
<1>3. StoredFromOwner'
  <2> SUFFICES ASSUME NEW a \in Attempts, doc'[a] # None PROVE FromOwner(a, doc[a])'
    BY DEF StoredFromOwner
  <2>1. doc'[a] \in AttemptDocs /\ FromOwner(a, doc'[a])
    BY DEF Type
  <2> QED BY <1>2, <2>1 DEF FromOwner
<1>4. ASSUME NEW x \in Calls, x # c, pc'[x] \in HoldsAttempt
      PROVE  /\ pc[x] = pc'[x] /\ req[x].att \in Attempts /\ doc[req[x].att] # None
             /\ doc'[req[x].att] # None /\ doc'[req[x].att].user = doc[req[x].att].user
  BY <1>4 DEF OwnerInv, Type, Control
<1>5. Control'
  <2> SUFFICES ASSUME NEW x \in Calls
               PROVE  /\ pc'[x] # "idle" => req'[x] \in Requests
                      /\ pc'[x] \in HoldsAttempt => req'[x].att \in Attempts /\ doc'[req'[x].att] # None
                      /\ pc'[x] \in WritesBack => seen'[x] # None
                      /\ pc'[x] \in Creates => req'[x].kind # "finish"
                      /\ pc'[x] = "finish" => req'[x].kind = "finish"
    BY DEF Control
  <2>1. CASE x = c
    BY <2>1 DEF OwnerInv, Type, Control
  <2>2. CASE x # c
    BY <1>4, <2>2 DEF OwnerInv, Type, Control
  <2> QED BY <2>1, <2>2
<1>6. HeldFromOwner'
  <2> SUFFICES ASSUME NEW x \in Calls
               PROVE  /\ pc'[x] = "grade" => /\ req'[x].kind = "finish"
                                             /\ req'[x].user = doc'[req'[x].att].user
                      /\ pc'[x] \in WritesBack => /\ seen'[x].user = doc'[req'[x].att].user
                                                  /\ FromOwner(req[x].att, seen[x])'
    BY DEF HeldFromOwner
  <2>1. ASSUME pc'[x] \in WritesBack PROVE seen'[x] \in AttemptDocs
    BY <1>5, <2>1 DEF Control, Type
  <2>2. CASE x = c
    <3>1. /\ step = "grade" => doc'[req[c].att].user = doc[req[c].att].user
          /\ step \in WritesBack => doc'[req[c].att].user = doc[req[c].att].user
      BY DEF HoldsAttempt, WritesBack
    <3>2. pc'[c] = step
      BY DEF OwnerInv, Type
    <3>3. step \in WritesBack => FromOwner(req[c].att, seen[c])'
      BY <1>2, <2>1, <2>2, <3>2 DEF FromOwner
    <3> QED BY <2>2, <3>1, <3>2, <3>3
  <2>3. CASE x # c
    <3>1. seen'[x] = seen[x] /\ pc'[x] = pc[x]
      BY <2>3 DEF OwnerInv, Type
    <3>2. CASE pc'[x] = "grade"
      BY <1>4, <2>3, <3>1, <3>2 DEF OwnerInv, HeldFromOwner, HoldsAttempt, WritesBack
    <3>3. CASE pc'[x] \in WritesBack
      <4>1. FromOwner(req[x].att, seen[x]) /\ seen[x].user = doc[req[x].att].user
        BY <3>1, <3>3 DEF OwnerInv, HeldFromOwner
      <4>2. FromOwner(req[x].att, seen[x])'
        BY <1>2, <2>1, <3>1, <3>3, <4>1 DEF FromOwner
      <4> QED BY <1>4, <2>3, <3>3, <4>1, <4>2, <3>1 DEF HoldsAttempt, WritesBack
    <3> QED BY <3>2, <3>3
  <2> QED BY <2>2, <2>3
<1> QED BY <1>3, <1>5, <1>6

(* The special case of a step that writes no attempt.                      *)
LEMMA GoesQuietly ==
  ASSUME OwnerInv, Type', NEW c \in Calls, NEW step \in Steps \ {"idle", "finish"},
         pc[c] # "idle", UNCHANGED <<doc, req>>, pc' = [pc EXCEPT ![c] = step],
         \A x \in Calls \ {c} : seen'[x] = seen[x],
         step \in HoldsAttempt => req[c].att \in Attempts /\ doc[req[c].att] # None,
         step \in Creates => req[c].kind # "finish",
         step = "grade" => req[c].kind = "finish" /\ req[c].user = doc[req[c].att].user,
         step \in WritesBack => /\ seen'[c] # None
                               /\ seen'[c].user = doc[req[c].att].user
                               /\ FromOwner(req[c].att, seen'[c])
  PROVE  Control' /\ StoredFromOwner' /\ HeldFromOwner'
<1>1. \A a \in Attempts : doc'[a] # None => FromOwner(a, doc'[a])
  BY DEF OwnerInv, StoredFromOwner
<1> QED BY <1>1, Goes

LEMMA OwnerOfReads ==
  ASSUME OwnerInv, Type', NEW c \in Calls,
         \/ Fail(c) \/ StartCheck(c) \/ StartLimit(c) \/ StartLookup(c) \/ FinishLoad(c)
         \/ Tally(c) \/ MarkCount(c) \/ ClockRead(c) \/ SaveRead(c) \/ CaptureRead(c)
  PROVE  Control' /\ StoredFromOwner' /\ HeldFromOwner'
<1> USE DEF Goto, Keep, Steps, Replies, HoldsAttempt, WritesBack, Creates, OwnerInv, db
<1>1. CASE Fail(c)
  BY <1>1, GoesQuietly DEF Fail, Active, Type
<1>2. CASE StartCheck(c)
  BY <1>2, GoesQuietly DEF StartCheck, Control, Type
<1>3. CASE StartLimit(c)
  BY <1>3, GoesQuietly DEF StartLimit, Control, Type
<1>4. CASE StartLookup(c)
  BY <1>4, GoesQuietly DEF StartLookup, Control, Type
<1>5. CASE FinishLoad(c)
  BY <1>5, GoesQuietly, Holding DEF FinishLoad, Control, Type
<1>6. CASE Tally(c)
  BY <1>6, GoesQuietly, Holding DEF Tally, CountHandIns, Control, Type
<1>7. CASE MarkCount(c)
  BY <1>7, GoesQuietly, Holding DEF MarkCount, CountHandIns, Control, Type
<1>8. CASE ClockRead(c)
  <2>1. /\ req[c].att \in Attempts /\ doc[req[c].att] \in AttemptDocs
        /\ FromOwner(req[c].att, doc[req[c].att])
    BY <1>8, Holding, NoneAssumption DEF ClockRead, StoredFromOwner, NoneAssumption
  <2>2. /\ pc' = [pc EXCEPT ![c] = "clockWrite"]
        /\ seen'[c] = [doc[req[c].att] EXCEPT !.late = req[c].att \in overdue]
    BY <1>8 DEF ClockRead, Type
  <2>3. seen'[c].user = doc[req[c].att].user /\ seen'[c].score = doc[req[c].att].score
    BY <2>1, <2>2 DEF AttemptDocs
  <2>4. FromOwner(req[c].att, seen'[c])
    BY <2>1, <2>3 DEF FromOwner
  <2>5. doc[req[c].att] # None /\ seen'[c] # None
    BY <2>1, <2>2, LateType, NoneAssumption DEF NoneAssumption
  <2>6. UNCHANGED <<doc, req>> /\ \A x \in Calls \ {c} : seen'[x] = seen[x]
    BY <1>8 DEF ClockRead, Type
  <2>7. pc[c] # "idle"
    BY <1>8 DEF ClockRead
  <2> QED BY <2>1, <2>2, <2>3, <2>4, <2>5, <2>6, <2>7, GoesQuietly
<1>9. CASE SaveRead(c) \/ CaptureRead(c)
  <2>1. /\ req[c].att \in Attempts /\ doc[req[c].att] # None
        /\ FromOwner(req[c].att, doc[req[c].att])
    BY <1>9 DEF SaveRead, CaptureRead, Control, StoredFromOwner
  <2>2. seen'[c] = doc[req[c].att] /\ \A x \in Calls \ {c} : seen'[x] = seen[x]
    BY <1>9 DEF SaveRead, CaptureRead, Type
  <2>3. \E step \in {"saveQA", "captureWrite"} \union (IF pc[c] = "save" THEN {"create"} ELSE {}) :
          pc' = [pc EXCEPT ![c] = step]
    BY <1>9 DEF SaveRead, CaptureRead
  <2>4. pc[c] \in {"save", "capture"} /\ UNCHANGED <<doc, req>>
    BY <1>9 DEF SaveRead, CaptureRead
  <2>5. pc[c] = "save" => req[c].kind # "finish"
    BY DEF Control
  <2> QED BY <2>1, <2>2, <2>3, <2>4, <2>5, GoesQuietly
<1> QED BY <1>1, <1>2, <1>3, <1>4, <1>5, <1>6, <1>7, <1>8, <1>9

LEMMA OwnerOfQuietWrites ==
  ASSUME OwnerInv, Type', NEW c \in Calls,
         \/ StartJoin(c) \/ CreateDetail(c) \/ GradeDetail(c) \/ TallyWrite(c)
         \/ MarkDetail(c) \/ MarkTotal(c) \/ SaveAnswers(c)
  PROVE  Control' /\ StoredFromOwner' /\ HeldFromOwner'
<1> USE DEF Goto, Keep, Steps, Replies, HoldsAttempt, WritesBack, Creates, OwnerInv
<1>1. CASE StartJoin(c)
  BY <1>1, GoesQuietly DEF StartJoin, Control, Type
<1>2. CASE CreateDetail(c)
  BY <1>2, GoesQuietly DEF CreateDetail, Control, Type
<1>3. CASE GradeDetail(c)
  BY <1>3, GoesQuietly, ZenonT(30) DEF GradeDetail, Control, HeldFromOwner, Type
<1>4. CASE TallyWrite(c)
  <2>1. \E step \in {"mark", "clock", "ok"} : Goto(c, step)
    BY <1>4 DEF TallyWrite, StoreCount, AfterProcess
  <2> QED BY <1>4, <2>1, GoesQuietly, ZenonT(30) DEF TallyWrite, StoreCount, Control, Type
<1>5. CASE MarkDetail(c)
  BY <1>5, GoesQuietly DEF MarkDetail, Control, Type
<1>6. CASE MarkTotal(c)
  <2>1. \E step \in {"clock", "ok"} : Goto(c, step)
    BY <1>6 DEF MarkTotal, StoreCount
  <2> QED BY <1>6, <2>1, GoesQuietly DEF MarkTotal, StoreCount, Control, Type
<1>7. CASE SaveAnswers(c)
  BY <1>7, GoesQuietly DEF SaveAnswers, Control, Type
<1> QED BY <1>1, <1>2, <1>3, <1>4, <1>5, <1>6, <1>7

(* The steps that write one attempt: what they put there has the owner of  *)
(* the attempt, and marks of the owner.                                    *)
LEMMA WritesOwned ==
  ASSUME OwnerInv, NEW a \in Attempts, NEW d \in AttemptDocs, doc[a] # None,
         doc' = [doc EXCEPT ![a] = d], d.user = doc[a].user, FromOwner(a, d)
  PROVE  /\ \A b \in Attempts : doc[b] # None => doc'[b] # None /\ doc'[b].user = doc[b].user
         /\ \A b \in Attempts : doc'[b] # None => FromOwner(b, doc'[b])
BY NoneAssumption DEF OwnerInv, Type, StoredFromOwner, NoneAssumption

LEMMA OwnerOfFlags ==
  ASSUME OwnerInv, Type', NEW c \in Calls,
         LinkDetail(c) \/ MarkPending(c) \/ MarkDone(c) \/ ClockWrite(c)
  PROVE  Control' /\ StoredFromOwner' /\ HeldFromOwner'
<1> DEFINE a == req[c].att
<1>1. a \in Attempts /\ doc[a] \in AttemptDocs /\ doc[a] # None
  BY Holding, NoneAssumption
     DEF LinkDetail, MarkPending, MarkDone, ClockWrite, HoldsAttempt, OwnerInv, NoneAssumption
<1>2. \/ doc' = doc
      \/ \E d \in AttemptDocs : /\ doc' = [doc EXCEPT ![a] = d]
                                 /\ d.user = doc[a].user /\ d.score = doc[a].score
  <2>1. CASE LinkDetail(c)
    <3> DEFINE d == [doc[a] EXCEPT !.linked = TRUE]
    <3>1. d \in AttemptDocs /\ d.user = doc[a].user /\ d.score = doc[a].score
      BY <1>1 DEF AttemptDocs
    <3>2. doc' = [doc EXCEPT ![a] = d]
      BY <2>1 DEF LinkDetail
    <3> HIDE DEF d
    <3> QED BY <3>1, <3>2
  <2>2. CASE MarkPending(c)
    <3> DEFINE d == [doc[a] EXCEPT !.evaluated = FALSE]
    <3>1. d \in AttemptDocs /\ d.user = doc[a].user /\ d.score = doc[a].score
      BY <1>1 DEF AttemptDocs
    <3>2. doc' = [doc EXCEPT ![a] = d]
      BY <2>2 DEF MarkPending
    <3> HIDE DEF d
    <3> QED BY <3>1, <3>2
  <2>3. CASE MarkDone(c)
    <3> DEFINE d == [doc[a] EXCEPT !.abandoned = FALSE]
    <3>1. d \in AttemptDocs /\ d.user = doc[a].user /\ d.score = doc[a].score
      BY <1>1 DEF AttemptDocs
    <3>2. doc' = [doc EXCEPT ![a] = d] \/ doc' = doc
      BY <2>3 DEF MarkDone
    <3> HIDE DEF d
    <3> QED BY <3>1, <3>2
  <2>4. CASE ClockWrite(c)
    <3>1. seen[c] \in AttemptDocs
      BY <2>4 DEF ClockWrite, WritesBack, Control, OwnerInv, Type
    <3>2. doc'[a] \in AttemptDocs
      BY <1>1, <2>4, <3>1 DEF ClockWrite, AttemptDocs, OwnerInv, Type
    <3>3. doc' = [doc EXCEPT ![a] = doc'[a]]
      BY <1>1, <2>4 DEF ClockWrite, OwnerInv, Type
    <3>4. doc'[a].user = doc[a].user /\ doc'[a].score = doc[a].score
      BY <1>1, <2>4 DEF ClockWrite, AttemptDocs, OwnerInv, Type
    <3> QED BY <3>2, <3>3, <3>4
  <2> QED BY <2>1, <2>2, <2>3, <2>4
<1>3. /\ \A b \in Attempts : doc[b] # None => doc'[b] # None /\ doc'[b].user = doc[b].user
      /\ \A b \in Attempts : doc'[b] # None => FromOwner(b, doc'[b])
  <2>1. FromOwner(a, doc[a])
    BY <1>1 DEF OwnerInv, StoredFromOwner
  <2>2. \A d : d.user = doc[a].user /\ d.score = doc[a].score => FromOwner(a, d)
    BY <2>1 DEF FromOwner
  <2>3. CASE doc' = doc
    BY <2>3 DEF OwnerInv, StoredFromOwner
  <2> QED BY <1>1, <1>2, <2>2, <2>3, WritesOwned
<1>4. PICK step \in {"ok", "error", "markDetail"} : Goto(c, step)
  BY DEF LinkDetail, MarkPending, MarkDone, ClockWrite
<1>5. pc' = [pc EXCEPT ![c] = step] /\ \A x \in Calls \ {c} : seen'[x] = seen[x]
  BY <1>4 DEF Goto, Keep, OwnerInv, Type
<1>6. pc[c] # "idle" /\ UNCHANGED req
  BY DEF LinkDetail, MarkPending, MarkDone, ClockWrite
<1>7. step \in Steps \ {"idle", "finish", "grade"} /\ step \notin WritesBack \union Creates
  BY DEF Steps, Replies, WritesBack, Creates
<1> QED BY <1>1, <1>3, <1>5, <1>6, <1>7, Goes

(* The first write of process: the marks are those of the caller, who owns *)
(* the attempt.                                                            *)
LEMMA OwnerOfGrade ==
  ASSUME OwnerInv, Type', NEW c \in Calls, GradeWrite(c)
  PROVE  Control' /\ StoredFromOwner' /\ HeldFromOwner'
<1> DEFINE a == req[c].att
<1>1. a \in Attempts /\ doc[a] \in AttemptDocs /\ doc[a] # None
  BY Holding, NoneAssumption DEF GradeWrite, HoldsAttempt, OwnerInv, NoneAssumption
<1>2. /\ pc[c] = "grade" /\ UNCHANGED req
      /\ pc' = [pc EXCEPT ![c] = "gradeDetail"]
      /\ \A x \in Calls \ {c} : seen'[x] = seen[x]
  BY DEF GradeWrite, Keep, OwnerInv, Type
<1>3. /\ doc' = [doc EXCEPT ![a] = doc'[a]]
      /\ doc'[a].user = doc[a].user /\ doc'[a].score = c
  BY <1>1 DEF GradeWrite, AttemptDocs, OwnerInv, Type
<1>4. seen'[c].user = doc[a].user /\ seen'[c].score = c
  BY <1>1 DEF GradeWrite, Keep, Replies, AttemptDocs, OwnerInv, Type
<1>5. doc'[a] \in AttemptDocs /\ seen'[c] \in AttemptDocs
  <2> DEFINE d == [doc[a] EXCEPT !.ongoing = FALSE, !.total = TRUE, !.score = c,
                                 !.evaluated = TRUE, !.over = Timed /\ req[c].long,
                                 !.abandoned = req[c].quit \/ ShowFeedback]
  <2>1. d \in AttemptDocs
    BY <1>1, GradedType
  <2>2. doc'[a] = d /\ seen'[c] = [d EXCEPT !.abandoned = @ /\ ~Adaptive]
    BY <1>1 DEF GradeWrite, Keep, Replies, OwnerInv, Type
  <2> HIDE DEF d
  <2> QED BY <2>1, <2>2, GradedAgainType
<1>6. seen'[c] # None
  BY <1>5, NoneAssumption DEF NoneAssumption
<1>7. /\ req[c].kind = "finish" /\ req[c].user = doc[a].user
  BY <1>2 DEF OwnerInv, HeldFromOwner
<1>8. FromOwner(a, doc'[a]) /\ FromOwner(a, seen'[c])
  BY <1>2, <1>3, <1>4, <1>7 DEF FromOwner
<1>9. /\ \A b \in Attempts : doc[b] # None => doc'[b] # None /\ doc'[b].user = doc[b].user
      /\ \A b \in Attempts : doc'[b] # None => FromOwner(b, doc'[b])
  BY <1>1, <1>3, <1>5, <1>8, WritesOwned
<1>10. "gradeDetail" \in (Steps \ {"idle", "finish", "grade"}) /\ "gradeDetail" \notin Creates
  BY DEF Steps, Creates
<1> HIDE DEF a
<1> QED BY <1>1, <1>2, <1>4, <1>6, <1>8, <1>9, <1>10, Goes DEF a

(* The writes that put a document back as it was read.                     *)
LEMMA OwnerOfWritesBack ==
  ASSUME OwnerInv, Type', NEW c \in Calls, GradeBack(c) \/ CaptureWrite(c)
  PROVE  Control' /\ StoredFromOwner' /\ HeldFromOwner'
<1> DEFINE a == req[c].att
<1>1. a \in Attempts /\ doc[a] \in AttemptDocs /\ doc[a] # None
  BY Holding, NoneAssumption
     DEF GradeBack, CaptureWrite, HoldsAttempt, OwnerInv, NoneAssumption
<1>2. /\ seen[c] \in AttemptDocs /\ seen[c].user = doc[a].user
      /\ FromOwner(a, seen[c])
  BY DEF GradeBack, CaptureWrite, WritesBack, OwnerInv, HeldFromOwner, Control, Type
<1>3. pc[c] # "idle" /\ UNCHANGED req
  BY DEF GradeBack, CaptureWrite
<1>4. PICK step \in {"pend", "mark", "clock", "ok", "tally"} : Goto(c, step)
  BY DEF GradeBack, CaptureWrite, AfterProcess
<1>5. pc' = [pc EXCEPT ![c] = step] /\ \A x \in Calls \ {c} : seen'[x] = seen[x]
  BY <1>4 DEF Goto, Keep, OwnerInv, Type
<1>6. step \in Steps \ {"idle", "finish", "grade"} /\ step \notin WritesBack \union Creates
  BY DEF Steps, Replies, WritesBack, Creates
<1>7. \E d \in AttemptDocs : /\ doc' = [doc EXCEPT ![a] = d]
                             /\ d.user = seen[c].user /\ d.score = seen[c].score
  <2>1. CASE GradeBack(c)
    <3> DEFINE d == [seen[c] EXCEPT !.linked = TRUE]
    <3>1. d \in AttemptDocs /\ d.user = seen[c].user /\ d.score = seen[c].score
      BY <1>2 DEF AttemptDocs
    <3>2. doc' = [doc EXCEPT ![a] = d]
      BY <2>1 DEF GradeBack
    <3> HIDE DEF d
    <3> QED BY <3>1, <3>2
  <2>2. CASE CaptureWrite(c)
    <3> DEFINE d == [seen[c] EXCEPT !.total = @ \/ doc[a].total,
                                    !.linked = @ \/ doc[a].linked]
    <3>1. d \in AttemptDocs
      <4>1. \A p, q \in BOOLEAN : [seen[c] EXCEPT !.total = p, !.linked = q] \in AttemptDocs
        BY <1>2 DEF AttemptDocs
      <4> QED BY <4>1, Zenon
    <3>2. d.user = seen[c].user /\ d.score = seen[c].score
      BY <1>2 DEF AttemptDocs
    <3>3. doc' = [doc EXCEPT ![a] = d]
      BY <2>2 DEF CaptureWrite
    <3> HIDE DEF d
    <3> QED BY <3>1, <3>2, <3>3
  <2> QED BY <2>1, <2>2
<1>8. \A d : d.user = seen[c].user /\ d.score = seen[c].score => FromOwner(a, d)
  BY <1>2 DEF FromOwner
<1>9. /\ \A b \in Attempts : doc[b] # None => doc'[b] # None /\ doc'[b].user = doc[b].user
      /\ \A b \in Attempts : doc'[b] # None => FromOwner(b, doc'[b])
  BY <1>1, <1>2, <1>7, <1>8, WritesOwned
<1> QED BY <1>1, <1>3, <1>5, <1>6, <1>9, Goes

LEMMA OwnerOfResetIp ==
  ASSUME OwnerInv, Type', NEW c \in Calls, ResetIp(c)
  PROVE  Control' /\ StoredFromOwner' /\ HeldFromOwner'
<1>1. ASSUME NEW a \in Attempts, doc[a] # None
      PROVE  doc'[a] # None /\ doc'[a].user = doc[a].user /\ doc'[a].score = doc[a].score
  <2>1. doc[a] \in AttemptDocs
    BY <1>1 DEF OwnerInv, Type
  <2>2. doc'[a] = doc[a] \/ doc'[a] = [doc[a] EXCEPT !.ongoing = FALSE]
    BY DEF ResetIp
  <2>3. [doc[a] EXCEPT !.ongoing = FALSE] \in AttemptDocs
    BY <2>1 DEF AttemptDocs
  <2> QED BY <2>1, <2>2, <2>3, NoneAssumption DEF AttemptDocs, NoneAssumption
<1>2. ASSUME NEW a \in Attempts, doc'[a] # None PROVE FromOwner(a, doc'[a])
  <2>1. doc[a] # None
    BY <1>2 DEF ResetIp, OwnedBy
  <2>2. FromOwner(a, doc[a])
    BY <2>1 DEF OwnerInv, StoredFromOwner
  <2> QED BY <1>1, <2>1, <2>2 DEF FromOwner
<1>3. /\ pc[c] # "idle" /\ UNCHANGED req /\ pc' = [pc EXCEPT ![c] = "ok"]
      /\ \A x \in Calls \ {c} : seen'[x] = seen[x]
  BY DEF ResetIp, Goto, Keep, OwnerInv, Type
<1>4. "ok" \in (Steps \ {"idle", "finish", "grade"}) /\ "ok" \notin HoldsAttempt \union WritesBack \union Creates
  BY DEF Steps, Replies, WritesBack, Creates, HoldsAttempt
<1> QED BY <1>1, <1>2, <1>3, <1>4, Goes

(* A new attempt has no marks, and no call held it before.                 *)
LEMMA OwnerOfCreate ==
  ASSUME OwnerInv, Type', NEW c \in Calls, CreateAttempt(c)
  PROVE  Control' /\ StoredFromOwner' /\ HeldFromOwner'
<1>1. /\ pc[c] = "create" /\ pc' = [pc EXCEPT ![c] = "detail"]
      /\ \A x \in Calls \ {c} : seen'[x] = seen[x]
      /\ req[c] \in Requests /\ req[c].kind # "finish"
  BY DEF CreateAttempt, Goto, Keep, OwnerInv, Type, Control, Creates
<1>2. PICK a \in Attempts :
        /\ doc[a] = None
        /\ doc' = [doc EXCEPT ![a] = NewAttempt(req[c].user, req[c].kind = "start", FALSE)]
        /\ req' = [req EXCEPT ![c].att = a]
  BY DEF CreateAttempt
<1>3. doc'[a].score = None /\ \A b \in Attempts \ {a} : doc'[b] = doc[b]
  BY <1>2 DEF NewAttempt, OwnerInv, Type
<1>4. doc'[a] # None
  <2>1. req[c].user \in Users
    BY <1>1 DEF Requests
  <2>2. \A u \in Users, b \in BOOLEAN : NewAttempt(u, b, FALSE) \in AttemptDocs
    BY NoneAssumption DEF NewAttempt, AttemptDocs
  <2>3. NewAttempt(req[c].user, req[c].kind = "start", FALSE) \in AttemptDocs
    BY <2>1, <2>2, Zenon
  <2>4. doc'[a] = NewAttempt(req[c].user, req[c].kind = "start", FALSE)
    BY <1>2 DEF OwnerInv, Type
  <2> QED BY <2>3, <2>4, NoneAssumption DEF NoneAssumption
<1>5. /\ \A x \in Calls \ {c} : pc'[x] = pc[x] /\ req'[x] = req[x]
      /\ pc'[c] = "detail" /\ req'[c].att = a /\ req'[c].kind = req[c].kind
  BY <1>1, <1>2 DEF OwnerInv, Type, Requests
<1>6. ASSUME NEW b, NEW d \in AttemptDocs, FromOwner(b, d)
      PROVE  d.score # None => /\ d.score # c
                               /\ pc'[d.score] # "idle"
                               /\ req'[d.score].kind = "finish"
                               /\ req'[d.score].att = b
                               /\ req'[d.score].user = d.user
  BY <1>1, <1>5, <1>6 DEF FromOwner, AttemptDocs
<1>7. ASSUME NEW x \in Calls \ {c}, pc[x] \in HoldsAttempt
      PROVE  req[x].att \in Attempts \ {a} /\ doc[req[x].att] # None
  BY <1>2, <1>7 DEF OwnerInv, Control
<1>8. Control'
  <2> SUFFICES ASSUME NEW x \in Calls
               PROVE  /\ pc'[x] # "idle" => req'[x] \in Requests
                      /\ pc'[x] \in HoldsAttempt => req'[x].att \in Attempts /\ doc'[req'[x].att] # None
                      /\ pc'[x] \in WritesBack => seen'[x] # None
                      /\ pc'[x] \in Creates => req'[x].kind # "finish"
                      /\ pc'[x] = "finish" => req'[x].kind = "finish"
    BY DEF Control
  <2>1. CASE x = c
    <3>1. req'[c] \in Requests
      BY <1>1, <1>2 DEF Requests, OwnerInv, Type
    <3> QED BY <1>1, <1>4, <1>5, <2>1, <3>1 DEF WritesBack
  <2>2. CASE x # c
    BY <1>1, <1>3, <1>5, <1>7, <2>2 DEF OwnerInv, Control
  <2> QED BY <2>1, <2>2
<1>9. StoredFromOwner'
  <2> SUFFICES ASSUME NEW b \in Attempts, doc'[b] # None PROVE FromOwner(b, doc[b])'
    BY DEF StoredFromOwner
  <2>1. CASE b = a
    BY <1>3, <2>1 DEF FromOwner
  <2>2. CASE b # a
    <3>1. doc'[b] = doc[b] /\ doc[b] \in AttemptDocs /\ FromOwner(b, doc[b])
      BY <1>3, <2>2 DEF OwnerInv, Type, StoredFromOwner
    <3> QED BY <1>6, <3>1 DEF FromOwner
  <2> QED BY <2>1, <2>2
<1>10. HeldFromOwner'
  <2> SUFFICES ASSUME NEW x \in Calls, x # c, pc'[x] \in {"grade"} \union WritesBack
               PROVE  /\ pc'[x] = "grade" => /\ req'[x].kind = "finish"
                                             /\ req'[x].user = doc'[req'[x].att].user
                      /\ pc'[x] \in WritesBack => /\ seen'[x].user = doc'[req'[x].att].user
                                                  /\ FromOwner(req[x].att, seen[x])'
    BY <1>5 DEF HeldFromOwner, WritesBack
  <2>1. pc'[x] = pc[x] /\ req'[x] = req[x] /\ doc'[req[x].att] = doc[req[x].att] /\ seen'[x] = seen[x]
    BY <1>1, <1>3, <1>5, <1>7 DEF HoldsAttempt, WritesBack
  <2>2. ASSUME pc[x] \in WritesBack PROVE FromOwner(req[x].att, seen[x])'
    <3>1. seen[x] \in AttemptDocs /\ FromOwner(req[x].att, seen[x])
      BY <2>2 DEF OwnerInv, HeldFromOwner, Control, Type
    <3> QED BY <1>6, <2>1, <3>1 DEF FromOwner
  <2> QED BY <2>1, <2>2 DEF OwnerInv, HeldFromOwner
<1> QED BY <1>8, <1>9, <1>10

(* A new request: nobody's marks are its answers yet.                      *)
LEMMA OwnerOfCall ==
  ASSUME OwnerInv, Type', NEW c \in Calls, Call(c)
  PROVE  Control' /\ StoredFromOwner' /\ HeldFromOwner'
<1>1. PICK r \in Requests :
        /\ req' = [req EXCEPT ![c] = r]
        /\ pc' = [pc EXCEPT ![c] = r.kind]
        /\ r.kind \notin {"start", "resetIp"} => r.att \in Attempts /\ doc[r.att] # None
  BY Asked DEF OwnerInv
<1>2. pc[c] = "idle" /\ UNCHANGED <<doc, seen>>
  BY DEF Call, db
<1>3. /\ \A x \in Calls \ {c} : pc'[x] = pc[x] /\ req'[x] = req[x]
      /\ pc'[c] = r.kind /\ req'[c] = r /\ r.kind \in AllKinds
  BY <1>1 DEF OwnerInv, Type, Requests
<1>4. ASSUME NEW b, NEW d \in AttemptDocs, FromOwner(b, d)
      PROVE  d.score # None => /\ pc'[d.score] # "idle"
                               /\ req'[d.score].kind = "finish"
                               /\ req'[d.score].att = b
                               /\ req'[d.score].user = d.user
  BY <1>2, <1>3, <1>4 DEF FromOwner, AttemptDocs
<1>5. Control'
  BY <1>1, <1>2, <1>3 DEF OwnerInv, Control, HoldsAttempt, WritesBack, Creates, AllKinds
<1>6. StoredFromOwner'
  <2> SUFFICES ASSUME NEW b \in Attempts, doc'[b] # None PROVE FromOwner(b, doc[b])'
    BY DEF StoredFromOwner
  <2>1. doc'[b] = doc[b] /\ doc[b] \in AttemptDocs /\ FromOwner(b, doc[b])
    BY <1>2 DEF OwnerInv, Type, StoredFromOwner
  <2> QED BY <1>4, <2>1 DEF FromOwner
<1>7. HeldFromOwner'
  <2> SUFFICES ASSUME NEW x \in Calls, x # c, pc'[x] \in {"grade"} \union WritesBack
               PROVE  /\ pc'[x] = "grade" => /\ req'[x].kind = "finish"
                                             /\ req'[x].user = doc'[req'[x].att].user
                      /\ pc'[x] \in WritesBack => /\ seen'[x].user = doc'[req'[x].att].user
                                                  /\ FromOwner(req[x].att, seen[x])'
    BY <1>3 DEF HeldFromOwner, WritesBack, AllKinds
  <2>1. pc'[x] = pc[x] /\ req'[x] = req[x] /\ doc' = doc /\ seen' = seen
    BY <1>2, <1>3
  <2>2. ASSUME pc[x] \in WritesBack PROVE FromOwner(req[x].att, seen[x])'
    <3>1. seen[x] \in AttemptDocs /\ FromOwner(req[x].att, seen[x])
      BY <2>2 DEF OwnerInv, HeldFromOwner, Control, Type
    <3> QED BY <1>4, <2>1, <3>1 DEF FromOwner
  <2> QED BY <2>1, <2>2 DEF OwnerInv, HeldFromOwner
<1> QED BY <1>5, <1>6, <1>7

LEMMA OwnerStep == OwnerInv /\ [Next]_vars => OwnerInv'
<1> SUFFICES ASSUME OwnerInv, [Next]_vars PROVE OwnerInv'
  OBVIOUS
<1>1. Type'
  BY TypeStep DEF OwnerInv
<1>2. CASE \E c \in Calls : Call(c)
  BY <1>1, <1>2, OwnerOfCall DEF OwnerInv
<1>3. CASE \E c \in Calls : Fail(c) \/ Start(c) \/ Finish(c) \/ Upload(c) \/ ResetIp(c)
  BY <1>1, <1>3, OwnerOfReads, OwnerOfQuietWrites, OwnerOfFlags, OwnerOfGrade,
     OwnerOfWritesBack, OwnerOfCreate, OwnerOfResetIp
     DEF OwnerInv, Start, Finish, Process, Mark, Upload
<1>4. CASE TestCloses \/ (\E a \in Attempts : TimeRunsOut(a)) \/ UNCHANGED vars
  <2>1. UNCHANGED <<doc, req, pc, seen>>
    BY <1>4 DEF TestCloses, TimeRunsOut, vars, db
  <2> QED BY <1>1, <2>1 DEF OwnerInv, Control, StoredFromOwner, HeldFromOwner, FromOwner
<1> QED BY <1>2, <1>3, <1>4 DEF Next

(* The state is well formed, and what a handler has read or holds is what  *)
(* its next step needs.                                                    *)
THEOREM TypeCorrect == Spec => []Type
<1>1. Init => OwnerInv
  BY InitOwnerInv
<1>2. OwnerInv /\ [Next]_vars => OwnerInv'
  BY OwnerStep
<1>3. OwnerInv => Type
  BY DEF OwnerInv
<1> QED BY <1>1, <1>2, <1>3, PTL DEF Spec

(* "Only the student who started the attempt may hand it in": whatever the *)
(* calls, their number and their interleaving, and whichever of them fail, *)
(* the marks of an attempt are those of a hand-in of its owner.            *)
THEOREM OwnersMarks == Spec => []MarksFromOwner
<1>1. OwnerInv => MarksFromOwner
  BY DEF OwnerInv, StoredFromOwner, FromOwner, MarksFromOwner
<1> QED BY <1>1, InitOwnerInv, OwnerStep, PTL DEF Spec

-----------------------------------------------------------------------------
(* What the steps of a call do, field by field                             *)

Moves(c, step) ==
  /\ req' = req /\ pc'[c] = step
  /\ \A x \in Calls \ {c} : pc'[x] = pc[x] /\ seen'[x] = seen[x]

(* The actions that write no attempt, and all that write at most their own. *)
Reads(c) == \/ Fail(c) \/ StartCheck(c) \/ StartLimit(c) \/ StartLookup(c) \/ FinishLoad(c)
            \/ Tally(c) \/ MarkCount(c) \/ ClockRead(c) \/ SaveRead(c) \/ CaptureRead(c)
            \/ StartJoin(c) \/ TallyWrite(c) \/ MarkTotal(c)
WritesDetail(c) == CreateDetail(c) \/ GradeDetail(c) \/ MarkDetail(c) \/ SaveAnswers(c)
WritesDoc(c) == \/ LinkDetail(c) \/ GradeWrite(c) \/ GradeBack(c) \/ MarkPending(c)
                \/ MarkDone(c) \/ ClockWrite(c) \/ CaptureWrite(c)

LEMMA GoesMoves ==
  ASSUME Type, NEW c \in Calls, NEW step, Goto(c, step), req' = req
  PROVE  Moves(c, step) /\ seen'[c] = IF step \in Replies THEN None ELSE seen[c]
BY DEF Goto, Keep, Moves, Type

LEMMA KeepMoves ==
  ASSUME Type, NEW c \in Calls, NEW step, NEW d, NEW k, Keep(c, step, d, k), req' = req
  PROVE  Moves(c, step) /\ seen'[c] = IF step \in Replies THEN None ELSE d
BY DEF Keep, Moves, Type

(* Where the reads lead, and what they keep.                               *)
LEMMA ReadShape ==
  ASSUME Type, Control, NEW c \in Calls, Reads(c)
  PROVE  /\ UNCHANGED <<doc, detail, overdue>> /\ pc[c] # "idle"
         /\ \/ Moves(c, "error")
            \/ /\ pc[c] \in {"start", "limit"} /\ Moves(c, "lookup") /\ seen'[c] = seen[c]
            \/ pc[c] = "start" /\ Moves(c, "limit") /\ seen'[c] = seen[c]
            \/ pc[c] = "lookup" /\ Moves(c, "join") /\ seen'[c] = seen[c]
            \/ pc[c] = "lookup" /\ Moves(c, "create") /\ OwnedBy(req[c].user) # {}
            \/ pc[c] = "join" /\ Moves(c, "create") /\ seen'[c] = seen[c]
            \/ /\ pc[c] = "finish" /\ Moves(c, "grade") /\ seen'[c] = doc[req[c].att]
               /\ ~Graded(doc[req[c].att]) /\ doc[req[c].att].user = req[c].user
            \/ pc[c] = "tally" /\ Moves(c, "tallyWrite")
            \/ pc[c] = "tallyWrite" /\ Moves(c, AfterProcess(c))
            \/ pc[c] = "markCount" /\ Moves(c, "markTotal")
            \/ pc[c] = "markTotal" /\ Moves(c, IF req[c].kind = "finish" /\ Timed THEN "clock" ELSE "ok")
            \/ /\ pc[c] = "clock" /\ Moves(c, "clockWrite")
               /\ seen'[c] = [doc[req[c].att] EXCEPT !.late = req[c].att \in overdue]
            \/ /\ pc[c] = "save" /\ Moves(c, "saveQA") /\ seen'[c] = doc[req[c].att]
               /\ doc[req[c].att].ongoing
            \/ pc[c] = "save" /\ Moves(c, "create")
            \/ pc[c] = "capture" /\ Moves(c, "captureWrite") /\ seen'[c] = doc[req[c].att]
<1> USE DEF db, Replies
<1>1. CASE Fail(c)
  BY <1>1, GoesMoves DEF Fail, Active
<1>2. CASE StartCheck(c)
  BY <1>2, GoesMoves DEF StartCheck
<1>3. CASE StartLimit(c)
  BY <1>3, GoesMoves DEF StartLimit
<1>4. CASE StartLookup(c)
  BY <1>4, GoesMoves DEF StartLookup
<1>5. CASE FinishLoad(c)
  BY <1>5, KeepMoves DEF FinishLoad
<1>6. CASE Tally(c)
  BY <1>6, KeepMoves DEF Tally, CountHandIns
<1>7. CASE MarkCount(c)
  BY <1>7, KeepMoves DEF MarkCount, CountHandIns
<1>8. CASE ClockRead(c)
  <2>1. Keep(c, "clockWrite", [doc[req[c].att] EXCEPT !.late = req[c].att \in overdue], 0)
        /\ pc[c] = "clock" /\ UNCHANGED <<doc, detail, overdue, req>>
    BY <1>8 DEF ClockRead
  <2>2. Moves(c, "clockWrite") /\ seen'[c] = [doc[req[c].att] EXCEPT !.late = req[c].att \in overdue]
    BY <2>1, KeepMoves
  <2> QED BY <2>1, <2>2
<1>9. CASE SaveRead(c)
  BY <1>9, KeepMoves DEF SaveRead
<1>10. CASE CaptureRead(c)
  BY <1>10, KeepMoves DEF CaptureRead
<1>11. CASE StartJoin(c)
  BY <1>11, GoesMoves DEF StartJoin
<1>12. CASE TallyWrite(c)
  BY <1>12, GoesMoves DEF TallyWrite, StoreCount
<1>13. CASE MarkTotal(c)
  BY <1>13, GoesMoves DEF MarkTotal, StoreCount
<1> QED BY <1>1, <1>2, <1>3, <1>4, <1>5, <1>6, <1>7, <1>8, <1>9, <1>10, <1>11, <1>12, <1>13 DEF Reads

(* What the writes of a detail document store.                             *)
LEMMA DetailShape ==
  ASSUME Type, Control, NEW c \in Calls, WritesDetail(c)
  PROVE  LET a == req[c].att IN
         /\ UNCHANGED <<doc, overdue>> /\ a \in Attempts
         /\ \A b \in Attempts \ {a} : detail'[b] = detail[b]
         /\ \/ /\ pc[c] = "detail" /\ Moves(c, "link") /\ seen'[c] = seen[c]
            \/ /\ pc[c] = "gradeDetail" /\ Moves(c, "gradeBack") /\ seen'[c] = seen[c]
               /\ detail'[a] # None /\ detail'[a].qa = c
            \/ /\ pc[c] = "markDetail" /\ Moves(c, "markCount")
               /\ detail[a] # None =>
                    detail'[a] # None /\ detail'[a].qa = detail[a].qa /\ ~detail'[a].abandoned
            \/ pc[c] = "saveQA" /\ Moves(c, "ok")
<1> USE DEF Replies
<1>1. CASE CreateDetail(c)
  BY <1>1, Holding, GoesMoves DEF CreateDetail, HoldsAttempt, Type
<1>2. CASE GradeDetail(c)
  <2>1. /\ req[c].att \in Attempts /\ detail \in [Attempts -> DetailDocs \union {None}]
        /\ seen[c] \in AttemptDocs
    BY <1>2, Holding DEF GradeDetail, HoldsAttempt, Type, Control, WritesBack
  <2>2. PICK t \in DetailDocs : t = [qa |-> c, abandoned |-> seen[c].abandoned]
    BY <2>1 DEF DetailDocs, AttemptDocs
  <2>3. t.qa = c /\ t # None
    BY <2>2, NoneAssumption DEF NoneAssumption
  <2>4. detail' = [detail EXCEPT ![req[c].att] = t] /\ UNCHANGED <<doc, overdue>>
    BY <1>2, <2>2 DEF GradeDetail
  <2>5. pc[c] = "gradeDetail" /\ Moves(c, "gradeBack") /\ seen'[c] = seen[c]
    BY <1>2, GoesMoves DEF GradeDetail
  <2> QED BY <2>1, <2>3, <2>4, <2>5
<1>3. CASE MarkDetail(c)
  <2>1. req[c].att \in Attempts /\ detail \in [Attempts -> DetailDocs \union {None}]
    BY <1>3, Holding DEF MarkDetail, HoldsAttempt, Type
  <2>2. pc[c] = "markDetail" /\ Moves(c, "markCount") /\ UNCHANGED <<doc, overdue>>
    BY <1>3, GoesMoves DEF MarkDetail
  <2>3. CASE detail[req[c].att] = None
    BY <1>3, <2>1, <2>2, <2>3 DEF MarkDetail
  <2>4. CASE detail[req[c].att] # None
    <3>1. PICK t \in DetailDocs : t = [detail[req[c].att] EXCEPT !.abandoned = FALSE]
      BY <2>1, <2>4 DEF DetailDocs
    <3>2. t.qa = detail[req[c].att].qa /\ ~t.abandoned /\ t # None
      BY <2>1, <2>4, <3>1, NoneAssumption DEF DetailDocs, NoneAssumption
    <3>3. detail' = [detail EXCEPT ![req[c].att] = t]
      BY <1>3, <2>4, <3>1 DEF MarkDetail
    <3> QED BY <2>1, <2>2, <3>2, <3>3
  <2> QED BY <2>3, <2>4
<1>4. CASE SaveAnswers(c)
  BY <1>4, Holding, GoesMoves DEF SaveAnswers, HoldsAttempt, Type
<1> QED BY <1>1, <1>2, <1>3, <1>4 DEF WritesDetail

(* What the writes of an attempt store: e follows d there, s is what the   *)
(* call held and r what it holds now.                                      *)
Alike(d, e) ==
  /\ e.user = d.user /\ e.started = d.started
  /\ e.score = d.score /\ e.total = d.total /\ e.ongoing = d.ongoing

Flags(d, e) ==
  e.abandoned = d.abandoned /\ e.evaluated = d.evaluated /\ e.over = d.over /\ e.late = d.late

Stored(c, e) ==
  /\ req[c].att \in Attempts /\ doc[req[c].att] \in AttemptDocs /\ e \in AttemptDocs
  /\ doc'[req[c].att] = e /\ e # None /\ doc[req[c].att] # None
  /\ \A b \in Attempts \ {req[c].att} : doc'[b] = doc[b]
  /\ UNCHANGED <<detail, overdue>>

LEMMA StoresDoc ==
  ASSUME Type, Control, NEW c \in Calls, WritesDoc(c), NEW e \in AttemptDocs,
         doc' = [doc EXCEPT ![req[c].att] = e]
  PROVE  Stored(c, e)
<1>1. req[c].att \in Attempts /\ doc[req[c].att] \in AttemptDocs
  BY Holding DEF WritesDoc, LinkDetail, GradeWrite, GradeBack, MarkPending, MarkDone, ClockWrite,
     CaptureWrite, HoldsAttempt
<1>2. UNCHANGED <<detail, overdue>>
  BY DEF WritesDoc, LinkDetail, GradeWrite, GradeBack, MarkPending, MarkDone, ClockWrite, CaptureWrite
<1> QED BY <1>1, <1>2, NoneAssumption DEF Stored, Type, NoneAssumption

LEMMA HoldsDoc ==
  ASSUME Type, Control, NEW c \in Calls, pc[c] \in HoldsAttempt
  PROVE  /\ \E d \in AttemptDocs : d = doc[req[c].att] /\ d # None
         /\ pc[c] \in WritesBack => \E s \in AttemptDocs : s = seen[c] /\ s # None
BY Holding, NoneAssumption DEF NoneAssumption, Type, Control

LEMMA LinkShape ==
  ASSUME Type, Control, NEW c \in Calls, LinkDetail(c)
  PROVE  LET d == doc[req[c].att] IN \E e \in AttemptDocs :
         /\ Stored(c, e) /\ pc[c] = "link" /\ Moves(c, "ok") /\ Alike(d, e) /\ Flags(d, e) /\ e.linked
<1>1. PICK d \in AttemptDocs : d = doc[req[c].att]
  BY HoldsDoc DEF LinkDetail, HoldsAttempt
<1>2. PICK e \in AttemptDocs : e = [d EXCEPT !.linked = TRUE]
  BY DEF AttemptDocs
<1>3. doc' = [doc EXCEPT ![req[c].att] = e]
  BY <1>1, <1>2 DEF LinkDetail
<1>4. Stored(c, e)
  BY <1>3, StoresDoc DEF WritesDoc
<1>5. Alike(d, e) /\ Flags(d, e) /\ e.linked
  BY <1>2 DEF AttemptDocs, Alike, Flags
<1>6. pc[c] = "link" /\ Moves(c, "ok")
  BY GoesMoves DEF LinkDetail
<1> QED BY <1>1, <1>4, <1>5, <1>6

LEMMA PendShape ==
  ASSUME Type, Control, NEW c \in Calls, MarkPending(c)
  PROVE  LET d == doc[req[c].att] IN \E e \in AttemptDocs :
         /\ Stored(c, e) /\ pc[c] = "pend" /\ Moves(c, "error") /\ Alike(d, e) /\ e.linked = d.linked
         /\ e.abandoned = d.abandoned /\ ~e.evaluated /\ e.over = d.over /\ e.late = d.late
<1>1. PICK d \in AttemptDocs : d = doc[req[c].att]
  BY HoldsDoc DEF MarkPending, HoldsAttempt
<1>2. PICK e \in AttemptDocs : e = [d EXCEPT !.evaluated = FALSE]
  BY DEF AttemptDocs
<1>3. doc' = [doc EXCEPT ![req[c].att] = e]
  BY <1>1, <1>2 DEF MarkPending
<1>4. Stored(c, e)
  BY <1>3, StoresDoc DEF WritesDoc
<1>5. Alike(d, e) /\ e.linked = d.linked /\ e.abandoned = d.abandoned /\ ~e.evaluated
      /\ e.over = d.over /\ e.late = d.late
  BY <1>2 DEF AttemptDocs, Alike
<1>6. pc[c] = "pend" /\ Moves(c, "error")
  BY GoesMoves DEF MarkPending
<1> QED BY <1>1, <1>4, <1>5, <1>6

LEMMA MarkShape ==
  ASSUME Type, Control, NEW c \in Calls, MarkDone(c)
  PROVE  LET d == doc[req[c].att] IN \E e \in AttemptDocs :
         /\ Stored(c, e) /\ pc[c] = "mark" /\ Alike(d, e) /\ e.linked = d.linked
         /\ e.evaluated = d.evaluated /\ e.over = d.over /\ e.late = d.late
         /\ \/ Moves(c, "markDetail") /\ ~e.abandoned
            \/ Moves(c, "error") /\ e.abandoned = d.abandoned
<1>1. PICK d \in AttemptDocs : d = doc[req[c].att]
  BY HoldsDoc DEF MarkDone, HoldsAttempt
<1>2. pc[c] = "mark"
  BY DEF MarkDone
<1>3. CASE req[c].staff \/ doc[req[c].att].user = req[c].user
  <2>1. PICK e \in AttemptDocs : e = [d EXCEPT !.abandoned = FALSE]
    BY DEF AttemptDocs
  <2>2. doc' = [doc EXCEPT ![req[c].att] = e]
    BY <1>1, <1>3, <2>1 DEF MarkDone
  <2>3. Stored(c, e)
    BY <2>2, StoresDoc DEF WritesDoc
  <2>4. Alike(d, e) /\ e.linked = d.linked /\ e.evaluated = d.evaluated /\ e.over = d.over
        /\ e.late = d.late /\ ~e.abandoned
    BY <2>1 DEF AttemptDocs, Alike
  <2>5. Moves(c, "markDetail")
    BY <1>3, GoesMoves DEF MarkDone
  <2> QED BY <1>1, <1>2, <2>3, <2>4, <2>5
<1>4. CASE ~(req[c].staff \/ doc[req[c].att].user = req[c].user)
  <2>1. doc' = [doc EXCEPT ![req[c].att] = d]
    <3>1. doc' = doc /\ req[c].att \in Attempts /\ doc \in [Attempts -> AttemptDocs \union {None}]
      BY <1>2, <1>4, Holding DEF MarkDone, Type, HoldsAttempt
    <3> QED BY <1>1, <3>1
  <2>2. Stored(c, d)
    BY <2>1, StoresDoc DEF WritesDoc
  <2>3. Moves(c, "error")
    BY <1>4, GoesMoves DEF MarkDone
  <2>4. Alike(d, d)
    BY DEF Alike
  <2> QED BY <1>1, <1>2, <2>2, <2>3, <2>4
<1> QED BY <1>3, <1>4

LEMMA ClockShape ==
  ASSUME Type, Control, NEW c \in Calls, ClockWrite(c)
  PROVE  LET d == doc[req[c].att] IN \E e \in AttemptDocs :
         /\ Stored(c, e) /\ pc[c] = "clockWrite" /\ Moves(c, "ok") /\ Alike(d, e) /\ e.linked = d.linked
         /\ e.abandoned = d.abandoned /\ e.evaluated = d.evaluated
         /\ e.late = seen[c].late /\ (e.over => d.over /\ ~seen[c].over)
<1>1. PICK d \in AttemptDocs : d = doc[req[c].att]
  BY HoldsDoc DEF ClockWrite, HoldsAttempt
<1>2. PICK s \in AttemptDocs : s = seen[c]
  BY HoldsDoc DEF ClockWrite, HoldsAttempt, WritesBack
<1>3. PICK late, over \in BOOLEAN : late = s.late /\ over = (d.over /\ ~s.over)
  BY DEF AttemptDocs
<1>4. PICK e \in AttemptDocs : e = [d EXCEPT !.late = late, !.over = over]
  BY DEF AttemptDocs
<1>5. doc' = [doc EXCEPT ![req[c].att] = e]
  <2>1. doc' = [doc EXCEPT ![req[c].att].late = seen[c].late, ![req[c].att].over = @ /\ ~seen[c].over]
    BY DEF ClockWrite
  <2>2. req[c].att \in Attempts
    BY Holding DEF ClockWrite, HoldsAttempt
  <2>3. doc'[req[c].att] = [d EXCEPT !.late = s.late, !.over = @ /\ ~s.over]
    BY <1>1, <1>2, <2>1, <2>2 DEF Type
  <2>4. [d EXCEPT !.late = s.late, !.over = @ /\ ~s.over] = [d EXCEPT !.late = late, !.over = over]
    BY <1>3 DEF AttemptDocs
  <2> QED BY <1>4, <2>1, <2>2, <2>3, <2>4 DEF Type
<1>6. Stored(c, e)
  BY <1>5, StoresDoc DEF WritesDoc
<1>7. Alike(d, e) /\ e.linked = d.linked /\ e.abandoned = d.abandoned /\ e.evaluated = d.evaluated
      /\ e.late = late /\ e.over = over
  BY <1>4 DEF AttemptDocs, Alike
<1>8. pc[c] = "clockWrite" /\ Moves(c, "ok")
  BY GoesMoves DEF ClockWrite
<1> QED BY <1>1, <1>2, <1>3, <1>6, <1>7, <1>8

LEMMA CaptureShape ==
  ASSUME Type, Control, NEW c \in Calls, CaptureWrite(c)
  PROVE  LET d == doc[req[c].att]  s == seen[c] IN \E e \in AttemptDocs :
         /\ Stored(c, e) /\ pc[c] = "captureWrite" /\ Moves(c, "ok") /\ Flags(s, e)
         /\ e.user = s.user /\ e.started = s.started /\ e.score = s.score /\ e.ongoing = s.ongoing
         /\ e.total = (s.total \/ d.total) /\ e.linked = (s.linked \/ d.linked)
<1>1. PICK d \in AttemptDocs : d = doc[req[c].att]
  BY HoldsDoc DEF CaptureWrite, HoldsAttempt
<1>2. PICK s \in AttemptDocs : s = seen[c]
  BY HoldsDoc DEF CaptureWrite, HoldsAttempt, WritesBack
<1>3. PICK total, linked \in BOOLEAN : total = (s.total \/ d.total) /\ linked = (s.linked \/ d.linked)
  BY DEF AttemptDocs
<1>4. PICK e \in AttemptDocs : e = [s EXCEPT !.total = total, !.linked = linked]
  BY DEF AttemptDocs
<1>5. doc' = [doc EXCEPT ![req[c].att] = e]
  <2>1. [s EXCEPT !.total = @ \/ d.total, !.linked = @ \/ d.linked] = e
    BY <1>3, <1>4 DEF AttemptDocs
  <2> QED BY <1>1, <1>2, <2>1 DEF CaptureWrite
<1>6. Stored(c, e)
  BY <1>5, StoresDoc DEF WritesDoc
<1>7. /\ Flags(s, e) /\ e.user = s.user /\ e.started = s.started /\ e.score = s.score
      /\ e.ongoing = s.ongoing /\ e.total = total /\ e.linked = linked
  BY <1>4 DEF AttemptDocs, Flags
<1>8. pc[c] = "captureWrite" /\ Moves(c, "ok")
  BY GoesMoves DEF CaptureWrite
<1> QED BY <1>1, <1>2, <1>3, <1>6, <1>7, <1>8

LEMMA BackShape ==
  ASSUME Type, Control, NEW c \in Calls, GradeBack(c)
  PROVE  LET s == seen[c] IN \E e \in AttemptDocs :
         /\ Stored(c, e) /\ pc[c] = "gradeBack" /\ Alike(s, e) /\ Flags(s, e) /\ e.linked
         /\ Moves(c, IF ~AutoEvaluation THEN "pend"
                     ELSE IF s.abandoned THEN AfterProcess(c) ELSE "tally")
<1>1. PICK s \in AttemptDocs : s = seen[c]
  BY HoldsDoc DEF GradeBack, HoldsAttempt, WritesBack
<1>2. PICK e \in AttemptDocs : e = [s EXCEPT !.linked = TRUE]
  BY DEF AttemptDocs
<1>3. doc' = [doc EXCEPT ![req[c].att] = e]
  BY <1>1, <1>2 DEF GradeBack
<1>4. Stored(c, e)
  BY <1>3, StoresDoc DEF WritesDoc
<1>5. Alike(s, e) /\ Flags(s, e) /\ e.linked
  BY <1>2 DEF AttemptDocs, Alike, Flags
<1>6. pc[c] = "gradeBack" /\ Moves(c, IF ~AutoEvaluation THEN "pend"
                     ELSE IF seen[c].abandoned THEN AfterProcess(c) ELSE "tally")
  BY GoesMoves DEF GradeBack
<1> QED BY <1>1, <1>4, <1>5, <1>6

LEMMA GradeShape ==
  ASSUME Type, Control, NEW c \in Calls, GradeWrite(c)
  PROVE  LET d == doc[req[c].att] IN \E e, r \in AttemptDocs :
         /\ Stored(c, e) /\ pc[c] = "grade" /\ Moves(c, "gradeDetail") /\ seen'[c] = r
         /\ e.user = d.user /\ e.started = d.started /\ e.late = d.late
         /\ e.score = c /\ ~e.ongoing /\ e.total
         /\ Alike(e, r) /\ r.evaluated = e.evaluated /\ r.over = e.over /\ r.late = e.late
         /\ (r.abandoned => e.abandoned)
<1>1. PICK d \in AttemptDocs : d = doc[req[c].att]
  BY HoldsDoc DEF GradeWrite, HoldsAttempt
<1>2. PICK e : e = [d EXCEPT !.ongoing = FALSE, !.total = TRUE, !.score = c,
                             !.evaluated = TRUE, !.over = Timed /\ req[c].long,
                             !.abandoned = req[c].quit \/ ShowFeedback]
  OBVIOUS
<1>3. /\ e \in AttemptDocs /\ e.user = d.user /\ e.started = d.started /\ e.late = d.late
      /\ e.score = c /\ ~e.ongoing /\ e.total
  <2>1. e \in AttemptDocs
    BY <1>2, GradedType
  <2> QED BY <1>2, <2>1 DEF AttemptDocs
<1>4. PICK b \in BOOLEAN : b = (e.abandoned /\ ~Adaptive)
  BY <1>3, ConstantsAssumption DEF AttemptDocs, ConstantsAssumption
<1>5. PICK r \in AttemptDocs : r = [e EXCEPT !.abandoned = b]
  BY <1>3 DEF AttemptDocs
<1>6. /\ Alike(e, r) /\ r.evaluated = e.evaluated /\ r.over = e.over /\ r.late = e.late
      /\ r.abandoned = b
  BY <1>3, <1>5 DEF AttemptDocs, Alike
<1>7. doc' = [doc EXCEPT ![req[c].att] = e] /\ pc[c] = "grade" /\ req' = req
  BY <1>1, <1>2 DEF GradeWrite
<1>8. Stored(c, e)
  BY <1>3, <1>7, StoresDoc DEF WritesDoc
<1>9. Keep(c, "gradeDetail", r, 0)
  <2>1. [e EXCEPT !.abandoned = @ /\ ~Adaptive] = r
    BY <1>3, <1>4, <1>5 DEF AttemptDocs
  <2> QED BY <1>1, <1>2, <2>1 DEF GradeWrite
<1>10. Moves(c, "gradeDetail") /\ seen'[c] = r
  BY <1>7, <1>9, KeepMoves DEF Replies
<1> QED BY <1>1, <1>3, <1>4, <1>6, <1>7, <1>8, <1>10

LEMMA LateShape ==
  ASSUME NEW d \in AttemptDocs, NEW b
  PROVE  LET r == [d EXCEPT !.late = b] IN
         /\ Alike(d, r) /\ r.abandoned = d.abandoned /\ r.evaluated = d.evaluated /\ r.over = d.over
         /\ r.linked = d.linked /\ r.late = b
BY DEF AttemptDocs, Alike

LEMMA ResetShape ==
  ASSUME Type, Control, NEW c \in Calls, ResetIp(c)
  PROVE  /\ pc[c] = "resetIp" /\ Moves(c, "ok") /\ UNCHANGED <<detail, overdue>>
         /\ \A b \in Attempts : /\ doc[b] = None => doc'[b] = None
                                /\ doc[b] # None =>
                                     \E d, e \in AttemptDocs :
                                        /\ d = doc[b] /\ e = doc'[b] /\ e # None
                                        /\ e.user = d.user /\ e.started = d.started
                                        /\ e.score = d.score /\ e.total = d.total
                                        /\ (e.ongoing => d.ongoing) /\ Flags(d, e) /\ e.linked = d.linked
<1>1. pc[c] = "resetIp" /\ Moves(c, "ok") /\ UNCHANGED <<detail, overdue>>
  BY GoesMoves DEF ResetIp
<1>2. ASSUME NEW b \in Attempts, doc[b] = None PROVE doc'[b] = None
  BY <1>2 DEF ResetIp, OwnedBy
<1>3. ASSUME NEW b \in Attempts, doc[b] # None
      PROVE  \E d, e \in AttemptDocs :
                /\ d = doc[b] /\ e = doc'[b] /\ e # None
                /\ e.user = d.user /\ e.started = d.started
                /\ e.score = d.score /\ e.total = d.total
                /\ (e.ongoing => d.ongoing) /\ Flags(d, e) /\ e.linked = d.linked
  <2>1. PICK d \in AttemptDocs : d = doc[b]
    BY <1>3 DEF Type
  <2>2. PICK e \in AttemptDocs : e = [d EXCEPT !.ongoing = FALSE]
    BY DEF AttemptDocs
  <2>3. /\ e.user = d.user /\ e.started = d.started
        /\ e.score = d.score /\ e.total = d.total
        /\ (e.ongoing => d.ongoing) /\ Flags(d, e) /\ e.linked = d.linked
    BY <2>2 DEF AttemptDocs, Flags
  <2>4. doc'[b] = e \/ doc'[b] = d
    BY <2>1, <2>2 DEF ResetIp
  <2>5. Flags(d, d)
    BY DEF Flags
  <2> QED BY <2>1, <2>3, <2>4, <2>5, NoneAssumption DEF NoneAssumption
<1> QED BY <1>1, <1>2, <1>3

LEMMA CreateShape ==
  ASSUME Type, Control, NEW c \in Calls, CreateAttempt(c)
  PROVE  \E a \in Attempts, e \in AttemptDocs :
         /\ pc[c] = "create" /\ doc[a] = None /\ doc' = [doc EXCEPT ![a] = e] /\ e # None
         /\ e.user = req[c].user /\ (e.started <=> req[c].kind = "start")
         /\ e.ongoing /\ ~e.total /\ e.score = None
         /\ pc'[c] = "detail" /\ req'[c].att = a
         /\ req'[c].kind = req[c].kind /\ req'[c].user = req[c].user
         /\ req'[c].quit = req[c].quit /\ req'[c].overdue = req[c].overdue
         /\ \A x \in Calls \ {c} : pc'[x] = pc[x] /\ seen'[x] = seen[x] /\ req'[x] = req[x]
         /\ UNCHANGED <<detail, overdue, joined>>
<1>1. PICK r \in Requests : r = req[c]
  BY DEF CreateAttempt, Control
<1>2. PICK b \in BOOLEAN : b = (r.kind = "start")
  OBVIOUS
<1>3. PICK a \in Attempts : /\ doc[a] = None
                            /\ doc' = [doc EXCEPT ![a] = NewAttempt(r.user, b, FALSE)]
                            /\ req' = [req EXCEPT ![c].att = a]
  BY <1>1, <1>2 DEF CreateAttempt
<1>4. PICK e \in AttemptDocs : e = NewAttempt(r.user, b, FALSE)
  BY <1>1 DEF NewAttempt, AttemptDocs, Requests
<1>5. e.user = r.user /\ e.started = b /\ e.ongoing /\ ~e.total /\ e.score = None /\ e # None
  BY <1>4, NoneAssumption DEF NewAttempt, NoneAssumption
<1>6. /\ req'[c].att = a /\ req'[c].kind = r.kind /\ req'[c].user = r.user
      /\ req'[c].quit = r.quit /\ req'[c].overdue = r.overdue
      /\ \A x \in Calls \ {c} : req'[x] = req[x]
  BY <1>1, <1>3 DEF Type, Requests
<1>7. /\ pc[c] = "create" /\ pc'[c] = "detail"
      /\ \A x \in Calls \ {c} : pc'[x] = pc[x] /\ seen'[x] = seen[x]
      /\ UNCHANGED <<detail, overdue, joined>>
  BY DEF CreateAttempt, Goto, Keep, Type
<1> QED BY <1>1, <1>2, <1>3, <1>4, <1>5, <1>6, <1>7

(* What a new request asks for.                                            *)
LEMMA CallShape ==
  ASSUME Type, NEW c \in Calls, Call(c)
  PROVE  \E r \in Requests :
         /\ pc[c] = "idle" /\ pc'[c] = r.kind /\ req'[c] = r
         /\ \A x \in Calls \ {c} : pc'[x] = pc[x] /\ req'[x] = req[x]
         /\ UNCHANGED <<doc, detail, joined, overdue, seen>>
         /\ r.kind \in Kinds
         /\ r.kind \in {"start", "resetIp"} => r.att = None
         /\ r.kind \notin {"start", "resetIp"} => r.att \in Attempts /\ doc[r.att] # None
         /\ OneAtATime => ClientWaits(r)
         /\ r.overdue => r.att \in overdue
<1> DEFINE Request(k, u, a, q, l, s) ==
             [kind |-> k, user |-> u, att |-> a, quit |-> q, long |-> l, staff |-> s,
              overdue |-> a \in overdue]
           Targets(k) == IF k \in {"start", "resetIp"} THEN {None}
                         ELSE {b \in Attempts : doc[b] # None}
<1>1. PICK k \in Kinds, u \in Users, q, l, s \in BOOLEAN : \E a \in Targets(k) :
        LET r == Request(k, u, a, q, l, s)
        IN  /\ k # "finish" => ~q /\ ~l
            /\ k # "mark" => ~s
            /\ OneAtATime => ClientWaits(r)
            /\ req' = [req EXCEPT ![c] = r]
            /\ pc' = [pc EXCEPT ![c] = k]
  BY Zenon DEF Call
<1>2. PICK a \in Targets(k) : /\ OneAtATime => ClientWaits(Request(k, u, a, q, l, s))
                             /\ req' = [req EXCEPT ![c] = Request(k, u, a, q, l, s)]
                             /\ pc' = [pc EXCEPT ![c] = k]
  BY <1>1, Zenon
<1>3. k \in AllKinds /\ a \in Attempts \union {None}
  BY ConstantsAssumption DEF ConstantsAssumption
<1>4. Request(k, u, a, q, l, s) \in Requests
  <2>1. (a \in overdue) \in BOOLEAN
    OBVIOUS
  <2>2. \A b \in BOOLEAN : [kind |-> k, user |-> u, att |-> a, quit |-> q, long |-> l,
                           staff |-> s, overdue |-> b] \in Requests
    BY <1>3 DEF Requests
  <2> QED BY <2>1, <2>2, Zenon
<1>5. /\ Request(k, u, a, q, l, s).kind = k /\ Request(k, u, a, q, l, s).att = a
      /\ Request(k, u, a, q, l, s).overdue = (a \in overdue)
  OBVIOUS
<1> HIDE DEF Request
<1>6. /\ k \notin {"start", "resetIp"} => a \in Attempts /\ doc[a] # None
      /\ k \in {"start", "resetIp"} => a = None
  OBVIOUS
<1>7. PICK r \in Requests : r = Request(k, u, a, q, l, s)
  BY <1>4
<1>8. /\ pc'[c] = r.kind /\ req'[c] = r
      /\ \A x \in Calls \ {c} : pc'[x] = pc[x] /\ req'[x] = req[x]
  BY <1>2, <1>5, <1>7 DEF Type
<1>9. pc[c] = "idle" /\ UNCHANGED <<doc, detail, joined, overdue, seen>>
  BY DEF Call, db
<1>10. (OneAtATime => ClientWaits(r)) /\ r.kind = k /\ r.att = a /\ (r.overdue => a \in overdue)
  BY <1>2, <1>5, <1>7
<1> QED BY <1>6, <1>8, <1>9, <1>10

(* Every step is one of these, or leaves attempts, calls and users alone.  *)
LEMMA StepCases ==
  ASSUME [Next]_vars
  PROVE  \/ \E c \in Calls : \/ Call(c) \/ Reads(c) \/ WritesDetail(c) \/ WritesDoc(c)
                             \/ CreateAttempt(c) \/ ResetIp(c)
         \/ UNCHANGED <<doc, detail, joined, req, pc, seen>> /\ overdue \subseteq overdue'
<1>1. ASSUME NEW c \in Calls, Start(c) \/ Finish(c) \/ Upload(c)
      PROVE  Reads(c) \/ WritesDetail(c) \/ WritesDoc(c) \/ CreateAttempt(c)
  BY <1>1 DEF Start, Finish, Process, Mark, Upload, Reads, WritesDetail, WritesDoc
<1>2. CASE TestCloses \/ (\E a \in Attempts : TimeRunsOut(a)) \/ UNCHANGED vars
  BY <1>2 DEF TestCloses, TimeRunsOut, vars, db
<1> QED BY <1>1, <1>2 DEF Next, Reads

-----------------------------------------------------------------------------
(* Versions of an attempt                                                  *)

(* What every version of an attempt keeps, stored or held by a call: its   *)
(* marks come with its closing, and it stays what start or a save made it. *)
Closed(d) == d.score # None => ~d.ongoing /\ d.total

VersionsInv ==
  /\ \A a \in Attempts : doc[a] # None => Closed(doc[a])
  /\ \A c \in Calls :
       /\ pc[c] \in WritesBack => Closed(seen[c]) /\ seen[c].started = doc[req[c].att].started
       /\ pc[c] = "grade" => seen[c] # None /\ seen[c].score = None
       /\ pc[c] \in {"gradeDetail", "gradeBack"} => seen[c].score = c
       /\ pc[c] = "save" => req[c].kind = "save"

LEMMA VersionGoes ==
  ASSUME OwnerInv, OwnerInv', VersionsInv, NEW c \in Calls, NEW step, Moves(c, step), step # "save",
         \A a \in Attempts : doc[a] # None => doc'[a] # None /\ doc'[a].started = doc[a].started,
         \A a \in Attempts : doc'[a] # None => Closed(doc'[a]),
         step \in WritesBack => /\ Closed(seen'[c]) /\ doc[req[c].att] # None
                               /\ seen'[c].started = doc[req[c].att].started,
         step = "grade" => seen'[c] # None /\ seen'[c].score = None,
         step \in {"gradeDetail", "gradeBack"} => seen'[c].score = c
  PROVE  VersionsInv'
<1> SUFFICES ASSUME NEW x \in Calls
             PROVE  /\ pc'[x] \in WritesBack => /\ Closed(seen'[x])
                                                /\ seen'[x].started = doc'[req'[x].att].started
                    /\ pc'[x] = "grade" => seen'[x] # None /\ seen'[x].score = None
                    /\ pc'[x] \in {"gradeDetail", "gradeBack"} => seen'[x].score = x
                    /\ pc'[x] = "save" => req'[x].kind = "save"
  BY DEF VersionsInv, Closed
<1>1. pc'[x] \in WritesBack => req[x].att \in Attempts /\ doc'[req[x].att] # None
  BY DEF OwnerInv, Control, Moves, WritesBack, HoldsAttempt
<1>2. CASE x = c
  BY <1>1, <1>2 DEF Moves
<1>3. CASE x # c
  <2>1. pc'[x] = pc[x] /\ seen'[x] = seen[x] /\ req'[x] = req[x]
    BY <1>3 DEF Moves
  <2>2. pc[x] \in WritesBack => req[x].att \in Attempts /\ doc[req[x].att] # None
    BY DEF OwnerInv, Control, WritesBack, HoldsAttempt
  <2> QED BY <2>1, <2>2 DEF VersionsInv
<1> QED BY <1>2, <1>3

LEMMA VersionWrites ==
  ASSUME OwnerInv, VersionsInv, NEW c \in Calls, NEW e \in AttemptDocs, Stored(c, e),
         e.started = doc[req[c].att].started, Closed(e)
  PROVE  /\ \A a \in Attempts : doc[a] # None => doc'[a] # None /\ doc'[a].started = doc[a].started
         /\ \A a \in Attempts : doc'[a] # None => Closed(doc'[a])
BY DEF Stored, VersionsInv

LEMMA VersionStays ==
  ASSUME VersionsInv, doc' = doc
  PROVE  /\ \A a \in Attempts : doc[a] # None => doc'[a] # None /\ doc'[a].started = doc[a].started
         /\ \A a \in Attempts : doc'[a] # None => Closed(doc'[a])
BY DEF VersionsInv

LEMMA VersionsStep == OwnerInv /\ VersionsInv /\ [Next]_vars => VersionsInv'
<1> SUFFICES ASSUME OwnerInv, VersionsInv, [Next]_vars PROVE VersionsInv'
  OBVIOUS
<1>0. OwnerInv' /\ Type /\ Control
  BY OwnerStep DEF OwnerInv
<1>1. ASSUME NEW c \in Calls, Reads(c) PROVE VersionsInv'
  <2>1. UNCHANGED <<doc, detail, overdue>>
    BY <1>0, <1>1, ReadShape
  <2>2. ASSUME NEW step, step \notin WritesBack \union {"save", "grade"}, Moves(c, step)
        PROVE  VersionsInv'
    BY <1>0, <2>1, <2>2, VersionGoes, VersionStays DEF WritesBack
  <2>3. ASSUME pc[c] \in {"finish", "clock", "save", "capture"}
        PROVE  \E d \in AttemptDocs : d = doc[req[c].att] /\ d # None /\ Closed(d)
    BY <1>0, <2>3, HoldsDoc, Holding DEF HoldsAttempt, VersionsInv
  <2>4. CASE pc[c] = "finish" /\ Moves(c, "grade") /\ seen'[c] = doc[req[c].att] /\ ~Graded(doc[req[c].att])
    <3>1. PICK d \in AttemptDocs : d = doc[req[c].att] /\ d # None /\ Closed(d)
      BY <2>3, <2>4
    <3>2. d.score = None
      BY <2>4, <3>1 DEF Graded, Closed
    <3> QED BY <1>0, <2>1, <2>4, <3>1, <3>2, VersionGoes, VersionStays DEF WritesBack
  <2>5. CASE /\ pc[c] = "clock" /\ Moves(c, "clockWrite")
             /\ seen'[c] = [doc[req[c].att] EXCEPT !.late = req[c].att \in overdue]
    <3>1. PICK d \in AttemptDocs : d = doc[req[c].att] /\ d # None /\ Closed(d)
      BY <2>3, <2>5
    <3>2. Alike(d, seen'[c])
      BY <2>5, <3>1, LateShape
    <3>3. Closed(seen'[c]) /\ seen'[c].started = d.started
      BY <3>1, <3>2 DEF Closed, Alike
    <3> QED BY <1>0, <2>1, <2>5, <3>1, <3>3, VersionGoes, VersionStays
  <2>6. CASE \/ pc[c] = "save" /\ Moves(c, "saveQA") /\ seen'[c] = doc[req[c].att]
             \/ pc[c] = "capture" /\ Moves(c, "captureWrite") /\ seen'[c] = doc[req[c].att]
    <3>1. PICK d \in AttemptDocs : d = doc[req[c].att] /\ d # None /\ Closed(d)
      BY <2>3, <2>6
    <3> QED BY <1>0, <2>1, <2>6, <3>1, VersionGoes, VersionStays
  <2>7. \/ \E step : step \notin WritesBack \union {"save", "grade"} /\ Moves(c, step)
        \/ pc[c] = "finish" /\ Moves(c, "grade") /\ seen'[c] = doc[req[c].att] /\ ~Graded(doc[req[c].att])
        \/ /\ pc[c] = "clock" /\ Moves(c, "clockWrite")
           /\ seen'[c] = [doc[req[c].att] EXCEPT !.late = req[c].att \in overdue]
        \/ pc[c] = "save" /\ Moves(c, "saveQA") /\ seen'[c] = doc[req[c].att]
        \/ pc[c] = "capture" /\ Moves(c, "captureWrite") /\ seen'[c] = doc[req[c].att]
    BY <1>0, <1>1, ReadShape DEF WritesBack, AfterProcess
  <2> QED BY <2>2, <2>4, <2>5, <2>6, <2>7
<1>2. ASSUME NEW c \in Calls, WritesDetail(c) PROVE VersionsInv'
  <2>1. UNCHANGED doc
    BY <1>0, <1>2, DetailShape
  <2>2. CASE pc[c] = "gradeDetail" /\ Moves(c, "gradeBack") /\ seen'[c] = seen[c]
    <3>1. doc[req[c].att] # None
      BY <1>0, <2>2 DEF Control, HoldsAttempt
    <3>2. Closed(seen[c]) /\ seen[c].started = doc[req[c].att].started /\ seen[c].score = c
      BY <2>2 DEF VersionsInv, WritesBack
    <3> QED BY <1>0, <2>1, <2>2, <3>1, <3>2, VersionGoes, VersionStays
  <2>3. CASE \E step : step \in {"link", "markCount", "ok"} /\ Moves(c, step)
    BY <1>0, <2>1, <2>3, VersionGoes, VersionStays DEF WritesBack
  <2> QED BY <1>0, <1>2, <2>2, <2>3, DetailShape
<1>3. ASSUME NEW c \in Calls, WritesDoc(c) PROVE VersionsInv'
  <2>1. ASSUME NEW e \in AttemptDocs, Stored(c, e), Alike(doc[req[c].att], e),
               NEW step \in {"ok", "error", "markDetail"}, Moves(c, step)
        PROVE  VersionsInv'
    <3>1. Closed(e) /\ e.started = doc[req[c].att].started
      BY <2>1 DEF VersionsInv, Closed, Alike, Stored
    <3> QED BY <1>0, <2>1, <3>1, VersionGoes, VersionWrites DEF WritesBack
  <2>2. CASE LinkDetail(c)
    BY <1>0, <2>1, <2>2, LinkShape
  <2>3. CASE MarkPending(c)
    BY <1>0, <2>1, <2>3, PendShape
  <2>4. CASE MarkDone(c)
    BY <1>0, <2>1, <2>4, MarkShape
  <2>5. CASE ClockWrite(c)
    BY <1>0, <2>1, <2>5, ClockShape
  <2>6. CASE CaptureWrite(c)
    <3>1. PICK e \in AttemptDocs :
            /\ Stored(c, e) /\ pc[c] = "captureWrite" /\ Moves(c, "ok")
            /\ e.started = seen[c].started /\ e.score = seen[c].score /\ e.ongoing = seen[c].ongoing
            /\ e.total = (seen[c].total \/ doc[req[c].att].total)
      BY <1>0, <2>6, CaptureShape
    <3>2. Closed(seen[c]) /\ seen[c].started = doc[req[c].att].started
      BY <3>1 DEF VersionsInv, WritesBack
    <3>3. Closed(e)
      BY <3>1, <3>2 DEF Closed
    <3> QED BY <1>0, <3>1, <3>2, <3>3, VersionGoes, VersionWrites DEF WritesBack
  <2>7. CASE GradeBack(c)
    <3>1. PICK e \in AttemptDocs :
            /\ Stored(c, e) /\ pc[c] = "gradeBack" /\ Alike(seen[c], e)
            /\ Moves(c, IF ~AutoEvaluation THEN "pend"
                     ELSE IF seen[c].abandoned THEN AfterProcess(c) ELSE "tally")
      BY <1>0, <2>7, BackShape
    <3>2. Closed(seen[c]) /\ seen[c].started = doc[req[c].att].started
      BY <3>1 DEF VersionsInv, WritesBack
    <3>3. Closed(e) /\ e.started = doc[req[c].att].started
      BY <3>1, <3>2 DEF Closed, Alike
    <3>4. PICK step \in {"pend", "mark", "clock", "ok", "tally"} : Moves(c, step)
      BY <3>1 DEF AfterProcess
    <3> QED BY <1>0, <3>1, <3>3, <3>4, VersionGoes, VersionWrites DEF WritesBack
  <2>8. CASE GradeWrite(c)
    <3>1. PICK e, r \in AttemptDocs :
            /\ Stored(c, e) /\ Moves(c, "gradeDetail") /\ seen'[c] = r
            /\ e.started = doc[req[c].att].started /\ e.score = c /\ ~e.ongoing /\ e.total
            /\ Alike(e, r)
      BY <1>0, <2>8, GradeShape
    <3>2. Closed(e) /\ Closed(r) /\ r.started = e.started /\ r.score = c
      BY <3>1 DEF Closed, Alike
    <3>3. doc[req[c].att] # None
      BY <3>1 DEF Stored
    <3> QED BY <1>0, <3>1, <3>2, <3>3, VersionGoes, VersionWrites
  <2> QED BY <1>3, <2>2, <2>3, <2>4, <2>5, <2>6, <2>7, <2>8 DEF WritesDoc
<1>4. ASSUME NEW c \in Calls, CreateAttempt(c) PROVE VersionsInv'
  <2>1. PICK a \in Attempts, e \in AttemptDocs :
         /\ doc[a] = None /\ doc' = [doc EXCEPT ![a] = e] /\ e.score = None
         /\ pc'[c] = "detail"
         /\ \A x \in Calls \ {c} : pc'[x] = pc[x] /\ seen'[x] = seen[x] /\ req'[x] = req[x]
    BY <1>0, <1>4, CreateShape
  <2>2. doc'[a] = e /\ \A b \in Attempts \ {a} : doc'[b] = doc[b]
    BY <1>0, <2>1 DEF Type
  <2>3. \A b \in Attempts : doc'[b] # None => Closed(doc'[b])
    BY <2>1, <2>2 DEF VersionsInv, Closed
  <2>4. ASSUME NEW x \in Calls, x # c, pc[x] \in WritesBack
        PROVE  doc'[req[x].att] = doc[req[x].att]
    BY <1>0, <2>1, <2>2, <2>4 DEF Control, WritesBack, HoldsAttempt
  <2>5. ASSUME NEW x \in Calls
        PROVE  /\ pc'[x] \in WritesBack => /\ Closed(seen'[x])
                                           /\ seen'[x].started = doc'[req'[x].att].started
               /\ pc'[x] = "grade" => seen'[x] # None /\ seen'[x].score = None
               /\ pc'[x] \in {"gradeDetail", "gradeBack"} => seen'[x].score = x
               /\ pc'[x] = "save" => req'[x].kind = "save"
    <3>1. CASE x = c
      BY <2>1, <3>1 DEF WritesBack
    <3>2. CASE x # c
      BY <2>1, <2>4, <3>2 DEF VersionsInv
    <3> QED BY <3>1, <3>2
  <2> QED BY <2>3, <2>5 DEF VersionsInv, Closed
<1>5. ASSUME NEW c \in Calls, ResetIp(c) PROVE VersionsInv'
  <2>1. /\ Moves(c, "ok")
        /\ \A b \in Attempts : /\ doc[b] = None => doc'[b] = None
                               /\ doc[b] # None =>
                                    /\ doc'[b] # None /\ doc'[b].started = doc[b].started
                                    /\ doc'[b].score = doc[b].score /\ doc'[b].total = doc[b].total
                                    /\ (doc'[b].ongoing => doc[b].ongoing)
    BY <1>0, <1>5, ResetShape
  <2>2. \A b \in Attempts : doc'[b] # None => Closed(doc'[b])
    BY <2>1 DEF VersionsInv, Closed
  <2> QED BY <1>0, <2>1, <2>2, VersionGoes DEF WritesBack
<1>6. ASSUME NEW c \in Calls, Call(c) PROVE VersionsInv'
  <2>1. PICK r \in Requests :
         /\ pc[c] = "idle" /\ pc'[c] = r.kind /\ req'[c] = r
         /\ \A x \in Calls \ {c} : pc'[x] = pc[x] /\ req'[x] = req[x]
         /\ UNCHANGED <<doc, seen>>
    BY <1>0, <1>6, CallShape
  <2>2. r.kind \notin WritesBack \union {"grade"}
    BY DEF Requests, AllKinds, WritesBack
  <2>3. ASSUME NEW x \in Calls
        PROVE  /\ pc'[x] \in WritesBack => /\ Closed(seen'[x])
                                           /\ seen'[x].started = doc'[req'[x].att].started
               /\ pc'[x] = "grade" => seen'[x] # None /\ seen'[x].score = None
               /\ pc'[x] \in {"gradeDetail", "gradeBack"} => seen'[x].score = x
               /\ pc'[x] = "save" => req'[x].kind = "save"
    <3>1. CASE x = c
      BY <2>1, <2>2, <3>1 DEF WritesBack
    <3>2. CASE x # c
      BY <2>1, <3>2 DEF VersionsInv
    <3> QED BY <3>1, <3>2
  <2> QED BY <2>1, <2>3 DEF VersionsInv, Closed
<1>7. CASE UNCHANGED <<doc, detail, joined, req, pc, seen>>
  BY <1>7 DEF VersionsInv, Closed
<1> QED BY <1>1, <1>2, <1>3, <1>4, <1>5, <1>6, <1>7, StepCases

LEMMA InitVersions == Init => VersionsInv
<1> SUFFICES ASSUME Init PROVE VersionsInv
  OBVIOUS
<1>1. \A a \in Attempts : doc[a] # None => doc[a].score = None
  BY DEF Init, NewAttempt
<1>2. \A c \in Calls : pc[c] = "idle"
  BY DEF Init
<1> QED BY <1>1, <1>2 DEF VersionsInv, Closed, WritesBack

THEOREM VersionsInvariant == Spec => [](OwnerInv /\ VersionsInv)
<1>1. Init => OwnerInv /\ VersionsInv
  BY InitOwnerInv, InitVersions
<1>2. OwnerInv /\ VersionsInv /\ [Next]_vars => (OwnerInv /\ VersionsInv)'
  BY OwnerStep, VersionsStep
<1> QED BY <1>1, <1>2, PTL DEF Spec

(* Whoever takes the marks of an attempt away, or makes it resumable, has  *)
(* not seen them.                                                          *)
LEMMA RegradeStep ==
  ASSUME OwnerInv, VersionsInv, [Next]_vars, NEW a \in Attempts,
         Graded(doc[a]), doc[a].score # None,
         doc'[a].score # doc[a].score \/ doc'[a].ongoing
  PROVE  \E c \in ActiveOn(a) : seen[c] # None /\ seen[c].score # doc[a].score
<1>0. Type /\ Control /\ doc[a] # None /\ ~doc[a].ongoing
  BY DEF OwnerInv, Graded
<1>1. ASSUME NEW c \in Calls, Reads(c) \/ WritesDetail(c) PROVE FALSE
  BY <1>0, <1>1, ReadShape, DetailShape
<1>2. ASSUME NEW c \in Calls, WritesDoc(c)
      PROVE  \E x \in ActiveOn(a) : seen[x] # None /\ seen[x].score # doc[a].score
  <2>1. ASSUME NEW e \in AttemptDocs, Stored(c, e) PROVE req[c].att = a /\ doc'[a] = e
    BY <1>0, <2>1 DEF Stored
  <2>2. ASSUME NEW e \in AttemptDocs, Stored(c, e), Alike(doc[req[c].att], e) PROVE FALSE
    BY <1>0, <2>1, <2>2 DEF Alike
  <2>3. ~(LinkDetail(c) \/ MarkPending(c) \/ MarkDone(c) \/ ClockWrite(c))
    BY <1>0, <2>2, LinkShape, PendShape, MarkShape, ClockShape
  <2>4. CASE GradeWrite(c)
    <3>1. pc[c] = "grade" /\ req[c].att = a
      BY <1>0, <2>1, <2>4, GradeShape
    <3>2. seen[c] # None /\ seen[c].score = None
      BY <3>1 DEF VersionsInv
    <3> QED BY <3>1, <3>2 DEF ActiveOn, Active, Replies
  <2>5. CASE CaptureWrite(c)
    <3>1. /\ pc[c] = "captureWrite" /\ req[c].att = a
          /\ doc'[a].score = seen[c].score /\ doc'[a].ongoing = seen[c].ongoing
      BY <1>0, <2>1, <2>5, CaptureShape
    <3>2. seen[c] # None /\ (seen[c].score # None => ~seen[c].ongoing)
      BY <1>0, <3>1 DEF VersionsInv, Closed, WritesBack, Control
    <3> QED BY <3>1, <3>2 DEF ActiveOn, Active, Replies
  <2>6. CASE GradeBack(c)
    <3>1. /\ pc[c] = "gradeBack" /\ req[c].att = a
          /\ doc'[a].score = seen[c].score /\ doc'[a].ongoing = seen[c].ongoing
      BY <1>0, <2>1, <2>6, BackShape DEF Alike
    <3>2. seen[c] # None /\ (seen[c].score # None => ~seen[c].ongoing)
      BY <1>0, <3>1 DEF VersionsInv, Closed, WritesBack, Control
    <3> QED BY <3>1, <3>2 DEF ActiveOn, Active, Replies
  <2> QED BY <1>2, <2>3, <2>4, <2>5, <2>6 DEF WritesDoc
<1>3. ASSUME NEW c \in Calls, CreateAttempt(c) PROVE FALSE
  BY <1>0, <1>3, CreateShape DEF Type
<1>4. ASSUME NEW c \in Calls, ResetIp(c) PROVE FALSE
  BY <1>0, <1>4, ResetShape
<1>5. ASSUME NEW c \in Calls, Call(c) PROVE FALSE
  BY <1>0, <1>5 DEF Call, db
<1>6. ~(UNCHANGED doc)
  BY <1>0
<1> QED BY <1>1, <1>2, <1>3, <1>4, <1>5, <1>6, StepCases

(* Marks on record are replaced, and a graded attempt made resumable, only *)
(* by a call that read the attempt before those marks were there: a second *)
(* hand-in let in before the first was graded, or a proctoring upload that *)
(* writes an old document back (finish, saveCamCapture).                   *)
THEOREM RegradeFromStaleRead == Spec => RegradeOnlyFromStaleRead
<1>1. OwnerInv /\ VersionsInv /\ [Next]_vars =>
        [\A a \in Attempts :
           /\ Graded(doc[a]) /\ doc[a].score # None
           /\ doc'[a].score # doc[a].score \/ doc'[a].ongoing
           => \E c \in ActiveOn(a) : seen[c] # None /\ seen[c].score # doc[a].score]_vars
  BY RegradeStep
<1> QED BY <1>1, VersionsInvariant, PTL DEF Spec, RegradeOnlyFromStaleRead

-----------------------------------------------------------------------------
(* Who is counted in totalJoinedStudent                                    *)

(* Users that own attempts, all of them made by start.                     *)
Starters == {u \in Users : OwnedBy(u) # {} /\ \A a \in OwnedBy(u) : doc[a].started}

(* Users who are counted, and whose first attempt is about to be created.  *)
Joining == {u \in Users : OwnedBy(u) = {} /\ \E c \in Calls :
                            pc[c] = "create" /\ req[c].kind = "start" /\ req[c].user = u}

JoinedInv == Cardinality(Starters \union Joining) <= joined

LEMMA FewerUsers ==
  ASSUME NEW S \in SUBSET Users, NEW T \in SUBSET Users, S \subseteq T
  PROVE  /\ Cardinality(S) \in Nat /\ Cardinality(T) \in Nat /\ Cardinality(S) <= Cardinality(T)
<1>1. IsFiniteSet(T) /\ IsFiniteSet(S)
  BY ConstantsAssumption, FS_Subset DEF ConstantsAssumption
<1> QED BY <1>1, FS_Subset, FS_CardinalityType

LEMMA OneMoreUser ==
  ASSUME NEW S \in SUBSET Users, NEW T \in SUBSET Users, NEW u \in Users, S \subseteq T \union {u}
  PROVE  Cardinality(S) <= Cardinality(T) + 1 /\ Cardinality(T) \in Nat
<1>1. IsFiniteSet(T)
  BY ConstantsAssumption, FS_Subset DEF ConstantsAssumption
<1>2. Cardinality(T) \in Nat /\ Cardinality(T \union {u}) <= Cardinality(T) + 1
  BY <1>1, FS_AddElement, FS_CardinalityType
<1>3. Cardinality(S) \in Nat /\ Cardinality(T \union {u}) \in Nat
      /\ Cardinality(S) <= Cardinality(T \union {u})
  BY FewerUsers
<1> QED BY <1>2, <1>3

(* Nobody is counted anew by a step after which the same users own         *)
(* attempts, made the same way, and that takes nobody to the creation of a *)
(* first one.                                                              *)
LEMMA JoinedGoes ==
  ASSUME OwnerInv, JoinedInv, NEW c \in Calls, NEW step, Moves(c, step),
         \A a \in Attempts : doc[a] = None => doc'[a] = None,
         \A a \in Attempts : doc[a] # None =>
            doc'[a] # None /\ doc'[a].user = doc[a].user /\ doc'[a].started = doc[a].started,
         joined' = joined,
         step = "create" => req[c].kind # "start" \/ OwnedBy(req[c].user) # {}
  PROVE  JoinedInv'
<1>1. \A u \in Users : OwnedBy(u)' = OwnedBy(u)
  BY DEF OwnedBy
<1>2. Starters' = Starters
  BY <1>1 DEF Starters, OwnedBy
<1>3. Joining' \subseteq Joining
  BY <1>1 DEF Joining, Moves
<1>4. (Starters \union Joining)' \subseteq Starters \union Joining
  BY <1>2, <1>3
<1>5. Starters \union Joining \in SUBSET Users /\ (Starters \union Joining)' \in SUBSET Users
  BY DEF Starters, Joining
<1>6. Cardinality(Starters \union Joining) \in Nat
      /\ Cardinality((Starters \union Joining)') <= Cardinality(Starters \union Joining)
      /\ Cardinality((Starters \union Joining)') \in Nat
  BY <1>4, <1>5, FewerUsers
<1>7. joined \in Nat
  BY DEF OwnerInv, Type
<1> QED BY <1>6, <1>7 DEF JoinedInv

(* No write changes whose attempt it is, or who made it.                   *)
LEMMA WritesKeepOwner ==
  ASSUME OwnerInv, VersionsInv, NEW c \in Calls, WritesDoc(c)
  PROVE  /\ \E step : step # "create" /\ Moves(c, step)
         /\ \A a \in Attempts : doc[a] = None => doc'[a] = None
         /\ \A a \in Attempts : doc[a] # None =>
              doc'[a] # None /\ doc'[a].user = doc[a].user /\ doc'[a].started = doc[a].started
<1>0. Type /\ Control
  BY DEF OwnerInv
<1>1. ASSUME NEW e \in AttemptDocs, Stored(c, e),
             e.user = doc[req[c].att].user, e.started = doc[req[c].att].started,
             NEW step, step # "create", Moves(c, step)
      PROVE  /\ \E s : s # "create" /\ Moves(c, s)
             /\ \A a \in Attempts : doc[a] = None => doc'[a] = None
             /\ \A a \in Attempts : doc[a] # None =>
                  doc'[a] # None /\ doc'[a].user = doc[a].user /\ doc'[a].started = doc[a].started
  BY <1>1 DEF Stored
<1>2. pc[c] \in WritesBack => /\ seen[c].user = doc[req[c].att].user
                             /\ seen[c].started = doc[req[c].att].started
  BY DEF OwnerInv, HeldFromOwner, VersionsInv
<1>3. CASE LinkDetail(c)
  BY <1>0, <1>1, <1>3, LinkShape DEF Alike
<1>4. CASE MarkPending(c)
  BY <1>0, <1>1, <1>4, PendShape DEF Alike
<1>5. CASE MarkDone(c)
  BY <1>0, <1>1, <1>5, MarkShape DEF Alike
<1>6. CASE ClockWrite(c)
  BY <1>0, <1>1, <1>6, ClockShape DEF Alike
<1>7. CASE CaptureWrite(c)
  <2>1. PICK e \in AttemptDocs :
          /\ Stored(c, e) /\ pc[c] = "captureWrite" /\ Moves(c, "ok")
          /\ e.user = seen[c].user /\ e.started = seen[c].started
    BY <1>0, <1>7, CaptureShape
  <2> QED BY <1>1, <1>2, <2>1 DEF WritesBack
<1>8. CASE GradeBack(c)
  <2>1. PICK e \in AttemptDocs :
          /\ Stored(c, e) /\ pc[c] = "gradeBack" /\ Alike(seen[c], e)
          /\ Moves(c, IF ~AutoEvaluation THEN "pend"
                     ELSE IF seen[c].abandoned THEN AfterProcess(c) ELSE "tally")
    BY <1>0, <1>8, BackShape
  <2>2. PICK step \in {"pend", "mark", "clock", "ok", "tally"} : Moves(c, step)
    BY <2>1 DEF AfterProcess
  <2> QED BY <1>1, <1>2, <2>1, <2>2 DEF WritesBack, Alike
<1>9. CASE GradeWrite(c)
  <2>1. PICK e \in AttemptDocs :
          /\ Stored(c, e) /\ Moves(c, "gradeDetail")
          /\ e.user = doc[req[c].att].user /\ e.started = doc[req[c].att].started
    BY <1>0, <1>9, GradeShape
  <2> QED BY <1>1, <2>1
<1> QED BY <1>3, <1>4, <1>5, <1>6, <1>7, <1>8, <1>9 DEF WritesDoc

LEMMA JoinedStep == OwnerInv /\ VersionsInv /\ JoinedInv /\ [Next]_vars => JoinedInv'
<1> SUFFICES ASSUME OwnerInv, VersionsInv, JoinedInv, [Next]_vars PROVE JoinedInv'
  OBVIOUS
<1>0. Type /\ Control /\ joined \in Nat
  BY DEF OwnerInv, Type
<1>1. ASSUME NEW c \in Calls, Reads(c), ~StartJoin(c) PROVE JoinedInv'
  <2>1. doc' = doc
    BY <1>0, <1>1, ReadShape
  <2>2. CASE Fail(c)
    <3>1. joined' = joined /\ Moves(c, "error")
      BY <1>0, <2>2, GoesMoves DEF Fail, db
    <3> QED BY <2>1, <3>1, JoinedGoes
  <2>3. CASE StartCheck(c) \/ StartLimit(c) \/ StartLookup(c) \/ FinishLoad(c)
    <3>1. joined' = joined /\ pc[c] \in {"start", "limit", "lookup", "finish"}
      BY <2>3 DEF StartCheck, StartLimit, StartLookup, FinishLoad, db
    <3>2. \/ Moves(c, "error") \/ Moves(c, "lookup") \/ Moves(c, "limit") \/ Moves(c, "join")
          \/ Moves(c, "grade") \/ (Moves(c, "create") /\ OwnedBy(req[c].user) # {})
      BY <1>0, <1>1, <3>1, ReadShape
    <3>3. PICK step : Moves(c, step) /\ (step = "create" => OwnedBy(req[c].user) # {})
      BY <3>2
    <3> QED BY <2>1, <3>1, <3>3, JoinedGoes
  <2>4. CASE Tally(c) \/ MarkCount(c) \/ TallyWrite(c) \/ MarkTotal(c)
    <3>1. /\ joined' = joined
          /\ pc[c] \in {"tally", "markCount", "tallyWrite", "markTotal"}
      BY <2>4 DEF Tally, MarkCount, TallyWrite, MarkTotal, CountHandIns, StoreCount, db
    <3>2. \/ Moves(c, "error") \/ Moves(c, "tallyWrite") \/ Moves(c, "mark") \/ Moves(c, "clock")
          \/ Moves(c, "ok") \/ Moves(c, "markTotal")
      BY <1>0, <1>1, <3>1, ReadShape DEF AfterProcess
    <3>3. PICK step : Moves(c, step) /\ step # "create"
      BY <3>2
    <3> QED BY <2>1, <3>1, <3>3, JoinedGoes
  <2>5. CASE ClockRead(c) \/ SaveRead(c) \/ CaptureRead(c)
    <3>1. joined' = joined /\ pc[c] \in {"clock", "save", "capture"}
      BY <2>5 DEF ClockRead, SaveRead, CaptureRead, db
    <3>2. pc[c] = "save" => req[c].kind = "save"
      BY DEF VersionsInv
    <3>3. \/ Moves(c, "error") \/ Moves(c, "clockWrite") \/ Moves(c, "saveQA")
          \/ Moves(c, "captureWrite") \/ (Moves(c, "create") /\ req[c].kind = "save")
      BY <1>0, <1>1, <3>1, <3>2, ReadShape
    <3>4. PICK step : Moves(c, step) /\ (step = "create" => req[c].kind # "start")
      BY <3>3
    <3> QED BY <2>1, <3>1, <3>4, JoinedGoes
  <2> QED BY <1>1, <2>2, <2>3, <2>4, <2>5 DEF Reads
<1>2. ASSUME NEW c \in Calls, WritesDetail(c) PROVE JoinedInv'
  <2>1. UNCHANGED <<doc, joined>>
    BY <1>2 DEF WritesDetail, CreateDetail, GradeDetail, MarkDetail, SaveAnswers
  <2>2. \E step : step # "create" /\ Moves(c, step)
    BY <1>0, <1>2, DetailShape
  <2> QED BY <2>1, <2>2, JoinedGoes
<1>3. ASSUME NEW c \in Calls, WritesDoc(c) PROVE JoinedInv'
  <2>1. joined' = joined
    BY <1>3 DEF WritesDoc, LinkDetail, GradeWrite, GradeBack, MarkPending, MarkDone, ClockWrite, CaptureWrite
  <2> QED BY <1>3, <2>1, WritesKeepOwner, JoinedGoes
<1>4. ASSUME NEW c \in Calls, ResetIp(c) PROVE JoinedInv'
  <2>1. joined' = joined
    BY <1>4 DEF ResetIp
  <2> QED BY <1>0, <1>4, <2>1, ResetShape, JoinedGoes
<1>5. ASSUME NEW c \in Calls, StartJoin(c) PROVE JoinedInv'
  <2>1. /\ joined' = joined + 1 /\ doc' = doc /\ req' = req
        /\ \A x \in Calls \ {c} : pc'[x] = pc[x]
    BY <1>0, <1>5 DEF StartJoin, Goto, Keep, Type
  <2>2. req[c].user \in Users
    BY <1>0, <1>5 DEF StartJoin, Control, Requests
  <2>3. (Starters \union Joining)' \subseteq (Starters \union Joining) \union {req[c].user}
    BY <2>1 DEF Starters, Joining, OwnedBy
  <2>4. Starters \union Joining \in SUBSET Users /\ (Starters \union Joining)' \in SUBSET Users
    BY DEF Starters, Joining
  <2>5. /\ Cardinality((Starters \union Joining)') <= Cardinality(Starters \union Joining) + 1
        /\ Cardinality(Starters \union Joining) \in Nat /\ Cardinality((Starters \union Joining)') \in Nat
    BY <2>2, <2>3, <2>4, OneMoreUser, FewerUsers
  <2> QED BY <1>0, <2>1, <2>5 DEF JoinedInv
<1>6. ASSUME NEW c \in Calls, CreateAttempt(c) PROVE JoinedInv'
  <2>1. PICK a \in Attempts, e \in AttemptDocs :
         /\ pc[c] = "create" /\ doc[a] = None /\ doc' = [doc EXCEPT ![a] = e] /\ e # None
         /\ e.user = req[c].user /\ (e.started <=> req[c].kind = "start")
         /\ pc'[c] = "detail" /\ joined' = joined
         /\ \A x \in Calls \ {c} : pc'[x] = pc[x] /\ req'[x] = req[x]
    BY <1>0, <1>6, CreateShape
  <2>2. doc'[a] = e /\ \A b \in Attempts \ {a} : doc'[b] = doc[b]
    BY <1>0, <2>1 DEF Type
  <2>3. \A u \in Users : OwnedBy(u)' = IF u = req[c].user THEN OwnedBy(u) \union {a} ELSE OwnedBy(u)
    BY <2>1, <2>2 DEF OwnedBy
  <2>4. \A u \in Users : a \notin OwnedBy(u)
    BY <2>1 DEF OwnedBy
  <2>5. Joining' \subseteq Joining
    BY <2>1, <2>3 DEF Joining
  <2>6. ASSUME NEW u \in Starters' PROVE u \in Starters \union Joining
    <3>1. u \in Users /\ OwnedBy(u)' # {} /\ \A b \in OwnedBy(u)' : doc'[b].started
      BY DEF Starters
    <3>2. \A b \in OwnedBy(u) : doc[b].started
      BY <2>2, <2>3, <2>4, <3>1 DEF OwnedBy
    <3>3. CASE OwnedBy(u) # {}
      BY <3>1, <3>2, <3>3 DEF Starters
    <3>4. CASE OwnedBy(u) = {}
      <4>1. u = req[c].user /\ req[c].kind = "start"
        BY <2>1, <2>2, <2>3, <3>1, <3>4
      <4> QED BY <2>1, <3>1, <3>4, <4>1 DEF Joining
    <3> QED BY <3>3, <3>4
  <2>7. (Starters \union Joining)' \subseteq Starters \union Joining
    BY <2>5, <2>6
  <2>8. Starters \union Joining \in SUBSET Users /\ (Starters \union Joining)' \in SUBSET Users
    BY DEF Starters, Joining
  <2>9. /\ Cardinality((Starters \union Joining)') <= Cardinality(Starters \union Joining)
        /\ Cardinality(Starters \union Joining) \in Nat /\ Cardinality((Starters \union Joining)') \in Nat
    BY <2>7, <2>8, FewerUsers
  <2> QED BY <1>0, <2>1, <2>9 DEF JoinedInv
<1>7. ASSUME NEW c \in Calls, Call(c) PROVE JoinedInv'
  <2>1. /\ pc[c] = "idle" /\ UNCHANGED <<doc, joined>> /\ pc'[c] # "create"
        /\ \A x \in Calls \ {c} : pc'[x] = pc[x] /\ req'[x] = req[x]
    BY <1>0, <1>7, CallShape DEF Requests, AllKinds
  <2>2. (Starters \union Joining)' \subseteq Starters \union Joining
    BY <2>1 DEF Starters, Joining, OwnedBy
  <2>3. Starters \union Joining \in SUBSET Users /\ (Starters \union Joining)' \in SUBSET Users
    BY DEF Starters, Joining
  <2>4. /\ Cardinality((Starters \union Joining)') <= Cardinality(Starters \union Joining)
        /\ Cardinality(Starters \union Joining) \in Nat /\ Cardinality((Starters \union Joining)') \in Nat
    BY <2>2, <2>3, FewerUsers
  <2> QED BY <1>0, <2>1, <2>4 DEF JoinedInv
<1>8. CASE UNCHANGED <<doc, detail, joined, req, pc, seen>>
  <2>1. (Starters \union Joining)' = Starters \union Joining
    BY <1>8 DEF Starters, Joining, OwnedBy
  <2> QED BY <1>8, <2>1 DEF JoinedInv
<1> QED BY <1>1, <1>2, <1>3, <1>4, <1>5, <1>6, <1>7, <1>8, StepCases

LEMMA InitJoined == Init => JoinedInv
<1> SUFFICES ASSUME Init PROVE JoinedInv
  OBVIOUS
<1>1. ASSUME NEW u \in Users, NEW a \in OwnedBy(u) PROVE Held[a] = u
  <2>1. a \in Attempts /\ doc[a] # None /\ doc[a].user = u
    BY <1>1 DEF OwnedBy
  <2>2. doc[a] = IF Held[a] = None THEN None ELSE NewAttempt(Held[a], TRUE, TRUE)
    BY <2>1 DEF Init
  <2> QED BY <2>1, <2>2 DEF NewAttempt
<1>2. Joining = {}
  BY DEF Init, Joining
<1>3. Starters \subseteq {u \in Users : \E a \in Attempts : Held[a] = u}
  BY <1>1 DEF Starters, OwnedBy
<1>4. Cardinality(Starters \union Joining) <= Cardinality({u \in Users : \E a \in Attempts : Held[a] = u})
  <2>1. Starters \union Joining \subseteq {u \in Users : \E a \in Attempts : Held[a] = u}
    BY <1>2, <1>3
  <2> QED BY <2>1, FewerUsers
<1> QED BY <1>4 DEF Init, JoinedInv

(* totalJoinedStudent counts every student whose attempts all came through *)
(* start, however the first starts of students interleave and whichever of *)
(* them fail (the alreadyAttempted branch of start).                       *)
THEOREM StartersAreCounted == Spec => []JoinedCountsStarters
<1>1. Init => OwnerInv /\ VersionsInv /\ JoinedInv
  BY InitOwnerInv, InitVersions, InitJoined
<1>2. OwnerInv /\ VersionsInv /\ JoinedInv /\ [Next]_vars => (OwnerInv /\ VersionsInv /\ JoinedInv)'
  BY OwnerStep, VersionsStep, JoinedStep
<1>3. OwnerInv /\ JoinedInv => JoinedCountsStarters
  <2> SUFFICES ASSUME OwnerInv, JoinedInv PROVE JoinedCountsStarters
    OBVIOUS
  <2>1. /\ Cardinality(Starters) <= Cardinality(Starters \union Joining)
        /\ Cardinality(Starters) \in Nat /\ Cardinality(Starters \union Joining) \in Nat
    <3>1. Starters \in SUBSET Users /\ Starters \union Joining \in SUBSET Users
      BY DEF Starters, Joining
    <3> QED BY <3>1, FewerUsers
  <2>2. joined \in Nat
    BY DEF OwnerInv, Type
  <2> QED BY <2>1, <2>2 DEF JoinedInv, JoinedCountsStarters, Starters
<1> QED BY <1>1, <1>2, <1>3, PTL DEF Spec

-----------------------------------------------------------------------------
(* Clients that wait for an answer                                         *)

(* The steps of a hand-in after its first write, after its detail is       *)
(* stored, after the document is put back, and after updateAbandonStatus   *)
(* has written the attempt, and its detail.                                *)
Wrote == {"gradeDetail", "gradeBack", "pend", "tally", "tallyWrite", "mark", "markDetail",
          "markCount", "markTotal", "clock", "clockWrite", "ok"}
Detailed == Wrote \ {"gradeDetail"}
PutBack == Detailed \ {"gradeBack"}
Done == {"markDetail", "markCount", "markTotal", "clock", "clockWrite", "ok"}
DetailDone == Done \ {"markDetail"}

(* Version e of an attempt may follow d: what a hand-in has written stays. *)
Follows(d, e) ==
  /\ e.user = d.user /\ e.started = d.started
  /\ e.score = d.score /\ e.total = d.total
  /\ (e.abandoned => d.abandoned) /\ (e.evaluated => d.evaluated)
  /\ (e.over => d.over) /\ (d.late => e.late)

(* At most one call works on an attempt. *)
AloneInv ==
  /\ \A c \in Calls : pc[c] # "idle" /\ req[c].att # None =>
       req[c].att \in Attempts /\ doc[req[c].att] # None
  /\ \A c \in Calls : pc[c] # "idle" /\ req[c].att = None => req[c].kind # "finish"
  /\ \A x, y \in Calls : Active(x) /\ Active(y) /\ req[x].att = req[y].att =>
       x = y \/ req[x].att = None

MarkedInv == \A a \in Attempts : doc[a] # None => (doc[a].total <=> doc[a].score # None)

KindInv(c) ==
  /\ req[c].kind = "finish" => pc[c] \in {"idle", "finish", "grade", "error"} \union Wrote
  /\ pc[c] \in {"grade", "gradeDetail", "gradeBack", "pend", "tally", "tallyWrite", "clock", "clockWrite"}
       => req[c].kind = "finish"

(* What a call has read is current, and what it is about to overwrite is   *)
(* no hand-in.                                                             *)
CurrentInv(c) ==
  /\ pc[c] \in {"gradeDetail", "gradeBack", "captureWrite"} => Follows(doc[req[c].att], seen[c])
  /\ pc[c] \in {"grade", "detail", "saveQA"} => ~doc[req[c].att].total

(* How far hand-in c, whose document is d with detail t, has come.         *)
FinishInv(c) ==
  LET d == doc[req[c].att]  t == detail[req[c].att] IN
  /\ pc[c] \in Wrote => d.score = c
  /\ pc[c] \in Detailed => t # None /\ t.qa = c
  /\ pc[c] \in PutBack => d.linked
  /\ pc[c] \in Done /\ ~req[c].quit => ~d.abandoned
  /\ pc[c] \in DetailDone /\ ~req[c].quit => ~t.abandoned
  /\ pc[c] = "clockWrite" => (d.over => seen[c].over) /\ (req[c].overdue => seen[c].late)
  /\ pc[c] = "ok" /\ Timed => ~d.over /\ (req[c].overdue => d.late)
  /\ req[c].overdue => req[c].att \in overdue

WaitInv ==
  /\ AloneInv
  /\ MarkedInv
  /\ \A c \in Calls : pc[c] # "idle" =>
       /\ KindInv(c)
       /\ CurrentInv(c)
       /\ req[c].kind = "finish" => FinishInv(c)

(* The fields that no step of another call may take from a hand-in.        *)
Untouched(d, e) ==
  /\ e.user = d.user /\ e.started = d.started /\ e.score = d.score /\ e.total = d.total
  /\ Flags(d, e) /\ e.linked = d.linked

Steady(d, e) ==
  /\ e.score = d.score /\ (d.linked => e.linked)
  /\ (e.abandoned => d.abandoned) /\ (e.over => d.over) /\ (d.late => e.late)

SteadyDetail(t, s) ==
  t # None => s # None /\ s.qa = t.qa /\ (s.abandoned => t.abandoned)

(* A step of call c keeps what is known of the others when it leaves their *)
(* attempts alone and takes nothing from an answered hand-in of its own.   *)
LEMMA WaitFrame ==
  ASSUME OwnerInv, WaitInv, NEW c \in Calls, NEW step, Moves(c, step), Active(c),
         \A b \in Attempts : doc[b] # None => doc'[b] # None,
         \A b \in Attempts \ {req[c].att} :
            doc[b] # None => Untouched(doc[b], doc'[b]) /\ detail'[b] = detail[b],
         overdue \subseteq overdue',
         req[c].att \in Attempts /\ doc[req[c].att].score \notin {None, c} =>
            /\ Steady(doc[req[c].att], doc'[req[c].att])
            /\ SteadyDetail(detail[req[c].att], detail'[req[c].att]),
         NEW x \in Calls, x # c, pc'[x] # "idle"
  PROVE  /\ KindInv(x)' /\ CurrentInv(x)'
         /\ req'[x].kind = "finish" => FinishInv(x)'
<1>1. /\ pc'[x] = pc[x] /\ seen'[x] = seen[x] /\ req'[x] = req[x]
      /\ KindInv(x) /\ CurrentInv(x) /\ (req[x].kind = "finish" => FinishInv(x))
  BY DEF Moves, WaitInv
<1>2. KindInv(x)'
  BY <1>1 DEF KindInv
<1>3. /\ req[x].att # None => req[x].att \in Attempts /\ doc[req[x].att] # None
      /\ req[x].att = None => req[x].kind # "finish"
  BY <1>1 DEF WaitInv, AloneInv
<1>4. CASE req[x].att # req[c].att /\ req[x].att # None
  <2>1. /\ Untouched(doc[req[x].att], doc'[req[x].att])
        /\ detail'[req[x].att] = detail[req[x].att]
    BY <1>3, <1>4
  <2>2. CurrentInv(x)'
    BY <1>1, <2>1 DEF CurrentInv, Follows, Untouched, Flags
  <2>3. req[x].kind = "finish" => FinishInv(x)'
    BY <1>1, <2>1 DEF FinishInv, Untouched, Flags
  <2> QED BY <1>1, <1>2, <2>2, <2>3
<1>5. CASE req[x].att = req[c].att /\ req[x].att # None
  <2>1. ~Active(x)
    BY <1>5 DEF WaitInv, AloneInv
  <2>2. pc[x] \in {"ok", "error"}
    BY <1>1, <2>1 DEF Active, Replies
  <2>3. CurrentInv(x)'
    BY <1>1, <2>2 DEF CurrentInv
  <2>4. ASSUME req[x].kind = "finish", pc[x] = "ok" PROVE FinishInv(x)'
    <3>1. FinishInv(x) /\ x # None
      BY <1>1, <2>4, NoneAssumption DEF NoneAssumption
    <3>2. pc[x] \in Wrote /\ pc[x] \in Detailed /\ pc[x] \in PutBack /\ pc[x] \in Done /\ pc[x] \in DetailDone
      BY <2>4 DEF Wrote, Detailed, PutBack, Done, DetailDone
    <3>3. doc[req[c].att].score = x
      BY <1>5, <3>1, <3>2 DEF FinishInv
    <3>4. /\ Steady(doc[req[x].att], doc'[req[x].att])
          /\ SteadyDetail(detail[req[x].att], detail'[req[x].att])
      BY <1>3, <1>5, <3>1, <3>3
    <3> QED BY <1>1, <2>4, <3>1, <3>2, <3>4 DEF FinishInv, Steady, SteadyDetail
  <2>5. ASSUME req[x].kind = "finish", pc[x] = "error" PROVE FinishInv(x)'
    BY <1>1, <2>5 DEF FinishInv, Wrote, Detailed, PutBack, Done, DetailDone
  <2> QED BY <1>1, <1>2, <2>2, <2>3, <2>4, <2>5
<1>6. CASE req[x].att = None
  <2>1. pc[x] \notin HoldsAttempt
    BY <1>6, NoneAssumption DEF OwnerInv, Control, NoneAssumption
  <2>2. CurrentInv(x)'
    BY <1>1, <2>1 DEF CurrentInv, HoldsAttempt
  <2> QED BY <1>1, <1>2, <1>3, <1>6, <2>2
<1> QED BY <1>4, <1>5, <1>6

LEMMA WaitGoes ==
  ASSUME OwnerInv, WaitInv, NEW c \in Calls, NEW step, Moves(c, step), Active(c),
         step # "idle",
         \A b \in Attempts : /\ doc[b] # None => doc'[b] # None
                             /\ doc'[b] # None => (doc'[b].total <=> doc'[b].score # None),
         \A b \in Attempts \ {req[c].att} :
            doc[b] # None => Untouched(doc[b], doc'[b]) /\ detail'[b] = detail[b],
         overdue \subseteq overdue',
         req[c].att \in Attempts /\ doc[req[c].att].score \notin {None, c} =>
            /\ Steady(doc[req[c].att], doc'[req[c].att])
            /\ SteadyDetail(detail[req[c].att], detail'[req[c].att]),
         KindInv(c)', CurrentInv(c)', req'[c].kind = "finish" => FinishInv(c)'
  PROVE  WaitInv'
<1>1. \A x \in Calls : pc'[x] # "idle" => pc[x] # "idle" /\ req'[x] = req[x]
  BY DEF Moves, Active
<1>2. \A x \in Calls : Active(x)' => Active(x)
  BY DEF Moves, Active
<1>3. AloneInv'
  <2>1. \A x \in Calls : pc'[x] # "idle" /\ req'[x].att # None =>
          req'[x].att \in Attempts /\ doc'[req'[x].att] # None
    BY <1>1 DEF WaitInv, AloneInv
  <2>2. \A x \in Calls : pc'[x] # "idle" /\ req'[x].att = None => req'[x].kind # "finish"
    BY <1>1 DEF WaitInv, AloneInv
  <2>3. ASSUME NEW x \in Calls, NEW y \in Calls, Active(x)', Active(y)', req'[x].att = req'[y].att
        PROVE  x = y \/ req'[x].att = None
    BY <1>1, <1>2, <2>3 DEF WaitInv, AloneInv, Active
  <2> QED BY <2>1, <2>2, <2>3 DEF AloneInv
<1>4. MarkedInv'
  BY DEF MarkedInv
<1>5. ASSUME NEW x \in Calls, pc'[x] # "idle"
      PROVE  KindInv(x)' /\ CurrentInv(x)' /\ (req'[x].kind = "finish" => FinishInv(x)')
  <2>1. CASE x = c
    BY <2>1
  <2>2. CASE x # c
    BY <1>5, <2>2, WaitFrame
  <2> QED BY <2>1, <2>2
<1> QED BY <1>3, <1>4, <1>5 DEF WaitInv

LEMMA ReadActive ==
  ASSUME NEW c \in Calls, Reads(c)
  PROVE  Active(c)
<1>1. CASE StartCheck(c) \/ StartLimit(c) \/ StartLookup(c) \/ FinishLoad(c) \/ StartJoin(c)
  BY <1>1 DEF StartCheck, StartLimit, StartLookup, FinishLoad, StartJoin, Active, Replies
<1>2. CASE Tally(c) \/ MarkCount(c) \/ TallyWrite(c) \/ MarkTotal(c)
  BY <1>2 DEF Tally, MarkCount, TallyWrite, MarkTotal, CountHandIns, StoreCount, Active, Replies
<1>3. CASE ClockRead(c) \/ SaveRead(c) \/ CaptureRead(c)
  BY <1>3 DEF ClockRead, SaveRead, CaptureRead, Active, Replies
<1>4. CASE Fail(c)
  BY <1>4 DEF Fail
<1> QED BY <1>1, <1>2, <1>3, <1>4 DEF Reads

LEMMA WaitSame ==
  ASSUME OwnerInv, WaitInv, NEW c \in Calls, NEW step, Moves(c, step), Active(c), step # "idle",
         UNCHANGED <<doc, detail, overdue>>,
         KindInv(c)', CurrentInv(c)', req[c].kind = "finish" => FinishInv(c)'
  PROVE  WaitInv'
<1>1. req' = req /\ MarkedInv
  BY DEF Moves, WaitInv
<1>2. \A b \in Attempts : /\ doc[b] # None => doc'[b] # None
                          /\ doc'[b] # None => (doc'[b].total <=> doc'[b].score # None)
  BY <1>1 DEF MarkedInv
<1>3. \A b \in Attempts : Untouched(doc[b], doc'[b]) /\ detail'[b] = detail[b]
  BY DEF Untouched, Flags
<1>4. /\ Steady(doc[req[c].att], doc'[req[c].att])
      /\ SteadyDetail(detail[req[c].att], detail'[req[c].att])
  BY DEF Steady, SteadyDetail
<1> QED BY <1>1, <1>2, <1>3, <1>4, WaitGoes

(* A hand-in goes on to a step of which no more is known than of the last. *)
LEMMA FinishGoes ==
  ASSUME NEW c \in Calls, NEW step, Moves(c, step), UNCHANGED <<doc, detail, overdue>>,
         FinishInv(c),
         pc[c] \in PutBack, step \in PutBack \union {"error"},
         step \in Done => pc[c] \in Done \/ req[c].quit,
         step \in DetailDone => pc[c] \in DetailDone \/ req[c].quit,
         step = "clockWrite" => /\ doc[req[c].att].over => seen'[c].over
                                /\ req[c].overdue => seen'[c].late,
         step = "ok" => ~Timed
  PROVE  FinishInv(c)'
<1>1. pc'[c] = step /\ req' = req
  BY DEF Moves
<1>2. pc[c] \in Wrote /\ pc[c] \in Detailed
  BY DEF PutBack, Detailed
<1>3. "error" \notin Wrote /\ "error" \notin Detailed /\ "error" \notin PutBack /\ "error" \notin Done
      /\ "error" \notin DetailDone
  BY DEF PutBack, Detailed, Wrote, Done, DetailDone
<1> QED BY <1>1, <1>2, <1>3 DEF FinishInv

LEMMA WaitOfReads ==
  ASSUME OwnerInv, OwnerInv', VersionsInv, WaitInv, NEW c \in Calls, Reads(c)
  PROVE  WaitInv'
<1> DEFINE a == req[c].att
           d == doc[a]
<1>1. Type /\ Control /\ Control' /\ UNCHANGED <<doc, detail, overdue>> /\ overdue \subseteq Attempts
  BY ReadShape DEF OwnerInv, Type
<1>2. /\ KindInv(c) /\ CurrentInv(c) /\ (req[c].kind = "finish" => FinishInv(c))
  BY <1>1, ReadShape DEF WaitInv
<1>3. ASSUME NEW step, Moves(c, step), Active(c), step # "idle",
             KindInv(c)', CurrentInv(c)', req[c].kind = "finish" => FinishInv(c)'
      PROVE  WaitInv'
  BY <1>1, <1>3, WaitSame
<1>4. CASE Moves(c, "error") /\ Active(c)
  <2>1. pc'[c] = "error" /\ req' = req
    BY <1>4 DEF Moves
  <2>2. KindInv(c)' /\ CurrentInv(c)'
    BY <2>1 DEF KindInv, CurrentInv, Wrote
  <2>3. req[c].kind = "finish" => FinishInv(c)'
    BY <1>1, <1>2, <2>1 DEF FinishInv, Wrote, Detailed, PutBack, Done, DetailDone
  <2> QED BY <1>3, <1>4, <2>2, <2>3
<1>5. ASSUME NEW step \in {"lookup", "limit", "join", "create"}, Moves(c, step), Active(c)
      PROVE  WaitInv'
  <2>1. pc'[c] = step /\ req' = req /\ req[c].kind # "finish"
    BY <1>1, <1>5 DEF Moves, Control, Creates
  <2>2. KindInv(c)' /\ CurrentInv(c)'
    BY <2>1 DEF KindInv, CurrentInv
  <2> QED BY <1>3, <1>5, <2>1, <2>2
<1>6. CASE pc[c] = "finish" /\ Moves(c, "grade") /\ ~Graded(d)
  <2>1. pc'[c] = "grade" /\ req' = req /\ req[c].kind = "finish" /\ a \in Attempts /\ d # None
    BY <1>1, <1>6 DEF Moves, Control, HoldsAttempt
  <2>2. ~d.total
    <3>1. d.score # None => Closed(d)
      BY <2>1 DEF VersionsInv
    <3> QED BY <1>6, <2>1, <3>1 DEF Graded, WaitInv, MarkedInv, Closed
  <2>3. KindInv(c)' /\ CurrentInv(c)'
    BY <1>1, <2>1, <2>2 DEF KindInv, CurrentInv
  <2>4. FinishInv(c)'
    BY <1>1, <1>2, <2>1 DEF FinishInv, Wrote, Detailed, PutBack, Done, DetailDone
  <2>5. Active(c)
    BY <1>6 DEF Active, Replies
  <2> QED BY <1>3, <1>6, <2>3, <2>4, <2>5
<1>7. ASSUME NEW step \in {"tallyWrite", "mark", "clock", "ok"}, Moves(c, step),
             pc[c] \in {"tally", "tallyWrite"},
             step \in {"clock", "ok"} => req[c].quit, step = "ok" => ~Timed
      PROVE  WaitInv'
  <2>1. pc'[c] = step /\ req' = req /\ req[c].kind = "finish"
    BY <1>2, <1>7 DEF Moves, KindInv
  <2>2. KindInv(c)' /\ CurrentInv(c)'
    BY <2>1 DEF KindInv, CurrentInv, Wrote
  <2>3. /\ pc[c] \in PutBack /\ step \in PutBack /\ step # "clockWrite"
        /\ step \in Done \/ step \in DetailDone => req[c].quit
    BY <1>7 DEF PutBack, Detailed, Wrote, Done, DetailDone
  <2>4. FinishInv(c)'
    BY <1>1, <1>2, <1>7, <2>1, <2>3, FinishGoes
  <2>5. Active(c)
    BY <1>7 DEF Active, Replies
  <2> QED BY <1>3, <1>7, <2>2, <2>4, <2>5
<1>8. ASSUME NEW step \in {"markTotal", "clock", "ok"}, Moves(c, step),
             pc[c] \in {"markCount", "markTotal"},
             step = "clock" => req[c].kind = "finish",
             step = "ok" /\ req[c].kind = "finish" => ~Timed
      PROVE  WaitInv'
  <2>1. pc'[c] = step /\ req' = req
    BY <1>8 DEF Moves
  <2>2. KindInv(c)' /\ CurrentInv(c)'
    BY <1>8, <2>1 DEF KindInv, CurrentInv, Wrote
  <2>3. /\ pc[c] \in PutBack /\ step \in PutBack /\ step # "clockWrite"
        /\ pc[c] \in Done /\ pc[c] \in DetailDone
    BY <1>8 DEF PutBack, Detailed, Wrote, Done, DetailDone
  <2>4. req[c].kind = "finish" => FinishInv(c)'
    BY <1>1, <1>2, <1>8, <2>1, <2>3, FinishGoes
  <2>5. Active(c)
    BY <1>8 DEF Active, Replies
  <2> QED BY <1>3, <1>8, <2>2, <2>4, <2>5
<1>9. CASE pc[c] = "clock" /\ Moves(c, "clockWrite") /\ seen'[c] = [d EXCEPT !.late = a \in overdue]
  <2>1. pc'[c] = "clockWrite" /\ req' = req /\ req[c].kind = "finish"
    BY <1>2, <1>9 DEF Moves, KindInv
  <2>2. KindInv(c)' /\ CurrentInv(c)'
    BY <2>1 DEF KindInv, CurrentInv, Wrote
  <2>3. pc[c] \in PutBack /\ pc[c] \in Done /\ pc[c] \in DetailDone /\ "clockWrite" \in PutBack
    BY <1>9 DEF PutBack, Detailed, Wrote, Done, DetailDone
  <2>4. d \in AttemptDocs
    BY <1>1, <1>9, HoldsDoc DEF HoldsAttempt
  <2>5. (d.over => seen'[c].over) /\ (req[c].overdue => seen'[c].late)
    <3>1. req[c].overdue => a \in overdue
      BY <1>2, <2>1 DEF FinishInv
    <3> QED BY <1>9, <2>4, <3>1 DEF AttemptDocs
  <2>6. FinishInv(c)'
    BY <1>1, <1>2, <1>9, <2>1, <2>3, <2>5, FinishGoes
  <2>7. Active(c)
    BY <1>9 DEF Active, Replies
  <2> QED BY <1>3, <1>9, <2>2, <2>6, <2>7
<1>10. CASE pc[c] = "save" /\ Moves(c, "saveQA") /\ d.ongoing
  <2>1. /\ pc'[c] = "saveQA" /\ req' = req /\ req[c].kind # "finish"
        /\ a \in Attempts /\ d # None
    BY <1>1, <1>10 DEF Moves, Control, HoldsAttempt, Creates
  <2>2. ~d.total
    <3>1. Closed(d)
      BY <2>1 DEF VersionsInv
    <3> QED BY <1>10, <2>1, <3>1 DEF WaitInv, MarkedInv, Closed
  <2>3. KindInv(c)' /\ CurrentInv(c)'
    BY <1>1, <2>1, <2>2 DEF KindInv, CurrentInv
  <2>4. Active(c)
    BY <1>10 DEF Active, Replies
  <2> QED BY <1>3, <1>10, <2>1, <2>3, <2>4
<1>11. CASE pc[c] = "capture" /\ Moves(c, "captureWrite") /\ seen'[c] = d
  <2>1. pc'[c] = "captureWrite" /\ req' = req
    BY <1>11 DEF Moves
  <2>2. req[c].kind # "finish"
    BY <1>2, <1>11 DEF KindInv, Wrote
  <2>3. KindInv(c)' /\ CurrentInv(c)'
    BY <1>1, <1>11, <2>1, <2>2 DEF KindInv, CurrentInv, Follows
  <2>4. Active(c)
    BY <1>11 DEF Active, Replies
  <2> QED BY <1>3, <1>11, <2>2, <2>3, <2>4
<1>12. Active(c)
  BY <1>1, ReadActive
<1>13. CASE pc[c] = "tallyWrite" /\ Moves(c, AfterProcess(c))
  BY <1>7, <1>13 DEF AfterProcess
<1>14. CASE pc[c] = "markTotal" /\ Moves(c, IF req[c].kind = "finish" /\ Timed THEN "clock" ELSE "ok")
  BY <1>8, <1>14
<1>15. CASE pc[c] = "tally" /\ Moves(c, "tallyWrite")
  BY <1>7, <1>15
<1>16. CASE pc[c] = "markCount" /\ Moves(c, "markTotal")
  BY <1>8, <1>16
<1> QED BY <1>1, <1>4, <1>5, <1>6, <1>9, <1>10, <1>11, <1>12, <1>13, <1>14, <1>15, <1>16, ReadShape

LEMMA WaitOfDetail ==
  ASSUME OwnerInv, OwnerInv', WaitInv, NEW c \in Calls, WritesDetail(c)
  PROVE  WaitInv'
<1> DEFINE a == req[c].att
           d == doc[a]
<1>1. /\ Type /\ Control /\ Control' /\ UNCHANGED <<doc, overdue>> /\ a \in Attempts
      /\ \A b \in Attempts \ {a} : detail'[b] = detail[b]
      /\ pc[c] \in {"detail", "gradeDetail", "markDetail", "saveQA"}
  BY DetailShape DEF OwnerInv
<1>2. KindInv(c) /\ CurrentInv(c) /\ (req[c].kind = "finish" => FinishInv(c)) /\ Active(c) /\ d # None
  BY <1>1 DEF WaitInv, Active, Replies, Control, HoldsAttempt
<1>3. /\ \A b \in Attempts : /\ doc[b] # None => doc'[b] # None
                             /\ doc'[b] # None => (doc'[b].total <=> doc'[b].score # None)
      /\ \A b \in Attempts \ {a} :
            doc[b] # None => Untouched(doc[b], doc'[b]) /\ detail'[b] = detail[b]
      /\ Steady(d, doc'[a])
  BY <1>1 DEF WaitInv, MarkedInv, Untouched, Flags, Steady
<1>4. ASSUME NEW step, Moves(c, step), step # "idle",
             d.score \notin {None, c} => SteadyDetail(detail[a], detail'[a]),
             KindInv(c)', CurrentInv(c)', req[c].kind = "finish" => FinishInv(c)'
      PROVE  WaitInv'
  <2>1. req' = req
    BY <1>4 DEF Moves
  <2> QED BY <1>1, <1>2, <1>3, <1>4, <2>1, WaitGoes
<1>5. CASE pc[c] = "detail" /\ Moves(c, "link")
  <2>1. pc'[c] = "link" /\ req' = req /\ req[c].kind # "finish"
    BY <1>1, <1>5 DEF Moves, Control, Creates
  <2>2. KindInv(c)' /\ CurrentInv(c)'
    BY <2>1 DEF KindInv, CurrentInv
  <2>3. d.score = None
    BY <1>1, <1>2, <1>5 DEF CurrentInv, WaitInv, MarkedInv
  <2> QED BY <1>4, <1>5, <2>1, <2>2, <2>3
<1>6. CASE /\ pc[c] = "gradeDetail" /\ Moves(c, "gradeBack") /\ seen'[c] = seen[c]
           /\ detail'[a] # None /\ detail'[a].qa = c
  <2>1. pc'[c] = "gradeBack" /\ req' = req /\ req[c].kind = "finish"
    BY <1>2, <1>6 DEF Moves, KindInv
  <2>2. KindInv(c)' /\ CurrentInv(c)'
    BY <1>1, <1>2, <1>6, <2>1 DEF KindInv, CurrentInv, Wrote
  <2>3. d.score = c
    BY <1>2, <1>6, <2>1 DEF FinishInv, Wrote
  <2>4. FinishInv(c)'
    BY <1>1, <1>2, <1>6, <2>1, <2>3 DEF FinishInv, Wrote, Detailed, PutBack, Done, DetailDone
  <2> QED BY <1>4, <1>6, <2>2, <2>3, <2>4
<1>7. CASE /\ pc[c] = "markDetail" /\ Moves(c, "markCount")
           /\ detail[a] # None =>
                detail'[a] # None /\ detail'[a].qa = detail[a].qa /\ ~detail'[a].abandoned
  <2>1. pc'[c] = "markCount" /\ req' = req
    BY <1>7 DEF Moves
  <2>2. KindInv(c)' /\ CurrentInv(c)'
    BY <2>1 DEF KindInv, CurrentInv, Wrote
  <2>3. req[c].kind = "finish" => FinishInv(c)'
    BY <1>1, <1>2, <1>7, <2>1 DEF FinishInv, Wrote, Detailed, PutBack, Done, DetailDone
  <2>4. SteadyDetail(detail[a], detail'[a])
    BY <1>7 DEF SteadyDetail
  <2> QED BY <1>4, <1>7, <2>2, <2>3, <2>4
<1>8. CASE pc[c] = "saveQA" /\ Moves(c, "ok")
  <2>1. pc'[c] = "ok" /\ req' = req
    BY <1>8 DEF Moves
  <2>2. req[c].kind # "finish"
    BY <1>2, <1>8 DEF KindInv, Wrote
  <2>3. KindInv(c)' /\ CurrentInv(c)'
    BY <2>1, <2>2 DEF KindInv, CurrentInv
  <2>4. d.score = None
    BY <1>1, <1>2, <1>8 DEF CurrentInv, WaitInv, MarkedInv
  <2> QED BY <1>4, <1>8, <2>2, <2>3, <2>4
<1> QED BY <1>1, <1>5, <1>6, <1>7, <1>8, DetailShape

(* What is left to show of a step that writes attempt e.                   *)
LEMMA WaitStored ==
  ASSUME OwnerInv, WaitInv, NEW c \in Calls, NEW step, Moves(c, step), Active(c), step # "idle",
         NEW e \in AttemptDocs, Stored(c, e), e.total <=> e.score # None,
         doc[req[c].att].score \notin {None, c} => Steady(doc[req[c].att], e),
         KindInv(c)', CurrentInv(c)', req[c].kind = "finish" => FinishInv(c)'
  PROVE  WaitInv'
<1> DEFINE a == req[c].att
<1>1. /\ req' = req /\ a \in Attempts /\ doc'[a] = e /\ e # None /\ UNCHANGED <<detail, overdue>>
      /\ \A b \in Attempts \ {a} : doc'[b] = doc[b]
  BY DEF Stored, Moves
<1>2. \A b \in Attempts : /\ doc[b] # None => doc'[b] # None
                          /\ doc'[b] # None => (doc'[b].total <=> doc'[b].score # None)
  BY <1>1 DEF WaitInv, MarkedInv
<1>3. /\ \A b \in Attempts \ {a} :
            doc[b] # None => Untouched(doc[b], doc'[b]) /\ detail'[b] = detail[b]
      /\ SteadyDetail(detail[a], detail'[a])
  BY <1>1 DEF Untouched, Flags, SteadyDetail
<1> QED BY <1>1, <1>2, <1>3, WaitGoes

LEMMA WaitOfFlags ==
  ASSUME OwnerInv, OwnerInv', WaitInv, NEW c \in Calls,
         LinkDetail(c) \/ MarkPending(c) \/ MarkDone(c) \/ ClockWrite(c)
  PROVE  WaitInv'
<1> DEFINE a == req[c].att
           d == doc[a]
<1>1. Type /\ Control /\ Control'
  BY DEF OwnerInv
<1>2. pc[c] \in {"link", "pend", "mark", "clockWrite"}
  BY DEF LinkDetail, MarkPending, MarkDone, ClockWrite
<1>3. /\ a \in Attempts /\ d # None /\ Active(c) /\ (d.total <=> d.score # None)
      /\ KindInv(c) /\ CurrentInv(c) /\ (req[c].kind = "finish" => FinishInv(c))
  BY <1>1, <1>2 DEF WaitInv, Active, Replies, Control, HoldsAttempt, MarkedInv
<1>4. CASE LinkDetail(c)
  <2>1. PICK e \in AttemptDocs :
          /\ Stored(c, e) /\ pc[c] = "link" /\ Moves(c, "ok") /\ Alike(d, e) /\ Flags(d, e) /\ e.linked
    BY <1>1, <1>4, LinkShape
  <2>2. pc'[c] = "ok" /\ req' = req /\ req[c].kind # "finish"
    BY <1>1, <2>1 DEF Moves, Control, Creates
  <2>3. KindInv(c)' /\ CurrentInv(c)'
    BY <2>2 DEF KindInv, CurrentInv
  <2>4. Steady(d, e) /\ (e.total <=> e.score # None)
    BY <1>3, <2>1 DEF Alike, Flags, Steady
  <2> QED BY <1>3, <2>1, <2>2, <2>3, <2>4, WaitStored
<1>5. CASE MarkPending(c)
  <2>1. PICK e \in AttemptDocs :
          /\ Stored(c, e) /\ pc[c] = "pend" /\ Moves(c, "error") /\ Alike(d, e)
    BY <1>1, <1>5, PendShape
  <2>2. pc'[c] = "error" /\ req' = req /\ req[c].kind = "finish" /\ overdue' = overdue
    BY <1>3, <2>1 DEF Moves, KindInv, Stored
  <2>3. KindInv(c)' /\ CurrentInv(c)'
    BY <2>2 DEF KindInv, CurrentInv
  <2>4. FinishInv(c)'
    BY <1>3, <2>2 DEF FinishInv, Wrote, Detailed, PutBack, Done, DetailDone
  <2>5. d.score = c
    BY <1>3, <2>1, <2>2 DEF FinishInv, Wrote
  <2>6. e.total <=> e.score # None
    BY <1>3, <2>1 DEF Alike
  <2> QED BY <1>3, <2>1, <2>2, <2>3, <2>4, <2>5, <2>6, WaitStored
<1>6. CASE MarkDone(c)
  <2>1. PICK e \in AttemptDocs :
          /\ Stored(c, e) /\ pc[c] = "mark" /\ Alike(d, e) /\ e.linked = d.linked
          /\ e.evaluated = d.evaluated /\ e.over = d.over /\ e.late = d.late
          /\ \/ Moves(c, "markDetail") /\ ~e.abandoned
             \/ Moves(c, "error") /\ e.abandoned = d.abandoned
    BY <1>1, <1>6, MarkShape
  <2>2. Steady(d, e) /\ (e.total <=> e.score # None)
    BY <1>3, <2>1 DEF Alike, Steady
  <2>3. UNCHANGED <<detail, overdue>> /\ doc'[a] = e
    BY <2>1 DEF Stored
  <2>4. CASE Moves(c, "markDetail") /\ ~e.abandoned
    <3>1. pc'[c] = "markDetail" /\ req' = req
      BY <2>4 DEF Moves
    <3>2. KindInv(c)' /\ CurrentInv(c)'
      BY <3>1 DEF KindInv, CurrentInv, Wrote
    <3>3. req[c].kind = "finish" => FinishInv(c)'
      BY <1>3, <2>1, <2>3, <2>4, <3>1
         DEF FinishInv, Wrote, Detailed, PutBack, Done, DetailDone, Alike
    <3> QED BY <1>3, <2>1, <2>2, <2>4, <3>2, <3>3, WaitStored
  <2>5. CASE Moves(c, "error")
    <3>1. pc'[c] = "error" /\ req' = req
      BY <2>5 DEF Moves
    <3>2. KindInv(c)' /\ CurrentInv(c)'
      BY <3>1 DEF KindInv, CurrentInv
    <3>3. req[c].kind = "finish" => FinishInv(c)'
      BY <1>3, <2>3, <3>1 DEF FinishInv, Wrote, Detailed, PutBack, Done, DetailDone
    <3> QED BY <1>3, <2>1, <2>2, <2>5, <3>2, <3>3, WaitStored
  <2> QED BY <2>1, <2>4, <2>5
<1>7. CASE ClockWrite(c)
  <2>1. PICK e \in AttemptDocs :
          /\ Stored(c, e) /\ pc[c] = "clockWrite" /\ Moves(c, "ok") /\ Alike(d, e) /\ e.linked = d.linked
          /\ e.abandoned = d.abandoned /\ e.evaluated = d.evaluated
          /\ e.late = seen[c].late /\ (e.over => d.over /\ ~seen[c].over)
    BY <1>1, <1>7, ClockShape
  <2>2. /\ pc'[c] = "ok" /\ req' = req /\ req[c].kind = "finish"
        /\ UNCHANGED <<detail, overdue>> /\ doc'[a] = e
    BY <1>3, <2>1 DEF Moves, KindInv, Stored
  <2>3. KindInv(c)' /\ CurrentInv(c)'
    BY <2>2 DEF KindInv, CurrentInv, Wrote
  <2>4. FinishInv(c)'
    BY <1>3, <2>1, <2>2 DEF FinishInv, Wrote, Detailed, PutBack, Done, DetailDone, Alike
  <2>5. d.score = c
    BY <1>3, <2>1, <2>2 DEF FinishInv, Wrote, Detailed
  <2>6. e.total <=> e.score # None
    BY <1>3, <2>1 DEF Alike
  <2> QED BY <1>3, <2>1, <2>2, <2>3, <2>4, <2>5, <2>6, WaitStored
<1> QED BY <1>4, <1>5, <1>6, <1>7

LEMMA WaitOfMarks ==
  ASSUME OwnerInv, OwnerInv', VersionsInv, WaitInv, NEW c \in Calls,
         GradeWrite(c) \/ GradeBack(c) \/ CaptureWrite(c)
  PROVE  WaitInv'
<1> DEFINE a == req[c].att
           d == doc[a]
           s == seen[c]
<1>1. Type /\ Control /\ Control'
  BY DEF OwnerInv
<1>2. pc[c] \in {"grade", "gradeBack", "captureWrite"}
  BY DEF GradeWrite, GradeBack, CaptureWrite
<1>3. /\ a \in Attempts /\ d # None /\ Active(c) /\ (d.total <=> d.score # None)
      /\ KindInv(c) /\ CurrentInv(c) /\ (req[c].kind = "finish" => FinishInv(c))
  BY <1>1, <1>2 DEF WaitInv, Active, Replies, Control, HoldsAttempt, MarkedInv
<1>4. CASE GradeWrite(c)
  <2>1. PICK e \in AttemptDocs : \E r \in AttemptDocs :
         /\ Stored(c, e) /\ pc[c] = "grade" /\ Moves(c, "gradeDetail") /\ seen'[c] = r
         /\ e.user = d.user /\ e.started = d.started /\ e.late = d.late
         /\ e.score = c /\ ~e.ongoing /\ e.total
         /\ Alike(e, r) /\ r.evaluated = e.evaluated /\ r.over = e.over /\ r.late = e.late
         /\ (r.abandoned => e.abandoned)
    BY <1>1, <1>4, GradeShape
  <2>2. Follows(e, seen'[c])
    BY <2>1 DEF Follows, Alike
  <2>3. /\ pc'[c] = "gradeDetail" /\ req' = req /\ req[c].kind = "finish"
        /\ UNCHANGED <<detail, overdue>> /\ doc'[a] = e
    BY <1>3, <2>1 DEF Moves, KindInv, Stored
  <2>4. KindInv(c)' /\ CurrentInv(c)'
    BY <2>2, <2>3 DEF KindInv, CurrentInv, Wrote
  <2>5. FinishInv(c)'
    BY <1>3, <2>1, <2>3 DEF FinishInv, Wrote, Detailed, PutBack, Done, DetailDone
  <2>6. d.score = None
    BY <1>3, <2>1 DEF CurrentInv
  <2>7. e.total <=> e.score # None
    BY <2>1, NoneAssumption DEF NoneAssumption
  <2> QED BY <1>3, <2>1, <2>3, <2>4, <2>5, <2>6, <2>7, WaitStored
<1>5. CASE GradeBack(c)
  <2>1. PICK e \in AttemptDocs :
          /\ Stored(c, e) /\ pc[c] = "gradeBack" /\ Alike(s, e) /\ Flags(s, e) /\ e.linked
          /\ Moves(c, IF ~AutoEvaluation THEN "pend"
                     ELSE IF s.abandoned THEN AfterProcess(c) ELSE "tally")
    BY <1>1, <1>5, BackShape
  <2>2. PICK step \in {"pend", "mark", "clock", "ok", "tally"} :
          Moves(c, step) /\ (step \in {"clock", "ok"} => req[c].quit) /\ (step = "ok" => ~Timed)
    BY <2>1 DEF AfterProcess
  <2>3. /\ pc'[c] = step /\ req' = req /\ req[c].kind = "finish"
        /\ UNCHANGED <<detail, overdue>> /\ doc'[a] = e
    BY <1>3, <2>1, <2>2 DEF Moves, KindInv, Stored
  <2>4. KindInv(c)' /\ CurrentInv(c)'
    BY <2>2, <2>3 DEF KindInv, CurrentInv, Wrote
  <2>5. d.score = c /\ Follows(d, s)
    BY <1>3, <2>1, <2>3 DEF FinishInv, Wrote, Detailed, CurrentInv
  <2>6. e.score = c /\ (e.total <=> e.score # None)
    BY <1>3, <2>1, <2>5 DEF Follows, Alike
  <2>7. detail[a] # None /\ detail[a].qa = c
    BY <1>3, <2>1, <2>3 DEF FinishInv, Wrote, Detailed
  <2>8. FinishInv(c)'
    BY <1>3, <2>1, <2>2, <2>3, <2>6, <2>7 DEF FinishInv, Wrote, Detailed, PutBack, Done, DetailDone
  <2> QED BY <1>3, <2>1, <2>2, <2>4, <2>5, <2>6, <2>8, WaitStored
<1>6. CASE CaptureWrite(c)
  <2>1. PICK e \in AttemptDocs :
         /\ Stored(c, e) /\ pc[c] = "captureWrite" /\ Moves(c, "ok") /\ Flags(s, e)
         /\ e.user = s.user /\ e.started = s.started /\ e.score = s.score /\ e.ongoing = s.ongoing
         /\ e.total = (s.total \/ d.total) /\ e.linked = (s.linked \/ d.linked)
    BY <1>1, <1>6, CaptureShape
  <2>2. pc'[c] = "ok" /\ req' = req
    BY <2>1 DEF Moves
  <2>3. req[c].kind # "finish"
    BY <1>3, <2>1 DEF KindInv, Wrote
  <2>4. KindInv(c)' /\ CurrentInv(c)'
    BY <2>2, <2>3 DEF KindInv, CurrentInv
  <2>5. Follows(d, s)
    BY <1>3, <2>1 DEF CurrentInv
  <2>6. Steady(d, e) /\ (e.total <=> e.score # None)
    BY <1>3, <2>1, <2>5 DEF Follows, Flags, Steady
  <2> QED BY <1>3, <2>1, <2>2, <2>3, <2>4, <2>6, WaitStored
<1> QED BY <1>4, <1>5, <1>6

LEMMA WaitOfReset ==
  ASSUME OwnerInv, WaitInv, NEW c \in Calls, ResetIp(c)
  PROVE  WaitInv'
<1>1. Type /\ Control
  BY DEF OwnerInv
<1>2. /\ pc[c] = "resetIp" /\ Moves(c, "ok") /\ UNCHANGED <<detail, overdue>>
      /\ \A b \in Attempts : doc[b] # None => doc'[b] # None /\ Untouched(doc[b], doc'[b])
      /\ \A b \in Attempts : doc[b] = None => doc'[b] = None
  BY <1>1, ResetShape DEF Untouched
<1>3. pc'[c] = "ok" /\ req' = req /\ Active(c)
  BY <1>2 DEF Moves, Active, Replies
<1>4. req[c].kind # "finish"
  BY <1>2 DEF WaitInv, KindInv, Wrote
<1>5. KindInv(c)' /\ CurrentInv(c)'
  BY <1>3, <1>4 DEF KindInv, CurrentInv
<1>6. \A b \in Attempts : /\ doc[b] # None => doc'[b] # None
                          /\ doc'[b] # None => (doc'[b].total <=> doc'[b].score # None)
  BY <1>2 DEF WaitInv, MarkedInv, Untouched
<1>7. ASSUME req[c].att \in Attempts
      PROVE  /\ Steady(doc[req[c].att], doc'[req[c].att])
             /\ SteadyDetail(detail[req[c].att], detail'[req[c].att])
  <2>1. req[c].att # None
    BY <1>7, NoneAssumption DEF NoneAssumption
  <2>2. doc[req[c].att] # None
    BY <1>2, <2>1 DEF WaitInv, AloneInv
  <2> QED BY <1>2, <1>7, <2>2 DEF Untouched, Flags, Steady, SteadyDetail
<1> QED BY <1>2, <1>3, <1>4, <1>5, <1>6, <1>7, WaitGoes

(* A new attempt has no call on it but the one that created it.            *)
LEMMA WaitOfCreate ==
  ASSUME OwnerInv, WaitInv, NEW c \in Calls, CreateAttempt(c)
  PROVE  WaitInv'
<1>1. Type /\ Control
  BY DEF OwnerInv
<1>2. PICK a \in Attempts, e \in AttemptDocs :
         /\ pc[c] = "create" /\ doc[a] = None /\ doc' = [doc EXCEPT ![a] = e] /\ e # None
         /\ ~e.total /\ e.score = None
         /\ pc'[c] = "detail" /\ req'[c].att = a
         /\ req'[c].kind = req[c].kind
         /\ \A x \in Calls \ {c} : pc'[x] = pc[x] /\ seen'[x] = seen[x] /\ req'[x] = req[x]
         /\ UNCHANGED <<detail, overdue>>
  BY <1>1, CreateShape
<1>3. doc'[a] = e /\ \A b \in Attempts \ {a} : doc'[b] = doc[b]
  BY <1>1, <1>2 DEF Type
<1>4. req[c].kind # "finish" /\ a # None
  BY <1>1, <1>2, NoneAssumption DEF Control, Creates, NoneAssumption
<1>5. KindInv(c)' /\ CurrentInv(c)'
  BY <1>2, <1>3, <1>4 DEF KindInv, CurrentInv
<1>6. ASSUME NEW x \in Calls, x # c, pc'[x] # "idle"
      PROVE  /\ KindInv(x)' /\ CurrentInv(x)' /\ (req'[x].kind = "finish" => FinishInv(x)')
             /\ req'[x].att # None => req'[x].att \in Attempts \ {a} /\ doc'[req'[x].att] # None
             /\ req'[x].att = None => req'[x].kind # "finish"
  <2>1. /\ pc'[x] = pc[x] /\ seen'[x] = seen[x] /\ req'[x] = req[x] /\ UNCHANGED <<detail, overdue>>
        /\ KindInv(x) /\ CurrentInv(x) /\ (req[x].kind = "finish" => FinishInv(x))
    BY <1>2, <1>6 DEF WaitInv
  <2>2. /\ req[x].att # None => req[x].att \in Attempts /\ doc[req[x].att] # None
        /\ req[x].att = None => req[x].kind # "finish" /\ pc[x] \notin HoldsAttempt
    BY <1>1, <1>6, <2>1, NoneAssumption DEF WaitInv, AloneInv, Control, NoneAssumption
  <2>3. req[x].att # None => req[x].att \in Attempts \ {a} /\ doc'[req[x].att] = doc[req[x].att]
    BY <1>2, <1>3, <2>2
  <2>4. KindInv(x)'
    BY <2>1 DEF KindInv
  <2>5. CurrentInv(x)'
    BY <2>1, <2>2, <2>3 DEF CurrentInv, HoldsAttempt
  <2>6. req[x].kind = "finish" => FinishInv(x)'
    BY <2>1, <2>2, <2>3 DEF FinishInv
  <2> QED BY <2>1, <2>2, <2>3, <2>4, <2>5, <2>6
<1>7. MarkedInv'
  BY <1>2, <1>3 DEF WaitInv, MarkedInv
<1>8. AloneInv'
  <2>1. \A x \in Calls : pc'[x] # "idle" /\ req'[x].att # None =>
          req'[x].att \in Attempts /\ doc'[req'[x].att] # None
    BY <1>2, <1>3, <1>6
  <2>2. \A x \in Calls : pc'[x] # "idle" /\ req'[x].att = None => req'[x].kind # "finish"
    BY <1>2, <1>4, <1>6
  <2>3. ASSUME NEW x \in Calls, NEW y \in Calls, Active(x)', Active(y)', req'[x].att = req'[y].att
        PROVE  x = y \/ req'[x].att = None
    <3>1. CASE x # c /\ y # c
      BY <1>2, <2>3, <3>1 DEF WaitInv, AloneInv, Active
    <3>2. CASE x = c \/ y = c
      BY <1>2, <1>4, <1>6, <2>3, <3>2 DEF Active
    <3> QED BY <3>1, <3>2
  <2> QED BY <2>1, <2>2, <2>3 DEF AloneInv
<1> QED BY <1>2, <1>4, <1>5, <1>6, <1>7, <1>8 DEF WaitInv

(* A client that waits calls only on attempts that nothing is working on.  *)
LEMMA WaitOfCall ==
  ASSUME OneAtATime, OwnerInv, WaitInv, NEW c \in Calls, Call(c)
  PROVE  WaitInv'
<1>1. Type /\ Control
  BY DEF OwnerInv
<1>2. PICK r \in Requests :
         /\ pc[c] = "idle" /\ pc'[c] = r.kind /\ req'[c] = r
         /\ \A x \in Calls \ {c} : pc'[x] = pc[x] /\ req'[x] = req[x]
         /\ UNCHANGED <<doc, detail, overdue, seen>>
         /\ r.kind \in {"start", "resetIp"} => r.att = None
         /\ r.kind \notin {"start", "resetIp"} => r.att \in Attempts /\ doc[r.att] # None
         /\ ClientWaits(r)
         /\ r.overdue => r.att \in overdue
  BY <1>1, CallShape
<1>3. r.kind \in AllKinds
  BY DEF Requests
<1>4. KindInv(c)' /\ CurrentInv(c)'
  BY <1>2, <1>3 DEF KindInv, CurrentInv, AllKinds
<1>5. r.kind = "finish" => FinishInv(c)'
  BY <1>2 DEF FinishInv, Wrote, Detailed, PutBack, Done, DetailDone
<1>6. ASSUME NEW x \in Calls, x # c, pc'[x] # "idle"
      PROVE  /\ KindInv(x)' /\ CurrentInv(x)' /\ (req'[x].kind = "finish" => FinishInv(x)')
             /\ req'[x].att # None => req'[x].att \in Attempts /\ doc'[req'[x].att] # None
             /\ req'[x].att = None => req'[x].kind # "finish"
  <2>1. /\ pc'[x] = pc[x] /\ seen'[x] = seen[x] /\ req'[x] = req[x]
        /\ UNCHANGED <<doc, detail, overdue>>
        /\ KindInv(x) /\ CurrentInv(x) /\ (req[x].kind = "finish" => FinishInv(x))
    BY <1>2, <1>6 DEF WaitInv
  <2>2. KindInv(x)' /\ CurrentInv(x)' /\ (req'[x].kind = "finish" => FinishInv(x)')
    BY <2>1 DEF KindInv, CurrentInv, FinishInv
  <2> QED BY <1>6, <2>1, <2>2 DEF WaitInv, AloneInv
<1>7. MarkedInv'
  BY <1>2 DEF WaitInv, MarkedInv
<1>8. AloneInv'
  <2>1. \A x \in Calls : pc'[x] # "idle" /\ req'[x].att # None =>
          req'[x].att \in Attempts /\ doc'[req'[x].att] # None
    BY <1>2, <1>6
  <2>2. \A x \in Calls : pc'[x] # "idle" /\ req'[x].att = None => req'[x].kind # "finish"
    BY <1>2, <1>6, NoneAssumption DEF NoneAssumption
  <2>3. ASSUME NEW x \in Calls, NEW y \in Calls, Active(x)', Active(y)', req'[x].att = req'[y].att
        PROVE  x = y \/ req'[x].att = None
    <3>1. CASE x # c /\ y # c
      BY <1>2, <2>3, <3>1 DEF WaitInv, AloneInv, Active
    <3>2. \A z \in Calls \ {c} : Active(z)' => req'[z].att # r.att \/ r.att = None
      BY <1>2 DEF Active, ActiveOn, ClientWaits
    <3> QED BY <1>2, <2>3, <3>1, <3>2
  <2> QED BY <2>1, <2>2, <2>3 DEF AloneInv
<1> QED BY <1>2, <1>4, <1>5, <1>6, <1>7, <1>8 DEF WaitInv

LEMMA WaitStep ==
  ASSUME OneAtATime
  PROVE  OwnerInv /\ OwnerInv' /\ VersionsInv /\ WaitInv /\ [Next]_vars => WaitInv'
<1> SUFFICES ASSUME OwnerInv, OwnerInv', VersionsInv, WaitInv, [Next]_vars PROVE WaitInv'
  OBVIOUS
<1>1. ASSUME NEW c \in Calls, WritesDoc(c) PROVE WaitInv'
  BY <1>1, WaitOfFlags, WaitOfMarks DEF WritesDoc
<1>2. CASE UNCHANGED <<doc, detail, joined, req, pc, seen>> /\ overdue \subseteq overdue'
  <2>1. AloneInv' /\ MarkedInv'
    BY <1>2 DEF WaitInv, AloneInv, MarkedInv, Active
  <2>2. ASSUME NEW c \in Calls, pc'[c] # "idle"
        PROVE  KindInv(c)' /\ CurrentInv(c)' /\ (req'[c].kind = "finish" => FinishInv(c)')
    <3>1. KindInv(c) /\ CurrentInv(c) /\ (req[c].kind = "finish" => FinishInv(c))
      BY <1>2, <2>2 DEF WaitInv
    <3> QED BY <1>2, <3>1 DEF KindInv, CurrentInv, FinishInv
  <2> QED BY <2>1, <2>2 DEF WaitInv
<1> QED BY <1>1, <1>2, WaitOfCall, WaitOfReads, WaitOfDetail, WaitOfCreate, WaitOfReset, StepCases

LEMMA InitWait == Init => WaitInv
<1> SUFFICES ASSUME Init PROVE WaitInv
  OBVIOUS
<1>1. \A c \in Calls : pc[c] = "idle"
  BY DEF Init
<1>2. ASSUME NEW a \in Attempts, doc[a] # None PROVE doc[a].total <=> doc[a].score # None
  BY <1>2 DEF Init, NewAttempt
<1> QED BY <1>1, <1>2 DEF WaitInv, AloneInv, MarkedInv, Active

LEMMA WaitInvariant == OneAtATime => (Spec => [](OwnerInv /\ VersionsInv /\ WaitInv))
<1> SUFFICES ASSUME OneAtATime PROVE Spec => [](OwnerInv /\ VersionsInv /\ WaitInv)
  OBVIOUS
<1>1. Init => OwnerInv /\ VersionsInv /\ WaitInv
  BY InitOwnerInv, InitVersions, InitWait
<1>2. OwnerInv /\ VersionsInv /\ WaitInv /\ [Next]_vars => (OwnerInv /\ VersionsInv /\ WaitInv)'
  BY OwnerStep, VersionsStep, WaitStep
<1> QED BY <1>1, <1>2, PTL DEF Spec

(* A hand-in that was answered is complete, and stays so, whatever the     *)
(* clients do that wait for one answer before they call again (finish and  *)
(* process, with every write that one of the two makes).                   *)
THEOREM HandInsComplete ==
  ASSUME OneAtATime
  PROVE  Spec => []HandInComplete
<1>1. OwnerInv /\ VersionsInv /\ WaitInv => HandInComplete
  <2> SUFFICES ASSUME OwnerInv, VersionsInv, WaitInv, NEW c \in Calls, HandedIn(c)
               PROVE  LET d == doc[req[c].att]  t == detail[req[c].att] IN
                      /\ d.score = c /\ Graded(d) /\ ~d.abandoned /\ d.linked
                      /\ t.qa = c /\ ~t.abandoned
                      /\ Timed => ~d.over /\ (req[c].overdue => d.late)
    BY DEF HandInComplete
  <2>1. pc[c] = "ok" /\ req[c].kind = "finish" /\ ~req[c].quit
    BY DEF HandedIn, Answered
  <2>2. FinishInv(c) /\ req[c].att \in Attempts /\ doc[req[c].att] # None
    BY <2>1 DEF WaitInv, AloneInv
  <2>3. pc[c] \in Wrote /\ pc[c] \in Detailed /\ pc[c] \in PutBack /\ pc[c] \in Done /\ pc[c] \in DetailDone
    BY <2>1 DEF Wrote, Detailed, PutBack, Done, DetailDone
  <2>4. doc[req[c].att].score = c /\ c # None
    BY <2>2, <2>3, NoneAssumption DEF FinishInv, NoneAssumption
  <2>5. Graded(doc[req[c].att])
    BY <2>2, <2>4 DEF Graded, VersionsInv, Closed
  <2> QED BY <2>1, <2>2, <2>3, <2>4, <2>5 DEF FinishInv
<1> QED BY <1>1, WaitInvariant, PTL

(* No step changes the marks of a graded attempt or reopens it.            *)
LEMMA GradedStep ==
  ASSUME OwnerInv, VersionsInv, WaitInv, [Next]_vars, NEW a \in Attempts, Graded(doc[a])
  PROVE  doc'[a].score = doc[a].score /\ ~doc'[a].ongoing
<1>1. Type /\ Control
  BY DEF OwnerInv
<1>2. doc[a] # None /\ ~doc[a].ongoing /\ doc[a].total /\ doc[a].score # None
  BY DEF Graded, WaitInv, MarkedInv
<1>3. ASSUME NEW c \in Calls, NEW e \in AttemptDocs, Stored(c, e),
             req[c].att = a => e.score = doc[a].score /\ ~e.ongoing
      PROVE  doc'[a].score = doc[a].score /\ ~doc'[a].ongoing
  BY <1>2, <1>3 DEF Stored
<1>4. ASSUME NEW c \in Calls, Call(c) \/ Reads(c) \/ WritesDetail(c)
      PROVE  doc' = doc
  BY <1>1, <1>4, CallShape, ReadShape, DetailShape
<1>5. ASSUME NEW c \in Calls, LinkDetail(c)
      PROVE  doc'[a].score = doc[a].score /\ ~doc'[a].ongoing
  BY <1>1, <1>2, <1>3, <1>5, LinkShape DEF Alike
<1>6. ASSUME NEW c \in Calls, MarkPending(c)
      PROVE  doc'[a].score = doc[a].score /\ ~doc'[a].ongoing
  BY <1>1, <1>2, <1>3, <1>6, PendShape DEF Alike
<1>7. ASSUME NEW c \in Calls, MarkDone(c)
      PROVE  doc'[a].score = doc[a].score /\ ~doc'[a].ongoing
  BY <1>1, <1>2, <1>3, <1>7, MarkShape DEF Alike
<1>8. ASSUME NEW c \in Calls, ClockWrite(c)
      PROVE  doc'[a].score = doc[a].score /\ ~doc'[a].ongoing
  BY <1>1, <1>2, <1>3, <1>8, ClockShape DEF Alike
<1>9. ASSUME NEW c \in Calls, GradeWrite(c)
      PROVE  doc'[a].score = doc[a].score /\ ~doc'[a].ongoing
  <2>1. PICK e \in AttemptDocs : Stored(c, e) /\ pc[c] = "grade"
    BY <1>1, <1>9, GradeShape
  <2>2. req[c].att # a
    BY <1>2, <2>1 DEF WaitInv, CurrentInv
  <2> QED BY <1>3, <2>1, <2>2
<1>10. ASSUME NEW c \in Calls, pc[c] \in {"gradeBack", "captureWrite"}, req[c].att = a
       PROVE  seen[c].score = doc[a].score /\ ~seen[c].ongoing
  <2>1. Closed(seen[c]) /\ Follows(doc[a], seen[c])
    BY <1>10 DEF WaitInv, CurrentInv, VersionsInv, WritesBack
  <2> QED BY <1>2, <2>1 DEF Closed, Follows
<1>11. ASSUME NEW c \in Calls, GradeBack(c)
       PROVE  doc'[a].score = doc[a].score /\ ~doc'[a].ongoing
  <2>1. PICK e \in AttemptDocs : Stored(c, e) /\ pc[c] = "gradeBack" /\ Alike(seen[c], e)
    BY <1>1, <1>11, BackShape
  <2> QED BY <1>3, <1>10, <2>1 DEF Alike
<1>12. ASSUME NEW c \in Calls, CaptureWrite(c)
       PROVE  doc'[a].score = doc[a].score /\ ~doc'[a].ongoing
  <2>1. PICK e \in AttemptDocs : /\ Stored(c, e) /\ pc[c] = "captureWrite"
                                 /\ e.score = seen[c].score /\ e.ongoing = seen[c].ongoing
    BY <1>1, <1>12, CaptureShape
  <2> QED BY <1>3, <1>10, <2>1
<1>13. ASSUME NEW c \in Calls, CreateAttempt(c)
       PROVE  doc'[a].score = doc[a].score /\ ~doc'[a].ongoing
  <2>1. PICK b \in Attempts, e \in AttemptDocs : doc[b] = None /\ doc' = [doc EXCEPT ![b] = e]
    BY <1>1, <1>13, CreateShape
  <2> QED BY <1>1, <1>2, <2>1 DEF Type
<1>14. ASSUME NEW c \in Calls, ResetIp(c)
       PROVE  doc'[a].score = doc[a].score /\ ~doc'[a].ongoing
  <2>1. PICK d, e \in AttemptDocs : d = doc[a] /\ e = doc'[a] /\ e.score = d.score /\ (e.ongoing => d.ongoing)
    BY <1>1, <1>2, <1>14, ResetShape
  <2> QED BY <1>2, <2>1
<1>15. ASSUME NEW c \in Calls, WritesDoc(c)
       PROVE  doc'[a].score = doc[a].score /\ ~doc'[a].ongoing
  BY <1>5, <1>6, <1>7, <1>8, <1>9, <1>11, <1>12, <1>15 DEF WritesDoc
<1> QED BY <1>2, <1>4, <1>13, <1>14, <1>15, StepCases

(* "A graded attempt stays graded", whatever the clients do that wait for  *)
(* one answer before they call again (finish, 7854).                       *)
THEOREM GradedStays ==
  ASSUME OneAtATime
  PROVE  Spec => GradedStaysGraded
<1>1. OwnerInv /\ VersionsInv /\ WaitInv /\ [Next]_vars =>
        [\A a \in Attempts : Graded(doc[a]) =>
           doc'[a].score = doc[a].score /\ ~doc'[a].ongoing]_vars
  BY GradedStep
<1> QED BY <1>1, WaitInvariant, PTL DEF Spec, GradedStaysGraded

-----------------------------------------------------------------------------
(* Tests that their author marks                                           *)

(* Automatic marks of a manual test are withheld, or about to be.          *)
ManualInv ==
  \A a \in Attempts : doc[a] # None /\ doc[a].score # None =>
    ~doc[a].evaluated \/ pc[doc[a].score] \in {"gradeDetail", "gradeBack", "pend"}

Unmarked == {"gradeDetail", "gradeBack", "pend"}

(* Attempts keep their marks, and no hand-in of the caller was withheld    *)
(* only because the caller is about to withhold it.                        *)
LEMMA ManualGoes ==
  ASSUME OwnerInv, ManualInv, NEW c \in Calls, \A x \in Calls \ {c} : pc'[x] = pc[x],
         pc[c] \in Unmarked => pc'[c] \in Unmarked,
         \A a \in Attempts : doc'[a] # None /\ doc'[a].score # None =>
            /\ doc[a] # None /\ doc[a].score = doc'[a].score
            /\ doc'[a].evaluated => doc[a].evaluated
  PROVE  ManualInv'
<1> SUFFICES ASSUME NEW a \in Attempts, doc'[a] # None, doc'[a].score # None, doc'[a].evaluated
             PROVE  pc'[doc'[a].score] \in {"gradeDetail", "gradeBack", "pend"}
  BY DEF ManualInv
<1>1. /\ doc[a] # None /\ doc[a].score # None /\ doc[a].score = doc'[a].score
      /\ pc[doc[a].score] \in Unmarked
  BY DEF ManualInv, Unmarked
<1>2. doc[a].score \in Calls
  BY <1>1 DEF OwnerInv, Type, AttemptDocs
<1> QED BY <1>1, <1>2 DEF Unmarked

LEMMA ManualStored ==
  ASSUME OwnerInv, ManualInv, NEW c \in Calls, NEW e \in AttemptDocs, Stored(c, e),
         NEW step, Moves(c, step),
         pc[c] \in Unmarked => step \in Unmarked,
         e.score # None => /\ e.score = doc[req[c].att].score
                           /\ e.evaluated => doc[req[c].att].evaluated
  PROVE  ManualInv'
<1>1. \A a \in Attempts : doc'[a] # None /\ doc'[a].score # None =>
        /\ doc[a] # None /\ doc[a].score = doc'[a].score
        /\ doc'[a].evaluated => doc[a].evaluated
  BY DEF Stored
<1> QED BY <1>1, ManualGoes DEF Moves

LEMMA ManualOfDoc ==
  ASSUME ~AutoEvaluation, OwnerInv, VersionsInv, WaitInv, ManualInv, NEW c \in Calls, WritesDoc(c)
  PROVE  ManualInv'
<1> DEFINE a == req[c].att
           d == doc[a]
<1>1. Type /\ Control
  BY DEF OwnerInv
<1>2. pc[c] # "idle" => CurrentInv(c) /\ KindInv(c) /\ (req[c].kind = "finish" => FinishInv(c))
  BY DEF WaitInv
<1>3. CASE LinkDetail(c)
  <2>1. PICK e \in AttemptDocs : /\ Stored(c, e) /\ pc[c] = "link" /\ Moves(c, "ok")
                                 /\ Alike(d, e) /\ Flags(d, e)
    BY <1>1, <1>3, LinkShape
  <2> QED BY <2>1, ManualStored DEF Alike, Flags, Unmarked
<1>4. CASE MarkDone(c)
  <2>1. PICK e \in AttemptDocs : /\ Stored(c, e) /\ pc[c] = "mark" /\ Alike(d, e)
                                 /\ e.evaluated = d.evaluated
                                 /\ Moves(c, "markDetail") \/ Moves(c, "error")
    BY <1>1, <1>4, MarkShape
  <2> QED BY <2>1, ManualStored DEF Alike, Unmarked
<1>5. CASE ClockWrite(c)
  <2>1. PICK e \in AttemptDocs : /\ Stored(c, e) /\ pc[c] = "clockWrite" /\ Moves(c, "ok")
                                 /\ Alike(d, e) /\ e.evaluated = d.evaluated
    BY <1>1, <1>5, ClockShape
  <2> QED BY <2>1, ManualStored DEF Alike, Unmarked
<1>6. CASE CaptureWrite(c)
  <2>1. PICK e \in AttemptDocs : /\ Stored(c, e) /\ pc[c] = "captureWrite" /\ Moves(c, "ok")
                                 /\ Flags(seen[c], e) /\ e.score = seen[c].score
    BY <1>1, <1>6, CaptureShape
  <2>2. Follows(d, seen[c])
    BY <1>2, <2>1 DEF CurrentInv
  <2> QED BY <2>1, <2>2, ManualStored DEF Follows, Flags, Unmarked
<1>7. CASE MarkPending(c)
  <2>1. PICK e \in AttemptDocs : /\ Stored(c, e) /\ pc[c] = "pend" /\ Moves(c, "error")
                                 /\ Alike(d, e) /\ ~e.evaluated
    BY <1>1, <1>7, PendShape
  <2>2. ASSUME NEW b \in Attempts, doc'[b] # None, doc'[b].score # None, doc'[b].evaluated
        PROVE  pc'[doc'[b].score] \in Unmarked
    <3>1. b # a /\ doc'[b] = doc[b] /\ a \in Attempts
      BY <2>1, <2>2 DEF Stored
    <3>2. /\ doc[b].score \in Calls /\ pc[doc[b].score] \in Unmarked
          /\ req[doc[b].score].att = b
      BY <2>2, <3>1 DEF ManualInv, Unmarked, OwnerInv, StoredFromOwner, FromOwner, Type, AttemptDocs
    <3>3. doc[b].score # c
      BY <3>1, <3>2
    <3> QED BY <2>1, <3>1, <3>2, <3>3 DEF Moves
  <2> QED BY <2>2 DEF ManualInv, Unmarked
<1>8. ASSUME NEW e \in AttemptDocs, Stored(c, e), e.score = c, NEW step \in Unmarked, Moves(c, step)
      PROVE  ManualInv'
  <2>1. ASSUME NEW b \in Attempts, doc'[b] # None, doc'[b].score # None, doc'[b].evaluated
        PROVE  pc'[doc'[b].score] \in Unmarked
    <3>1. CASE doc'[b].score = c
      BY <1>8, <3>1 DEF Moves
    <3>2. CASE doc'[b].score # c
      <4>1. doc'[b] = doc[b]
        BY <1>8, <3>2 DEF Stored
      <4>2. doc[b].score \in Calls /\ pc[doc[b].score] \in Unmarked
        BY <2>1, <4>1 DEF ManualInv, Unmarked, OwnerInv, Type, AttemptDocs
      <4> QED BY <1>8, <3>2, <4>1, <4>2 DEF Moves
    <3> QED BY <3>1, <3>2
  <2> QED BY <2>1 DEF ManualInv, Unmarked
<1>9. CASE GradeWrite(c)
  <2>1. PICK e \in AttemptDocs : Stored(c, e) /\ e.score = c /\ Moves(c, "gradeDetail")
    BY <1>1, <1>9, GradeShape
  <2> QED BY <1>8, <2>1 DEF Unmarked
<1>10. CASE GradeBack(c)
  <2>1. PICK e \in AttemptDocs : /\ Stored(c, e) /\ pc[c] = "gradeBack" /\ Alike(seen[c], e)
                                 /\ Moves(c, "pend")
    BY <1>1, <1>10, BackShape
  <2>2. e.score = c
    BY <2>1 DEF VersionsInv, Alike
  <2> QED BY <1>8, <2>1, <2>2 DEF Unmarked
<1> QED BY <1>3, <1>4, <1>5, <1>6, <1>7, <1>9, <1>10 DEF WritesDoc

LEMMA ManualStep ==
  ASSUME ~AutoEvaluation, ~Failures
  PROVE  OwnerInv /\ VersionsInv /\ WaitInv /\ ManualInv /\ [Next]_vars => ManualInv'
<1> SUFFICES ASSUME OwnerInv, VersionsInv, WaitInv, ManualInv, [Next]_vars PROVE ManualInv'
  OBVIOUS
<1>1. Type /\ Control
  BY DEF OwnerInv
<1>2. ASSUME NEW c \in Calls, doc' = doc, \A x \in Calls \ {c} : pc'[x] = pc[x],
             pc[c] \in Unmarked => pc'[c] \in Unmarked
      PROVE  ManualInv'
  BY <1>2, ManualGoes
<1>3. ASSUME NEW c \in Calls, Reads(c) PROVE ManualInv'
  <2>1. pc[c] \notin Unmarked
    <3>1. CASE StartCheck(c) \/ StartLimit(c) \/ StartLookup(c) \/ FinishLoad(c) \/ StartJoin(c)
      BY <3>1 DEF StartCheck, StartLimit, StartLookup, FinishLoad, StartJoin, Unmarked
    <3>2. CASE Tally(c) \/ MarkCount(c) \/ TallyWrite(c) \/ MarkTotal(c)
      BY <3>2 DEF Tally, MarkCount, TallyWrite, MarkTotal, CountHandIns, StoreCount, Unmarked
    <3>3. CASE ClockRead(c) \/ SaveRead(c) \/ CaptureRead(c)
      BY <3>3 DEF ClockRead, SaveRead, CaptureRead, Unmarked
    <3> QED BY <1>3, <3>1, <3>2, <3>3 DEF Reads, Fail
  <2>2. doc' = doc
    BY <1>1, <1>3, ReadShape
  <2>3. \A x \in Calls \ {c} : pc'[x] = pc[x]
    BY <1>1, <1>3, ReadShape DEF Moves
  <2> QED BY <1>2, <2>1, <2>2, <2>3
<1>4. ASSUME NEW c \in Calls, WritesDetail(c) PROVE ManualInv'
  BY <1>1, <1>2, <1>4, DetailShape DEF Moves, Unmarked
<1>5. ASSUME NEW c \in Calls, Call(c) PROVE ManualInv'
  BY <1>1, <1>2, <1>5, CallShape DEF Unmarked
<1>6. ASSUME NEW c \in Calls, CreateAttempt(c) PROVE ManualInv'
  <2>1. PICK a \in Attempts, e \in AttemptDocs :
         /\ pc[c] = "create" /\ doc[a] = None /\ doc' = [doc EXCEPT ![a] = e] /\ e.score = None
         /\ \A x \in Calls \ {c} : pc'[x] = pc[x]
    BY <1>1, <1>6, CreateShape
  <2>2. doc'[a] = e /\ \A b \in Attempts \ {a} : doc'[b] = doc[b]
    BY <1>1, <2>1 DEF Type
  <2> QED BY <2>1, <2>2, ManualGoes DEF Unmarked
<1>7. ASSUME NEW c \in Calls, ResetIp(c) PROVE ManualInv'
  <2>1. pc[c] = "resetIp" /\ \A x \in Calls \ {c} : pc'[x] = pc[x]
    BY <1>1, <1>7, ResetShape DEF Moves
  <2>2. \A b \in Attempts : doc'[b] # None =>
           doc[b] # None /\ doc'[b].score = doc[b].score /\ doc'[b].evaluated = doc[b].evaluated
    BY <1>1, <1>7, ResetShape DEF Flags
  <2> QED BY <2>1, <2>2, ManualGoes DEF Unmarked
<1>8. ASSUME NEW c \in Calls, WritesDoc(c) PROVE ManualInv'
  BY <1>8, ManualOfDoc
<1>9. CASE UNCHANGED <<doc, detail, joined, req, pc, seen>>
  BY <1>9 DEF ManualInv
<1> QED BY <1>3, <1>4, <1>5, <1>6, <1>7, <1>8, <1>9, StepCases

(* The automatic marks of a test that its author marks do not stay         *)
(* published, when clients wait for answers and no write is lost           *)
(* (markEvaluationPending, which throws after it has withheld them).       *)
THEOREM ManualMarksStayWithheld ==
  ASSUME OneAtATime, ~Failures
  PROVE  Spec => []ManualMarksWithheld
<1>1. CASE AutoEvaluation
  <2>1. ManualMarksWithheld
    BY <1>1 DEF ManualMarksWithheld
  <2> QED BY <2>1, PTL
<1>2. CASE ~AutoEvaluation
  <2>1. Init => OwnerInv /\ VersionsInv /\ WaitInv /\ ManualInv
    <3>1. Init => ManualInv
      BY DEF Init, NewAttempt, ManualInv
    <3> QED BY <3>1, InitOwnerInv, InitVersions, InitWait
  <2>2. OwnerInv /\ VersionsInv /\ WaitInv /\ ManualInv /\ [Next]_vars
          => (OwnerInv /\ VersionsInv /\ WaitInv /\ ManualInv)'
    BY <1>2, OwnerStep, VersionsStep, WaitStep, ManualStep
  <2>3. OwnerInv /\ WaitInv /\ ManualInv => ManualMarksWithheld
    <3> SUFFICES ASSUME OwnerInv, WaitInv, ManualInv, NEW a \in Attempts, Graded(doc[a]), ActiveOn(a) = {}
                 PROVE  ~doc[a].evaluated
      BY DEF ManualMarksWithheld
    <3>1. doc[a] # None /\ doc[a].score # None
      BY DEF Graded, WaitInv, MarkedInv
    <3>2. doc[a].score \in Calls /\ req[doc[a].score].att = a
      BY <3>1 DEF OwnerInv, StoredFromOwner, FromOwner, Type, AttemptDocs
    <3>3. ~Active(doc[a].score)
      BY <3>2 DEF ActiveOn
    <3> QED BY <3>1, <3>3 DEF ManualInv, Active, Replies
  <2> QED BY <2>1, <2>2, <2>3, PTL DEF Spec
<1> QED BY <1>1, <1>2

-----------------------------------------------------------------------------
(* The limit on attempts                                                   *)

(* The attempts of a student that are a hand-in or may become one.         *)
Live(c) == c # None /\ ~req[c].quit /\ pc[c] # "error"

Used(u) == {a \in OwnedBy(u) : doc[a].started /\ (doc[a].ongoing \/ Live(doc[a].score))}

Starting(c, u) ==
  /\ pc[c] \in {"start", "limit", "lookup", "join", "create"}
  /\ req[c].kind = "start" /\ req[c].user = u

LimitInv ==
  /\ \A c \in Calls : pc[c] # "resetIp"
  /\ \A a \in Attempts : doc[a] # None => (doc[a].ongoing <=> ~doc[a].total)
  /\ \A c \in Calls : pc[c] = "captureWrite" => seen[c].ongoing = doc[req[c].att].ongoing
  /\ \A u \in Users \ {Author} :
       /\ Cardinality(Used(u)) <= AttemptAllowed
       /\ \A c \in Calls : Starting(c, u) =>
            /\ \A a \in Used(u) : ~doc[a].ongoing /\ pc[doc[a].score] = "ok"
            /\ \A x \in Calls : Starting(x, u) => x = c
            /\ pc[c] \in {"lookup", "join", "create"} => Cardinality(Used(u)) < AttemptAllowed

LEMMA UsedFinite ==
  ASSUME NEW S \in SUBSET Attempts
  PROVE  IsFiniteSet(S) /\ Cardinality(S) \in Nat
BY ConstantsAssumption, FS_Subset, FS_CardinalityType DEF ConstantsAssumption

LEMMA FewerAttempts ==
  ASSUME NEW S \in SUBSET Attempts, NEW T \in SUBSET Attempts, S \subseteq T
  PROVE  Cardinality(S) \in Nat /\ Cardinality(T) \in Nat /\ Cardinality(S) <= Cardinality(T)
BY UsedFinite, FS_Subset

Students == Users \ {Author}

(* An attempt that may still be handed in was open before, or is a hand-in *)
(* whose call has not failed.                                              *)
LEMMA UsedShrinks ==
  ASSUME OwnerInv, NEW c \in Calls, NEW step, Moves(c, step), pc[c] # "error",
         \A a \in Attempts : doc'[a] # None =>
            /\ doc[a] # None /\ doc'[a].user = doc[a].user /\ doc'[a].started = doc[a].started
            /\ doc'[a].ongoing => doc[a].ongoing
            /\ doc'[a].score = doc[a].score \/ doc'[a].score = None \/ doc[a].ongoing,
         NEW u \in Users
  PROVE  Used(u)' \subseteq Used(u)
<1> SUFFICES ASSUME NEW a \in Used(u)' PROVE a \in Used(u)
  OBVIOUS
<1>1. /\ a \in Attempts /\ doc'[a] # None /\ doc'[a].user = u /\ doc'[a].started
      /\ doc'[a].ongoing \/ Live(doc[a].score)'
  BY DEF Used, OwnedBy
<1>2. doc[a] # None /\ doc[a].user = u /\ doc[a].started
  BY <1>1
<1>3. CASE doc[a].ongoing
  BY <1>1, <1>2, <1>3 DEF Used, OwnedBy
<1>4. CASE ~doc[a].ongoing
  <2>1. Live(doc[a].score)' /\ doc'[a].score = doc[a].score
    BY <1>1, <1>4 DEF Live
  <2>2. doc[a].score # None /\ ~req'[doc[a].score].quit /\ pc'[doc[a].score] # "error"
    BY <2>1 DEF Live
  <2>3. doc[a].score \in Calls
    BY <1>1, <1>2, <2>2 DEF OwnerInv, Type, AttemptDocs
  <2>4. Live(doc[a].score)
    BY <2>2, <2>3 DEF Live, Moves
  <2> QED BY <1>1, <1>2, <2>4 DEF Used, OwnedBy
<1> QED BY <1>3, <1>4

(* What is still to be shown of a step that creates no attempt.            *)
LEMMA LimitGoes ==
  ASSUME OwnerInv, LimitInv, NEW c \in Calls, NEW step, Moves(c, step), Active(c),
         step \notin {"resetIp", "start"},
         \A a \in Attempts : doc'[a] # None =>
            /\ doc[a] # None /\ doc'[a].user = doc[a].user /\ doc'[a].started = doc[a].started
            /\ doc'[a].ongoing => doc[a].ongoing
            /\ doc'[a].ongoing <=> ~doc'[a].total
            /\ doc[a].ongoing \/ doc'[a].score = doc[a].score,
         \A a \in Attempts : doc[a] # None => doc'[a] # None,
         \A x \in Calls : pc'[x] = "captureWrite" => seen'[x].ongoing = doc'[req'[x].att].ongoing,
         step \in {"limit", "lookup", "join", "create"} => pc[c] \in Creates,
         step \in {"join", "create"} /\ req[c].kind = "start" => pc[c] \in {"lookup", "join"},
         step = "limit" /\ req[c].kind = "start" => pc[c] = "start",
         step = "lookup" /\ req[c].kind = "start" =>
            /\ pc[c] \in {"start", "limit"}
            /\ req[c].user \in Students => Cardinality(Used(req[c].user)) < AttemptAllowed
  PROVE  LimitInv'
<1>1. pc[c] # "error" /\ pc[c] # "ok" /\ AttemptAllowed \in Nat
  BY ConstantsAssumption DEF Active, Replies, ConstantsAssumption
<1>2. \A x \in Calls : pc'[x] # "resetIp"
  BY DEF LimitInv, Moves
<1>3. ASSUME NEW u \in Students
      PROVE  /\ Used(u)' \subseteq Used(u)
             /\ Cardinality(Used(u)) \in Nat /\ Cardinality(Used(u)') \in Nat
             /\ Cardinality(Used(u)') <= Cardinality(Used(u))
  <2>1. Used(u)' \subseteq Used(u)
    BY <1>1, <1>3, UsedShrinks DEF Students
  <2>2. Used(u)' \in SUBSET Attempts /\ Used(u) \in SUBSET Attempts
    BY DEF Used, OwnedBy
  <2> QED BY <2>1, <2>2, FewerAttempts
<1>4. ASSUME NEW u \in Students PROVE Cardinality(Used(u)') <= AttemptAllowed
  BY <1>1, <1>3, <1>4 DEF LimitInv, Students
<1>5. ASSUME NEW x \in Calls, NEW u \in Students, Starting(x, u)' PROVE Starting(x, u)
  <2>1. CASE x # c
    BY <1>5, <2>1 DEF Starting, Moves
  <2>2. CASE x = c
    <3>1. /\ step \in {"limit", "lookup", "join", "create"}
          /\ req[c].kind = "start" /\ req[c].user = u
      BY <1>5, <2>2 DEF Starting, Moves
    <3> QED BY <2>2, <3>1 DEF Starting
  <2> QED BY <2>1, <2>2
<1>6. ASSUME NEW x \in Calls, NEW u \in Students, Starting(x, u)', NEW a \in Used(u)'
      PROVE  ~doc'[a].ongoing /\ pc'[doc'[a].score] = "ok"
  <2>1. a \in Used(u) /\ Starting(x, u)
    BY <1>3, <1>5, <1>6
  <2>2. ~doc[a].ongoing /\ pc[doc[a].score] = "ok"
    BY <2>1 DEF LimitInv, Students
  <2>3. a \in Attempts /\ doc'[a] # None
    BY <1>6 DEF Used, OwnedBy
  <2>4. ~doc'[a].ongoing /\ doc'[a].score = doc[a].score
    BY <2>2, <2>3
  <2>5. doc[a].score \in Calls
    <3>1. doc'[a].ongoing \/ Live(doc[a].score)'
      BY <1>6 DEF Used
    <3>2. doc[a].score # None
      BY <2>4, <3>1 DEF Live
    <3> QED BY <2>1, <2>3, <3>2 DEF OwnerInv, Type, AttemptDocs, Used, OwnedBy
  <2> QED BY <1>1, <2>2, <2>4, <2>5 DEF Moves
<1>7. ASSUME NEW x \in Calls, NEW u \in Students, Starting(x, u)', pc'[x] \in {"lookup", "join", "create"}
      PROVE  Cardinality(Used(u)') < AttemptAllowed
  <2>1. Starting(x, u)
    BY <1>5, <1>7
  <2>2. Cardinality(Used(u)) < AttemptAllowed
    <3>1. CASE x # c
      BY <1>7, <2>1, <3>1 DEF LimitInv, Students, Moves
    <3>2. CASE x = c /\ step = "lookup"
      BY <2>1, <3>2 DEF Starting
    <3>3. CASE x = c /\ step # "lookup"
      <4>1. req[c].kind = "start" /\ step \in {"join", "create"}
        BY <1>7, <2>1, <3>3 DEF Starting, Moves
      <4> QED BY <2>1, <3>3, <4>1 DEF LimitInv, Students
    <3> QED BY <3>1, <3>2, <3>3
  <2> QED BY <1>1, <1>3, <2>2
<1>8. \A a \in Attempts : doc'[a] # None => (doc'[a].ongoing <=> ~doc'[a].total)
  OBVIOUS
<1>9. \A x, y \in Calls, u \in Students : Starting(x, u)' /\ Starting(y, u)' => x = y
  BY <1>5 DEF LimitInv, Students
<1> QED BY <1>2, <1>4, <1>6, <1>7, <1>8, <1>9 DEF LimitInv, Students

(* While a student may start, all that he may hand in is handed in.        *)
LEMMA UsedTaken ==
  ASSUME OwnerInv, WaitInv, LimitInv, NEW c \in Calls, NEW u \in Students, Starting(c, u)
  PROVE  Used(u) \subseteq TakenBy(u)
<1> SUFFICES ASSUME NEW a \in Used(u) PROVE a \in TakenBy(u)
  OBVIOUS
<1>1. a \in Attempts /\ doc[a] # None /\ doc[a].user = u /\ ~doc[a].ongoing /\ pc[doc[a].score] = "ok"
  BY DEF Used, OwnedBy, LimitInv, Students
<1>2. doc[a].score # None /\ ~req[doc[a].score].quit
  BY <1>1 DEF Used, Live
<1>3. PICK x \in Calls : x = doc[a].score
  BY <1>1, <1>2 DEF OwnerInv, Type, AttemptDocs
<1>4. pc[x] = "ok" /\ req[x].kind = "finish" /\ req[x].att = a /\ ~req[x].quit
  BY <1>1, <1>2, <1>3 DEF OwnerInv, StoredFromOwner, FromOwner
<1>5. FinishInv(x)
  BY <1>4 DEF WaitInv
<1>6. ~doc[a].abandoned
  BY <1>4, <1>5 DEF FinishInv, Done
<1> QED BY <1>1, <1>6 DEF TakenBy, Counted

LEMMA LimitSame ==
  ASSUME OwnerInv, LimitInv, NEW c \in Calls, NEW step, Moves(c, step), Active(c), doc' = doc,
         step \notin {"resetIp", "start"},
         step = "captureWrite" => seen'[c] = doc[req[c].att],
         step \in {"limit", "lookup", "join", "create"} => pc[c] \in Creates,
         step \in {"join", "create"} /\ req[c].kind = "start" => pc[c] \in {"lookup", "join"},
         step = "limit" /\ req[c].kind = "start" => pc[c] = "start",
         step = "lookup" /\ req[c].kind = "start" =>
            /\ pc[c] \in {"start", "limit"}
            /\ req[c].user \in Students => Cardinality(Used(req[c].user)) < AttemptAllowed
  PROVE  LimitInv'
<1>1. \A a \in Attempts : doc'[a] # None =>
            /\ doc[a] # None /\ doc'[a].user = doc[a].user /\ doc'[a].started = doc[a].started
            /\ doc'[a].ongoing => doc[a].ongoing
            /\ doc'[a].ongoing <=> ~doc'[a].total
            /\ doc[a].ongoing \/ doc'[a].score = doc[a].score
  BY DEF LimitInv
<1>2. \A x \in Calls : pc'[x] = "captureWrite" => seen'[x].ongoing = doc'[req'[x].att].ongoing
  BY DEF LimitInv, Moves
<1> QED BY <1>1, <1>2, LimitGoes

LEMMA LimitOfReads ==
  ASSUME AttemptAllowed > 0, OwnerInv, VersionsInv, WaitInv, LimitInv, NEW c \in Calls, Reads(c)
  PROVE  LimitInv'
<1>1. Type /\ Control /\ doc' = doc /\ Active(c)
  BY ReadShape, ReadActive DEF OwnerInv
<1>2. CASE StartLimit(c)
  <2>1. pc[c] = "limit" /\ req' = req
    BY <1>2 DEF StartLimit
  <2>2. CASE Cardinality(TakenBy(req[c].user)) >= AttemptAllowed
    <3>1. Moves(c, "error")
      BY <1>1, <1>2, <2>2, GoesMoves DEF StartLimit
    <3> QED BY <1>1, <3>1, LimitSame
  <2>3. CASE ~(Cardinality(TakenBy(req[c].user)) >= AttemptAllowed)
    <3>1. Moves(c, "lookup")
      BY <1>1, <1>2, <2>3, GoesMoves DEF StartLimit
    <3>2. ASSUME req[c].kind = "start", req[c].user \in Students
          PROVE  Cardinality(Used(req[c].user)) < AttemptAllowed
      <4>1. Used(req[c].user) \subseteq TakenBy(req[c].user)
        BY <2>1, <3>2, UsedTaken DEF Starting
      <4>2. /\ Used(req[c].user) \in SUBSET Attempts
            /\ TakenBy(req[c].user) \in SUBSET Attempts
        BY DEF Used, OwnedBy, TakenBy, Counted
      <4>3. /\ Cardinality(Used(req[c].user)) \in Nat /\ Cardinality(TakenBy(req[c].user)) \in Nat
            /\ Cardinality(Used(req[c].user)) <= Cardinality(TakenBy(req[c].user))
        BY <4>1, <4>2, FewerAttempts
      <4> QED BY <2>3, <4>3, ConstantsAssumption DEF ConstantsAssumption
    <3>3. pc[c] \in Creates
      BY <2>1 DEF Creates
    <3> QED BY <1>1, <2>1, <3>1, <3>2, <3>3, LimitSame
  <2> QED BY <2>2, <2>3
<1>3. CASE StartCheck(c)
  <2>1. pc[c] = "start" /\ pc[c] \in Creates
    BY <1>3 DEF StartCheck, Creates
  <2>2. \/ Moves(c, "error") \/ Moves(c, "limit")
        \/ (Moves(c, "lookup") /\ req[c].user = Author)
    BY <1>1, <1>3, GoesMoves DEF StartCheck
  <2>3. ASSUME Moves(c, "error") PROVE LimitInv'
    BY <1>1, <2>3, LimitSame
  <2>4. ASSUME Moves(c, "limit") PROVE LimitInv'
    BY <1>1, <2>1, <2>4, LimitSame
  <2>5. ASSUME Moves(c, "lookup"), req[c].user = Author PROVE LimitInv'
    BY <1>1, <2>1, <2>5, LimitSame DEF Students
  <2> QED BY <2>2, <2>3, <2>4, <2>5
<1>4. CASE StartLookup(c) \/ StartJoin(c) \/ FinishLoad(c)
  <2>1. pc[c] \in {"lookup", "join", "finish"} /\ (pc[c] # "finish" => pc[c] \in Creates)
    BY <1>4 DEF StartLookup, StartJoin, FinishLoad, Creates
  <2>2. \/ Moves(c, "error")
        \/ Moves(c, "grade")
        \/ (Moves(c, "join") /\ pc[c] = "lookup")
        \/ (Moves(c, "create") /\ pc[c] \in {"lookup", "join"})
    BY <1>1, <1>4, <2>1, ReadShape DEF Reads
  <2>3. PICK step \in {"error", "grade", "join", "create"} :
           Moves(c, step) /\ (step \in {"join", "create"} => pc[c] \in {"lookup", "join"})
    BY <2>2
  <2> QED BY <1>1, <2>1, <2>3, LimitSame
<1>5. CASE Tally(c) \/ MarkCount(c) \/ TallyWrite(c) \/ MarkTotal(c)
  <2>1. pc[c] \in {"tally", "markCount", "tallyWrite", "markTotal"}
    BY <1>5 DEF Tally, MarkCount, TallyWrite, MarkTotal, CountHandIns, StoreCount
  <2>2. \/ Moves(c, "error") \/ Moves(c, "tallyWrite") \/ Moves(c, "mark") \/ Moves(c, "clock")
        \/ Moves(c, "ok") \/ Moves(c, "markTotal")
    BY <1>1, <1>5, <2>1, ReadShape DEF Reads, AfterProcess
  <2>3. PICK step \in {"error", "tallyWrite", "mark", "clock", "ok", "markTotal"} : Moves(c, step)
    BY <2>2
  <2> QED BY <1>1, <2>3, LimitSame
<1>6. CASE ClockRead(c) \/ SaveRead(c) \/ CaptureRead(c)
  <2>1. pc[c] \in {"clock", "save", "capture"}
    BY <1>6 DEF ClockRead, SaveRead, CaptureRead
  <2>2. pc[c] = "save" => req[c].kind = "save" /\ pc[c] \in Creates
    BY DEF VersionsInv, Creates
  <2>3. \/ Moves(c, "error") \/ Moves(c, "clockWrite") \/ Moves(c, "saveQA")
        \/ (Moves(c, "captureWrite") /\ seen'[c] = doc[req[c].att])
        \/ (Moves(c, "create") /\ req[c].kind = "save" /\ pc[c] \in Creates)
    BY <1>1, <1>6, <2>1, <2>2, ReadShape DEF Reads
  <2>4. ASSUME NEW step \in {"error", "clockWrite", "saveQA"}, Moves(c, step) PROVE LimitInv'
    BY <1>1, <2>4, LimitSame
  <2>5. CASE Moves(c, "captureWrite") /\ seen'[c] = doc[req[c].att]
    BY <1>1, <2>5, LimitSame
  <2>6. CASE Moves(c, "create") /\ req[c].kind = "save" /\ pc[c] \in Creates
    BY <1>1, <2>6, LimitSame
  <2> QED BY <2>3, <2>4, <2>5, <2>6
<1>7. CASE Fail(c)
  <2>1. Moves(c, "error")
    BY <1>1, <1>7, GoesMoves DEF Fail
  <2> QED BY <1>1, <2>1, LimitSame
<1> QED BY <1>2, <1>3, <1>4, <1>5, <1>6, <1>7 DEF Reads

LEMMA LimitStored ==
  ASSUME OwnerInv, WaitInv, LimitInv, NEW c \in Calls, NEW e \in AttemptDocs, Stored(c, e),
         NEW step, Moves(c, step), Active(c),
         step \notin {"resetIp", "start", "limit", "lookup", "join", "create", "captureWrite"},
         e.user = doc[req[c].att].user, e.started = doc[req[c].att].started,
         e.ongoing => doc[req[c].att].ongoing, e.ongoing <=> ~e.total,
         doc[req[c].att].ongoing \/ e.score = doc[req[c].att].score
  PROVE  LimitInv'
<1>1. /\ req[c].att \in Attempts /\ doc[req[c].att] # None
      /\ doc'[req[c].att] = e /\ e # None
      /\ \A b \in Attempts \ {req[c].att} : doc'[b] = doc[b]
  BY DEF Stored
<1>2. \A a \in Attempts : doc'[a] # None =>
            /\ doc[a] # None /\ doc'[a].user = doc[a].user /\ doc'[a].started = doc[a].started
            /\ doc'[a].ongoing => doc[a].ongoing
            /\ doc'[a].ongoing <=> ~doc'[a].total
            /\ doc[a].ongoing \/ doc'[a].score = doc[a].score
  BY <1>1 DEF LimitInv
<1>3. \A a \in Attempts : doc[a] # None => doc'[a] # None
  BY <1>1
<1>4. ASSUME NEW x \in Calls, pc'[x] = "captureWrite"
      PROVE  seen'[x].ongoing = doc'[req'[x].att].ongoing
  <2>1. x # c /\ pc[x] = "captureWrite" /\ req'[x] = req[x] /\ seen'[x] = seen[x]
    BY <1>4 DEF Moves
  <2>2. Active(x) /\ req[x].att \in Attempts /\ req[x].att # None
    BY <2>1, NoneAssumption DEF Active, Replies, OwnerInv, Control, HoldsAttempt, NoneAssumption
  <2>3. req[x].att # req[c].att
    BY <2>1, <2>2 DEF WaitInv, AloneInv
  <2> QED BY <1>1, <2>1, <2>2, <2>3 DEF LimitInv
<1> QED BY <1>2, <1>3, <1>4, LimitGoes

LEMMA LimitOfDoc ==
  ASSUME OwnerInv, VersionsInv, WaitInv, LimitInv, NEW c \in Calls, WritesDoc(c)
  PROVE  LimitInv'
<1> DEFINE a == req[c].att
           d == doc[a]
<1>1. Type /\ Control
  BY DEF OwnerInv
<1>2. pc[c] # "idle" => CurrentInv(c) /\ KindInv(c) /\ (req[c].kind = "finish" => FinishInv(c))
  BY DEF WaitInv
<1>3. ASSUME NEW e \in AttemptDocs, Stored(c, e) PROVE d.ongoing <=> ~d.total
  BY <1>3 DEF Stored, LimitInv
<1>4. CASE LinkDetail(c)
  <2>1. PICK e \in AttemptDocs : Stored(c, e) /\ pc[c] = "link" /\ Moves(c, "ok") /\ Alike(d, e)
    BY <1>1, <1>4, LinkShape
  <2> QED BY <1>3, <2>1, LimitStored DEF Alike, Active, Replies
<1>5. CASE MarkPending(c)
  <2>1. PICK e \in AttemptDocs : Stored(c, e) /\ pc[c] = "pend" /\ Moves(c, "error") /\ Alike(d, e)
    BY <1>1, <1>5, PendShape
  <2> QED BY <1>3, <2>1, LimitStored DEF Alike, Active, Replies
<1>6. CASE MarkDone(c)
  <2>1. PICK e \in AttemptDocs : /\ Stored(c, e) /\ pc[c] = "mark" /\ Alike(d, e)
                                 /\ Moves(c, "markDetail") \/ Moves(c, "error")
    BY <1>1, <1>6, MarkShape
  <2> QED BY <1>3, <2>1, LimitStored DEF Alike, Active, Replies
<1>7. CASE ClockWrite(c)
  <2>1. PICK e \in AttemptDocs : Stored(c, e) /\ pc[c] = "clockWrite" /\ Moves(c, "ok") /\ Alike(d, e)
    BY <1>1, <1>7, ClockShape
  <2> QED BY <1>3, <2>1, LimitStored DEF Alike, Active, Replies
<1>8. CASE CaptureWrite(c)
  <2>1. PICK e \in AttemptDocs : /\ Stored(c, e) /\ pc[c] = "captureWrite" /\ Moves(c, "ok")
         /\ e.user = seen[c].user /\ e.started = seen[c].started /\ e.score = seen[c].score
         /\ e.ongoing = seen[c].ongoing /\ e.total = (seen[c].total \/ d.total)
    BY <1>1, <1>8, CaptureShape
  <2>2. Follows(d, seen[c]) /\ seen[c].ongoing = d.ongoing
    BY <1>2, <2>1 DEF CurrentInv, LimitInv
  <2>3. d.ongoing <=> ~d.total
    BY <1>3, <2>1
  <2>4. /\ e.user = d.user /\ e.started = d.started /\ e.score = d.score
        /\ e.ongoing = d.ongoing /\ (e.ongoing <=> ~e.total)
    BY <2>1, <2>2, <2>3 DEF Follows
  <2> QED BY <2>1, <2>4, LimitStored DEF Active, Replies
<1>9. CASE GradeBack(c)
  <2>1. PICK e \in AttemptDocs :
          /\ Stored(c, e) /\ pc[c] = "gradeBack" /\ Alike(seen[c], e)
          /\ Moves(c, IF ~AutoEvaluation THEN "pend"
                     ELSE IF seen[c].abandoned THEN AfterProcess(c) ELSE "tally")
    BY <1>1, <1>9, BackShape
  <2>2. PICK step \in {"pend", "mark", "clock", "ok", "tally"} : Moves(c, step)
    BY <2>1 DEF AfterProcess
  <2>3. Follows(d, seen[c]) /\ Closed(seen[c]) /\ seen[c].score = c /\ c # None
    BY <1>2, <2>1, NoneAssumption DEF CurrentInv, VersionsInv, WritesBack, NoneAssumption
  <2>4. e.user = d.user /\ e.started = d.started /\ e.score = d.score /\ ~e.ongoing /\ e.total
    BY <2>1, <2>3 DEF Alike, Follows, Closed
  <2> QED BY <2>1, <2>2, <2>4, LimitStored DEF Active, Replies
<1>10. CASE GradeWrite(c)
  <2>1. PICK e \in AttemptDocs :
          /\ Stored(c, e) /\ pc[c] = "grade" /\ Moves(c, "gradeDetail")
          /\ e.user = d.user /\ e.started = d.started /\ ~e.ongoing /\ e.total
    BY <1>1, <1>10, GradeShape
  <2>2. d.ongoing
    BY <1>2, <1>3, <2>1 DEF CurrentInv
  <2> QED BY <2>1, <2>2, LimitStored DEF Active, Replies
<1> QED BY <1>4, <1>5, <1>6, <1>7, <1>8, <1>9, <1>10 DEF WritesDoc

(* Whose hand-in the marks of an attempt are.                              *)
LEMMA UsedMarks ==
  ASSUME OwnerInv, NEW u \in Users, NEW a \in Used(u), ~doc[a].ongoing
  PROVE  \E x \in Calls : /\ x = doc[a].score /\ Live(x) /\ pc[x] # "idle" /\ req[x].user = u
                          /\ a \in Attempts
<1>1. a \in Attempts /\ doc[a] # None /\ doc[a].user = u /\ Live(doc[a].score)
  BY DEF Used, OwnedBy
<1>2. doc[a].score # None
  BY <1>1 DEF Live
<1>3. doc[a].score \in Calls
  BY <1>1, <1>2 DEF OwnerInv, Type, AttemptDocs
<1> QED BY <1>1, <1>2, <1>3 DEF OwnerInv, StoredFromOwner, FromOwner

(* start leaves the attempts of everybody but its caller alone.            *)
LEMMA LimitOfCreate ==
  ASSUME OwnerInv, WaitInv, LimitInv, NEW c \in Calls, CreateAttempt(c)
  PROVE  LimitInv'
<1>1. Type /\ Control /\ AttemptAllowed \in Nat
  BY ConstantsAssumption DEF OwnerInv, ConstantsAssumption
<1>2. PICK a \in Attempts, e \in AttemptDocs :
         /\ pc[c] = "create" /\ doc[a] = None /\ doc' = [doc EXCEPT ![a] = e] /\ e # None
         /\ e.user = req[c].user /\ (e.started <=> req[c].kind = "start")
         /\ e.ongoing /\ ~e.total /\ e.score = None
         /\ pc'[c] = "detail" /\ req'[c].quit = req[c].quit
         /\ \A x \in Calls \ {c} : pc'[x] = pc[x] /\ seen'[x] = seen[x] /\ req'[x] = req[x]
  BY <1>1, CreateShape
<1>3. doc'[a] = e /\ \A b \in Attempts \ {a} : doc'[b] = doc[b]
  BY <1>1, <1>2 DEF Type
<1>4. ASSUME NEW u \in Students, NEW b \in Used(u)', b # a PROVE b \in Used(u)
  <2>1. /\ b \in Attempts /\ doc'[b] = doc[b] /\ doc[b] # None /\ doc[b].user = u /\ doc[b].started
        /\ doc[b].ongoing \/ Live(doc[b].score)'
    BY <1>3, <1>4 DEF Used, OwnedBy
  <2>2. CASE doc[b].ongoing
    BY <2>1, <2>2 DEF Used, OwnedBy
  <2>3. CASE ~doc[b].ongoing
    <3>1. doc'[b].score # None /\ ~req'[doc'[b].score].quit /\ pc'[doc'[b].score] # "error"
      BY <2>1, <2>3 DEF Live
    <3>2. doc[b].score \in Calls
      BY <1>1, <2>1, <3>1 DEF Type, AttemptDocs
    <3>3. Live(doc[b].score)
      BY <1>2, <2>1, <3>1, <3>2 DEF Live
    <3> QED BY <2>1, <3>3 DEF Used, OwnedBy
  <2> QED BY <2>2, <2>3
<1>5. ASSUME NEW u \in Students, a \in Used(u)' PROVE Starting(c, u)
  BY <1>2, <1>3, <1>5 DEF Used, OwnedBy, Starting
<1>6. ASSUME NEW u \in Students PROVE Cardinality(Used(u)') <= AttemptAllowed
  <2>1. Used(u)' \in SUBSET Attempts /\ Used(u) \in SUBSET Attempts
    BY DEF Used, OwnedBy
  <2>2. Cardinality(Used(u)) <= AttemptAllowed /\ Cardinality(Used(u)) \in Nat /\ Cardinality(Used(u)') \in Nat
    BY <1>6, <2>1, UsedFinite DEF LimitInv, Students
  <2>3. CASE a \notin Used(u)'
    <3>1. Used(u)' \subseteq Used(u)
      BY <1>4, <1>6, <2>3
    <3>2. Cardinality(Used(u)') <= Cardinality(Used(u))
      BY <2>1, <3>1, FewerAttempts
    <3> QED BY <1>1, <2>2, <3>2
  <2>4. CASE a \in Used(u)'
    <3>1. Cardinality(Used(u)) < AttemptAllowed
      BY <1>2, <1>5, <1>6, <2>4 DEF LimitInv, Students
    <3>2. Used(u)' \subseteq Used(u) \union {a} /\ Used(u) \union {a} \in SUBSET Attempts
      BY <1>4, <1>6, <2>1
    <3>3. Cardinality(Used(u)') <= Cardinality(Used(u) \union {a}) /\ Cardinality(Used(u) \union {a}) \in Nat
      BY <2>1, <3>2, FewerAttempts
    <3>4. Cardinality(Used(u) \union {a}) <= Cardinality(Used(u)) + 1
      BY <2>1, <2>2, UsedFinite, FS_AddElement
    <3> QED BY <1>1, <2>2, <3>1, <3>3, <3>4
  <2> QED BY <2>3, <2>4
<1>7. ASSUME NEW x \in Calls, NEW u \in Students, Starting(x, u)'
      PROVE  /\ x # c /\ Starting(x, u) /\ Used(u)' \subseteq Used(u) /\ pc'[x] = pc[x]
             /\ Cardinality(Used(u)) \in Nat /\ Cardinality(Used(u)') \in Nat
             /\ Cardinality(Used(u)') <= Cardinality(Used(u))
  <2>1. x # c
    BY <1>2, <1>7 DEF Starting
  <2>2. Starting(x, u) /\ pc'[x] = pc[x]
    BY <1>2, <1>7, <2>1 DEF Starting
  <2>3. a \notin Used(u)'
    BY <1>5, <1>7, <2>1, <2>2 DEF LimitInv, Students
  <2>4. Used(u)' \subseteq Used(u)
    BY <1>4, <1>7, <2>3
  <2>5. Used(u)' \in SUBSET Attempts /\ Used(u) \in SUBSET Attempts
    BY DEF Used, OwnedBy
  <2> QED BY <2>1, <2>2, <2>4, <2>5, FewerAttempts
<1>8. ASSUME NEW x \in Calls, NEW u \in Students, Starting(x, u)', NEW b \in Used(u)'
      PROVE  ~doc'[b].ongoing /\ pc'[doc'[b].score] = "ok"
  <2>1. b \in Used(u) /\ ~doc[b].ongoing /\ pc[doc[b].score] = "ok" /\ u \in Users
    BY <1>7, <1>8 DEF LimitInv, Students
  <2>2. b \in Attempts /\ doc[b] # None /\ doc[b].score \in Calls
    BY <2>1, UsedMarks DEF Used, OwnedBy
  <2>3. b # a /\ doc[b].score # c
    BY <1>2, <2>1, <2>2
  <2> QED BY <1>2, <1>3, <2>1, <2>2, <2>3
<1>9. \A x \in Calls : pc'[x] # "resetIp"
  BY <1>2 DEF LimitInv
<1>10. \A b \in Attempts : doc'[b] # None => (doc'[b].ongoing <=> ~doc'[b].total)
  BY <1>2, <1>3 DEF LimitInv
<1>11. ASSUME NEW x \in Calls, pc'[x] = "captureWrite"
       PROVE  seen'[x].ongoing = doc'[req'[x].att].ongoing
  <2>1. x # c /\ pc[x] = "captureWrite" /\ req'[x] = req[x] /\ seen'[x] = seen[x]
    BY <1>2, <1>11
  <2>2. req[x].att \in Attempts /\ doc[req[x].att] # None
    BY <1>1, <2>1 DEF Control, HoldsAttempt
  <2> QED BY <1>2, <1>3, <2>1, <2>2 DEF LimitInv
<1>12. \A x, y \in Calls, u \in Students : Starting(x, u)' /\ Starting(y, u)' => x = y
  BY <1>7 DEF LimitInv, Students
<1>13. ASSUME NEW x \in Calls, NEW u \in Students, Starting(x, u)', pc'[x] \in {"lookup", "join", "create"}
       PROVE  Cardinality(Used(u)') < AttemptAllowed
  <2>1. Cardinality(Used(u)) < AttemptAllowed
    BY <1>7, <1>13 DEF LimitInv, Students
  <2> QED BY <1>1, <1>7, <1>13, <2>1
<1> QED BY <1>6, <1>8, <1>9, <1>10, <1>11, <1>12, <1>13 DEF LimitInv, Students

(* A client that waits starts when its student works on nothing.           *)
LEMMA LimitOfCall ==
  ASSUME OneAtATime, "resetIp" \notin Kinds, OwnerInv, WaitInv, LimitInv, NEW c \in Calls, Call(c)
  PROVE  LimitInv'
<1>1. Type /\ Control /\ AttemptAllowed \in Nat
  BY ConstantsAssumption DEF OwnerInv, ConstantsAssumption
<1>2. PICK r \in Requests :
         /\ pc[c] = "idle" /\ pc'[c] = r.kind /\ req'[c] = r
         /\ \A x \in Calls \ {c} : pc'[x] = pc[x] /\ req'[x] = req[x]
         /\ UNCHANGED <<doc, seen>>
         /\ r.kind \in Kinds /\ ClientWaits(r)
  BY <1>1, CallShape
<1>3. r.kind \in AllKinds /\ r.kind # "resetIp"
  BY <1>2 DEF Requests
<1>4. ASSUME NEW u \in Students, NEW a \in Used(u)' PROVE a \in Used(u)
  <2>1. /\ a \in Attempts /\ doc[a] # None /\ doc[a].user = u /\ doc[a].started
        /\ doc[a].ongoing \/ Live(doc[a].score)'
    BY <1>2, <1>4 DEF Used, OwnedBy
  <2>2. CASE doc[a].ongoing
    BY <2>1, <2>2 DEF Used, OwnedBy
  <2>3. CASE ~doc[a].ongoing
    <3>1. doc[a].score # None /\ ~req'[doc[a].score].quit /\ pc'[doc[a].score] # "error"
      BY <1>2, <2>1, <2>3 DEF Live
    <3>2. doc[a].score \in Calls /\ pc[doc[a].score] # "idle"
      BY <1>1, <2>1, <3>1 DEF Type, AttemptDocs, OwnerInv, StoredFromOwner, FromOwner
    <3>3. Live(doc[a].score)
      BY <1>2, <3>1, <3>2 DEF Live
    <3> QED BY <2>1, <3>3 DEF Used, OwnedBy
  <2> QED BY <2>2, <2>3
<1>5. ASSUME NEW u \in Students
      PROVE  /\ Cardinality(Used(u)') <= Cardinality(Used(u))
             /\ Cardinality(Used(u)) \in Nat /\ Cardinality(Used(u)') \in Nat
  <2>1. Used(u)' \in SUBSET Attempts /\ Used(u) \in SUBSET Attempts
    BY DEF Used, OwnedBy
  <2> QED BY <1>4, <1>5, <2>1, FewerAttempts
<1>6. ASSUME NEW u \in Students PROVE Cardinality(Used(u)') <= AttemptAllowed
  BY <1>1, <1>5, <1>6 DEF LimitInv, Students
<1>7. ASSUME NEW x \in Calls, NEW u \in Students, Starting(x, u)'
      PROVE  \/ x # c /\ Starting(x, u)
             \/ x = c /\ r.kind = "start" /\ r.user = u /\ pc'[c] = "start"
  BY <1>2, <1>3, <1>7 DEF Starting, AllKinds
<1>8. ASSUME NEW x \in Calls, NEW u \in Students, Starting(x, u)', NEW a \in Used(u)'
      PROVE  ~doc'[a].ongoing /\ pc'[doc'[a].score] = "ok"
  <2>1. a \in Used(u) /\ u \in Users
    BY <1>4, <1>8 DEF Students
  <2>2. ~doc[a].ongoing
    <3>1. CASE x # c
      BY <1>7, <1>8, <2>1, <3>1 DEF LimitInv, Students
    <3>2. CASE x = c
      BY <1>2, <1>7, <1>8, <2>1, <3>2 DEF ClientWaits, Used
    <3> QED BY <3>1, <3>2
  <2>3. PICK y \in Calls : y = doc[a].score /\ Live(y) /\ pc[y] # "idle" /\ req[y].user = u
    BY <2>1, <2>2, UsedMarks
  <2>4. pc[y] = "ok"
    <3>1. CASE x # c
      BY <1>7, <1>8, <2>1, <2>3, <3>1 DEF LimitInv, Students
    <3>2. CASE x = c
      <4>1. ~Active(y)
        BY <1>2, <1>7, <1>8, <2>3, <3>2 DEF ClientWaits
      <4> QED BY <2>3, <4>1 DEF Live, Active, Replies
    <3> QED BY <3>1, <3>2
  <2> QED BY <1>2, <2>2, <2>3, <2>4
<1>9. \A x \in Calls : pc'[x] # "resetIp"
  BY <1>2, <1>3 DEF LimitInv
<1>10. \A b \in Attempts : doc'[b] # None => (doc'[b].ongoing <=> ~doc'[b].total)
  BY <1>2 DEF LimitInv
<1>11. \A x \in Calls : pc'[x] = "captureWrite" => seen'[x].ongoing = doc'[req'[x].att].ongoing
  BY <1>2, <1>3 DEF LimitInv, AllKinds
<1>12. ASSUME NEW x \in Calls, NEW y \in Calls, NEW u \in Students, Starting(x, u)', Starting(y, u)'
       PROVE  x = y
  <2>1. \A z \in Calls : Starting(z, u) => Active(z) /\ req[z].user = u
    BY DEF Starting, Active, Replies
  <2>2. CASE x # c /\ y # c
    BY <1>7, <1>12, <2>2 DEF LimitInv, Students
  <2>3. CASE x = c /\ y # c
    BY <1>2, <1>7, <1>12, <2>1, <2>3 DEF ClientWaits
  <2>4. CASE x # c /\ y = c
    BY <1>2, <1>7, <1>12, <2>1, <2>4 DEF ClientWaits
  <2> QED BY <2>2, <2>3, <2>4
<1>13. ASSUME NEW x \in Calls, NEW u \in Students, Starting(x, u)', pc'[x] \in {"lookup", "join", "create"}
       PROVE  Cardinality(Used(u)') < AttemptAllowed
  <2>1. x # c /\ Starting(x, u) /\ pc[x] = pc'[x]
    BY <1>2, <1>7, <1>13
  <2>2. Cardinality(Used(u)) < AttemptAllowed
    BY <1>13, <2>1 DEF LimitInv, Students
  <2> QED BY <1>1, <1>5, <1>13, <2>2
<1> QED BY <1>6, <1>8, <1>9, <1>10, <1>11, <1>12, <1>13 DEF LimitInv, Students

LEMMA LimitStep ==
  ASSUME OneAtATime, "resetIp" \notin Kinds, AttemptAllowed > 0
  PROVE  OwnerInv /\ VersionsInv /\ WaitInv /\ LimitInv /\ [Next]_vars => LimitInv'
<1> SUFFICES ASSUME OwnerInv, VersionsInv, WaitInv, LimitInv, [Next]_vars PROVE LimitInv'
  OBVIOUS
<1>1. Type /\ Control
  BY DEF OwnerInv
<1>2. ASSUME NEW c \in Calls, WritesDetail(c) PROVE LimitInv'
  <2>1. PICK step \in {"link", "gradeBack", "markCount", "ok"} :
          Moves(c, step) /\ doc' = doc /\ pc[c] \in {"detail", "gradeDetail", "markDetail", "saveQA"}
    BY <1>1, <1>2, DetailShape
  <2>2. Active(c)
    BY <2>1 DEF Active, Replies
  <2> QED BY <2>1, <2>2, LimitSame
<1>3. ASSUME NEW c \in Calls, ResetIp(c) PROVE LimitInv'
  BY <1>3 DEF ResetIp, LimitInv
<1>4. CASE UNCHANGED <<doc, detail, joined, req, pc, seen>>
  BY <1>4 DEF LimitInv, Used, OwnedBy, Live, Starting
<1> QED BY <1>2, <1>3, <1>4, LimitOfCall, LimitOfReads, LimitOfDoc, LimitOfCreate, StepCases

(* Nobody starts with more attempts than the test allows (0: no limit).    *)
HeldWithinLimit ==
  AttemptAllowed > 0 =>
    \A u \in Students : Cardinality({a \in Attempts : Held[a] = u}) <= AttemptAllowed

LEMMA InitLimit == AttemptAllowed > 0 /\ HeldWithinLimit /\ Init => LimitInv
<1> SUFFICES ASSUME AttemptAllowed > 0, HeldWithinLimit, Init PROVE LimitInv
  OBVIOUS
<1>1. \A c \in Calls : pc[c] = "idle"
  BY DEF Init
<1>2. ASSUME NEW a \in Attempts, doc[a] # None
      PROVE  doc[a].ongoing /\ ~doc[a].total /\ doc[a].user = Held[a]
  BY <1>2 DEF Init, NewAttempt
<1>3. ASSUME NEW u \in Students PROVE Cardinality(Used(u)) <= AttemptAllowed
  <2> DEFINE H == {a \in Attempts : Held[a] = u}
  <2>1. Used(u) \in SUBSET Attempts /\ H \in SUBSET Attempts /\ Used(u) \subseteq H
    BY <1>2 DEF Used, OwnedBy
  <2>2. /\ Cardinality(Used(u)) \in Nat /\ Cardinality(H) \in Nat
        /\ Cardinality(Used(u)) <= Cardinality(H)
    BY <2>1, FewerAttempts
  <2>3. Cardinality(H) <= AttemptAllowed /\ AttemptAllowed \in Nat
    BY <1>3, ConstantsAssumption DEF HeldWithinLimit, ConstantsAssumption
  <2> QED BY <2>2, <2>3
<1> QED BY <1>1, <1>2, <1>3 DEF LimitInv, Starting, Students

(* The answered hand-ins of a student lie on attempts of their own.        *)
LEMMA LimitKept == OwnerInv /\ VersionsInv /\ WaitInv /\ LimitInv => AttemptLimit
<1> SUFFICES ASSUME OwnerInv, VersionsInv, WaitInv, LimitInv, NEW u \in Students
             PROVE  Cardinality({c \in Calls : HandedIn(c) /\ req[c].user = u /\ doc[req[c].att].started})
                      <= AttemptAllowed
  BY DEF AttemptLimit, Students
<1> DEFINE S == {c \in Calls : HandedIn(c) /\ req[c].user = u /\ doc[req[c].att].started}
           f == [c \in S |-> req[c].att]
<1>1. ASSUME NEW c \in S PROVE req[c].att \in Used(u) /\ doc[req[c].att].score = c
  <2>1. pc[c] = "ok" /\ req[c].kind = "finish" /\ ~req[c].quit /\ req[c].user = u
    BY DEF HandedIn, Answered
  <2>2. FinishInv(c) /\ req[c].att \in Attempts /\ doc[req[c].att] # None
    BY <2>1 DEF WaitInv, AloneInv
  <2>3. doc[req[c].att].score = c /\ c # None
    BY <2>1, <2>2, NoneAssumption DEF FinishInv, Wrote, NoneAssumption
  <2>4. doc[req[c].att].user = u
    BY <2>1, <2>2, <2>3 DEF OwnerInv, StoredFromOwner, FromOwner
  <2> QED BY <2>1, <2>2, <2>3, <2>4 DEF Used, OwnedBy, Live
<1>2. Used(u) \in SUBSET Attempts /\ IsFiniteSet(Used(u))
  BY UsedFinite DEF Used, OwnedBy
<1>3. f \in Injection(S, Used(u))
  <2>1. f \in [S -> Used(u)]
    BY <1>1
  <2>2. \A x, y \in S : f[x] = f[y] => x = y
    BY <1>1
  <2> QED BY <2>1, <2>2 DEF Injection, IsInjective
<1>4. Cardinality(S) <= Cardinality(Used(u)) /\ IsFiniteSet(S)
  BY <1>2, <1>3, FS_Injection
<1>5. Cardinality(S) \in Nat /\ Cardinality(Used(u)) \in Nat /\ AttemptAllowed \in Nat
  BY <1>2, <1>4, FS_CardinalityType, ConstantsAssumption DEF ConstantsAssumption
<1>6. Cardinality(Used(u)) <= AttemptAllowed
  BY DEF LimitInv, Students
<1> QED BY <1>4, <1>5, <1>6

(* No student hands in more attempts than the test allows, when clients    *)
(* wait for answers and nobody closes attempts without handing them in     *)
(* (the countDocuments check of start; resetIpRestriction is such a call). *)
THEOREM LimitIsKept ==
  ASSUME OneAtATime, "resetIp" \notin Kinds, HeldWithinLimit
  PROVE  Spec => []AttemptLimit
<1>1. CASE AttemptAllowed > 0
  <2>1. Init => OwnerInv /\ VersionsInv /\ WaitInv /\ LimitInv
    BY <1>1, InitOwnerInv, InitVersions, InitWait, InitLimit
  <2>2. OwnerInv /\ VersionsInv /\ WaitInv /\ LimitInv /\ [Next]_vars
          => (OwnerInv /\ VersionsInv /\ WaitInv /\ LimitInv)'
    BY <1>1, OwnerStep, VersionsStep, WaitStep, LimitStep
  <2> QED BY <2>1, <2>2, LimitKept, PTL DEF Spec
<1>2. CASE ~(AttemptAllowed > 0)
  <2>1. AttemptLimit
    BY <1>2 DEF AttemptLimit
  <2> QED BY <2>1, PTL
<1> QED BY <1>1, <1>2

-----------------------------------------------------------------------------
(* The ledger of hand-ins                                                  *)

(* An attempt is graded from the moment it has marks.                      *)
LEMMA GradedIsMarked ==
  ASSUME VersionsInv, WaitInv, NEW a \in Attempts, doc[a] # None
  PROVE  Graded(doc[a]) <=> doc[a].score # None
BY DEF VersionsInv, Closed, WaitInv, MarkedInv, Graded

LEMMA InitLedger == Init => Ledger!Init
<1> SUFFICES ASSUME Init PROVE Ledger!Init
  OBVIOUS
<1>1. ASSUME NEW a \in Attempts, doc[a] # None
      PROVE  doc[a].user = Held[a] /\ Held[a] # None /\ doc[a].score = None /\ doc[a].ongoing
  BY <1>1 DEF Init, NewAttempt
<1>2. Owners \in [Attempts -> Users \union {None}]
  BY <1>1, ConstantsAssumption DEF Owners, ConstantsAssumption
<1>3. AskedFor = [c \in Calls |-> None] /\ ScoresOf = [a \in Attempts |-> None] /\ GradedOnes = {}
  BY <1>1 DEF Init, AskedFor, ScoresOf, GradedOnes, Graded
<1> QED BY <1>2, <1>3 DEF Ledger!Init, Owners, AskedFor, ScoresOf, GradedOnes

(* A write that keeps owner and marks of every attempt.                    *)
SameEntries ==
  \A a \in Attempts : /\ doc'[a] = None <=> doc[a] = None
                      /\ doc[a] # None => doc'[a].user = doc[a].user /\ doc'[a].score = doc[a].score

LEMMA EntriesStay ==
  ASSUME VersionsInv, WaitInv, VersionsInv', WaitInv', SameEntries
  PROVE  UNCHANGED <<Owners, ScoresOf, GradedOnes>>
<1>1. UNCHANGED Owners /\ UNCHANGED ScoresOf
  BY DEF SameEntries, Owners, ScoresOf
<1>2. ASSUME NEW a \in Attempts PROVE Graded(doc[a])' <=> Graded(doc[a])
  <2>1. CASE doc[a] = None
    BY <2>1 DEF SameEntries, Graded
  <2>2. CASE doc[a] # None
    <3>1. doc'[a] # None /\ doc'[a].score = doc[a].score
      BY <2>2 DEF SameEntries
    <3>2. Graded(doc[a]) <=> doc[a].score # None
      BY <2>2, GradedIsMarked
    <3>3. Graded(doc[a])' <=> doc'[a].score # None
      BY <3>1 DEF VersionsInv, Closed, WaitInv, MarkedInv, Graded
    <3> QED BY <3>1, <3>2, <3>3
  <2> QED BY <2>1, <2>2
<1>3. UNCHANGED GradedOnes
  BY <1>2 DEF GradedOnes
<1> QED BY <1>1, <1>3

(* All writes of a document but the first of process.                      *)
LEMMA WritesKeepEntries ==
  ASSUME OwnerInv, VersionsInv, WaitInv, NEW c \in Calls, WritesDoc(c), ~GradeWrite(c)
  PROVE  SameEntries /\ req' = req /\ pc[c] # "idle" /\ pc'[c] # "idle"
         /\ \A x \in Calls \ {c} : pc'[x] = pc[x]
<1>1. Type /\ Control
  BY DEF OwnerInv
<1>2. ASSUME NEW e \in AttemptDocs, Stored(c, e), NEW step, Moves(c, step), step # "idle", pc[c] # "idle",
             e.user = doc[req[c].att].user, e.score = doc[req[c].att].score
      PROVE  SameEntries /\ req' = req /\ pc[c] # "idle" /\ pc'[c] # "idle"
             /\ \A x \in Calls \ {c} : pc'[x] = pc[x]
  BY <1>2 DEF Stored, SameEntries, Moves
<1>3. CASE LinkDetail(c)
  BY <1>1, <1>2, <1>3, LinkShape DEF Alike
<1>4. CASE MarkPending(c)
  BY <1>1, <1>2, <1>4, PendShape DEF Alike
<1>5. CASE MarkDone(c)
  BY <1>1, <1>2, <1>5, MarkShape DEF Alike
<1>6. CASE ClockWrite(c)
  BY <1>1, <1>2, <1>6, ClockShape DEF Alike
<1>7. ASSUME pc[c] \in {"gradeBack", "captureWrite"}
      PROVE  seen[c].user = doc[req[c].att].user /\ seen[c].score = doc[req[c].att].score
  BY <1>7 DEF WaitInv, CurrentInv, Follows
<1>8. CASE GradeBack(c)
  BY <1>1, <1>2, <1>7, <1>8, BackShape DEF Alike, AfterProcess
<1>9. CASE CaptureWrite(c)
  BY <1>1, <1>2, <1>7, <1>9, CaptureShape
<1> QED BY <1>3, <1>4, <1>5, <1>6, <1>8, <1>9 DEF WritesDoc

(* Requests are kept, so hand-ins are asked for by new calls alone.        *)
LEMMA AskedStays ==
  ASSUME Type, NEW c \in Calls, pc[c] # "idle", pc'[c] # "idle",
         \A x \in Calls \ {c} : pc'[x] = pc[x] /\ req'[x] = req[x],
         req'[c].kind = req[c].kind, req[c].kind = "finish" => req'[c] = req[c]
  PROVE  UNCHANGED AskedFor
<1>1. ASSUME NEW x \in Calls PROVE AskedFor'[x] = AskedFor[x]
  BY DEF AskedFor
<1> QED BY <1>1 DEF AskedFor

(* process stores marks: a hand-in of the owner on an open attempt.        *)
LEMMA GradeWriteHandsIn ==
  ASSUME OwnerInv, VersionsInv, WaitInv, VersionsInv', WaitInv', NEW c \in Calls, GradeWrite(c)
  PROVE  Ledger!HandIn(c, req[c].att) /\ req[c].att \in Attempts
<1> DEFINE a == req[c].att
<1>1. Type /\ Control
  BY DEF OwnerInv
<1>2. PICK e \in AttemptDocs :
        /\ Stored(c, e) /\ pc[c] = "grade" /\ Moves(c, "gradeDetail")
        /\ e.user = doc[a].user /\ e.score = c /\ ~e.ongoing /\ e.total
  BY <1>1, GradeShape
<1>3. a \in Attempts /\ doc[a] # None /\ req[c].kind = "finish" /\ req[c].user = doc[a].user
  BY <1>1, <1>2 DEF Control, HoldsAttempt, OwnerInv, HeldFromOwner
<1>4. doc'[a] = e /\ e # None /\ \A b \in Attempts \ {a} : doc'[b] = doc[b]
  BY <1>1, <1>2 DEF Stored, Type
<1>5. AskedFor[c] = [user |-> Owners[a], att |-> a]
  BY <1>2, <1>3 DEF AskedFor, Owners
<1>6. a \notin GradedOnes
  BY <1>2 DEF GradedOnes, Graded, WaitInv, CurrentInv
<1>7. ScoresOf' = [ScoresOf EXCEPT ![a] = c]
  <2>1. ScoresOf'[a] = c
    BY <1>2, <1>3, <1>4 DEF ScoresOf
  <2>2. ASSUME NEW b \in Attempts \ {a} PROVE ScoresOf'[b] = ScoresOf[b]
    BY <1>4 DEF ScoresOf
  <2> QED BY <2>1, <2>2 DEF ScoresOf
<1>8. GradedOnes' = GradedOnes \union {a}
  BY <1>2, <1>3, <1>4 DEF GradedOnes, Graded
<1>9. UNCHANGED Owners
  BY <1>2, <1>3, <1>4 DEF Owners
<1>10. UNCHANGED AskedFor
  BY <1>1, <1>2, AskedStays DEF Moves
<1> QED BY <1>3, <1>5, <1>6, <1>7, <1>8, <1>9, <1>10 DEF Ledger!HandIn, Owners, ScoresOf, AskedFor, GradedOnes

(* start and the answer saves enter an attempt, with nothing handed in.    *)
LEMMA CreateBegins ==
  ASSUME OwnerInv, NEW c \in Calls, CreateAttempt(c)
  PROVE  \E a \in Attempts, u \in Users : Ledger!Begin(a, u)
<1>1. Type /\ Control
  BY DEF OwnerInv
<1>2. PICK a \in Attempts, e \in AttemptDocs :
         /\ pc[c] = "create" /\ doc[a] = None /\ doc' = [doc EXCEPT ![a] = e] /\ e # None
         /\ e.ongoing /\ e.score = None
         /\ pc'[c] = "detail" /\ req'[c].kind = req[c].kind
         /\ \A x \in Calls \ {c} : pc'[x] = pc[x] /\ req'[x] = req[x]
  BY <1>1, CreateShape
<1>3. doc'[a] = e /\ \A b \in Attempts \ {a} : doc'[b] = doc[b]
  BY <1>1, <1>2 DEF Type
<1>4. e.user \in Users
  BY DEF AttemptDocs
<1>5. Owners[a] = None /\ Owners' = [Owners EXCEPT ![a] = e.user]
  <2>1. Owners[a] = None /\ Owners'[a] = e.user
    BY <1>2, <1>3 DEF Owners
  <2>2. ASSUME NEW b \in Attempts \ {a} PROVE Owners'[b] = Owners[b]
    BY <1>3 DEF Owners
  <2> QED BY <2>1, <2>2 DEF Owners
<1>6. UNCHANGED ScoresOf
  BY <1>2, <1>3 DEF ScoresOf
<1>7. UNCHANGED GradedOnes
  BY <1>2, <1>3 DEF GradedOnes, Graded
<1>8. UNCHANGED AskedFor
  <2>1. req[c].kind # "finish"
    BY <1>1, <1>2 DEF Control, Creates
  <2> QED BY <1>1, <1>2, <2>1, AskedStays
<1>9. Ledger!Begin(a, e.user)
  BY <1>5, <1>6, <1>7, <1>8 DEF Ledger!Begin, Owners, ScoresOf, AskedFor, GradedOnes
<1> QED BY <1>4, <1>9

(* A new call asks to hand in, or for something the ledger does not see.   *)
LEMMA CallAsks ==
  ASSUME OwnerInv, NEW c \in Calls, Call(c)
  PROVE  \/ \E a \in Attempts, u \in Users : Ledger!Ask(c, a, u)
         \/ UNCHANGED <<Owners, ScoresOf, AskedFor, GradedOnes>>
<1>1. Type
  BY DEF OwnerInv
<1>2. PICK r \in Requests :
         /\ pc[c] = "idle" /\ pc'[c] = r.kind /\ req'[c] = r /\ UNCHANGED doc
         /\ \A x \in Calls \ {c} : pc'[x] = pc[x] /\ req'[x] = req[x]
         /\ r.kind \notin {"start", "resetIp"} => r.att \in Attempts /\ doc[r.att] # None
  BY <1>1, CallShape
<1>3. UNCHANGED Owners /\ UNCHANGED ScoresOf /\ UNCHANGED GradedOnes
  BY <1>2 DEF Owners, ScoresOf, GradedOnes
<1>4. \A x \in Calls \ {c} : AskedFor'[x] = AskedFor[x]
  BY <1>2 DEF AskedFor
<1>5. AskedFor[c] = None
  BY <1>2 DEF AskedFor
<1>6. CASE r.kind = "finish"
  <2>1. r.att \in Attempts /\ doc[r.att] # None /\ r.user \in Users
    BY <1>2, <1>6 DEF Requests
  <2>2. Owners[r.att] # None
    <3>1. doc[r.att] \in AttemptDocs
      BY <1>1, <2>1 DEF Type
    <3> QED BY <2>1, <3>1, NoneAssumption DEF Owners, AttemptDocs, NoneAssumption
  <2>3. AskedFor'[c] = [user |-> r.user, att |-> r.att]
    BY <1>2, <1>6 DEF AskedFor
  <2>4. AskedFor' = [AskedFor EXCEPT ![c] = [user |-> r.user, att |-> r.att]]
    BY <1>4, <2>3 DEF AskedFor
  <2>5. Ledger!Ask(c, r.att, r.user)
    BY <1>3, <1>5, <2>2, <2>4 DEF Ledger!Ask, Owners, ScoresOf, AskedFor, GradedOnes
  <2> QED BY <2>1, <2>5
<1>7. CASE r.kind # "finish"
  <2>1. AskedFor'[c] = None
    BY <1>2, <1>7 DEF AskedFor
  <2>2. UNCHANGED AskedFor
    BY <1>4, <1>5, <2>1 DEF AskedFor
  <2> QED BY <1>3, <2>2
<1> QED BY <1>6, <1>7

LEMMA LedgerStep ==
  ASSUME OwnerInv, VersionsInv, WaitInv, OwnerInv', VersionsInv', WaitInv', [Next]_vars
  PROVE  [Ledger!Next]_(Ledger!vars)
<1>1. Type /\ Control
  BY DEF OwnerInv
<1>2. CASE UNCHANGED <<Owners, ScoresOf, AskedFor, GradedOnes>>
  BY <1>2 DEF Ledger!vars, Owners, ScoresOf, AskedFor, GradedOnes
<1>3. ASSUME SameEntries, req' = req, NEW c \in Calls, pc[c] # "idle", pc'[c] # "idle",
             \A x \in Calls \ {c} : pc'[x] = pc[x]
      PROVE  UNCHANGED <<Owners, ScoresOf, AskedFor, GradedOnes>>
  BY <1>1, <1>3, AskedStays, EntriesStay
<1>4. ASSUME NEW c \in Calls, Reads(c) \/ WritesDetail(c)
      PROVE  UNCHANGED <<Owners, ScoresOf, AskedFor, GradedOnes>>
  <2>1. /\ doc' = doc /\ req' = req /\ pc[c] # "idle" /\ pc'[c] # "idle"
        /\ \A x \in Calls \ {c} : pc'[x] = pc[x]
    BY <1>1, <1>4, ReadShape, DetailShape DEF Moves, AfterProcess
  <2>2. SameEntries
    BY <2>1 DEF SameEntries
  <2> QED BY <1>3, <2>1, <2>2
<1>5. ASSUME NEW c \in Calls, WritesDoc(c), ~GradeWrite(c)
      PROVE  UNCHANGED <<Owners, ScoresOf, AskedFor, GradedOnes>>
  BY <1>3, <1>5, WritesKeepEntries
<1>6. ASSUME NEW c \in Calls, ResetIp(c)
      PROVE  UNCHANGED <<Owners, ScoresOf, AskedFor, GradedOnes>>
  <2>1. /\ pc[c] = "resetIp" /\ Moves(c, "ok")
        /\ \A b \in Attempts : /\ doc[b] = None => doc'[b] = None
                               /\ doc[b] # None =>
                                     doc'[b] # None /\ doc'[b].user = doc[b].user /\ doc'[b].score = doc[b].score
    BY <1>1, <1>6, ResetShape
  <2>2. SameEntries
    BY <2>1 DEF SameEntries
  <2> QED BY <1>3, <2>1, <2>2 DEF Moves
<1>7. CASE UNCHANGED <<doc, detail, joined, req, pc, seen>>
  BY <1>2, <1>7 DEF Owners, ScoresOf, AskedFor, GradedOnes
<1>8. ASSUME NEW c \in Calls, GradeWrite(c) PROVE Ledger!Next
  BY <1>8, GradeWriteHandsIn DEF Ledger!Next
<1>9. ASSUME NEW c \in Calls, CreateAttempt(c) PROVE Ledger!Next
  BY <1>9, CreateBegins DEF Ledger!Next
<1>10. ASSUME NEW c \in Calls, Call(c) PROVE [Ledger!Next]_(Ledger!vars)
  BY <1>2, <1>10, CallAsks DEF Ledger!Next
<1> QED BY <1>2, <1>4, <1>5, <1>6, <1>7, <1>8, <1>9, <1>10, StepCases

(* For clients that wait for one answer before they call again, the        *)
(* service implements the ledger: attempts keep their owner, and marks are *)
(* entered once, by a hand-in the owner asked for, and are final (start,   *)
(* finish and process, with every write of a document that was read before *)
(* the marks were stored).                                                 *)
THEOREM HandInsAreEnteredOnce ==
  ASSUME OneAtATime
  PROVE  Spec => HandsInOnce
<1> DEFINE IInv == OwnerInv /\ VersionsInv /\ WaitInv
<1>1. Spec => []IInv
  BY WaitInvariant
<1>2. IInv /\ IInv' /\ [Next]_vars => [Ledger!Next]_(Ledger!vars)
  BY LedgerStep
<1> QED BY <1>1, <1>2, InitLedger, PTL DEF Spec, HandsInOnce, Ledger!Spec
=============================================================================
