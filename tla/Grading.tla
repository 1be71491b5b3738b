------------------------------- MODULE Grading -------------------------------
(***************************************************************************)
(* Marking of one hand-in (AttemptProcessor.process, handleNewAttempt and  *)
(* createAttemptAndAttemptDetails): the questions are marked one after the *)
(* other into counters, totals and a list of answers, the list is put into *)
(* the order the student saw, and the subjects are added up from it. An    *)
(* answer is how many of its parts are right and wrong: chosen options,    *)
(* gaps or pairs, test cases. finish sends options as plain ids and texts, *)
(* submitToQueue sends objects.                                            *)
(***************************************************************************)
EXTENDS Integers, Sequences, FiniteSets, SequencesExt

CONSTANTS
    TestQuestions,  \* the questions of the test, in its order
    SubjectPlans,   \* the subjects of the questions
    Parts,          \* right options of a multiple choice, test cases
    TestMarks,      \* plusMark and minusMark of the test
    QuestionMarks,  \* plusMark and minusMark of a question, marks of a right option
    Listings        \* question orders that clients send, any lists

ASSUME GradingAssumption ==
    /\ TestQuestions \in Seq(ToSet(TestQuestions)) /\ IsInjective(TestQuestions)
    /\ \A plan \in SubjectPlans : DOMAIN plan = ToSet(TestQuestions)
    /\ Parts \in Nat \ {0}
    /\ TestMarks \in [plus : Nat, minus : Int] /\ TestMarks.minus <= 0
    /\ QuestionMarks \in [plus : Nat, minus : Int, option : Nat] /\ QuestionMarks.minus <= 0
    /\ Parts * QuestionMarks.option <= QuestionMarks.plus
    /\ \A listed \in Listings : listed \in Seq(ToSet(listed))

VARIABLES
    test,       \* the test, its settings and what the client sent
    todo,       \* the places of the questions still to mark, marked in order
    QA,         \* the answers marked so far
    mark,       \* questionplusMark and questionMinusMark, kept from turn to turn
    total,      \* the totals
    subjects    \* the subjects of the stored attempt; <<>> before

gradingVars == <<test, todo, QA, mark, total, subjects>>

QuestionKinds == {"single", "multiple", "partial", "typed", "code", "descriptive"}

(* typed: fill in the blanks and matching. partial: a multiple choice with *)
(* partialMark; its plusMark may be 0, its options have marks.             *)
PartsOf(kind) == IF kind \in {"single", "typed", "descriptive"} THEN 1 ELSE Parts

(* A multiple choice takes any options (one wrong one tells enough), the   *)
(* others one answer or none; of code all cases are run.                   *)
Answers(kind) ==
    {a \in [right : 0 .. PartsOf(kind), wrong : 0 .. PartsOf(kind)] :
        \/ kind \in {"multiple", "partial"} /\ a.wrong <= 1
        \/ a.right + a.wrong \in {0, PartsOf(kind)} /\ (kind = "descriptive" => a.wrong = 0)}

(* The contract of finish has no room for gaps and pairs. *)
KindsSent(plain) == IF plain THEN QuestionKinds \ {"typed"} ELSE QuestionKinds

(* Mutant of Graded: the client's list decides in every test. *)
GradedListed(subset, listed) ==
    {i \in DOMAIN TestQuestions : listed # <<>> => TestQuestions[i] \in ToSet(listed)}

(* The client's list decides only if the test shows each student a subset. *)
Graded(subset, listed) ==
    {i \in DOMAIN TestQuestions : subset /\ listed # <<>> => TestQuestions[i] \in ToSet(listed)}

GradingInit ==
    /\ test \in [enableMarks : BOOLEAN, isMarksLevel : BOOLEAN, partialCoding : BOOLEAN,
                 subset : BOOLEAN, listed : Listings, plain : BOOLEAN,
                 subjectOf : SubjectPlans]
    /\ test.isMarksLevel => test.enableMarks
    /\ todo = Graded(test.subset, test.listed)
    /\ QA = <<>>
    /\ mark = [plus |-> 1, minus |-> 0]
    /\ total = [errors |-> 0, missed |-> 0, pending |-> 0, plus |-> 0, minus |-> 0, evaluated |-> TRUE]
    /\ subjects = <<>>

(***************************************************************************)
(* What an answer is worth                                                 *)
(***************************************************************************)
Given(a) == a.right + a.wrong > 0

(* hasWrongAnswer. Of plain ids only the number is compared for a multiple *)
(* choice, because answerIncorrect stays empty; a plain text has no right  *)
(* options to miss.                                                        *)
WrongPlain(kind, a) ==
    \/ kind = "single" /\ a.right = 0
    \/ kind \in {"multiple", "partial"} /\ a.right + a.wrong # Parts

(* Mutant of WrongObject: wrong options next to all right ones are ignored. *)
WrongObjectLoose(kind, a) == a.right < PartsOf(kind)

WrongObject(kind, a) ==
    \/ kind = "single" /\ a.right = 0
    \/ kind = "multiple" /\ (a.wrong > 0 \/ a.right + a.wrong # Parts)
    \/ kind = "partial" /\ a.wrong > 0
    \/ kind = "typed" /\ a.right # PartsOf(kind)
    \/ kind = "code" /\ IF test.partialCoding THEN a.right = 0 ELSE a.wrong > 0
    \/ kind = "descriptive"

Wrong(kind, a) == IF test.plain THEN WrongPlain(kind, a) ELSE WrongObject(kind, a)

StatusOf(kind, a) ==
    IF ~Given(a) THEN "missed"
    ELSE IF kind = "descriptive" THEN "pending"
    ELSE IF Wrong(kind, a) THEN "incorrect"
    ELSE "correct"

FullMark(plus) == IF test.isMarksLevel THEN TestMarks.plus ELSE plus

(* codingPartialMark: every passed case earns at most its share of the     *)
(* mark, less if it is slow or takes much memory.                          *)
CodeMarks(plus, a) == 0 .. (a.right * FullMark(plus)) \div Parts

(* questionplusMark of a correct answer. *)
PlusMarks(kind, plus, a) ==
    IF ~test.enableMarks THEN {mark.plus}
    ELSE IF kind = "code" /\ test.partialCoding /\ ~test.plain THEN CodeMarks(plus, a)
    ELSE IF test.isMarksLevel THEN {TestMarks.plus}
    ELSE IF kind = "partial" /\ test.plain THEN {0}
    ELSE IF kind = "partial" /\ a.right # Parts THEN {a.right * QuestionMarks.option}
    ELSE {plus}

(* questionMinusMark of an incorrect one. *)
MinusMark ==
    IF ~test.enableMarks THEN mark.minus
    ELSE IF test.isMarksLevel THEN TestMarks.minus
    ELSE QuestionMarks.minus

(* The marks a question has of its own; as a mutant of ActualMark, those  *)
(* of the test are not looked at.                                          *)
ActualMarkOfQuestion(kind, plus) ==
    IF kind = "partial" /\ plus = 0 THEN Parts * QuestionMarks.option ELSE plus

ActualMark(kind, plus) ==
    IF ~test.enableMarks THEN 1
    ELSE IF test.isMarksLevel THEN TestMarks.plus
    ELSE ActualMarkOfQuestion(kind, plus)

(***************************************************************************)
(* One turn of the loop over the questions                                 *)
(***************************************************************************)
Marked(q, kind, plus, a, obtain) ==
    [question |-> q, kind |-> kind, answer |-> a, status |-> StatusOf(kind, a),
     obtainMarks |-> obtain, actualMarks |-> ActualMark(kind, plus)]

GradeMissed(q, kind, plus, a) ==
    /\ ~Given(a)
    /\ QA' = Append(QA, Marked(q, kind, plus, a, 0))
    /\ total' = [total EXCEPT !.missed = @ + 1]
    /\ UNCHANGED mark

(* Mutant of GradeDescriptive: the answer counts as an error too. *)
GradeDescriptiveWrong(q, kind, plus, a) ==
    /\ Given(a) /\ kind = "descriptive"
    /\ QA' = Append(QA, Marked(q, kind, plus, a, 0))
    /\ total' = [total EXCEPT !.pending = @ + 1, !.evaluated = FALSE, !.errors = @ + 1]
    /\ UNCHANGED mark

(* A plain text becomes pending without being counted as such. *)
GradeDescriptive(q, kind, plus, a) ==
    /\ Given(a) /\ kind = "descriptive"
    /\ QA' = Append(QA, Marked(q, kind, plus, a, 0))
    /\ total' = IF test.plain THEN total
                ELSE [total EXCEPT !.pending = @ + 1, !.evaluated = FALSE]
    /\ UNCHANGED mark

GradeIncorrect(q, kind, plus, a) ==
    /\ StatusOf(kind, a) = "incorrect"
    /\ mark' = [mark EXCEPT !.minus = MinusMark]
    /\ QA' = Append(QA, Marked(q, kind, plus, a, mark'.minus))
    /\ total' = [total EXCEPT !.errors = @ + 1,
                              !.minus = @ + IF test.enableMarks THEN mark'.minus ELSE 0]

GradeCorrect(q, kind, plus, a) ==
    /\ StatusOf(kind, a) = "correct"
    /\ \E m \in PlusMarks(kind, plus, a) : mark' = [mark EXCEPT !.plus = m]
    /\ QA' = Append(QA, Marked(q, kind, plus, a, mark'.plus))
    /\ total' = [total EXCEPT !.plus = @ + IF test.enableMarks THEN mark'.plus ELSE 1]

GradeQuestion ==
    /\ \E i \in todo, kind \in KindsSent(test.plain), plus \in {0, QuestionMarks.plus} :
        /\ \A j \in todo : i <= j
        /\ todo' = todo \ {i}
        /\ plus = 0 => kind = "partial"
        /\ \E a \in Answers(kind) :
            \/ GradeMissed(TestQuestions[i], kind, plus, a)
            \/ GradeDescriptive(TestQuestions[i], kind, plus, a)
            \/ GradeIncorrect(TestQuestions[i], kind, plus, a)
            \/ GradeCorrect(TestQuestions[i], kind, plus, a)
    /\ UNCHANGED <<test, subjects>>

(***************************************************************************)
(* The order the student saw, and the subjects                             *)
(***************************************************************************)
EntryOf(q) == QA[CHOOSE i \in DOMAIN QA : QA[i].question = q]

(* The k-th of a set of places of a list. *)
Place(places, k) == CHOOSE i \in places : Cardinality({j \in places : j <= i}) = k

(* Listed questions that were graded, each as often as it is listed, and   *)
(* nothing for an unknown one.                                             *)
NewOrder ==
    LET known == {i \in DOMAIN test.listed : \E e \in ToSet(QA) : e.question = test.listed[i]}
    IN [k \in 1 .. Cardinality(known) |-> EntryOf(test.listed[Place(known, k)])]

(* Only the lengths are compared: of a list with q1 twice and without q2   *)
(* the answer to q1 is stored twice, and the one to q2 is lost.            *)
Reordered == IF Len(NewOrder) = Len(QA) THEN NewOrder ELSE QA

NumberOf(list, places, status) == Cardinality({i \in places : list[i].status = status})

Obtained(list, places) == SumFunctionOnSet([i \in DOMAIN list |-> list[i].obtainMarks], places)
Obtainable(list, places) == SumFunctionOnSet([i \in DOMAIN list |-> list[i].actualMarks], places)

(* Places of the answers of a subject. *)
PlacesOf(s, list) == {i \in DOMAIN list : test.subjectOf[list[i].question] = s}

(* Mutant of SubjectOf: a pending answer is left out of the marks. *)
SubjectOfEvaluated(s, list) ==
    LET of == PlacesOf(s, list)
        done == {i \in of : list[i].status # "pending"}
    IN [correct |-> NumberOf(list, of, "correct"), incorrect |-> NumberOf(list, of, "incorrect"),
        pending |-> NumberOf(list, of, "pending"), missed |-> NumberOf(list, of, "missed"),
        mark |-> Obtained(list, done), maxMarks |-> Obtainable(list, done)]

(* A subject; its units and topics are added up in the same way. *)
SubjectOf(s, list) ==
    LET of == PlacesOf(s, list)
    IN [correct |-> NumberOf(list, of, "correct"), incorrect |-> NumberOf(list, of, "incorrect"),
        pending |-> NumberOf(list, of, "pending"), missed |-> NumberOf(list, of, "missed"),
        mark |-> Obtained(list, of), maxMarks |-> Obtainable(list, of)]

(* totalCorrects: what the other counters leave over. *)
Corrects == Cardinality(Graded(test.subset, test.listed)) - total.errors - total.missed - total.pending

StoreAttempt ==
    /\ todo = {} /\ subjects = <<>>
    /\ QA' = Reordered
    /\ subjects' = [s \in {test.subjectOf[e.question] : e \in ToSet(QA')} |-> SubjectOf(s, QA')]
    /\ UNCHANGED <<test, todo, mark, total>>

GradingNext == GradeQuestion \/ StoreAttempt

GradingSpec == GradingInit /\ [][GradingNext]_gradingVars

(***************************************************************************)
(* Correctness                                                             *)
(***************************************************************************)
Stored == subjects # <<>>

ListedOnce == IsInjective(test.listed)

(* The answers are those that were marked, which the order that the client *)
(* sent may break only if it names a question twice.                       *)
AsMarked == Stored => ListedOnce

Maximum == Obtainable(QA, DOMAIN QA)

Number(status) == NumberOf(QA, DOMAIN QA, status)

SubjectSum(Op(_)) == SumFunction([s \in DOMAIN subjects |-> Op(subjects[s])])

(* Counters are naturals, every answer has a status and a mark, and the    *)
(* subjects are those of the answers.                                      *)
GradingType ==
    /\ todo \subseteq DOMAIN TestQuestions
    /\ total \in [errors : Nat, missed : Nat, pending : Nat, plus : Nat, minus : Int,
                  evaluated : BOOLEAN]
    /\ mark \in [plus : Nat, minus : Int]
    /\ \A e \in ToSet(QA) :
        /\ e.question \in ToSet(TestQuestions) /\ e.kind \in KindsSent(test.plain)
        /\ e.answer \in Answers(e.kind)
        /\ e.status \in {"missed", "pending", "incorrect", "correct"}
        /\ e.obtainMarks \in Int /\ e.actualMarks \in Nat
    /\ Stored => DOMAIN subjects = {test.subjectOf[e.question] : e \in ToSet(QA)}

(* The counters of the attempt, the statuses of its answers and the counts *)
(* of its subjects say the same: totalCorrects, which is what the others   *)
(* leave over, is the number of correct answers, and the attempt counts as *)
(* evaluated only if nothing is pending. A plain descriptive text is the   *)
(* exception: it is pending and yet counted as correct. The subjects agree *)
(* with the stored answers even if one of them was stored twice; then the  *)
(* counters of the attempt do not.                                         *)
CountsMatchStatuses ==
    LET plainTexts == IF test.plain THEN Number("pending") ELSE 0
    IN /\ total.evaluated <=> total.pending = 0
       /\ AsMarked => /\ total.errors = Number("incorrect")
                      /\ total.missed = Number("missed")
                      /\ total.pending + plainTexts = Number("pending")
       /\ Stored /\ ListedOnce => Corrects = Number("correct") + plainTexts
       /\ Stored => /\ Number("correct") = SubjectSum(LAMBDA s : s.correct)
                    /\ Number("incorrect") = SubjectSum(LAMBDA s : s.incorrect)
                    /\ Number("missed") = SubjectSum(LAMBDA s : s.missed)
                    /\ Number("pending") = SubjectSum(LAMBDA s : s.pending)

(* plusMark + minusMark, which the loop adds up, is the sum of what the    *)
(* answers obtained, unless the client listed one twice; the marks and the *)
(* maximum of the stored answers are the sums of those of the subjects.    *)
MarksAddUp ==
    /\ AsMarked => total.plus + total.minus = Obtained(QA, DOMAIN QA)
    /\ Stored => /\ Obtained(QA, DOMAIN QA) = SubjectSum(LAMBDA s : s.mark)
                 /\ Maximum = SubjectSum(LAMBDA s : s.maxMarks)

(* No answer obtains more than it can, in whichever way test, question and *)
(* partial marks combine, and no attempt, unless the client listed a       *)
(* question twice: accuracy never exceeds 1.                               *)
WithinMaximum ==
    /\ \A e \in ToSet(QA) : e.obtainMarks <= e.actualMarks
    /\ AsMarked => total.plus + total.minus <= Maximum

(* Partial marks that are not looked at: without marks, and for options    *)
(* also with the marks of the test.                                        *)
PartialIgnored(e) ==
    \/ e.kind = "partial" /\ (~test.enableMarks \/ test.isMarksLevel)
    \/ e.kind = "code" /\ test.partialCoding /\ ~test.enableMarks

(* Handed in by submitToQueue (objects), only an answer that is right in   *)
(* every part obtains the whole mark of its question.                      *)
WholeMarkMeansExact ==
    ~test.plain => \A e \in ToSet(QA) :
        e.obtainMarks = e.actualMarks /\ e.actualMarks > 0 /\ ~PartialIgnored(e) =>
            e.answer.right = PartsOf(e.kind) /\ e.answer.wrong = 0

(* The stored attempt has as many answers as questions were to be graded,  *)
(* and each of these once, in whatever order the client listed them, with  *)
(* gaps or with unknown ids: only a list that names a question twice can   *)
(* lose an answer. In a test that shows all its questions these are all.   *)
EveryQuestionCounts ==
    Stored =>
        LET asked == [i \in DOMAIN QA |-> QA[i].question]
        IN /\ Len(QA) = Cardinality(Graded(test.subset, test.listed))
           /\ ListedOnce =>
               /\ IsInjective(asked)
               /\ ToSet(asked) = IF test.subset /\ test.listed # <<>>
                                 THEN ToSet(test.listed) \cap ToSet(TestQuestions)
                                 ELSE ToSet(TestQuestions)

=============================================================================
