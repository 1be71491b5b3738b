------------------------------ MODULE MCRecords ------------------------------
(* Small instances of four records: the settings, a usercourse record, a   *)
(* list of coins, and an attempt that is graded. They share no state: a    *)
(* behaviour changes one of them, the others stay as they began.           *)
EXTENDS SettingsCache, Grading, CourseProgress, Coins

CONSTANTS q1, q2, other

VARIABLE record

vars == <<record, settingsVars, courseVars, coinsVars, gradingVars>>

MCTest == <<q1, q2>>
MCSubjectPlans == {[q \in {q1, q2} |-> IF q \in apart THEN "algebra" ELSE "logic"] : apart \in {{}, {q2}}}
MCTestMarks == [plus |-> 3, minus |-> -2]
MCQuestionMarks == [plus |-> 4, minus |-> -1, option |-> 1]
MCAmounts == {-1, 2, 3}
MCListings == {<<>>, <<q1>>, <<q2, other, q1>>, <<q1, q1>>}

(* A record that is not changed has one initial state. In it no operation  *)
(* of the settings is under way, so that SettingsFairness asks for nothing. *)
Init ==
    /\ record \in {"settings", "course", "coins", "grading"}
    /\ SettingsInit
    /\ CourseInit
    /\ CoinsInit
    /\ record # "settings" => setting.discount = CHOOSE d \in Discounts : TRUE
    /\ record # "course" => singly /\ ~granted
    /\ GradingInit
    /\ record # "grading" =>
        /\ ~test.enableMarks /\ ~test.partialCoding /\ ~test.subset /\ ~test.plain
        /\ test.listed = <<>> /\ test.subjectOf[q1] = test.subjectOf[q2]

(* Bound: once two kinds of things have happened that no check of the      *)
(* coins covers, the list is followed no further.                          *)
Followed == Cardinality(strains) <= 1

Next ==
    /\ UNCHANGED record
    /\ \/ record = "settings" /\ SettingsNext /\ UNCHANGED <<courseVars, coinsVars, gradingVars>>
       \/ record = "course" /\ CourseNext /\ UNCHANGED <<settingsVars, coinsVars, gradingVars>>
       \/ record = "coins" /\ Followed /\ CoinsNext /\ UNCHANGED <<settingsVars, courseVars, gradingVars>>
       \/ record = "grading" /\ GradingNext /\ UNCHANGED <<settingsVars, courseVars, coinsVars>>

Spec == Init /\ [][Next]_vars /\ SettingsFairness
=============================================================================
