------------------------------ MODULE GradeOnce ------------------------------
(***************************************************************************)
(* What the submission queue promises about marks, whatever Bull, the      *)
(* clients and the service do: a stored hand-in is claimed by one worker,  *)
(* and marks change only by a worker that holds a claim, once per claim.   *)
(* Claims may be lost (a crash, an error) but none is graded twice.        *)
(***************************************************************************)
CONSTANTS Attempts, Calls, Workers, None

VARIABLES
  draft,    \* attempts with a hand-in that nobody has claimed
  grading,  \* for each attempt, the workers that hold a claim on it
  marks     \* whose answers the marks of an attempt come from

vars == <<draft, grading, marks>>

Init ==
  /\ draft = {}
  /\ grading = [a \in Attempts |-> {}]
  /\ marks = [a \in Attempts |-> None]

(* A hand-in is stored, or given back for another round.                   *)
HandIn(a) ==
  /\ draft' = draft \union {a}
  /\ UNCHANGED <<grading, marks>>

(* A worker claims a draft, or refuses it.                                 *)
Claim(a, w) ==
  /\ a \in draft /\ w \notin grading[a]
  /\ draft' = draft \ {a}
  /\ grading' = [grading EXCEPT ![a] = @ \union {w}]
  /\ UNCHANGED marks

Refuse(a) ==
  /\ a \in draft
  /\ draft' = draft \ {a}
  /\ UNCHANGED <<grading, marks>>

(* A claim ends with marks, or without.                                    *)
Grade(a, w) ==
  /\ w \in grading[a]
  /\ grading' = [grading EXCEPT ![a] = @ \ {w}]
  /\ \E c \in Calls : marks' = [marks EXCEPT ![a] = c]
  /\ UNCHANGED draft

Lose(a, w) ==
  /\ w \in grading[a]
  /\ grading' = [grading EXCEPT ![a] = @ \ {w}]
  /\ UNCHANGED <<draft, marks>>

Next == \E a \in Attempts :
          \/ HandIn(a) \/ Refuse(a)
          \/ \E w \in Workers : Claim(a, w) \/ Grade(a, w) \/ Lose(a, w)

Spec == Init /\ [][Next]_vars
=============================================================================
