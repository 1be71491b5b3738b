---------------------------- MODULE HandInLedger ----------------------------
(***************************************************************************)
(* What the attempt service promises a student who waits for answers:      *)
(* an attempt belongs to one user for ever, its marks are entered once,    *)
(* for a request of that user to hand in this very attempt, and neither    *)
(* the marks nor the closing of a graded attempt are ever taken back.      *)
(***************************************************************************)
CONSTANTS Users, Attempts, Calls, None

VARIABLES
  owner,   \* whose each attempt is, None before it exists
  asked,   \* the hand-in that a call has asked for
  marks,   \* the call whose answers an attempt is marked by
  graded   \* attempts that are closed and marked

vars == <<owner, asked, marks, graded>>

(* Some attempts may have begun, none has been handed in.                  *)
Init ==
  /\ owner \in [Attempts -> Users \union {None}]
  /\ asked = [c \in Calls |-> None]
  /\ marks = [a \in Attempts |-> None]
  /\ graded = {}

Begin(a, u) ==
  /\ owner[a] = None
  /\ owner' = [owner EXCEPT ![a] = u]
  /\ UNCHANGED <<asked, marks, graded>>

(* Anybody may ask to hand in any attempt there is.                        *)
Ask(c, a, u) ==
  /\ asked[c] = None /\ owner[a] # None
  /\ asked' = [asked EXCEPT ![c] = [user |-> u, att |-> a]]
  /\ UNCHANGED <<owner, marks, graded>>

(* Only the owner's request is granted, and only once.                     *)
HandIn(c, a) ==
  /\ asked[c] = [user |-> owner[a], att |-> a]
  /\ a \notin graded
  /\ marks' = [marks EXCEPT ![a] = c]
  /\ graded' = graded \union {a}
  /\ UNCHANGED <<owner, asked>>

Next ==
  \E a \in Attempts :
    \/ \E u \in Users : Begin(a, u)
    \/ \E c \in Calls, u \in Users : Ask(c, a, u)
    \/ \E c \in Calls : HandIn(c, a)

Spec == Init /\ [][Next]_vars
=============================================================================
