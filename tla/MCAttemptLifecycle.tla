------------------------- MODULE MCAttemptLifecycle -------------------------
(* Instances of AttemptLifecycle for TLC.                                  *)
EXTENDS AttemptLifecycle, TLC

CONSTANTS u1, u2, a1, a2

(* Two students, of whom the first has already started attempt a1.         *)
HeldByFirst == (a1 :> u1 @@ a2 :> None)

CallSymmetry == Permutations(Calls)
=============================================================================
