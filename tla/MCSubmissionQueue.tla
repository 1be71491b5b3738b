-------------------------- MODULE MCSubmissionQueue --------------------------
(* Instances of SubmissionQueue for TLC.                                   *)
EXTENDS SubmissionQueue, TLC

(* Calls and workers are interchangeable where no call is a long one.      *)
Symmetry == Permutations(Calls) \union Permutations(Workers)
=============================================================================
