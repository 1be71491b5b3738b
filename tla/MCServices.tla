----------------------------- MODULE MCServices -----------------------------
(* Small instances of two services that share no state. A behaviour runs   *)
(* marking, or one of two sides of payment: one order, of a course         *)
(* that is deleted meanwhile, or two orders that use the coupon.           *)
EXTENDS Payment, Evaluation, TLC

CONSTANTS i1, i2, q1, q2, a1

VARIABLE service

vars == <<service, paymentVars, evaluationVars>>

MCBaskets == {{i1, i2}, {i2}}
MCAttemptOf == [q \in Questions |-> a1]

(* A service that is not run has one initial state. *)
Init ==
    /\ service \in {"order", "coupon", "evaluation"}
    /\ PaymentInit
    /\ service # "coupon" => referral
    /\ service = "evaluation" => oneByOne
    /\ EvaluationInit /\ (service # "evaluation" => inTurn)

Placed == {o \in Orders : payment[o] # NoPayment \/ \E h \in Handlers : handler[h].order = o}

Bound ==
    IF service = "order"
    THEN /\ Cardinality(Placed) <= 1
         /\ \A h \in Handlers : /\ ~handler[h].coupon
                                /\ handler[h].at = "check" => i1 \in handler[h].items
    ELSE gone = {} /\ \A h \in Handlers : i1 \notin handler[h].items

Next ==
    /\ UNCHANGED service
    /\ \/ service # "evaluation" /\ PaymentNext /\ Bound' /\ UNCHANGED evaluationVars
       \/ service = "evaluation" /\ EvaluationNext /\ UNCHANGED paymentVars

Spec == Init /\ [][Next]_vars

Symmetry == Permutations(Orders) \cup Permutations(Handlers)
=============================================================================
