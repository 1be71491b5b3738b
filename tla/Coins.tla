------------------------------- MODULE Coins -------------------------------
(***************************************************************************)
(* The coins of one student: a list of activities that earn, ask for and   *)
(* redeem coins (users.service.ts), and the verdicts on what was asked for *)
(* (supercoins.service.ts). The balance is summed up from the list each    *)
(* time. Nothing says how large an amount is, or that it is positive.      *)
(***************************************************************************)
EXTENDS Integers, FiniteSets, Functions

CONSTANTS
    Activities, \* ids of userSuperCoins documents of the student
    Amounts,    \* of coins, as clients send them
    OwnCoins,   \* balance of the one who deducts
    Counters    \* gRPC calls served at the same time

ASSUME CoinsAssumption ==
    /\ IsFiniteSet(Activities)
    /\ Amounts \subseteq Int
    /\ OwnCoins \in Int

VARIABLES
    activity,   \* activity[a]: activityType and coins
    counter,    \* counter[k]: the call it serves
    strains     \* what has happened that no check covers

coinsVars == <<activity, counter, strains>>

ActivityTypes == {"earned", "inprocess", "redeemed", "rejected"}

Nothing == [type |-> "none", coins |-> 0]

Open == [at |-> "open", coins |-> 0]

CoinsInit ==
    /\ activity = [a \in Activities |-> Nothing]
    /\ counter = [k \in Counters |-> Open]
    /\ strains = {}

CoinsOf(type) ==
    SumFunctionOnSet([a \in Activities |-> activity[a].coins],
                     {a \in Activities : activity[a].type = type})

Balance == CoinsOf("earned") - (CoinsOf("redeemed") + CoinsOf("inprocess"))

Adds(type, n) ==
    \E a \in Activities :
        /\ activity[a] = Nothing
        /\ activity' = [activity EXCEPT ![a] = [type |-> type, coins |-> n]]

Shuts(k) == counter' = [counter EXCEPT ![k] = Open]

Negative(n) == IF n < 0 THEN {"negative"} ELSE {}

(* awardEducoins is one operation.                                         *)
Award(k) ==
    /\ counter[k] = Open
    /\ \E n \in Amounts : Adds("earned", n) /\ strains' = strains \cup Negative(n)
    /\ UNCHANGED counter

(* Mutant of Enough: what was asked for before is forgotten. *)
EnoughEarned(n) == CoinsOf("earned") - (CoinsOf("redeemed") + n - 1) > 1

(* have > 1: redeemCoins leaves at least one coin.                         *)
Enough(n) == CoinsOf("earned") - (CoinsOf("redeemed") + CoinsOf("inprocess") + n - 1) > 1

(* Whether another call is between its check and its write.                *)
Overlaps(k) == \E j \in Counters \ {k} : counter[j].at \in {"redeem", "deduct"}

(* The coins of the caller are summed up, and the request is stored for    *)
(* the student that the path names: of a caller who is someone else        *)
(* nothing is known here. Without any activity the call is refused.        *)
RedeemCheck(k) ==
    /\ counter[k] = Open
    /\ \E n \in Amounts, other \in BOOLEAN :
        /\ ~other => Enough(n) /\ \E a \in Activities : activity[a] # Nothing
        /\ counter' = [counter EXCEPT ![k] = [at |-> "redeem", coins |-> n]]
        /\ strains' = strains \cup Negative(n) \cup (IF other THEN {"other student"} ELSE {})
                               \cup (IF Overlaps(k) THEN {"overlap"} ELSE {})
    /\ UNCHANGED activity

RedeemStore(k) ==
    /\ counter[k].at = "redeem"
    /\ Adds("inprocess", counter[k].coins)
    /\ Shuts(k)
    /\ UNCHANGED strains

(* deductEducoins sums up the coins of the caller, not of the student.     *)
DeductCheck(k) ==
    /\ counter[k] = Open
    /\ \E n \in Amounts :
        /\ OwnCoins - (n - 1) > 0
        /\ counter' = [counter EXCEPT ![k] = [at |-> "deduct", coins |-> n]]
    /\ UNCHANGED <<activity, strains>>

DeductStore(k) ==
    /\ counter[k].at = "deduct"
    /\ Adds("redeemed", counter[k].coins)
    /\ strains' = strains \cup {"deduction"}
    /\ Shuts(k)

Decided(a, verdict) == [activity EXCEPT ![a].type = verdict]

(* Any caller, any activity, any type, and whatever was decided before: it *)
(* is only looked up whether the activity exists, and it stays. So the     *)
(* look-up and the write are one step.                                     *)
UpdateStatus ==
    \E a \in Activities, verdict \in ActivityTypes :
        /\ activity[a] # Nothing
        /\ activity' = Decided(a, verdict)
        /\ strains' = strains \cup (IF activity[a].type = "inprocess" THEN {} ELSE {"not a request"})
        /\ UNCHANGED counter

CounterFails(k) ==
    /\ counter[k] # Open
    /\ Shuts(k)
    /\ UNCHANGED <<activity, strains>>

CoinsNext ==
    \/ UpdateStatus
    \/ \E k \in Counters :
        \/ Award(k) \/ RedeemCheck(k) \/ RedeemStore(k) \/ DeductCheck(k) \/ DeductStore(k)
        \/ CounterFails(k)

CoinsSpec == CoinsInit /\ [][CoinsNext]_coinsVars

(***************************************************************************)
(* Properties                                                              *)
(***************************************************************************)
CoinsType ==
    /\ \A a \in Activities :
        activity[a] = Nothing \/ (activity[a].type \in ActivityTypes /\ activity[a].coins \in Amounts)
    /\ \A k \in Counters :
        /\ counter[k].at \in {"open", "redeem", "deduct"}
        /\ counter[k].coins \in Amounts \cup {0}
    /\ strains \subseteq {"negative", "other student", "overlap", "deduction", "not a request"}

(* What a student has asked for and redeemed never exceeds what he has     *)
(* earned, unless an amount was negative, someone else asked on his        *)
(* behalf, two checks overlapped, coins were deducted, or a verdict went   *)
(* to what was no open request: any verdict on an open one, in whatever    *)
(* order with checks and requests, never takes the balance below zero.     *)
CoinsCoverRequests == strains = {} => Balance >= 0

=============================================================================
