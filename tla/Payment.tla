------------------------------ MODULE Payment ------------------------------
(***************************************************************************)
(* Orders of one student (payment.service.ts): an order is checked and     *)
(* stored with one detail per item; the client then delivers a result,     *)
(* possibly twice or never. Every result is stored as it comes, whether or *)
(* not the provider gave it; then the uses of the coupon are counted and,  *)
(* on success, the student is enrolled in the items, all items at once.    *)
(* Each awaited database operation is a step. Items keep their accessMode, *)
(* and nobody edits the coupon; services (which expire) are left out.      *)
(***************************************************************************)
EXTENDS Naturals, FiniteSets

CONSTANTS
    Orders,     \* ids of payments
    Items,      \* test series, courses, practices
    Courses,    \* the courses, which may be deleted
    Series,     \* the test series, which keep a tally
    Baskets,    \* the sets of items that are ordered together
    ForSale,    \* the items with accessMode "buy"
    Handlers,   \* gRPC calls served at the same time
    UsageLimit, \* of the coupon
    MaxCalls,   \* bounds the results delivered and the free enrolments
    NoOrder     \* a call that enrols without payment

ASSUME PaymentAssumption ==
    /\ IsFiniteSet(Orders) /\ IsFiniteSet(Items)
    /\ Baskets \subseteq SUBSET Items
    /\ ForSale \subseteq Items
    /\ Courses \cup Series \subseteq Items /\ Courses \cap Series = {}
    /\ UsageLimit \in Nat /\ MaxCalls \in Nat
    /\ NoOrder \notin Orders

VARIABLES
    payment,    \* payment[o]: the document, and what became of it
    detail,     \* detail[o][i]: status of the paymentdetail
    couponOn,   \* coupon.status
    referral,   \* coupon.isReferral
    gone,       \* the items deleted
    enrolled,   \* enrolled[i]: userenrollment documents of the student
    tally,      \* tally[i]: totalEnrollUsers
    handler,    \* handler[h]: the call it serves
    calls,      \* number of results delivered and free enrolments
    oneByOne,   \* whether the client waits for each answer
    overrun,    \* whether it called while items of a failed call went on
    refused     \* whether an operation has failed

paymentVars == <<payment, detail, couponOn, referral, gone, enrolled, tally, handler,
                 calls, oneByOne, overrun, refused>>

(* "other" is any status but success: pending, aborted, a failure. No      *)
(* result is "pending".                                                    *)
Outcomes == {"success", "other"}
Phases == {"no", "mark", "look", "find", "create", "count"}

NoItems == [i \in Items |-> "no"]

Free == [at |-> "free", order |-> NoOrder, items |-> {}, coupon |-> FALSE,
         status |-> "other", item |-> NoItems]

(* succeeded: it has once been stored as a success; settled: the items a   *)
(* successful answer has dealt with.                                       *)
NoPayment == [status |-> "none", items |-> {}, coupon |-> FALSE,
              succeeded |-> FALSE, settled |-> {}]

PaymentInit ==
    /\ payment = [o \in Orders |-> NoPayment]
    /\ detail = [o \in Orders |-> [i \in Items |-> "none"]]
    /\ couponOn = TRUE
    /\ referral \in BOOLEAN
    /\ gone = {}
    /\ enrolled = [i \in Items |-> 0]
    /\ tally = [i \in Items |-> 0]
    /\ handler = [h \in Handlers |-> Free]
    /\ calls = 0
    /\ oneByOne \in BOOLEAN
    /\ overrun = FALSE
    /\ refused = FALSE

(* The items of a handler that has answered with an error go on ("left").  *)
MayStart(h) ==
    /\ handler[h] = Free
    /\ oneByOne => \A g \in Handlers : handler[g].at \in {"free", "left"}
    /\ overrun' = (overrun \/ (oneByOne /\ \E g \in Handlers : handler[g].at = "left"))

(* updateCoupon looks only at payments with a coupon. *)
AfterStatus(o) == IF payment[o].coupon THEN "count coupon" ELSE "list details"

Goes(h, at) == handler' = [handler EXCEPT ![h].at = at]

Ends(h) == handler' = [handler EXCEPT ![h] = Free]

(***************************************************************************)
(* initCCA and createPayment: place an order                               *)
(***************************************************************************)
(* The items are read and the coupons that are on looked up. coupon stands *)
(* for initCCA with a coupon; createPayment never keeps one: it builds the *)
(* document from the empty lists before it fills them (1597-1633).         *)
PlaceOrder(h) ==
    /\ MayStart(h)
    /\ \E o \in Orders, I \in Baskets, coupon \in {FALSE, couponOn} :
        /\ payment[o] = NoPayment /\ \A g \in Handlers : handler[g].order # o
        /\ I \cap gone = {}
        /\ handler' = [handler EXCEPT ![h] =
            [Free EXCEPT !.at = "check", !.order = o, !.items = I, !.coupon = coupon]]
    /\ UNCHANGED <<payment, detail, couponOn, referral, gone, enrolled, tally, calls, oneByOne, refused>>

(* An item that the student is enrolled in is refused, unless the          *)
(* enrolment is of another location than the one active now.               *)
CheckEnrolled(h) ==
    /\ handler[h].at = "check"
    /\ \/ (\E i \in handler[h].items : enrolled[i] > 0) /\ Ends(h)
       \/ Goes(h, "store order")
    /\ UNCHANGED <<payment, detail, couponOn, referral, gone, enrolled, tally, calls, oneByOne,
                   overrun, refused>>

(* An order with nothing to pay (a coupon of the whole price, or the price *)
(* or discount that the client sent) is a success at once.                 *)
StoreOrder(h) ==
    LET r == handler[h]
    IN  /\ r.at = "store order"
        /\ \E status \in Outcomes :
            /\ payment' = [payment EXCEPT ![r.order] = [NoPayment EXCEPT
                !.status = status, !.items = r.items, !.coupon = r.coupon,
                !.succeeded = (status = "success")]]
            /\ handler' = [handler EXCEPT ![h].at = "store details", ![h].status = status]
        /\ UNCHANGED <<detail, couponOn, referral, gone, enrolled, tally, calls, oneByOne,
                       overrun, refused>>

StoreDetail(h, i) ==
    LET r == handler[h]
    IN  /\ r.at = "store details" /\ i \in r.items
        /\ detail' = [detail EXCEPT ![r.order][i] = r.status]
        /\ handler' = [handler EXCEPT ![h].items = @ \ {i}]
        /\ UNCHANGED <<payment, couponOn, referral, gone, enrolled, tally, calls, oneByOne,
                       overrun, refused>>

(* The order is sent to the provider, or handled by paymentSuccess.        *)
DetailsStored(h) ==
    LET r == handler[h]
    IN  /\ r.at = "store details" /\ r.items = {}
        /\ IF r.status = "success" THEN Goes(h, AfterStatus(r.order)) ELSE Ends(h)
        /\ UNCHANGED <<payment, detail, couponOn, referral, gone, enrolled, tally, calls, oneByOne,
                       overrun, refused>>

(***************************************************************************)
(* Results and cancellations                                               *)
(***************************************************************************)
(* finishCCA, paymentResult and paymentFinish: none looks at what the      *)
(* provider has made of this order, or at the status that is stored.       *)
Result(h, o) ==
    /\ MayStart(h)
    /\ payment[o] # NoPayment /\ calls < MaxCalls
    /\ calls' = calls + 1
    /\ \E outcome \in Outcomes :
        handler' = [handler EXCEPT ![h] =
            [Free EXCEPT !.at = "store result", !.order = o, !.status = outcome]]
    /\ UNCHANGED <<payment, detail, couponOn, referral, gone, enrolled, tally, oneByOne, refused>>

StoreResult(h) ==
    LET r == handler[h]
    IN  /\ r.at = "store result"
        /\ payment' = [payment EXCEPT ![r.order].status = r.status,
                                      ![r.order].succeeded = @ \/ r.status = "success"]
        /\ Goes(h, AfterStatus(r.order))
        /\ UNCHANGED <<detail, couponOn, referral, gone, enrolled, tally, calls, oneByOne,
                       overrun, refused>>

(* cancelCCA, whatever has become of the payment meanwhile.                *)
CancelOrder(o) ==
    /\ payment[o] # NoPayment
    /\ payment' = [payment EXCEPT ![o].status = "other"]
    /\ UNCHANGED <<detail, couponOn, referral, gone, enrolled, tally, handler, calls, oneByOne,
                   overrun, refused>>

(* deleteCourse; test series and practices are only made inactive.         *)
DeleteItem(i) ==
    /\ i \in Courses \ gone
    /\ gone' = gone \cup {i}
    /\ UNCHANGED <<payment, detail, couponOn, referral, enrolled, tally, handler, calls, oneByOne,
                   overrun, refused>>

(***************************************************************************)
(* paymentSuccess, after every result                                      *)
(***************************************************************************)
Uses == Cardinality({p \in Orders : payment[p].coupon})

(* Mutant of LimitReached: off by one. *)
LimitExceeded(o) == ~referral /\ Uses > UsageLimit

(* Payments of any status count as uses. *)
LimitReached(o) == ~referral /\ Uses >= UsageLimit

CountCoupon(h) ==
    /\ handler[h].at = "count coupon"
    /\ Goes(h, IF LimitReached(handler[h].order) THEN "switch off" ELSE "list details")
    /\ UNCHANGED <<payment, detail, couponOn, referral, gone, enrolled, tally, calls, oneByOne,
                   overrun, refused>>

SwitchOff(h) ==
    /\ handler[h].at = "switch off"
    /\ couponOn' = FALSE
    /\ Goes(h, "list details")
    /\ UNCHANGED <<payment, detail, referral, gone, enrolled, tally, calls, oneByOne,
                   overrun, refused>>

(* Mutant of FirstPhase: a detail that already is a success is left out.   *)
FirstPhaseOnce(o, i, status) ==
    IF detail[o][i] \in {"none", status} THEN "no" ELSE "mark"

(* updatePaymentDetail: the status is stored unless both are a success;    *)
(* the student is enrolled on success.                                     *)
FirstPhase(o, i, status) ==
    CASE detail[o][i] = "none" -> "no"
      [] detail[o][i] = "success" /\ status = "success" -> "look"
      [] OTHER -> "mark"

ListDetails(h) ==
    LET r == handler[h]
    IN  /\ r.at = "list details"
        /\ handler' = [handler EXCEPT ![h].at = "items",
                ![h].items = {i \in Items : detail[r.order][i] # "none"},
                ![h].item = [i \in Items |-> FirstPhase(r.order, i, r.status)]]
        /\ UNCHANGED <<payment, detail, couponOn, referral, gone, enrolled, tally, calls, oneByOne,
                       overrun, refused>>

ItemGoes(h, i, phase) == handler' = [handler EXCEPT ![h].item[i] = phase]

(* Mutant of AfterMark: a result of any status enrols. *)
AfterMarkAlways(status) == "look"

AfterMark(status) == IF status = "success" THEN "look" ELSE "no"

MarkDetail(h, i) ==
    /\ handler[h].item[i] = "mark"
    /\ detail' = [detail EXCEPT ![handler[h].order][i] = handler[h].status]
    /\ ItemGoes(h, i, AfterMark(handler[h].status))
    /\ UNCHANGED <<payment, couponOn, referral, gone, enrolled, tally, calls, oneByOne, overrun, refused>>

(***************************************************************************)
(* createUserEnrollment, and enrollItems for an item that is not for sale  *)
(***************************************************************************)
EnrollItems(h, i) ==
    /\ MayStart(h)
    /\ i \notin ForSale /\ calls < MaxCalls
    /\ calls' = calls + 1
    /\ handler' = [handler EXCEPT ![h] = [Free EXCEPT !.at = "items", !.item[i] = "look"]]
    /\ UNCHANGED <<payment, detail, couponOn, referral, gone, enrolled, tally, oneByOne, refused>>

(* A deleted item is passed over. *)
LookUpItem(h, i) ==
    /\ handler[h].item[i] = "look"
    /\ ItemGoes(h, i, IF i \in gone THEN "no" ELSE "find")
    /\ UNCHANGED <<payment, detail, couponOn, referral, gone, enrolled, tally, calls, oneByOne,
                   overrun, refused>>

(* Mutant of IsEnrolled: the enrolment is not looked up. *)
IsEnrolledNever(i) == FALSE

IsEnrolled(i) == enrolled[i] > 0

FindEnrolment(h, i) ==
    /\ handler[h].item[i] = "find"
    /\ ItemGoes(h, i, IF IsEnrolled(i) THEN "no" ELSE "create")
    /\ UNCHANGED <<payment, detail, couponOn, referral, gone, enrolled, tally, calls, oneByOne,
                   overrun, refused>>

CreateEnrolment(h, i) ==
    /\ handler[h].item[i] = "create"
    /\ enrolled' = [enrolled EXCEPT ![i] = @ + 1]
    /\ ItemGoes(h, i, "count")
    /\ UNCHANGED <<payment, detail, couponOn, referral, gone, tally, calls, oneByOne, overrun, refused>>

(* Mutant of CountEnrolment: the total is stored from the documents found. *)
CountEnrolmentStored(h, i) ==
    /\ handler[h].item[i] = "count"
    /\ tally' = IF i \in Series THEN [tally EXCEPT ![i] = enrolled[i] - 1] ELSE tally
    /\ ItemGoes(h, i, "no")
    /\ UNCHANGED <<payment, detail, couponOn, referral, gone, enrolled, calls, oneByOne, overrun, refused>>

(* The subjects are added to the student's, and a test series counts.      *)
CountEnrolment(h, i) ==
    /\ handler[h].item[i] = "count"
    /\ tally' = IF i \in Series THEN [tally EXCEPT ![i] = @ + 1] ELSE tally
    /\ ItemGoes(h, i, "no")
    /\ UNCHANGED <<payment, detail, couponOn, referral, gone, enrolled, calls, oneByOne, overrun, refused>>

Answer(h) ==
    LET r == handler[h]
    IN  /\ r.at \in {"items", "left"} /\ r.item = NoItems
        /\ payment' = IF r.at = "items" /\ r.status = "success"
                      THEN [payment EXCEPT ![r.order].settled = @ \cup r.items] ELSE payment
        /\ Ends(h)
        /\ UNCHANGED <<detail, couponOn, referral, gone, enrolled, tally, calls, oneByOne,
                       overrun, refused>>

(***************************************************************************)
(* Failures                                                                *)
(***************************************************************************)
(* An operation for an item fails: Promise.all rejects and the call is     *)
(* answered with an error, while the other items go on.                    *)
ItemFails(h, i) ==
    /\ handler[h].item[i] # "no"
    /\ handler' = [handler EXCEPT ![h].at = "left", ![h].item[i] = "no"]
    /\ refused' = TRUE
    /\ UNCHANGED <<payment, detail, couponOn, referral, gone, enrolled, tally, calls, oneByOne, overrun>>

(* Any other operation fails, that of the e-mail after the items included: *)
(* the handler ends with an error, and what it has done stays. (Before the *)
(* first write that is as if it had not begun.)                            *)
HandlerFails(h) ==
    /\ handler[h].at \in {"store details", "count coupon", "switch off", "list details", "items"}
    /\ handler[h].item = NoItems
    /\ Ends(h)
    /\ refused' = TRUE
    /\ UNCHANGED <<payment, detail, couponOn, referral, gone, enrolled, tally, calls, oneByOne, overrun>>

ServiceStops ==
    /\ \E h \in Handlers : handler[h] # Free
    /\ handler' = [h \in Handlers |-> Free]
    /\ refused' = TRUE
    /\ UNCHANGED <<payment, detail, couponOn, referral, gone, enrolled, tally, calls, oneByOne, overrun>>

ItemStep(h, i) ==
    \/ StoreDetail(h, i) \/ MarkDetail(h, i) \/ EnrollItems(h, i) \/ LookUpItem(h, i)
    \/ FindEnrolment(h, i) \/ CreateEnrolment(h, i) \/ CountEnrolment(h, i) \/ ItemFails(h, i)

HandlerStep(h) ==
    \/ PlaceOrder(h) \/ CheckEnrolled(h) \/ StoreOrder(h) \/ DetailsStored(h)
    \/ \E o \in Orders : Result(h, o)
    \/ StoreResult(h) \/ CountCoupon(h) \/ SwitchOff(h) \/ ListDetails(h)
    \/ \E i \in Items : ItemStep(h, i)
    \/ Answer(h) \/ HandlerFails(h)

PaymentNext ==
    \/ \E h \in Handlers : HandlerStep(h)
    \/ \E o \in Orders : CancelOrder(o)
    \/ \E i \in Items : DeleteItem(i)
    \/ ServiceStops

PaymentSpec == PaymentInit /\ [][PaymentNext]_paymentVars

(***************************************************************************)
(* Properties                                                              *)
(***************************************************************************)
Statuses == {"none"} \cup Outcomes

PaymentType ==
    /\ payment \in [Orders -> [status : Statuses, items : SUBSET Items, coupon : BOOLEAN,
                     succeeded : BOOLEAN, settled : SUBSET Items]]
    /\ detail \in [Orders -> [Items -> Statuses]]
    /\ couponOn \in BOOLEAN /\ referral \in BOOLEAN
    /\ gone \subseteq Courses
    /\ enrolled \in [Items -> Nat]
    /\ tally \in [Items -> Nat]
    /\ handler \in [Handlers ->
        [at : {"free", "check", "store order", "store details", "store result",
               "count coupon", "switch off", "list details", "items", "left"},
         order : Orders \cup {NoOrder}, items : SUBSET Items, coupon : BOOLEAN,
         status : Outcomes, item : [Items -> Phases]]]
    /\ calls \in 0 .. MaxCalls
    /\ oneByOne \in BOOLEAN /\ overrun \in BOOLEAN /\ refused \in BOOLEAN

(* A student is enrolled in an item for sale only through an order of it   *)
(* that has once been stored as a success, in whatever order results,      *)
(* cancellations and failures come: a free enrolment, or a result of any   *)
(* other status, never leads there. (That is not yet a payment: results    *)
(* are not compared with what the provider says.)                          *)
EnrolledHadSuccess ==
    \A i \in ForSale : enrolled[i] > 0 => \E o \in Orders : i \in payment[o].items /\ payment[o].succeeded

(* Once a successful result was handled without error, the student is      *)
(* enrolled in every item it found a detail of, unless the item was        *)
(* deleted: also when an earlier delivery failed half-way, or the order    *)
(* was cancelled meanwhile.                                                *)
SettledIsEnrolled ==
    \A o \in Orders : \A i \in payment[o].settled : enrolled[i] > 0 \/ i \in gone

(* When the client waits for each answer, repeated results and free        *)
(* enrolment of an ordered item leave one enrolment per item, unless a     *)
(* call began while items of a failed one were still being enrolled.       *)
OneEnrolment == oneByOne /\ ~overrun => \A i \in Items : enrolled[i] <= 1

(* As long as nothing fails, totalEnrollUsers of a test series is the      *)
(* number of enrolments once the handlers have ended, however their steps  *)
(* were interleaved.                                                       *)
TallyIsEnrolments ==
    (~refused /\ \A h \in Handlers : handler[h].at \notin {"items", "left"}) =>
        \A i \in Series : tally[i] = enrolled[i]

(* When as many orders with the coupon as it may be used (but at least     *)
(* one) have been settled it is off, however their handlers overlapped,    *)
(* unless it is a referral coupon: each counts its own order.              *)
LimitSwitchesOff ==
    LET settled == {o \in Orders : payment[o].settled # {} /\ payment[o].coupon}
    IN  ~referral /\ settled # {} /\ Cardinality(settled) >= UsageLimit => ~couponOn

=============================================================================
