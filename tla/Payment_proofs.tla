--------------------------- MODULE Payment_proofs ---------------------------
(***************************************************************************)
(* Proofs about Payment, for any number of orders, items, handlers and     *)
(* results: what an enrolment goes back to, what a success that was        *)
(* answered has enrolled, how often, and when the coupon is off, whatever  *)
(* is repeated, cancelled, deleted or fails.                               *)
(***************************************************************************)
EXTENDS Payment, FiniteSetTheorems, TLAPS

Places == {"free", "check", "store order", "store details", "store result",
           "count coupon", "switch off", "list details", "items", "left"}

HandlerStates ==
    [at : {"free", "check", "store order", "store details", "store result",
           "count coupon", "switch off", "list details", "items", "left"},
     order : Orders \cup {NoOrder}, items : SUBSET Items, coupon : BOOLEAN,
     status : Outcomes, item : [Items -> Phases]]

PaymentStates == [status : Statuses, items : SUBSET Items, coupon : BOOLEAN,
                  succeeded : BOOLEAN, settled : SUBSET Items]

(***************************************************************************)
(* The inductive invariant                                                 *)
(***************************************************************************)
Ordered(o) == payment[o].status # "none"

Placing == {"check", "store order"}

(* What a handler in state r knows: the order it is about to store is not  *)
(* there yet; a success it carries was stored; it works on items of its    *)
(* order, or on one that is not for sale, and enrols on a success only; a  *)
(* success that goes on without error leaves no item out.                  *)
Knows(r) ==
    /\ r.at = "free" => r = Free
    /\ r.order = NoOrder => r.status = "other" /\ r.at \in {"free", "items", "left"}
    /\ r.at \notin {"items", "left"} => r.item = NoItems
    /\ r.at \in Placing => payment[r.order] = NoPayment /\ r.status = "other"
    /\ r.at \notin Placing /\ r.order # NoOrder => Ordered(r.order)
    /\ r.at = "store details" => r.items \subseteq payment[r.order].items
    /\ r.status = "success" /\ r.at # "store result" => payment[r.order].succeeded
    /\ \A i \in Items : r.item[i] # "no" /\ r.order # NoOrder => i \in payment[r.order].items
    /\ \A i \in Items : r.item[i] = "mark" => r.order # NoOrder
    /\ \A i \in Items : r.item[i] \in {"look", "find", "create", "count"} =>
        r.status = "success" \/ (r.order = NoOrder /\ i \notin ForSale)
    /\ r.at = "items" /\ r.status = "success" =>
        \A i \in r.items : enrolled[i] > 0 \/ i \in gone \/ r.item[i] \in {"mark", "look", "find", "create"}

HandlerInv == \A h \in Handlers : Knows(handler[h])

(* Nobody else works on an order that is not stored yet. *)
AloneInv ==
    \A g, h \in Handlers :
        g # h /\ handler[h].at \in Placing => handler[g].order # handler[h].order

OrderInv ==
    \A o \in Orders :
        /\ ~Ordered(o) => payment[o] = NoPayment
        /\ \A i \in Items : detail[o][i] # "none" => i \in payment[o].items

PaymentInv ==
    /\ PaymentType
    /\ HandlerInv
    /\ AloneInv
    /\ OrderInv
    /\ EnrolledHadSuccess
    /\ SettledIsEnrolled

(* The variables that the invariant only types.                            *)
RestType ==
    /\ couponOn \in BOOLEAN /\ referral \in BOOLEAN /\ tally \in [Items -> Nat]
    /\ calls \in 0 .. MaxCalls
    /\ oneByOne \in BOOLEAN /\ overrun \in BOOLEAN /\ refused \in BOOLEAN

LEMMA FreeState ==
  /\ Free \in HandlerStates /\ Free.at = "free" /\ Free.order = NoOrder /\ Free.items = {}
  /\ Free.status = "other" /\ Free.item = NoItems /\ NoItems \in [Items -> Phases]
  /\ \A i \in Items : NoItems[i] = "no"
  /\ NoPayment \in PaymentStates /\ NoPayment.status = "none" /\ NoPayment.items = {}
  /\ ~NoPayment.succeeded /\ NoPayment.settled = {}
<1>1. NoItems \in [Items -> Phases] /\ \A i \in Items : NoItems[i] = "no"
  BY DEF NoItems, Phases
<1>2. "other" \in Outcomes /\ "none" \in Statuses
  BY DEF Statuses, Outcomes
<1>3. Free \in HandlerStates
  BY <1>1, <1>2 DEF Free, HandlerStates
<1>4. NoPayment \in PaymentStates
  BY <1>2 DEF NoPayment, PaymentStates
<1> QED BY <1>1, <1>3, <1>4 DEF Free, NoPayment

(* A free handler knows nothing.                                           *)
LEMMA FreeKnows == Knows(Free)
BY FreeState DEF Knows, Placing

LEMMA FreeKnowsNext == Knows(Free)'
<1>1. \A i \in Items : Free.item[i] = "no"
  BY FreeState
<1> QED BY <1>1, FreeState DEF Knows, Placing

(* The invariant holds before the first order.                             *)
THEOREM InitPaymentInv == PaymentInit => PaymentInv
<1> SUFFICES ASSUME PaymentInit PROVE PaymentInv
  OBVIOUS
<1>1. Free \in HandlerStates /\ NoPayment \in PaymentStates
  BY FreeState
<1>2. PaymentType
  <2>1. payment \in [Orders -> PaymentStates] /\ handler \in [Handlers -> HandlerStates]
    BY <1>1 DEF PaymentInit
  <2>2. detail \in [Orders -> [Items -> Statuses]]
    BY DEF PaymentInit, Statuses
  <2>3. /\ couponOn \in BOOLEAN /\ referral \in BOOLEAN /\ gone \subseteq Courses
        /\ enrolled \in [Items -> Nat] /\ tally \in [Items -> Nat]
    BY DEF PaymentInit
  <2>4. calls \in 0 .. MaxCalls
    <3>1. MaxCalls \in Nat /\ calls = 0
      BY PaymentAssumption DEF PaymentInit
    <3> QED BY <3>1
  <2>5. oneByOne \in BOOLEAN /\ overrun \in BOOLEAN /\ refused \in BOOLEAN
    BY DEF PaymentInit
  <2> QED BY <2>1, <2>2, <2>3, <2>4, <2>5 DEF PaymentType, HandlerStates, PaymentStates
<1>3. \A h \in Handlers : handler[h] = Free
  BY DEF PaymentInit
<1>4. HandlerInv /\ AloneInv
  BY <1>3, FreeKnows, FreeState DEF HandlerInv, AloneInv, Placing
<1>5. OrderInv
  BY DEF PaymentInit, OrderInv
<1>6. EnrolledHadSuccess /\ SettledIsEnrolled
  BY PaymentAssumption, FreeState DEF PaymentInit, EnrolledHadSuccess, SettledIsEnrolled
<1> QED BY <1>2, <1>4, <1>5, <1>6 DEF PaymentInv

LEMMA Types ==
  ASSUME PaymentInv
  PROVE  /\ payment \in [Orders -> PaymentStates]
         /\ handler \in [Handlers -> HandlerStates]
         /\ detail \in [Orders -> [Items -> Statuses]]
         /\ enrolled \in [Items -> Nat] /\ tally \in [Items -> Nat]
         /\ gone \subseteq Courses /\ Courses \subseteq Items
         /\ RestType
         /\ \A o \in Orders : payment[o].items \subseteq Items /\ payment[o].settled \subseteq Items
         /\ \A h \in Handlers : handler[h] \in HandlerStates /\ Knows(handler[h])
         /\ NoOrder \notin Orders /\ ForSale \subseteq Items
<1>1. payment \in [Orders -> PaymentStates] /\ handler \in [Handlers -> HandlerStates] /\ RestType
  BY DEF PaymentInv, PaymentType, HandlerStates, PaymentStates, RestType
<1>2. \A o \in Orders : payment[o].items \subseteq Items /\ payment[o].settled \subseteq Items
  BY <1>1 DEF PaymentStates
<1> QED BY <1>1, <1>2, PaymentAssumption DEF PaymentInv, PaymentType, HandlerInv

(***************************************************************************)
(* What a step may change without taking from what the handlers know       *)
(***************************************************************************)
Grows ==
    /\ \A o \in Orders : Ordered(o) => Ordered(o)' /\ payment'[o].items = payment[o].items
    /\ \A o \in Orders : payment[o].succeeded => payment'[o].succeeded
    /\ \A i \in Items : enrolled[i] > 0 => enrolled'[i] > 0
    /\ gone \subseteq gone'

LEMMA KnowsStays ==
  ASSUME PaymentInv, Grows, NEW r \in HandlerStates, Knows(r),
         r.at \in Placing => payment'[r.order] = payment[r.order]
  PROVE  Knows(r)'
<1>1. r.order \in Orders \cup {NoOrder} /\ r.items \subseteq Items
  BY DEF HandlerStates
<1>2. CASE r.order = NoOrder
  BY <1>2 DEF Knows, Placing
<1>3. CASE r.order \in Orders
  <2>1. r.at \notin Placing => Ordered(r.order)
    BY <1>3, Types DEF Knows
  <2>2. r.at \notin Placing => Ordered(r.order)' /\ payment'[r.order].items = payment[r.order].items
    BY <1>3, <2>1 DEF Grows
  <2>3. r.status = "success" /\ r.at # "store result" => payment'[r.order].succeeded
    BY <1>3 DEF Knows, Grows
  <2>4. \A i \in Items : r.item[i] # "no" => r.at \notin Placing
    BY FreeState DEF Knows, Placing
  <2>5. r.at = "items" /\ r.status = "success" =>
          \A i \in r.items : enrolled'[i] > 0 \/ i \in gone' \/ r.item[i] \in {"mark", "look", "find", "create"}
    BY <1>1 DEF Knows, Grows
  <2>6. /\ r.at = "free" => r = Free
        /\ r.at \notin {"items", "left"} => r.item = NoItems
        /\ \A i \in Items : r.item[i] \in {"look", "find", "create", "count"} =>
            r.status = "success" \/ (r.order = NoOrder /\ i \notin ForSale)
    BY DEF Knows
  <2>7. r.at \in Placing => payment'[r.order] = NoPayment /\ r.status = "other"
    BY DEF Knows
  <2>8. r.at = "store details" => r.items \subseteq payment'[r.order].items
    BY <2>2 DEF Knows, Placing
  <2>9. \A i \in Items : r.item[i] # "no" => i \in payment'[r.order].items
    BY <1>3, <2>2, <2>4, Types DEF Knows
  <2> QED BY <1>3, <2>2, <2>3, <2>5, <2>6, <2>7, <2>8, <2>9, Types DEF Knows
<1> QED BY <1>1, <1>2, <1>3

(* An operation of handler h, which ends in state r.                       *)
Becomes(h, r) == handler' = [handler EXCEPT ![h] = r]

LEMMA HandlerMoves ==
  ASSUME PaymentInv, Grows, NEW h \in Handlers, NEW r \in HandlerStates, Becomes(h, r), Knows(r)',
         \A q \in Orders : payment'[q] # payment[q] => q = handler[h].order \/ Ordered(q)
  PROVE  handler' \in [Handlers -> HandlerStates] /\ HandlerInv'
<1>1. handler' \in [Handlers -> HandlerStates] /\ handler'[h] = r
      /\ \A g \in Handlers \ {h} : handler'[g] = handler[g]
  BY Types DEF Becomes
<1>2. ASSUME NEW g \in Handlers, g # h
      PROVE  Knows(handler[g])'
  <2>1. PICK q \in HandlerStates : q = handler[g] /\ handler'[g] = q
    BY <1>1, <1>2, Types
  <2>2. Knows(q)
    BY <2>1, Types
  <2>3. ASSUME q.at \in Placing PROVE payment'[q.order] = payment[q.order]
    <3>1. q.order # handler[h].order
      BY <1>2, <2>1, <2>3 DEF PaymentInv, AloneInv
    <3>2. q.order \in Orders /\ payment[q.order] = NoPayment
      BY <2>2, <2>3 DEF Knows, HandlerStates, Placing
    <3>3. ~Ordered(q.order)
      BY <3>2, FreeState DEF Ordered
    <3> QED BY <3>1, <3>2, <3>3
  <2>4. Knows(q)'
    BY <2>2, <2>3, KnowsStays
  <2> QED BY <2>1, <2>4 DEF Knows
<1>3. Knows(handler[h])'
  BY <1>1 DEF Knows
<1> QED BY <1>1, <1>2, <1>3 DEF HandlerInv

(* It may take up an order nobody else is about to store.                  *)
TakesItsOrder(h, r) ==
    /\ r.at \in Placing => \A g \in Handlers \ {h} : handler[g].order # r.order
    /\ \/ r.order \in {handler[h].order, NoOrder}
       \/ \A g \in Handlers \ {h} : handler[g].at \in Placing => handler[g].order # r.order

LEMMA AloneStays ==
  ASSUME PaymentInv, NEW h \in Handlers, NEW r \in HandlerStates, Becomes(h, r), TakesItsOrder(h, r)
  PROVE  AloneInv'
<1>1. handler'[h] = r /\ \A g \in Handlers \ {h} : handler'[g] = handler[g]
  BY Types DEF Becomes
<1>2. \A g \in Handlers : handler[g].at \in Placing => handler[g].order # NoOrder
  BY Types DEF Knows, Placing
<1>3. \A g \in Handlers \ {h} : handler[g].at \in Placing => handler[g].order # r.order
  BY <1>2 DEF PaymentInv, AloneInv, TakesItsOrder
<1>4. ASSUME NEW f \in Handlers, NEW g \in Handlers, f # g, handler'[g].at \in Placing
      PROVE  handler'[f].order # handler'[g].order
  <2>1. CASE f = h
    BY <1>1, <1>3, <1>4, <2>1
  <2>2. CASE g = h
    BY <1>1, <1>4, <2>2 DEF TakesItsOrder
  <2>3. CASE f # h /\ g # h
    BY <1>1, <1>4, <2>3, ZenonT(30) DEF PaymentInv, AloneInv
  <2> QED BY <2>1, <2>2, <2>3
<1> QED BY <1>4 DEF AloneInv

(* A step of handler h that changes payments, details or enrolments.       *)
LEMMA WriteKeepsInv ==
  ASSUME PaymentInv, NEW h \in Handlers, NEW r \in HandlerStates, Becomes(h, r), TakesItsOrder(h, r), Knows(r)',
         payment' \in [Orders -> PaymentStates], detail' \in [Orders -> [Items -> Statuses]],
         enrolled' \in [Items -> Nat], gone' = gone, RestType',
         \A q \in Orders : payment'[q] # payment[q] => q = handler[h].order \/ Ordered(q),
         Grows, OrderInv', EnrolledHadSuccess', SettledIsEnrolled'
  PROVE  PaymentInv'
<1>1. handler' \in [Handlers -> HandlerStates] /\ HandlerInv'
  BY HandlerMoves
<1>2. PaymentType'
  BY <1>1, Types DEF PaymentType, HandlerStates, PaymentStates, RestType
<1>3. AloneInv'
  BY AloneStays
<1> QED BY <1>1, <1>2, <1>3 DEF PaymentInv

(* A step that moves the handler only.                                     *)
LEMMA QuietKeepsInv ==
  ASSUME PaymentInv, NEW h \in Handlers, NEW r \in HandlerStates, Becomes(h, r), TakesItsOrder(h, r), Knows(r),
         UNCHANGED <<payment, detail, gone, enrolled>>, RestType'
  PROVE  PaymentInv'
<1>1. Grows
  BY DEF Grows, Ordered
<1>2. Knows(r)'
  BY <1>1, KnowsStays
<1>3. /\ payment' \in [Orders -> PaymentStates] /\ detail' \in [Orders -> [Items -> Statuses]]
      /\ enrolled' \in [Items -> Nat] /\ gone' = gone /\ payment' = payment
  BY Types
<1>4. OrderInv' /\ EnrolledHadSuccess' /\ SettledIsEnrolled'
  BY DEF PaymentInv, OrderInv, Ordered, EnrolledHadSuccess, SettledIsEnrolled
<1> QED BY <1>1, <1>2, <1>3, <1>4, WriteKeepsInv

(* The next states of a handler.                                           *)
Going(r, at) == [r EXCEPT !.at = at]

Marking(r, i, phase) == [r EXCEPT !.item[i] = phase]

LEMMA GoingState ==
  ASSUME NEW r \in HandlerStates, NEW at \in Places
  PROVE  /\ Going(r, at) \in HandlerStates
         /\ Going(r, at).at = at /\ Going(r, at).order = r.order /\ Going(r, at).items = r.items
         /\ Going(r, at).status = r.status /\ Going(r, at).item = r.item
BY DEF HandlerStates, Going, Places

LEMMA MarkingState ==
  ASSUME NEW r \in HandlerStates, NEW i \in Items, NEW phase \in Phases
  PROVE  LET n == Marking(r, i, phase)
         IN  /\ n \in HandlerStates
             /\ n.at = r.at /\ n.order = r.order /\ n.items = r.items /\ n.status = r.status
             /\ n.item[i] = phase /\ \A j \in Items \ {i} : n.item[j] = r.item[j]
<1>1. r.item \in [Items -> Phases]
  BY DEF HandlerStates
<1> QED BY <1>1 DEF HandlerStates, Marking

LEMMA NoItem == \A i \in Items : NoItems[i] = "no" /\ Free.item[i] = "no"
BY FreeState

(***************************************************************************)
(* Steps that move the handler only                                        *)
(***************************************************************************)
(* A call begins.                                                          *)
LEMMA StartTypes ==
  ASSUME PaymentInv, NEW h \in Handlers, MayStart(h)
  PROVE  overrun' \in BOOLEAN /\ handler[h] = Free
<1>1. overrun \in BOOLEAN
  BY Types DEF RestType
<1> QED BY <1>1 DEF MayStart

LEMMA CallsTypes ==
  ASSUME PaymentInv, calls < MaxCalls, calls' = calls + 1
  PROVE  calls' \in 0 .. MaxCalls
<1>1. calls \in 0 .. MaxCalls /\ MaxCalls \in Nat
  BY PaymentAssumption, Types DEF RestType
<1> QED BY <1>1

LEMMA PlaceOrderKeepsInv ==
  ASSUME PaymentInv, NEW h \in Handlers, PlaceOrder(h)
  PROVE  PaymentInv'
<1>1. PICK o \in Orders, I \in Baskets, coupon \in {FALSE, couponOn} :
        /\ payment[o] = NoPayment /\ \A g \in Handlers : handler[g].order # o
        /\ handler' = [handler EXCEPT ![h] =
            [Free EXCEPT !.at = "check", !.order = o, !.items = I, !.coupon = coupon]]
  BY DEF PlaceOrder
<1> DEFINE r == [Free EXCEPT !.at = "check", !.order = o, !.items = I, !.coupon = coupon]
<1>2. /\ r \in HandlerStates
      /\ r.at = "check" /\ r.order = o /\ r.status = "other" /\ r.item = NoItems
  <2>1. I \in SUBSET Items /\ coupon \in BOOLEAN
    BY PaymentAssumption, Types DEF RestType
  <2>2. Free \in HandlerStates /\ Free.status = "other" /\ Free.item = NoItems
    BY FreeState
  <2> QED BY <2>1, <2>2 DEF HandlerStates
<1>3. Becomes(h, r)
  BY <1>1 DEF Becomes
<1> HIDE DEF r
<1>4. Knows(r)
  BY <1>1, <1>2, NoItem, Types DEF Knows, Placing
<1>5. UNCHANGED <<payment, detail, gone, enrolled>> /\ RestType'
  <2>1. UNCHANGED <<couponOn, referral, tally, calls, oneByOne, refused>> /\ MayStart(h)
    BY DEF PlaceOrder
  <2> QED BY <2>1, StartTypes, Types DEF PlaceOrder, RestType
<1>6. TakesItsOrder(h, r)
  BY <1>1, <1>2 DEF TakesItsOrder
<1> QED BY <1>2, <1>3, <1>4, <1>5, <1>6, QuietKeepsInv

LEMMA ResultKeepsInv ==
  ASSUME PaymentInv, NEW h \in Handlers, NEW o \in Orders, Result(h, o)
  PROVE  PaymentInv'
<1>1. PICK outcome \in Outcomes : handler' = [handler EXCEPT ![h] =
            [Free EXCEPT !.at = "store result", !.order = o, !.status = outcome]]
  BY DEF Result
<1> DEFINE r == [Free EXCEPT !.at = "store result", !.order = o, !.status = outcome]
<1>2. r \in HandlerStates /\ r.at = "store result" /\ r.order = o /\ r.item = NoItems
  BY FreeState DEF HandlerStates
<1>3. Becomes(h, r)
  BY <1>1 DEF Becomes
<1> HIDE DEF r
<1>4. Ordered(o)
  BY DEF Result, PaymentInv, OrderInv
<1>5. Knows(r)
  BY <1>2, <1>4, NoItem, Types DEF Knows, Placing
<1>6. UNCHANGED <<payment, detail, gone, enrolled>> /\ RestType'
  <2>1. UNCHANGED <<couponOn, referral, tally, oneByOne, refused>> /\ MayStart(h)
        /\ calls' \in 0 .. MaxCalls
    BY CallsTypes DEF Result
  <2> QED BY <2>1, StartTypes, Types DEF Result, RestType
<1>7. TakesItsOrder(h, r)
  <2>1. ASSUME NEW g \in Handlers, handler[g].at \in Placing PROVE handler[g].order # o
    <3>1. PICK k \in HandlerStates : k = handler[g] /\ Knows(k)
      BY Types
    <3>2. payment[k.order] = NoPayment
      BY <2>1, <3>1 DEF Knows
    <3> QED BY <1>4, <3>1, <3>2, FreeState DEF Ordered
  <2> QED BY <1>2, <2>1 DEF TakesItsOrder, Placing
<1> QED BY <1>2, <1>3, <1>5, <1>6, <1>7, QuietKeepsInv

LEMMA EnrollItemsKeepsInv ==
  ASSUME PaymentInv, NEW h \in Handlers, NEW i \in Items, EnrollItems(h, i)
  PROVE  PaymentInv'
<1>1. PICK r \in HandlerStates :
        /\ Becomes(h, r)
        /\ r.at = "items" /\ r.order = NoOrder /\ r.status = "other"
        /\ r.item[i] = "look" /\ \A j \in Items \ {i} : r.item[j] = "no"
  <2> DEFINE n == [Free EXCEPT !.at = "items", !.item[i] = "look"]
  <2>1. Free.item \in [Items -> Phases] /\ \A j \in Items : Free.item[j] = "no"
    BY FreeState
  <2>2. /\ n \in HandlerStates
        /\ n.at = "items" /\ n.order = NoOrder /\ n.status = "other"
        /\ n.item[i] = "look" /\ \A j \in Items \ {i} : n.item[j] = "no"
    BY <2>1, FreeState DEF HandlerStates, Phases
  <2>3. Becomes(h, n)
    BY DEF EnrollItems, Becomes
  <2> QED BY <2>2, <2>3
<1>2. Knows(r)
  BY <1>1, Types DEF Knows, Placing, EnrollItems
<1>3. UNCHANGED <<payment, detail, gone, enrolled>> /\ RestType'
  <2>1. UNCHANGED <<couponOn, referral, tally, oneByOne, refused>> /\ MayStart(h)
        /\ calls' \in 0 .. MaxCalls
    BY CallsTypes DEF EnrollItems
  <2> QED BY <2>1, StartTypes, Types DEF EnrollItems, RestType
<1>4. TakesItsOrder(h, r)
  BY <1>1 DEF TakesItsOrder, Placing
<1> QED BY <1>1, <1>2, <1>3, <1>4, QuietKeepsInv

(* A handler ends, with or without an error.                               *)
LEMMA EndsKeepsInv ==
  ASSUME PaymentInv, NEW h \in Handlers, Ends(h),
         UNCHANGED <<payment, detail, gone, enrolled>>, RestType'
  PROVE  PaymentInv'
<1>1. Free \in HandlerStates /\ Becomes(h, Free) /\ Knows(Free) /\ TakesItsOrder(h, Free)
  BY FreeState, FreeKnows DEF Ends, Becomes, TakesItsOrder, Placing
<1> QED BY <1>1, QuietKeepsInv

(* A handler goes on in the same call.                                     *)
LEMMA GoesKeepsInv ==
  ASSUME PaymentInv, NEW h \in Handlers,
         NEW at \in {"store order", "count coupon", "switch off", "list details"}, Goes(h, at),
         at = "store order" => handler[h].at = "check",
         at # "store order" => handler[h].at \in {"store details", "count coupon", "switch off"},
         UNCHANGED <<payment, detail, gone, enrolled>>, RestType'
  PROVE  PaymentInv'
<1>1. PICK k \in HandlerStates : k = handler[h] /\ Knows(k)
  BY Types
<1> DEFINE r == Going(k, at)
<1>2. at \in Places
  BY DEF Places
<1>3. r \in HandlerStates /\ r.at = at /\ r.order = k.order /\ r.status = k.status /\ r.item = k.item
  BY <1>2, GoingState
<1>4. Becomes(h, r)
  BY <1>1 DEF Goes, Going, Becomes
<1> HIDE DEF r
<1>5. Knows(r)
  <2>1. k.item = NoItems /\ k.order # NoOrder
    BY <1>1 DEF Knows
  <2>2. \A i \in Items : r.item[i] = "no"
    BY <1>3, <2>1, NoItem
  <2>3. CASE at = "store order"
    <3>1. payment[r.order] = NoPayment /\ r.status = "other"
      BY <1>1, <1>3, <2>3 DEF Knows, Placing
    <3> QED BY <1>3, <2>1, <2>2, <2>3, <3>1 DEF Knows, Placing
  <2>4. CASE at # "store order"
    <3>1. k.at \in {"store details", "count coupon", "switch off"}
      BY <1>1, <2>4
    <3>2. Ordered(r.order) /\ (r.status = "success" => payment[r.order].succeeded)
      BY <1>1, <1>3, <2>1, <3>1 DEF Knows, Placing
    <3> QED BY <1>3, <2>1, <2>2, <2>4, <3>2 DEF Knows, Placing
  <2> QED BY <2>3, <2>4
<1>6. TakesItsOrder(h, r)
  BY <1>1, <1>3 DEF TakesItsOrder, Placing, PaymentInv, AloneInv
<1> QED BY <1>3, <1>4, <1>5, <1>6, QuietKeepsInv

(* The steps of a call that check, count or look up.                       *)
LEMMA CallKeepsInv ==
  ASSUME PaymentInv, NEW h \in Handlers,
         CheckEnrolled(h) \/ DetailsStored(h) \/ CountCoupon(h) \/ SwitchOff(h) \/ HandlerFails(h)
  PROVE  PaymentInv'
<1>1. UNCHANGED <<payment, detail, gone, enrolled>> /\ RestType'
  <2>1. UNCHANGED <<payment, detail, gone, enrolled>>
    BY DEF CheckEnrolled, DetailsStored, CountCoupon, SwitchOff, HandlerFails
  <2>2. UNCHANGED <<referral, tally, calls, oneByOne, overrun>>
    BY DEF CheckEnrolled, DetailsStored, CountCoupon, SwitchOff, HandlerFails
  <2>3. couponOn' \in BOOLEAN /\ refused' \in BOOLEAN
    BY Types DEF CheckEnrolled, DetailsStored, CountCoupon, SwitchOff, HandlerFails, RestType
  <2> QED BY <2>1, <2>2, <2>3, Types DEF RestType
<1>2. CASE CheckEnrolled(h)
  BY <1>1, <1>2, EndsKeepsInv, GoesKeepsInv DEF CheckEnrolled
<1>3. CASE DetailsStored(h)
  BY <1>1, <1>3, EndsKeepsInv, GoesKeepsInv DEF DetailsStored, AfterStatus
<1>4. CASE CountCoupon(h) \/ SwitchOff(h)
  BY <1>1, <1>4, GoesKeepsInv DEF CountCoupon, SwitchOff
<1>5. CASE HandlerFails(h)
  BY <1>1, <1>5, EndsKeepsInv DEF HandlerFails
<1> QED BY <1>2, <1>3, <1>4, <1>5

LEMMA ListDetailsKeepsInv ==
  ASSUME PaymentInv, NEW h \in Handlers, ListDetails(h)
  PROVE  PaymentInv'
<1>1. PICK k \in HandlerStates : k = handler[h] /\ Knows(k)
  BY Types
<1>2. PICK o \in Orders : o = k.order
  BY <1>1, Types DEF ListDetails, Knows, HandlerStates
<1>3. PICK m \in [Items -> Phases] : m = [i \in Items |-> FirstPhase(o, i, k.status)]
  BY DEF FirstPhase, Phases
<1>4. PICK I \in SUBSET Items : I = {i \in Items : detail[o][i] # "none"}
  OBVIOUS
<1> DEFINE r == [k EXCEPT !.at = "items", !.items = I, !.item = m]
<1>5. /\ r \in HandlerStates /\ r.at = "items" /\ r.order = o /\ r.items = I
      /\ r.status = k.status /\ r.item = m
  BY <1>2 DEF HandlerStates
<1>6. Becomes(h, r)
  BY <1>1, <1>2, <1>3, <1>4 DEF ListDetails, Becomes
<1> HIDE DEF r
<1>7. Knows(r)
  <2>1. /\ o # NoOrder /\ Ordered(o) /\ k.status \in Outcomes
        /\ k.status = "success" => payment[o].succeeded
    BY <1>1, <1>2, Types DEF ListDetails, Knows, Placing, HandlerStates
  <2>2. \A i \in Items : m[i] # "no" => i \in payment[o].items
    BY <1>3 DEF FirstPhase, PaymentInv, OrderInv
  <2>3. \A i \in Items : m[i] \in {"look", "find", "create", "count"} => k.status = "success"
    BY <1>3 DEF FirstPhase
  <2>4. \A i \in I : m[i] \in {"mark", "look", "find", "create"}
    BY <1>3, <1>4 DEF FirstPhase
  <2> QED BY <1>5, <2>1, <2>2, <2>3, <2>4 DEF Knows, Placing
<1>8. UNCHANGED <<payment, detail, gone, enrolled>> /\ RestType'
  <2>1. UNCHANGED <<couponOn, referral, tally, calls, oneByOne, overrun, refused>>
    BY DEF ListDetails
  <2> QED BY <2>1, Types DEF ListDetails, RestType
<1>9. TakesItsOrder(h, r)
  BY <1>1, <1>2, <1>5 DEF TakesItsOrder, Placing
<1> QED BY <1>5, <1>6, <1>7, <1>8, <1>9, QuietKeepsInv

(* An item goes on, ends, or fails.                                        *)
LEMMA ItemGoesKeepsInv ==
  ASSUME PaymentInv, NEW h \in Handlers, NEW i \in Items,
         LookUpItem(h, i) \/ FindEnrolment(h, i) \/ CountEnrolment(h, i) \/ ItemFails(h, i)
  PROVE  PaymentInv'
<1>1. PICK k \in HandlerStates : k = handler[h] /\ Knows(k)
  BY Types
<1>2. PICK phase \in {"no", "find", "create"}, at \in {k.at, "left"} :
        /\ handler' = [handler EXCEPT ![h] = [Marking(k, i, phase) EXCEPT !.at = at]]
        /\ phase = "find" => k.item[i] = "look" /\ at = k.at
        /\ phase = "create" => k.item[i] = "find" /\ at = k.at
        /\ phase = "no" /\ at = k.at =>
            k.item[i] = "count" \/ i \in gone \/ enrolled[i] > 0 \/ k.at = "left"
        /\ k.item[i] # "no"
  <2>1. CASE LookUpItem(h, i)
    <3>1. PICK phase \in {"no", "find"} : ItemGoes(h, i, phase) /\ (phase = "no" => i \in gone)
      BY <2>1 DEF LookUpItem
    <3>2. handler' = [handler EXCEPT ![h] = [Marking(k, i, phase) EXCEPT !.at = k.at]]
      BY <1>1, <3>1 DEF ItemGoes, Marking, HandlerStates
    <3> QED BY <1>1, <2>1, <3>1, <3>2 DEF LookUpItem
  <2>2. CASE FindEnrolment(h, i)
    <3>1. PICK phase \in {"no", "create"} : ItemGoes(h, i, phase) /\ (phase = "no" => enrolled[i] > 0)
      BY <2>2 DEF FindEnrolment, IsEnrolled
    <3>2. handler' = [handler EXCEPT ![h] = [Marking(k, i, phase) EXCEPT !.at = k.at]]
      BY <1>1, <3>1 DEF ItemGoes, Marking, HandlerStates
    <3> QED BY <1>1, <2>2, <3>1, <3>2 DEF FindEnrolment
  <2>3. CASE CountEnrolment(h, i)
    <3>1. handler' = [handler EXCEPT ![h] = [Marking(k, i, "no") EXCEPT !.at = k.at]]
      BY <1>1, <2>3 DEF CountEnrolment, ItemGoes, Marking, HandlerStates
    <3> QED BY <1>1, <2>3, <3>1 DEF CountEnrolment
  <2>4. CASE ItemFails(h, i)
    <3>1. handler' = [handler EXCEPT ![h] = [Marking(k, i, "no") EXCEPT !.at = "left"]]
      BY <1>1, <2>4 DEF ItemFails, Marking, HandlerStates
    <3>2. k.item[i] # "no"
      BY <1>1, <2>4 DEF ItemFails
    <3>3. "left" = k.at => k.at = "left"
      OBVIOUS
    <3> QED BY <3>1, <3>2, <3>3
  <2> QED BY <2>1, <2>2, <2>3, <2>4
<1> DEFINE n == Marking(k, i, phase)
           r == [n EXCEPT !.at = at]
<1>3. phase \in Phases /\ k.at \in {"items", "left"}
  <2>1. k.at \notin {"items", "left"} => k.item[i] = "no"
    BY <1>1, NoItem DEF Knows
  <2> QED BY <1>2, <2>1 DEF Phases
<1>4. /\ n \in HandlerStates /\ n.at = k.at /\ n.order = k.order /\ n.items = k.items /\ n.status = k.status
      /\ n.item[i] = phase /\ \A j \in Items \ {i} : n.item[j] = k.item[j]
  BY <1>3, MarkingState
<1>5. /\ r \in HandlerStates /\ r.at = at /\ r.order = k.order /\ r.items = k.items /\ r.status = k.status
      /\ r.item[i] = phase /\ \A j \in Items \ {i} : r.item[j] = k.item[j]
  <2> HIDE DEF n
  <2> QED BY <1>3, <1>4 DEF HandlerStates
<1>6. Becomes(h, r)
  BY <1>2 DEF Becomes
<1> HIDE DEF n, r
<1>7. Knows(r)
  <2>1. \A j \in Items : /\ r.item[j] # "no" => k.item[j] # "no"
                         /\ r.item[j] = "mark" => k.item[j] = "mark"
                         /\ r.item[j] \in {"look", "find", "create", "count"} =>
                                k.item[j] \in {"look", "find", "create", "count"}
    BY <1>2, <1>5
  <2>2. ASSUME r.at = "items", r.status = "success", NEW j \in r.items
        PROVE  enrolled[j] > 0 \/ j \in gone \/ r.item[j] \in {"mark", "look", "find", "create"}
    <3>1. k.at = "items" /\ at = k.at /\ k.items \subseteq Items
      BY <1>2, <1>3, <1>5, <2>2 DEF HandlerStates
    <3>2. j \in Items /\ (enrolled[j] > 0 \/ j \in gone \/ k.item[j] \in {"mark", "look", "find", "create"})
      BY <1>1, <1>5, <2>2, <3>1 DEF Knows
    <3> QED BY <1>2, <1>5, <3>1, <3>2
  <2>3. r.at \in {"items", "left"}
    BY <1>3, <1>5
  <2>4. /\ r.order = NoOrder => r.status = "other"
        /\ r.order # NoOrder => Ordered(r.order)
        /\ r.status = "success" => payment[r.order].succeeded
    BY <1>1, <1>3, <1>5 DEF Knows, Placing
  <2>5. /\ \A j \in Items : r.item[j] # "no" /\ r.order # NoOrder => j \in payment[r.order].items
        /\ \A j \in Items : r.item[j] = "mark" => r.order # NoOrder
        /\ \A j \in Items : r.item[j] \in {"look", "find", "create", "count"} =>
               r.status = "success" \/ (r.order = NoOrder /\ j \notin ForSale)
    <3>1. \A j \in Items : k.item[j] # "no" /\ k.order # NoOrder => j \in payment[k.order].items
      BY <1>1 DEF Knows
    <3>2. \A j \in Items : k.item[j] = "mark" => k.order # NoOrder
      BY <1>1 DEF Knows
    <3>3. \A j \in Items : k.item[j] \in {"look", "find", "create", "count"} =>
             k.status = "success" \/ (k.order = NoOrder /\ j \notin ForSale)
      BY <1>1 DEF Knows
    <3> QED BY <1>5, <2>1, <3>1, <3>2, <3>3
  <2>6. r.at \notin {"free", "store details", "store result"} \cup Placing
    BY <2>3 DEF Placing
  <2> QED BY <2>2, <2>3, <2>4, <2>5, <2>6 DEF Knows
<1>8. UNCHANGED <<payment, detail, gone, enrolled>> /\ RestType'
  <2>1. UNCHANGED <<payment, detail, gone, enrolled, couponOn, referral, calls, oneByOne, overrun>>
    BY DEF LookUpItem, FindEnrolment, CountEnrolment, ItemFails
  <2>2. tally' \in [Items -> Nat]
    BY Types DEF LookUpItem, FindEnrolment, CountEnrolment, ItemFails
  <2>3. refused' \in BOOLEAN
    BY Types DEF LookUpItem, FindEnrolment, CountEnrolment, ItemFails, RestType
  <2> QED BY <2>1, <2>2, <2>3, Types DEF RestType
<1>9. TakesItsOrder(h, r)
  BY <1>1, <1>3, <1>5 DEF TakesItsOrder, Placing
<1> QED BY <1>5, <1>6, <1>7, <1>8, <1>9, QuietKeepsInv

(***************************************************************************)
(* Steps that write                                                        *)
(***************************************************************************)
HadSuccess(i) == \E o \in Orders : i \in payment[o].items /\ payment[o].succeeded

(* What was enrolled or settled stays justified.                           *)
LEMMA PropertiesStay ==
  ASSUME PaymentInv, Grows,
         \A i \in ForSale : enrolled'[i] > 0 => enrolled[i] > 0 \/ HadSuccess(i),
         \A o \in Orders : \A i \in payment'[o].settled :
            i \in payment[o].settled \/ enrolled[i] > 0 \/ i \in gone,
         \A o \in Orders : payment'[o].settled \subseteq Items
  PROVE  EnrolledHadSuccess' /\ SettledIsEnrolled'
<1>1. ASSUME NEW i \in ForSale, enrolled'[i] > 0 PROVE HadSuccess(i)'
  <2>1. HadSuccess(i)
    BY <1>1 DEF PaymentInv, EnrolledHadSuccess, HadSuccess
  <2>2. PICK o \in Orders : i \in payment[o].items /\ payment[o].succeeded
    BY <2>1 DEF HadSuccess
  <2>3. Ordered(o)
    BY <2>2, FreeState DEF PaymentInv, OrderInv
  <2>4. i \in payment'[o].items /\ payment'[o].succeeded
    BY <2>2, <2>3 DEF Grows
  <2> QED BY <2>4 DEF HadSuccess
<1>2. ASSUME NEW o \in Orders, NEW i \in payment'[o].settled PROVE enrolled'[i] > 0 \/ i \in gone'
  <2>1. enrolled[i] > 0 \/ i \in gone
    BY <1>2 DEF PaymentInv, SettledIsEnrolled
  <2> QED BY <1>2, <2>1 DEF Grows
<1> QED BY <1>1, <1>2 DEF EnrolledHadSuccess, SettledIsEnrolled, HadSuccess

(* The document of order o becomes p: of a new order, or with what became  *)
(* of it.                                                                  *)
Revises(p, o) ==
    /\ p.status # "none" /\ p.items \subseteq Items
    /\ Ordered(o) => p.items = payment[o].items
    /\ payment[o].succeeded => p.succeeded
    /\ \A i \in p.settled : i \in payment[o].settled \/ enrolled[i] > 0 \/ i \in gone

LEMMA PaymentGrows ==
  ASSUME PaymentInv, NEW o \in Orders, NEW p \in PaymentStates, Revises(p, o),
         payment' = [payment EXCEPT ![o] = p], UNCHANGED <<detail, enrolled>>, gone' = gone
  PROVE  /\ Grows /\ OrderInv' /\ EnrolledHadSuccess' /\ SettledIsEnrolled'
         /\ payment' \in [Orders -> PaymentStates]
         /\ payment'[o] = p /\ \A q \in Orders \ {o} : payment'[q] = payment[q]
<1>1. /\ payment' \in [Orders -> PaymentStates]
      /\ payment'[o] = p /\ \A q \in Orders \ {o} : payment'[q] = payment[q]
  BY Types
<1>2. Grows
  <2>1. ASSUME NEW q \in Orders
        PROVE  /\ Ordered(q) => Ordered(q)' /\ payment'[q].items = payment[q].items
               /\ payment[q].succeeded => payment'[q].succeeded
    BY <1>1 DEF Ordered, Revises
  <2> QED BY <2>1 DEF Grows
<1>3. OrderInv'
  <2>1. ASSUME NEW q \in Orders
        PROVE  /\ ~Ordered(q)' => payment'[q] = NoPayment
               /\ \A i \in Items : detail'[q][i] # "none" => i \in payment'[q].items
    <3>1. CASE q = o
      <4>1. Ordered(q)'
        BY <1>1, <3>1 DEF Ordered, Revises
      <4>2. ~Ordered(q) => \A i \in Items : detail[q][i] = "none"
        BY FreeState DEF PaymentInv, OrderInv
      <4> QED BY <1>1, <3>1, <4>1, <4>2 DEF PaymentInv, OrderInv, Revises
    <3>2. CASE q # o
      BY <1>1, <3>2 DEF PaymentInv, OrderInv, Ordered
    <3> QED BY <3>1, <3>2
  <2> QED BY <2>1 DEF OrderInv
<1>4. \A q \in Orders : payment'[q].settled \subseteq Items
  BY <1>1 DEF PaymentStates
<1>5. \A q \in Orders : \A i \in payment'[q].settled :
        i \in payment[q].settled \/ enrolled[i] > 0 \/ i \in gone
  BY <1>1 DEF Revises
<1>6. EnrolledHadSuccess' /\ SettledIsEnrolled'
  BY <1>2, <1>4, <1>5, PropertiesStay
<1> QED BY <1>1, <1>2, <1>3, <1>6

(* A step of the handler of order o that stores it.                        *)
LEMMA StoreKeepsInv ==
  ASSUME PaymentInv, NEW h \in Handlers, NEW o \in Orders, NEW p \in PaymentStates, Revises(p, o),
         payment' = [payment EXCEPT ![o] = p], UNCHANGED <<detail, enrolled>>, gone' = gone,
         handler[h].order = o \/ Ordered(o),
         NEW r \in HandlerStates, Becomes(h, r), TakesItsOrder(h, r), Knows(r)', RestType'
  PROVE  PaymentInv'
<1>1. /\ Grows /\ OrderInv' /\ EnrolledHadSuccess' /\ SettledIsEnrolled'
      /\ payment' \in [Orders -> PaymentStates]
      /\ \A q \in Orders \ {o} : payment'[q] = payment[q]
  BY PaymentGrows
<1>2. /\ detail' \in [Orders -> [Items -> Statuses]] /\ enrolled' \in [Items -> Nat]
      /\ \A q \in Orders : payment'[q] # payment[q] => q = handler[h].order \/ Ordered(q)
  BY <1>1, Types
<1> QED BY <1>1, <1>2, WriteKeepsInv

LEMMA StoreOrderKeepsInv ==
  ASSUME PaymentInv, NEW h \in Handlers, StoreOrder(h)
  PROVE  PaymentInv'
<1>1. PICK k \in HandlerStates : k = handler[h] /\ Knows(k)
  BY Types
<1>2. PICK o \in Orders : o = k.order /\ payment[o] = NoPayment
  BY <1>1 DEF StoreOrder, Knows, Placing, HandlerStates
<1>3. PICK status \in Outcomes :
        /\ payment' = [payment EXCEPT ![o] = [NoPayment EXCEPT
                !.status = status, !.items = k.items, !.coupon = k.coupon,
                !.succeeded = (status = "success")]]
        /\ handler' = [handler EXCEPT ![h].at = "store details", ![h].status = status]
  BY <1>1, <1>2 DEF StoreOrder
<1> DEFINE p == [NoPayment EXCEPT !.status = status, !.items = k.items, !.coupon = k.coupon,
                                  !.succeeded = (status = "success")]
           r == [k EXCEPT !.at = "store details", !.status = status]
<1>4. /\ p \in PaymentStates /\ p.status = status /\ p.items = k.items
      /\ p.succeeded = (status = "success") /\ p.settled = {}
  BY FreeState DEF PaymentStates, HandlerStates, Statuses
<1>5. /\ r \in HandlerStates /\ r.at = "store details" /\ r.order = o /\ r.status = status
      /\ r.items = k.items /\ r.item = k.item
  BY <1>2 DEF HandlerStates
<1>6. payment' = [payment EXCEPT ![o] = p] /\ Becomes(h, r)
  BY <1>1, <1>3 DEF Becomes
<1> HIDE DEF p, r
<1>7. Revises(p, o)
  BY <1>2, <1>4, FreeState DEF Revises, Ordered, Outcomes, HandlerStates
<1>8. UNCHANGED <<detail, enrolled>> /\ gone' = gone /\ RestType'
  <2>1. UNCHANGED <<couponOn, referral, tally, calls, oneByOne, overrun, refused>>
    BY DEF StoreOrder
  <2> QED BY <2>1, Types DEF StoreOrder, RestType
<1>9. Knows(r)'
  <2>1. payment'[o] = p
    BY <1>6, Types
  <2>2. k.item = NoItems /\ o # NoOrder
    BY <1>1, <1>2, Types DEF StoreOrder, Knows
  <2>3. \A i \in Items : r.item[i] = "no"
    BY <1>5, <2>2, NoItem
  <2> QED BY <1>4, <1>5, <2>1, <2>2, <2>3 DEF Knows, Placing, Ordered, Outcomes
<1>10. TakesItsOrder(h, r) /\ handler[h].order = o
  BY <1>1, <1>2, <1>5 DEF TakesItsOrder, Placing
<1> QED BY <1>4, <1>5, <1>6, <1>7, <1>8, <1>9, <1>10, StoreKeepsInv

LEMMA StoreResultKeepsInv ==
  ASSUME PaymentInv, NEW h \in Handlers, StoreResult(h)
  PROVE  PaymentInv'
<1>1. PICK k \in HandlerStates : k = handler[h] /\ Knows(k)
  BY Types
<1>2. PICK o \in Orders : o = k.order /\ Ordered(o)
  BY <1>1 DEF StoreResult, Knows, Placing, HandlerStates
<1>3. PICK b \in PaymentStates : b = payment[o]
  BY Types
<1>4. PICK at \in {"count coupon", "list details"} : Goes(h, at) /\ at = AfterStatus(o)
  BY <1>1, <1>2 DEF StoreResult, AfterStatus
<1> DEFINE p == [b EXCEPT !.status = k.status, !.succeeded = @ \/ k.status = "success"]
           r == Going(k, at)
<1>5. /\ p \in PaymentStates /\ p.status = k.status /\ p.items = b.items /\ p.settled = b.settled
      /\ p.succeeded = (b.succeeded \/ k.status = "success")
  BY DEF PaymentStates, HandlerStates, Statuses
<1>6. /\ r \in HandlerStates /\ r.at = at /\ r.order = o /\ r.status = k.status /\ r.item = k.item
  <2>1. at \in Places
    BY DEF Places
  <2> QED BY <1>2, <2>1, GoingState
<1>7. payment' = [payment EXCEPT ![o] = p]
  BY <1>1, <1>2, <1>3 DEF StoreResult
<1>8. Becomes(h, r)
  BY <1>1, <1>4 DEF Goes, Going, Becomes
<1> HIDE DEF p, r
<1>9. Revises(p, o)
  <2>1. k.status # "none"
    BY DEF HandlerStates, Outcomes
  <2> QED BY <1>2, <1>3, <1>5, <2>1, Types DEF Revises
<1>10. UNCHANGED <<detail, enrolled>> /\ gone' = gone /\ RestType'
  <2>1. UNCHANGED <<couponOn, referral, tally, calls, oneByOne, overrun, refused>>
    BY DEF StoreResult
  <2> QED BY <2>1, Types DEF StoreResult, RestType
<1>11. Knows(r)'
  <2>1. payment'[o] = p
    BY <1>7, Types
  <2>2. k.item = NoItems /\ o # NoOrder
    BY <1>1, <1>2, Types DEF StoreResult, Knows
  <2>3. \A i \in Items : r.item[i] = "no"
    BY <1>6, <2>2, NoItem
  <2>4. Ordered(o)'
    BY <1>9, <2>1 DEF Revises, Ordered
  <2> QED BY <1>5, <1>6, <2>1, <2>2, <2>3, <2>4 DEF Knows, Placing
<1>12. TakesItsOrder(h, r)
  BY <1>1, <1>2, <1>6 DEF TakesItsOrder, Placing
<1> QED BY <1>2, <1>5, <1>6, <1>7, <1>8, <1>9, <1>10, <1>11, <1>12, StoreKeepsInv

LEMMA AnswerKeepsInv ==
  ASSUME PaymentInv, NEW h \in Handlers, Answer(h)
  PROVE  PaymentInv'
<1>1. PICK k \in HandlerStates : k = handler[h] /\ Knows(k)
  BY Types
<1>2. UNCHANGED <<detail, enrolled>> /\ gone' = gone /\ RestType'
  <2>1. UNCHANGED <<couponOn, referral, tally, calls, oneByOne, overrun, refused>>
    BY DEF Answer
  <2> QED BY <2>1, Types DEF Answer, RestType
<1>3. CASE k.at = "items" /\ k.status = "success"
  <2>1. PICK o \in Orders : o = k.order /\ Ordered(o)
    BY <1>1, <1>3 DEF Knows, Placing, HandlerStates
  <2>2. PICK b \in PaymentStates : b = payment[o]
    BY Types
  <2> DEFINE p == [b EXCEPT !.settled = @ \cup k.items]
  <2>3. /\ p \in PaymentStates /\ p.status = b.status /\ p.items = b.items
        /\ p.settled = b.settled \cup k.items /\ p.succeeded = b.succeeded
    BY DEF PaymentStates, HandlerStates
  <2>4. payment' = [payment EXCEPT ![o] = p]
    BY <1>1, <1>3, <2>1, <2>2 DEF Answer
  <2> HIDE DEF p
  <2>5. \A i \in k.items : enrolled[i] > 0 \/ i \in gone
    <3>1. k.items \subseteq Items /\ k.item = NoItems
      BY <1>1 DEF Answer, HandlerStates
    <3> QED BY <1>1, <1>3, <3>1, NoItem DEF Knows
  <2>6. Revises(p, o)
    BY <2>1, <2>2, <2>3, <2>5, Types DEF Revises, Ordered
  <2>7. Becomes(h, Free) /\ TakesItsOrder(h, Free) /\ Free \in HandlerStates
    BY FreeState DEF Answer, Ends, Becomes, TakesItsOrder, Placing
  <2> QED BY <1>2, <2>1, <2>3, <2>4, <2>6, <2>7, FreeKnowsNext, StoreKeepsInv
<1>4. CASE ~(k.at = "items" /\ k.status = "success")
  BY <1>1, <1>2, <1>4, EndsKeepsInv DEF Answer
<1> QED BY <1>3, <1>4

(* A step of handler h that stores the status s of one detail.             *)
LEMMA DetailKeepsInv ==
  ASSUME PaymentInv, NEW h \in Handlers, NEW r \in HandlerStates, Becomes(h, r), TakesItsOrder(h, r), Knows(r),
         NEW o \in Orders, NEW i \in payment[o].items, NEW s \in Statuses,
         detail' = [detail EXCEPT ![o][i] = s],
         UNCHANGED <<payment, gone, enrolled>>, RestType'
  PROVE  PaymentInv'
<1>1. Grows
  BY DEF Grows, Ordered
<1>2. Knows(r)'
  BY <1>1, KnowsStays
<1>3. i \in Items
  BY Types
<1>4. detail' \in [Orders -> [Items -> Statuses]]
  BY <1>3, Types
<1>5. OrderInv'
  <2>1. \A q \in Orders, j \in Items : detail'[q][j] # detail[q][j] => q = o /\ j = i
    BY <1>3, Types
  <2> QED BY <2>1 DEF PaymentInv, OrderInv, Ordered
<1>6. EnrolledHadSuccess' /\ SettledIsEnrolled'
  BY DEF PaymentInv, EnrolledHadSuccess, SettledIsEnrolled
<1>7. payment' \in [Orders -> PaymentStates] /\ enrolled' \in [Items -> Nat]
      /\ \A q \in Orders : payment'[q] = payment[q]
  BY Types
<1> QED BY <1>1, <1>2, <1>4, <1>5, <1>6, <1>7, WriteKeepsInv

LEMMA StoreDetailKeepsInv ==
  ASSUME PaymentInv, NEW h \in Handlers, NEW i \in Items, StoreDetail(h, i)
  PROVE  PaymentInv'
<1>1. PICK k \in HandlerStates : k = handler[h] /\ Knows(k)
  BY Types
<1>2. PICK o \in Orders : o = k.order /\ i \in payment[o].items
  BY <1>1 DEF StoreDetail, Knows, HandlerStates
<1> DEFINE r == [k EXCEPT !.items = @ \ {i}]
<1>3. /\ r \in HandlerStates /\ r.at = k.at /\ r.order = o /\ r.status = k.status
      /\ r.items = k.items \ {i} /\ r.item = k.item
  BY <1>2 DEF HandlerStates
<1>4. Becomes(h, r)
  BY <1>1 DEF StoreDetail, Becomes
<1>5. k.status \in Statuses /\ detail' = [detail EXCEPT ![o][i] = k.status]
  BY <1>1, <1>2 DEF StoreDetail, HandlerStates, Statuses
<1> HIDE DEF r
<1>6. Knows(r)
  <2>1. k.at = "store details" /\ k.item = NoItems /\ o # NoOrder
    BY <1>1, <1>2, Types DEF StoreDetail, Knows
  <2>2. /\ Ordered(o) /\ k.items \subseteq payment[o].items
        /\ k.status = "success" => payment[o].succeeded
    BY <1>1, <1>2, <2>1 DEF Knows, Placing
  <2>3. \A j \in Items : r.item[j] = "no"
    BY <1>3, <2>1, NoItem
  <2> QED BY <1>3, <2>1, <2>2, <2>3 DEF Knows, Placing
<1>7. UNCHANGED <<payment, gone, enrolled>> /\ RestType'
  <2>1. UNCHANGED <<couponOn, referral, tally, calls, oneByOne, overrun, refused>>
    BY DEF StoreDetail
  <2> QED BY <2>1, Types DEF StoreDetail, RestType
<1>8. TakesItsOrder(h, r)
  BY <1>1, <1>2, <1>3 DEF TakesItsOrder, Placing, StoreDetail
<1> QED BY <1>2, <1>3, <1>4, <1>5, <1>6, <1>7, <1>8, DetailKeepsInv

LEMMA MarkDetailKeepsInv ==
  ASSUME PaymentInv, NEW h \in Handlers, NEW i \in Items, MarkDetail(h, i)
  PROVE  PaymentInv'
<1>1. PICK k \in HandlerStates : k = handler[h] /\ Knows(k)
  BY Types
<1>2. k.item[i] = "mark" /\ k.at \in {"items", "left"}
  BY <1>1, NoItem DEF MarkDetail, Knows
<1>3. PICK o \in Orders : o = k.order /\ i \in payment[o].items /\ Ordered(o)
  BY <1>1, <1>2 DEF Knows, HandlerStates, Placing
<1>4. PICK phase \in {"no", "look"} :
        ItemGoes(h, i, phase) /\ (phase = "look" <=> k.status = "success")
  BY <1>1 DEF MarkDetail, AfterMark
<1> DEFINE r == Marking(k, i, phase)
<1>5. phase \in Phases
  BY DEF Phases
<1>6. /\ r \in HandlerStates /\ r.at = k.at /\ r.order = o /\ r.items = k.items /\ r.status = k.status
      /\ r.item[i] = phase /\ \A j \in Items \ {i} : r.item[j] = k.item[j]
  BY <1>3, <1>5, MarkingState
<1>7. Becomes(h, r)
  BY <1>1, <1>4 DEF ItemGoes, Marking, Becomes
<1> HIDE DEF r
<1>8. k.status \in Statuses /\ detail' = [detail EXCEPT ![o][i] = k.status]
  BY <1>1, <1>3 DEF MarkDetail, HandlerStates, Statuses
<1>9. Knows(r)
  <2>1. \A j \in Items : /\ r.item[j] # "no" => k.item[j] # "no"
                         /\ r.item[j] \in {"look", "find", "create", "count"} =>
                                k.status = "success" \/ k.item[j] \in {"look", "find", "create", "count"}
    BY <1>2, <1>4, <1>6
  <2>2. ASSUME r.at = "items", r.status = "success", NEW j \in r.items
        PROVE  enrolled[j] > 0 \/ j \in gone \/ r.item[j] \in {"mark", "look", "find", "create"}
    <3>1. j \in Items /\ (enrolled[j] > 0 \/ j \in gone \/ k.item[j] \in {"mark", "look", "find", "create"})
      BY <1>1, <1>6, <2>2 DEF Knows, HandlerStates
    <3> QED BY <1>4, <1>6, <2>2, <3>1
  <2>3. o # NoOrder
    BY Types
  <2>4. k.status = "success" => payment[o].succeeded
    BY <1>1, <1>2, <1>3 DEF Knows
  <2>5. \A j \in Items : /\ r.item[j] # "no" => j \in payment[o].items
                         /\ r.item[j] \in {"look", "find", "create", "count"} => k.status = "success"
    BY <1>1, <1>3, <2>1, <2>3 DEF Knows
  <2>6. r.at \in {"items", "left"} /\ r.order = o /\ r.status = k.status /\ Ordered(o)
    BY <1>2, <1>3, <1>6
  <2> QED BY <2>2, <2>3, <2>4, <2>5, <2>6 DEF Knows, Placing
<1>10. UNCHANGED <<payment, gone, enrolled>> /\ RestType'
  <2>1. UNCHANGED <<couponOn, referral, tally, calls, oneByOne, overrun, refused>>
    BY DEF MarkDetail
  <2> QED BY <2>1, Types DEF MarkDetail, RestType
<1>11. TakesItsOrder(h, r)
  BY <1>1, <1>2, <1>3, <1>6 DEF TakesItsOrder, Placing
<1> QED BY <1>3, <1>6, <1>7, <1>8, <1>9, <1>10, <1>11, DetailKeepsInv

(* Only what is free, or of an order that was a success, is created.       *)
LEMMA CreateEnrolmentKeepsInv ==
  ASSUME PaymentInv, NEW h \in Handlers, NEW i \in Items, CreateEnrolment(h, i)
  PROVE  PaymentInv'
<1>1. PICK k \in HandlerStates : k = handler[h] /\ Knows(k)
  BY Types
<1>2. k.item[i] = "create" /\ k.at \in {"items", "left"}
  BY <1>1, NoItem DEF CreateEnrolment, Knows
<1> DEFINE r == Marking(k, i, "count")
<1>3. /\ r \in HandlerStates /\ r.at = k.at /\ r.order = k.order /\ r.items = k.items
      /\ r.status = k.status
      /\ r.item[i] = "count" /\ \A j \in Items \ {i} : r.item[j] = k.item[j]
  <2>1. "count" \in Phases
    BY DEF Phases
  <2> QED BY <2>1, MarkingState
<1>4. Becomes(h, r)
  BY <1>1 DEF CreateEnrolment, ItemGoes, Marking, Becomes
<1> HIDE DEF r
<1>5. /\ enrolled' \in [Items -> Nat] /\ enrolled'[i] > 0
      /\ \A j \in Items \ {i} : enrolled'[j] = enrolled[j]
  <2>1. /\ enrolled \in [Items -> Nat] /\ enrolled' = [enrolled EXCEPT ![i] = @ + 1]
    BY Types DEF CreateEnrolment
  <2> QED BY <2>1
<1>6. UNCHANGED <<payment, detail>> /\ gone' = gone /\ RestType'
  <2>1. UNCHANGED <<couponOn, referral, tally, calls, oneByOne, overrun, refused>>
    BY DEF CreateEnrolment
  <2> QED BY <2>1, Types DEF CreateEnrolment, RestType
<1>7. Grows
  BY <1>5, <1>6 DEF Grows, Ordered
<1>8. Knows(r)'
  <2>1. \A j \in Items : /\ r.item[j] # "no" => k.item[j] # "no"
                         /\ r.item[j] = "mark" => k.item[j] = "mark"
                         /\ r.item[j] \in {"look", "find", "create", "count"} =>
                                k.item[j] \in {"look", "find", "create", "count"}
    BY <1>2, <1>3
  <2>2. ASSUME r.at = "items", r.status = "success", NEW j \in r.items
        PROVE  enrolled'[j] > 0 \/ j \in gone' \/ r.item[j] \in {"mark", "look", "find", "create"}
    <3>1. j \in Items /\ (enrolled[j] > 0 \/ j \in gone \/ k.item[j] \in {"mark", "look", "find", "create"})
      BY <1>1, <1>3, <2>2 DEF Knows, HandlerStates
    <3> QED BY <1>3, <1>5, <1>6, <3>1
  <2>3. \A o \in Orders : Ordered(o)' = Ordered(o) /\ payment'[o] = payment[o]
    BY <1>6 DEF Ordered
  <2>4. k.order \in Orders \cup {NoOrder}
    BY DEF HandlerStates
  <2>5. /\ r.order # NoOrder => Ordered(r.order)'
        /\ r.status = "success" => payment'[r.order].succeeded
    BY <1>1, <1>2, <1>3, <1>6, <2>3, <2>4 DEF Knows, Placing
  <2>6. \A j \in Items :
            /\ r.item[j] # "no" /\ r.order # NoOrder => j \in payment'[r.order].items
            /\ r.item[j] = "mark" => r.order # NoOrder
            /\ r.item[j] \in {"look", "find", "create", "count"} =>
                    r.status = "success" \/ (r.order = NoOrder /\ j \notin ForSale)
    BY <1>1, <1>3, <1>6, <2>1, <2>3, <2>4 DEF Knows
  <2>7. r.order = NoOrder => r.status = "other"
    BY <1>1, <1>3 DEF Knows
  <2>8. r.at \in {"items", "left"}
    BY <1>2, <1>3
  <2> QED BY <2>2, <2>5, <2>6, <2>7, <2>8 DEF Knows, Placing
<1>9. i \in ForSale => HadSuccess(i)
  <2>1. ASSUME i \in ForSale
        PROVE  k.order \in Orders /\ i \in payment[k.order].items /\ payment[k.order].succeeded
    BY <1>1, <1>2, <2>1 DEF Knows, HandlerStates
  <2> QED BY <2>1 DEF HadSuccess
<1>10. EnrolledHadSuccess' /\ SettledIsEnrolled'
  <2>1. \A j \in ForSale : enrolled'[j] > 0 => enrolled[j] > 0 \/ HadSuccess(j)
    BY <1>5, <1>9, Types
  <2>2. \A o \in Orders : payment'[o].settled \subseteq Items /\ payment'[o].settled = payment[o].settled
    BY <1>6, Types
  <2> QED BY <1>7, <2>1, <2>2, PropertiesStay
<1>11. OrderInv'
  BY <1>6 DEF PaymentInv, OrderInv, Ordered
<1>12. TakesItsOrder(h, r)
  BY <1>1, <1>2, <1>3 DEF TakesItsOrder, Placing
<1>13. /\ payment' \in [Orders -> PaymentStates] /\ detail' \in [Orders -> [Items -> Statuses]]
       /\ \A q \in Orders : payment'[q] = payment[q]
  BY <1>6, Types
<1> QED BY <1>3, <1>4, <1>5, <1>6, <1>7, <1>8, <1>10, <1>11, <1>12, <1>13, WriteKeepsInv

(* Steps of nobody's handler.                                              *)
LEMMA NobodyMoves ==
  ASSUME PaymentInv, Grows, handler' = handler,
         \A q \in Orders : payment'[q] # payment[q] => Ordered(q)
  PROVE  HandlerInv' /\ AloneInv'
<1>1. ASSUME NEW g \in Handlers PROVE Knows(handler[g])'
  <2>1. PICK q \in HandlerStates : q = handler[g] /\ handler'[g] = q /\ Knows(q)
    BY Types
  <2>2. ASSUME q.at \in Placing PROVE payment'[q.order] = payment[q.order]
    <3>1. q.order \in Orders /\ payment[q.order] = NoPayment
      BY <2>1, <2>2 DEF Knows, HandlerStates, Placing
    <3> QED BY <3>1, FreeState DEF Ordered
  <2>3. Knows(q)'
    BY <2>1, <2>2, KnowsStays
  <2> QED BY <2>1, <2>3 DEF Knows
<1> QED BY <1>1 DEF HandlerInv, AloneInv, PaymentInv

LEMMA CancelOrderKeepsInv ==
  ASSUME PaymentInv, NEW o \in Orders, CancelOrder(o)
  PROVE  PaymentInv'
<1>1. PICK b \in PaymentStates : b = payment[o]
  BY Types
<1>2. Ordered(o)
  BY DEF CancelOrder, PaymentInv, OrderInv
<1> DEFINE p == [b EXCEPT !.status = "other"]
<1>3. /\ p \in PaymentStates /\ p.status = "other" /\ p.items = b.items /\ p.settled = b.settled
      /\ p.succeeded = b.succeeded
  BY DEF PaymentStates, Statuses, Outcomes
<1>4. payment' = [payment EXCEPT ![o] = p] /\ UNCHANGED <<detail, enrolled>> /\ gone' = gone
  BY <1>1 DEF CancelOrder
<1> HIDE DEF p
<1>5. Revises(p, o)
  BY <1>1, <1>3, Types DEF Revises
<1>6. /\ Grows /\ OrderInv' /\ EnrolledHadSuccess' /\ SettledIsEnrolled'
      /\ payment' \in [Orders -> PaymentStates]
      /\ \A q \in Orders \ {o} : payment'[q] = payment[q]
  BY <1>3, <1>4, <1>5, PaymentGrows
<1>7. HandlerInv' /\ AloneInv'
  BY <1>2, <1>6, NobodyMoves DEF CancelOrder
<1>8. PaymentType'
  BY <1>4, <1>6, Types DEF CancelOrder, PaymentType, HandlerStates, PaymentStates, RestType
<1> QED BY <1>6, <1>7, <1>8 DEF PaymentInv

LEMMA DeleteItemKeepsInv ==
  ASSUME PaymentInv, NEW i \in Items, DeleteItem(i)
  PROVE  PaymentInv'
<1>1. UNCHANGED <<payment, detail, handler, enrolled>> /\ gone' = gone \cup {i} /\ i \in Courses
  BY DEF DeleteItem
<1>2. Grows
  BY <1>1 DEF Grows, Ordered
<1>3. HandlerInv' /\ AloneInv'
  BY <1>1, <1>2, NobodyMoves
<1>4. EnrolledHadSuccess' /\ SettledIsEnrolled' /\ OrderInv'
  BY <1>1 DEF PaymentInv, EnrolledHadSuccess, SettledIsEnrolled, OrderInv, Ordered
<1>5. PaymentType'
  BY <1>1, Types DEF DeleteItem, PaymentType, HandlerStates, PaymentStates, RestType
<1> QED BY <1>3, <1>4, <1>5 DEF PaymentInv

(* All calls end with the process.                                         *)
LEMMA ServiceStopsKeepsInv ==
  ASSUME PaymentInv, ServiceStops
  PROVE  PaymentInv'
<1>1. UNCHANGED <<payment, detail, gone, enrolled>> /\ \A h \in Handlers : handler'[h] = Free
  BY DEF ServiceStops
<1>2. HandlerInv' /\ AloneInv'
  <2>1. \A h \in Handlers : Knows(handler[h])'
    BY <1>1, FreeKnowsNext DEF Knows
  <2> QED BY <1>1, <2>1, FreeState DEF HandlerInv, AloneInv, Placing
<1>3. EnrolledHadSuccess' /\ SettledIsEnrolled' /\ OrderInv'
  BY <1>1 DEF PaymentInv, EnrolledHadSuccess, SettledIsEnrolled, OrderInv, Ordered
<1>4. handler' \in [Handlers -> HandlerStates]
  BY FreeState DEF ServiceStops
<1>5. PaymentType'
  BY <1>1, <1>4, Types DEF ServiceStops, PaymentType, HandlerStates, PaymentStates, RestType
<1> QED BY <1>2, <1>3, <1>5 DEF PaymentInv

(* No operation of a handler, cancellation, deletion or failure breaks it. *)
THEOREM StepPaymentInv == PaymentInv /\ [PaymentNext]_paymentVars => PaymentInv'
<1>1. ASSUME PaymentInv, UNCHANGED paymentVars
      PROVE  PaymentInv'
  <2>1. Grows /\ UNCHANGED <<payment, handler>>
    BY <1>1 DEF paymentVars, Grows, Ordered
  <2>2. HandlerInv' /\ AloneInv'
    BY <1>1, <2>1, NobodyMoves
  <2> QED BY <1>1, <2>2 DEF paymentVars, PaymentInv, PaymentType, OrderInv, Ordered, EnrolledHadSuccess,
             SettledIsEnrolled
<1>2. ASSUME PaymentInv, NEW h \in Handlers, NEW i \in Items, ItemStep(h, i)
      PROVE  PaymentInv'
  BY <1>2, StoreDetailKeepsInv, MarkDetailKeepsInv, EnrollItemsKeepsInv, ItemGoesKeepsInv,
     CreateEnrolmentKeepsInv DEF ItemStep
<1>3. ASSUME PaymentInv, NEW h \in Handlers, HandlerStep(h)
      PROVE  PaymentInv'
  BY <1>2, <1>3, PlaceOrderKeepsInv, CallKeepsInv, StoreOrderKeepsInv, ResultKeepsInv, StoreResultKeepsInv,
     ListDetailsKeepsInv, AnswerKeepsInv DEF HandlerStep
<1> QED BY <1>1, <1>3, CancelOrderKeepsInv, DeleteItemKeepsInv, ServiceStopsKeepsInv DEF PaymentNext

(* The invariant holds in every state, whatever is answered twice,         *)
(* cancelled, deleted, or fails half-way.                                  *)
THEOREM PaymentInvariant == PaymentSpec => []PaymentInv
BY InitPaymentInv, StepPaymentInv, PTL DEF PaymentSpec

(* The variables keep their types.                                         *)
THEOREM PaymentTypeCorrect == PaymentSpec => []PaymentType
<1>1. PaymentInv => PaymentType
  BY DEF PaymentInv
<1> QED BY <1>1, PaymentInvariant, PTL

(* Nobody is enrolled in an item for sale without an order of it that was  *)
(* stored as a success (payment.service.ts, updatePaymentDetail).          *)
THEOREM EnrolledHasSuccess == PaymentSpec => []EnrolledHadSuccess
<1>1. PaymentInv => EnrolledHadSuccess
  BY DEF PaymentInv
<1> QED BY <1>1, PaymentInvariant, PTL

(* Once a successful result was handled without error, the student is      *)
(* enrolled in every item that is not deleted (paymentSuccess).            *)
THEOREM SettledHasEnrolled == PaymentSpec => []SettledIsEnrolled
<1>1. PaymentInv => SettledIsEnrolled
  BY DEF PaymentInv
<1> QED BY <1>1, PaymentInvariant, PTL

(***************************************************************************)
(* The next state of a handler                                             *)
(***************************************************************************)
CountedPlaces == {"list details", "items"}

(* A handler goes on, past the count of the coupon, only with an order     *)
(* without coupon.                                                         *)
PassesNoCoupon(h, r) ==
    r.at \in CountedPlaces =>
        \/ r.order = NoOrder
        \/ /\ r.order = handler[h].order
           /\ handler[h].at \in CountedPlaces \/ ~payment'[r.order].coupon

(* A step of the call itself, that does not count the coupon.              *)
CallStep(h) ==
    \/ PlaceOrder(h) \/ CheckEnrolled(h) \/ StoreOrder(h) \/ DetailsStored(h)
    \/ \E o \in Orders : Result(h, o)
    \/ StoreResult(h) \/ ListDetails(h) \/ Answer(h) \/ HandlerFails(h)

Idle(r) == \A i \in Items : r.item[i] \in {"no", "mark", "look"}

MovesOn(h) ==
    \E r \in HandlerStates : Becomes(h, r) /\ Idle(r) /\ PassesNoCoupon(h, r)

LEMMA CallState ==
  ASSUME PaymentInv, NEW h \in Handlers, CallStep(h)
  PROVE  /\ handler[h].item = NoItems /\ UNCHANGED <<enrolled, tally>>
         /\ MovesOn(h)
<1>1. PICK k \in HandlerStates : k = handler[h] /\ Knows(k)
  BY Types
<1>2. handler[h].item = NoItems
  BY <1>1, FreeState DEF CallStep, PlaceOrder, CheckEnrolled, StoreOrder, DetailsStored, Result, StoreResult,
     ListDetails, Answer, HandlerFails, MayStart, Knows
<1>3. UNCHANGED <<enrolled, tally>>
  BY DEF CallStep, PlaceOrder, CheckEnrolled, StoreOrder, DetailsStored, Result, StoreResult,
     ListDetails, Answer, HandlerFails
<1>4. ASSUME Ends(h)
      PROVE  MovesOn(h)
  <2>1. Becomes(h, Free) /\ Idle(Free) /\ PassesNoCoupon(h, Free) /\ Free \in HandlerStates
    BY <1>4, FreeState, NoItem DEF Ends, Becomes, Idle, PassesNoCoupon
  <2> QED BY <2>1 DEF MovesOn
<1>5. ASSUME NEW at \in Places, Goes(h, at),
             at \in CountedPlaces => ~payment'[k.order].coupon
      PROVE  MovesOn(h)
  <2>1. PICK r \in HandlerStates : r = Going(k, at) /\ r.at = at /\ r.order = k.order /\ r.item = k.item
    BY GoingState
  <2>2. Becomes(h, r)
    BY <1>1, <1>5, <2>1 DEF Goes, Going, Becomes
  <2>3. Idle(r)
    BY <1>1, <1>2, <2>1, NoItem DEF Idle
  <2>4. PassesNoCoupon(h, r)
    BY <1>1, <1>5, <2>1 DEF PassesNoCoupon
  <2> QED BY <2>2, <2>3, <2>4 DEF MovesOn
<1>6. \A o : AfterStatus(o) \in Places
  BY DEF AfterStatus, Places
<1>7. ASSUME PlaceOrder(h) PROVE MovesOn(h)
  <2>1. PICK o \in Orders, I \in Baskets, coupon \in {FALSE, couponOn} :
          handler' = [handler EXCEPT ![h] =
            [Free EXCEPT !.at = "check", !.order = o, !.items = I, !.coupon = coupon]]
    BY <1>7 DEF PlaceOrder
  <2>2. PICK r : r = [Free EXCEPT !.at = "check", !.order = o, !.items = I, !.coupon = coupon]
    OBVIOUS
  <2>3. r.at = "check" /\ r.item = NoItems
    BY <2>2 DEF Free
  <2>4. r \in HandlerStates
    <3>1. I \in SUBSET Items /\ coupon \in BOOLEAN
      BY PaymentAssumption, Types DEF RestType
    <3> QED BY <2>2, <3>1, FreeState DEF HandlerStates
  <2>5. Becomes(h, r) /\ Idle(r) /\ PassesNoCoupon(h, r)
    BY <2>1, <2>2, <2>3, NoItem DEF Becomes, Idle, PassesNoCoupon, CountedPlaces
  <2> QED BY <2>4, <2>5 DEF MovesOn
<1>8. ASSUME \E o \in Orders : Result(h, o) PROVE MovesOn(h)
  <2>1. PICK o \in Orders, outcome \in Outcomes : handler' = [handler EXCEPT ![h] =
            [Free EXCEPT !.at = "store result", !.order = o, !.status = outcome]]
    BY <1>8 DEF Result
  <2>2. PICK r : r = [Free EXCEPT !.at = "store result", !.order = o, !.status = outcome]
    OBVIOUS
  <2>3. r.at = "store result" /\ r.item = NoItems
    BY <2>2 DEF Free
  <2>4. r \in HandlerStates
    BY <2>2, FreeState DEF HandlerStates
  <2>5. Becomes(h, r) /\ Idle(r) /\ PassesNoCoupon(h, r)
    BY <2>1, <2>2, <2>3, NoItem DEF Becomes, Idle, PassesNoCoupon, CountedPlaces
  <2> QED BY <2>4, <2>5 DEF MovesOn
<1>9. ASSUME CheckEnrolled(h) PROVE MovesOn(h)
  <2>1. Ends(h) \/ Goes(h, "store order")
    BY <1>9 DEF CheckEnrolled
  <2>2. "store order" \in Places /\ "store order" \notin CountedPlaces
    BY DEF Places, CountedPlaces
  <2> QED BY <1>4, <1>5, <2>1, <2>2
<1>10. ASSUME StoreOrder(h) PROVE MovesOn(h)
  <2>1. PICK status \in Outcomes :
            handler' = [handler EXCEPT ![h].at = "store details", ![h].status = status]
    BY <1>10 DEF StoreOrder
  <2>2. PICK r : r = [k EXCEPT !.at = "store details", !.status = status]
    OBVIOUS
  <2>3. r \in HandlerStates /\ r.at = "store details" /\ r.item = k.item
    BY <2>2 DEF HandlerStates
  <2>4. Becomes(h, r)
    BY <1>1, <2>1, <2>2 DEF Becomes
  <2>5. Idle(r) /\ PassesNoCoupon(h, r)
    BY <1>1, <1>2, <2>3, NoItem DEF Idle, PassesNoCoupon, CountedPlaces
  <2> QED BY <2>3, <2>4, <2>5 DEF MovesOn
<1>11. ASSUME DetailsStored(h) PROVE MovesOn(h)
  <2>1. Ends(h) \/ (Goes(h, AfterStatus(k.order)) /\ UNCHANGED payment)
    BY <1>1, <1>11 DEF DetailsStored
  <2>2. UNCHANGED payment => (AfterStatus(k.order) \in CountedPlaces => ~payment'[k.order].coupon)
    BY DEF AfterStatus, CountedPlaces
  <2> QED BY <1>4, <1>5, <1>6, <2>1, <2>2
<1>12. ASSUME StoreResult(h) PROVE MovesOn(h)
  <2>1. PICK o \in Orders : o = k.order
    BY <1>1, <1>12 DEF StoreResult, Knows, HandlerStates
  <2>2. payment'[o].coupon = payment[o].coupon
    <3>1. PICK b \in PaymentStates : b = payment[o]
      BY Types
    <3>2. payment' = [payment EXCEPT ![o] = [b EXCEPT !.status = k.status,
                                                       !.succeeded = @ \/ k.status = "success"]]
      BY <1>1, <1>12, <2>1, <3>1 DEF StoreResult
    <3>3. payment'[o] = [b EXCEPT !.status = k.status, !.succeeded = @ \/ k.status = "success"]
      BY <3>2, Types
    <3> QED BY <3>1, <3>3 DEF PaymentStates
  <2>3. Goes(h, AfterStatus(o))
    BY <1>1, <1>12, <2>1 DEF StoreResult
  <2>4. AfterStatus(o) \in CountedPlaces => ~payment'[o].coupon
    BY <2>2 DEF AfterStatus, CountedPlaces
  <2> QED BY <1>5, <1>6, <2>1, <2>3, <2>4
<1>13. ASSUME ListDetails(h) PROVE MovesOn(h)
  <2>1. PICK m \in [Items -> Phases] : m = [i \in Items |-> FirstPhase(k.order, i, k.status)]
    BY DEF FirstPhase, Phases
  <2>2. PICK I \in SUBSET Items : I = {i \in Items : detail[k.order][i] # "none"}
    OBVIOUS
  <2>3. PICK r : r = [k EXCEPT !.at = "items", !.items = I, !.item = m]
    OBVIOUS
  <2>4. r \in HandlerStates /\ r.order = k.order /\ r.item = m
    BY <2>3 DEF HandlerStates
  <2>5. Becomes(h, r) /\ k.at = "list details"
    BY <1>1, <1>13, <2>1, <2>2, <2>3 DEF ListDetails, Becomes
  <2>6. Idle(r)
    BY <2>1, <2>4 DEF Idle, FirstPhase
  <2>7. PassesNoCoupon(h, r)
    BY <1>1, <2>4, <2>5 DEF PassesNoCoupon, CountedPlaces
  <2> QED BY <2>4, <2>5, <2>6, <2>7 DEF MovesOn
<1>14. ASSUME Answer(h) \/ HandlerFails(h) PROVE MovesOn(h)
  BY <1>4, <1>14 DEF Answer, HandlerFails
<1> QED BY <1>2, <1>3, <1>7, <1>8, <1>9, <1>10, <1>11, <1>12, <1>13, <1>14 DEF CallStep

(***************************************************************************)
(* Enrolments and their count                                              *)
(***************************************************************************)
(* What a step of handler h may do with item i: leave its enrolments and   *)
(* their count alone, and create one later only if it finds none; create;  *)
(* count what it created; or fail.                                         *)
Leaves(h, i) ==
    /\ enrolled'[i] = enrolled[i] /\ tally'[i] = tally[i]
    /\ handler'[h].item[i] = "count" <=> handler[h].item[i] = "count"
    /\ handler'[h].item[i] = "create" => handler[h].item[i] = "create" \/ enrolled[i] = 0

Creates(h, i) ==
    /\ enrolled'[i] = enrolled[i] + 1 /\ tally'[i] = tally[i]
    /\ handler[h].item[i] = "create" /\ handler'[h].item[i] = "count"

Counts(h, i) ==
    /\ enrolled'[i] = enrolled[i] /\ (i \in Series => tally'[i] = tally[i] + 1)
    /\ handler[h].item[i] = "count" /\ handler'[h].item[i] = "no"

Fails(h, i) ==
    /\ enrolled'[i] = enrolled[i] /\ tally'[i] = tally[i]
    /\ refused' /\ handler'[h].item[i] = "no"

(* A handler that is not at its items, before or after: nothing happens.   *)
LEMMA LeavesItems ==
  ASSUME PaymentInv, NEW h \in Handlers, NEW r, Becomes(h, r),
         UNCHANGED <<enrolled, tally>>, handler[h].item = NoItems, Idle(r)
  PROVE  \A i \in Items : Leaves(h, i)
<1>1. handler'[h] = r
  BY Types DEF Becomes
<1>2. \A i \in Items : handler[h].item[i] = "no"
  BY NoItem
<1> QED BY <1>1, <1>2 DEF Leaves, Idle

(* ... or one that goes on with another item.                              *)
LEMMA MarksItem ==
  ASSUME PaymentInv, NEW h \in Handlers, NEW j \in Items, NEW phase \in Phases,
         ItemGoes(h, j, phase)
  PROVE  /\ handler'[h].item[j] = phase
         /\ \A i \in Items \ {j} : handler'[h].item[i] = handler[h].item[i]
<1>1. PICK k \in HandlerStates : k = handler[h]
  BY Types
<1>2. handler' = [handler EXCEPT ![h] = Marking(k, j, phase)]
  BY <1>1 DEF ItemGoes, Marking
<1>3. handler'[h] = Marking(k, j, phase)
  BY <1>2, Types
<1> QED BY <1>1, <1>3, MarkingState

LEMMA ItemSteps ==
  ASSUME PaymentInv, NEW h \in Handlers, HandlerStep(h), NEW i \in Items
  PROVE  Leaves(h, i) \/ Creates(h, i) \/ Counts(h, i) \/ Fails(h, i)
<1>1. CASE CallStep(h)
  <2>1. PICK r \in HandlerStates : Becomes(h, r) /\ Idle(r)
    BY <1>1, CallState DEF MovesOn
  <2> QED BY <1>1, <2>1, CallState, LeavesItems
<1>2. CASE CountCoupon(h) \/ SwitchOff(h)
  <2>1. PICK k \in HandlerStates : k = handler[h] /\ k.item = NoItems
    BY <1>2, Types DEF CountCoupon, SwitchOff, Knows
  <2>2. PICK at \in Places : Goes(h, at)
    BY <1>2 DEF CountCoupon, SwitchOff, Places
  <2>3. Becomes(h, Going(k, at)) /\ Going(k, at).item = NoItems
    BY <2>1, <2>2, GoingState DEF Goes, Going, Becomes
  <2>4. Idle(Going(k, at))
    BY <2>3, NoItem DEF Idle
  <2>5. UNCHANGED <<enrolled, tally>>
    BY <1>2 DEF CountCoupon, SwitchOff
  <2> QED BY <2>1, <2>3, <2>4, <2>5, LeavesItems
<1>3. CASE \E j \in Items : StoreDetail(h, j)
  <2>1. PICK j \in Items : StoreDetail(h, j)
    BY <1>3
  <2>2. PICK k \in HandlerStates : k = handler[h] /\ k.item = NoItems
    BY <2>1, Types DEF StoreDetail, Knows
  <2>3. PICK r : r = [k EXCEPT !.items = @ \ {j}]
    OBVIOUS
  <2>4. r.item = NoItems
    BY <2>2, <2>3 DEF HandlerStates
  <2>5. Becomes(h, r) /\ UNCHANGED <<enrolled, tally>>
    BY <2>1, <2>2, <2>3 DEF StoreDetail, Becomes
  <2>6. Idle(r)
    BY <2>4, NoItem DEF Idle
  <2> QED BY <2>2, <2>5, <2>6, LeavesItems
<1>4. CASE \E j \in Items : EnrollItems(h, j)
  <2>1. PICK j \in Items : EnrollItems(h, j)
    BY <1>4
  <2>2. handler[h].item = NoItems /\ UNCHANGED <<enrolled, tally>>
    BY <2>1, FreeState DEF EnrollItems, MayStart
  <2>3. PICK k \in HandlerStates : k = Free
    BY FreeState
  <2>4. k.item \in [Items -> Phases] /\ \A l \in Items : k.item[l] = "no"
    BY <2>3, NoItem DEF HandlerStates
  <2>5. PICK r : r = [k EXCEPT !.at = "items", !.item[j] = "look"]
    OBVIOUS
  <2>6. Idle(r)
    BY <2>4, <2>5 DEF HandlerStates, Idle
  <2>7. Becomes(h, r)
    BY <2>1, <2>3, <2>5 DEF EnrollItems, Becomes
  <2> QED BY <2>2, <2>6, <2>7, LeavesItems
<1>5. CASE \E j \in Items : MarkDetail(h, j) \/ LookUpItem(h, j)
  <2>1. PICK j \in Items : MarkDetail(h, j) \/ LookUpItem(h, j)
    BY <1>5
  <2>2. PICK phase \in {"no", "look", "find"} :
          ItemGoes(h, j, phase) /\ handler[h].item[j] \in {"mark", "look"}
    BY <2>1 DEF MarkDetail, AfterMark, LookUpItem
  <2>3. phase \in Phases
    BY DEF Phases
  <2>4. UNCHANGED <<enrolled, tally>>
    BY <2>1 DEF MarkDetail, LookUpItem
  <2> QED BY <2>2, <2>3, <2>4, MarksItem DEF Leaves
<1>6. CASE \E j \in Items : FindEnrolment(h, j)
  <2>1. PICK j \in Items : FindEnrolment(h, j)
    BY <1>6
  <2>2. PICK phase \in {"no", "create"} : ItemGoes(h, j, phase) /\ (phase = "create" => ~IsEnrolled(j))
    BY <2>1 DEF FindEnrolment
  <2>3. phase = "create" => enrolled[j] = 0
    BY <2>2, Types DEF IsEnrolled
  <2>4. phase \in Phases
    BY DEF Phases
  <2> QED BY <2>1, <2>2, <2>3, <2>4, MarksItem DEF FindEnrolment, Leaves
<1>7. CASE \E j \in Items : CreateEnrolment(h, j)
  <2>1. PICK j \in Items : CreateEnrolment(h, j)
    BY <1>7
  <2>2. "count" \in Phases
    BY DEF Phases
  <2>3. enrolled'[j] = enrolled[j] + 1 /\ \A l \in Items \ {j} : enrolled'[l] = enrolled[l]
    BY <2>1, Types DEF CreateEnrolment
  <2> QED BY <2>1, <2>2, <2>3, MarksItem DEF CreateEnrolment, Leaves, Creates
<1>8. CASE \E j \in Items : CountEnrolment(h, j)
  <2>1. PICK j \in Items : CountEnrolment(h, j)
    BY <1>8
  <2>2. "no" \in Phases
    BY DEF Phases
  <2>3. (j \in Series => tally'[j] = tally[j] + 1) /\ \A l \in Items \ {j} : tally'[l] = tally[l]
    BY <2>1, Types DEF CountEnrolment
  <2> QED BY <2>1, <2>2, <2>3, MarksItem DEF CountEnrolment, Leaves, Counts
<1>9. CASE \E j \in Items : ItemFails(h, j)
  <2>1. PICK j \in Items : ItemFails(h, j)
    BY <1>9
  <2>2. PICK k \in HandlerStates : k = handler[h]
    BY Types
  <2>3. "no" \in Phases
    BY DEF Phases
  <2>4. PICK n \in HandlerStates : /\ n = Marking(k, j, "no") /\ n.item[j] = "no"
                                   /\ \A l \in Items \ {j} : n.item[l] = k.item[l]
    BY <2>3, MarkingState
  <2>5. handler' = [handler EXCEPT ![h] = [n EXCEPT !.at = "left"]]
    <3>1. handler' = [handler EXCEPT ![h].at = "left", ![h].item[j] = "no"]
      BY <2>1 DEF ItemFails
    <3>2. n = [k EXCEPT !.item[j] = "no"]
      BY <2>4 DEF Marking
    <3>3. [n EXCEPT !.at = "left"] = [k EXCEPT !.at = "left", !.item[j] = "no"]
      BY <3>2 DEF HandlerStates
    <3> QED BY <2>2, <3>1, <3>3
  <2>6. handler'[h] = [n EXCEPT !.at = "left"]
    BY <2>5, Types
  <2>7. handler'[h].item = n.item
    BY <2>6 DEF HandlerStates
  <2> QED BY <2>1, <2>2, <2>4, <2>7 DEF ItemFails, Leaves, Fails
<1> QED BY <1>1, <1>2, <1>3, <1>4, <1>5, <1>6, <1>7, <1>8, <1>9 DEF HandlerStep, ItemStep, CallStep

(***************************************************************************)
(* The other handlers stay, and a call that begins while calls wait for    *)
(* each other, and nothing is left of earlier ones, is alone.              *)
(***************************************************************************)
LEMMA OtherHandlers ==
  ASSUME PaymentInv, NEW h \in Handlers, HandlerStep(h)
  PROVE  /\ \A g \in Handlers \ {h} : handler'[g] = handler[g]
         /\ oneByOne' = oneByOne /\ referral' = referral
         /\ (refused => refused') /\ (overrun => overrun')
         /\ handler[h] = Free /\ oneByOne /\ ~overrun' => \A g \in Handlers : handler[g] = Free
<1>1. \A g \in Handlers \ {h} : handler'[g] = handler[g]
  <2>1. /\ \A r : Becomes(h, r) => \A g \in Handlers \ {h} : handler'[g] = handler[g]
        /\ \A at : Goes(h, at) => \A g \in Handlers \ {h} : handler'[g] = handler[g]
        /\ \A j, phase : ItemGoes(h, j, phase) => \A g \in Handlers \ {h} : handler'[g] = handler[g]
    BY Types DEF Becomes, Goes, ItemGoes
  <2>2. CASE CallStep(h)
    BY <2>1, <2>2, CallState DEF MovesOn
  <2>3. CASE CountCoupon(h) \/ SwitchOff(h)
    BY <2>1, <2>3 DEF CountCoupon, SwitchOff
  <2>4. CASE \E j \in Items : ItemStep(h, j)
    <3>1. PICK j \in Items : ItemStep(h, j)
      BY <2>4
    <3>2. CASE StoreDetail(h, j) \/ EnrollItems(h, j) \/ ItemFails(h, j)
      BY <3>2, Types DEF StoreDetail, EnrollItems, ItemFails
    <3>3. CASE MarkDetail(h, j) \/ LookUpItem(h, j) \/ FindEnrolment(h, j)
               \/ CreateEnrolment(h, j) \/ CountEnrolment(h, j)
      BY <2>1, <3>3 DEF MarkDetail, LookUpItem, FindEnrolment, CreateEnrolment, CountEnrolment
    <3> QED BY <3>1, <3>2, <3>3 DEF ItemStep
  <2> QED BY <2>2, <2>3, <2>4 DEF HandlerStep, CallStep
<1>2. oneByOne' = oneByOne /\ referral' = referral
  <2>1. CASE CallStep(h)
    <3>1. UNCHANGED <<oneByOne, referral>>
      BY <2>1 DEF CallStep, PlaceOrder, CheckEnrolled, StoreOrder, DetailsStored, Result, StoreResult,
         ListDetails, Answer, HandlerFails
    <3> QED BY <3>1
  <2>2. CASE CountCoupon(h) \/ SwitchOff(h)
    <3>1. UNCHANGED <<oneByOne, referral>>
      BY <2>2 DEF CountCoupon, SwitchOff
    <3> QED BY <3>1
  <2>3. CASE \E j \in Items : ItemStep(h, j)
    <3>1. UNCHANGED <<oneByOne, referral>>
      BY <2>3 DEF ItemStep, StoreDetail, MarkDetail, EnrollItems, LookUpItem, FindEnrolment,
         CreateEnrolment, CountEnrolment, ItemFails
    <3> QED BY <3>1
  <2> QED BY <2>1, <2>2, <2>3 DEF HandlerStep, CallStep
<1>3. (refused => refused') /\ (overrun => overrun')
  <2>1. CASE PlaceOrder(h) \/ (\E o \in Orders : Result(h, o)) \/ \E j \in Items : EnrollItems(h, j)
    <3>1. UNCHANGED refused /\ MayStart(h)
      BY <2>1 DEF PlaceOrder, Result, EnrollItems
    <3> QED BY <3>1 DEF MayStart
  <2>2. CASE HandlerFails(h) \/ \E j \in Items : ItemFails(h, j)
    <3>1. refused' = TRUE /\ UNCHANGED overrun
      BY <2>2 DEF HandlerFails, ItemFails
    <3> QED BY <3>1
  <2>3. CASE CheckEnrolled(h) \/ StoreOrder(h) \/ DetailsStored(h) \/ StoreResult(h) \/ ListDetails(h)
             \/ Answer(h) \/ CountCoupon(h) \/ SwitchOff(h)
    <3>1. UNCHANGED <<refused, overrun>>
      BY <2>3 DEF CheckEnrolled, StoreOrder, DetailsStored, StoreResult, ListDetails, Answer, CountCoupon,
         SwitchOff
    <3> QED BY <3>1
  <2>4. ASSUME NEW j \in Items, StoreDetail(h, j) \/ MarkDetail(h, j) \/ LookUpItem(h, j)
               \/ FindEnrolment(h, j) \/ CreateEnrolment(h, j) \/ CountEnrolment(h, j)
        PROVE  UNCHANGED <<refused, overrun>>
    BY <2>4 DEF StoreDetail, MarkDetail, LookUpItem, FindEnrolment, CreateEnrolment, CountEnrolment
  <2> QED BY <2>1, <2>2, <2>3, <2>4 DEF HandlerStep, ItemStep
<1>4. ASSUME handler[h] = Free, oneByOne, ~overrun', NEW g \in Handlers
      PROVE  handler[g] = Free
  <2>1. MayStart(h)
    BY <1>4, FreeState, NoItem DEF HandlerStep, PlaceOrder, CheckEnrolled, StoreOrder, DetailsStored, Result,
       StoreResult, CountCoupon, SwitchOff, ListDetails, Answer, HandlerFails, ItemStep, StoreDetail,
       MarkDetail, EnrollItems, LookUpItem, FindEnrolment, CreateEnrolment, CountEnrolment, ItemFails
  <2>2. handler[g].at = "free"
    BY <1>4, <2>1 DEF MayStart
  <2>3. PICK k \in HandlerStates : k = handler[g] /\ Knows(k)
    BY Types
  <2> QED BY <2>2, <2>3 DEF Knows
<1> QED BY <1>1, <1>2, <1>3, <1>4

(* Handlers that have created an enrolment of item i and not counted it.   *)
Counting(i) == {h \in Handlers : handler[h].item[i] = "count"}

(* One handler at a time finds no enrolment and creates the first one.     *)
OneInv ==
    oneByOne /\ ~overrun =>
        /\ \A g, h \in Handlers : handler[g] # Free /\ handler[h] # Free => g = h
        /\ \A i \in Items : enrolled[i] <= 1
        /\ \A h \in Handlers, i \in Items : handler[h].item[i] = "create" => enrolled[i] = 0

(* What is enrolled and not counted yet is in the hands of a handler.      *)
TallyInv ==
    ~refused => \A i \in Series :
        IsFiniteSet(Counting(i)) /\ enrolled[i] = tally[i] + Cardinality(Counting(i))

LEMMA OneInvKept ==
  ASSUME PaymentInv, OneInv, NEW h \in Handlers, HandlerStep(h)
  PROVE  OneInv'
<1> SUFFICES ASSUME oneByOne', ~overrun'
             PROVE  /\ \A f, g \in Handlers : handler'[f] # Free /\ handler'[g] # Free => f = g
                    /\ \A i \in Items : enrolled'[i] <= 1
                    /\ \A g \in Handlers, i \in Items : handler'[g].item[i] = "create" => enrolled'[i] = 0
  BY DEF OneInv
<1>1. /\ \A g \in Handlers \ {h} : handler'[g] = handler[g]
      /\ oneByOne /\ ~overrun
      /\ handler[h] = Free => \A g \in Handlers : handler[g] = Free
  BY OtherHandlers
<1>2. \A g \in Handlers \ {h} : handler'[g] = Free
  BY <1>1 DEF OneInv
<1>3. ASSUME NEW i \in Items
      PROVE  enrolled'[i] <= 1 /\ (handler'[h].item[i] = "create" => enrolled'[i] = 0)
  <2>1. enrolled[i] \in Nat /\ enrolled[i] <= 1 /\ (handler[h].item[i] = "create" => enrolled[i] = 0)
    BY <1>1, Types DEF OneInv
  <2>2. CASE Leaves(h, i)
    BY <2>1, <2>2 DEF Leaves
  <2>3. CASE Creates(h, i)
    BY <2>1, <2>3 DEF Creates
  <2>4. CASE Counts(h, i)
    BY <2>1, <2>4 DEF Counts
  <2>5. CASE Fails(h, i)
    BY <2>1, <2>5 DEF Fails
  <2> QED BY <2>2, <2>3, <2>4, <2>5, ItemSteps
<1>4. ASSUME NEW g \in Handlers, NEW i \in Items, handler'[g].item[i] = "create"
      PROVE  enrolled'[i] = 0
  <2>1. g = h
    BY <1>2, <1>4, NoItem
  <2> QED BY <1>3, <1>4, <2>1
<1> QED BY <1>2, <1>3, <1>4

LEMMA TallyInvKept ==
  ASSUME PaymentInv, TallyInv, NEW h \in Handlers, HandlerStep(h)
  PROVE  TallyInv'
<1> SUFFICES ASSUME ~refused', NEW i \in Series
             PROVE  /\ IsFiniteSet(Counting(i)')
                    /\ enrolled'[i] = tally'[i] + Cardinality(Counting(i)')
  BY DEF TallyInv
<1>0. i \in Items
  BY PaymentAssumption
<1>1. ~refused /\ \A g \in Handlers \ {h} : handler'[g] = handler[g]
  BY OtherHandlers
<1>2. IsFiniteSet(Counting(i)) /\ enrolled[i] = tally[i] + Cardinality(Counting(i))
  BY <1>1 DEF TallyInv
<1>3. /\ enrolled[i] \in Nat /\ tally[i] \in Nat /\ Cardinality(Counting(i)) \in Nat
  BY <1>0, <1>2, FS_CardinalityType, Types
<1>4. CASE Leaves(h, i)
  <2>1. Counting(i)' = Counting(i)
    BY <1>1, <1>4 DEF Counting, Leaves
  <2> QED BY <1>2, <1>4, <2>1 DEF Leaves
<1>5. CASE Creates(h, i)
  <2>1. Counting(i)' = Counting(i) \cup {h} /\ h \notin Counting(i)
    BY <1>1, <1>5 DEF Counting, Creates
  <2>2. IsFiniteSet(Counting(i)') /\ Cardinality(Counting(i)') = Cardinality(Counting(i)) + 1
    BY <1>2, <2>1, FS_AddElement
  <2> QED BY <1>2, <1>3, <1>5, <2>2 DEF Creates
<1>6. CASE Counts(h, i)
  <2>1. Counting(i)' = Counting(i) \ {h} /\ h \in Counting(i)
    BY <1>1, <1>6 DEF Counting, Counts
  <2>2. IsFiniteSet(Counting(i)') /\ Cardinality(Counting(i)') = Cardinality(Counting(i)) - 1
    BY <1>2, <2>1, FS_RemoveElement
  <2> QED BY <1>2, <1>3, <1>6, <2>2 DEF Counts
<1> QED BY <1>0, <1>4, <1>5, <1>6, ItemSteps DEF Fails

(***************************************************************************)
(* The limit of the coupon                                                 *)
(***************************************************************************)
(* The orders with the coupon whose handler has counted, and switched it   *)
(* off if it had to.                                                       *)
Counted ==
    {o \in Orders : /\ payment[o].coupon
                    /\ \/ payment[o].settled # {}
                       \/ \E h \in Handlers : handler[h].order = o /\ handler[h].at \in CountedPlaces}

LimitInv == ~referral /\ couponOn => Counted = {} \/ Cardinality(Counted) < UsageLimit

LEMMA LimitStays ==
  ASSUME LimitInv, couponOn' => couponOn, referral' = referral, Counted' \subseteq Counted
  PROVE  LimitInv'
<1>1. IsFiniteSet(Counted)
  <2>1. Counted \in SUBSET Orders
    BY DEF Counted
  <2> QED BY <2>1, FS_Subset, PaymentAssumption
<1>2. IsFiniteSet(Counted') /\ Cardinality(Counted') <= Cardinality(Counted)
  BY <1>1, FS_Subset
<1>3. Cardinality(Counted) \in Nat /\ Cardinality(Counted') \in Nat /\ UsageLimit \in Nat
  BY <1>1, <1>2, FS_CardinalityType, PaymentAssumption
<1>4. CASE ~referral /\ couponOn' /\ Counted = {}
  <2>1. Counted' = {}
    BY <1>4
  <2> QED BY <2>1 DEF LimitInv
<1>5. CASE ~referral /\ couponOn' /\ Counted # {}
  <2>1. Cardinality(Counted) < UsageLimit
    BY <1>5 DEF LimitInv
  <2>2. Cardinality(Counted') < UsageLimit
    BY <1>2, <1>3, <2>1
  <2> QED BY <2>2 DEF LimitInv
<1> QED BY <1>4, <1>5 DEF LimitInv

(* No order is counted by a step that stores an order, goes on with one    *)
(* without coupon, or ends.                                                *)
PaymentStays(h) ==
    \A o \in Orders :
        \/ /\ payment'[o].coupon = payment[o].coupon
           /\ payment'[o].settled # {} =>
                payment[o].settled # {} \/ (handler[h].order = o /\ handler[h].at = "items")
        \/ payment[o] = NoPayment /\ payment'[o].settled = {}

LEMMA CountedStays ==
  ASSUME PaymentInv, NEW h \in Handlers, NEW r, Becomes(h, r), PaymentStays(h), PassesNoCoupon(h, r)
  PROVE  Counted' \subseteq Counted
<1> SUFFICES ASSUME NEW o \in Counted' PROVE o \in Counted
  OBVIOUS
<1>1. o \in Orders /\ payment'[o].coupon /\ o # NoOrder
  BY Types DEF Counted
<1>2. handler'[h] = r /\ \A g \in Handlers \ {h} : handler'[g] = handler[g]
  BY Types DEF Becomes
<1>3. ASSUME NEW g \in Handlers, handler'[g].order = o, handler'[g].at \in CountedPlaces
      PROVE  handler[g].order = o /\ handler[g].at \in CountedPlaces
  BY <1>1, <1>2, <1>3 DEF PassesNoCoupon
<1>4. ASSUME NEW g \in Handlers, handler[g].order = o, handler[g].at \in CountedPlaces
      PROVE  payment[o] # NoPayment
  <2>1. PICK k \in HandlerStates : k = handler[g] /\ Knows(k)
    BY Types
  <2>2. k.at \in CountedPlaces /\ k.order = o /\ k.order # NoOrder
    BY <1>1, <1>4, <2>1
  <2>3. Ordered(o)
    BY <2>1, <2>2 DEF Knows, Placing, CountedPlaces
  <2> QED BY <2>3, FreeState DEF Ordered
<1>5. payment'[o].settled = {} \/ payment[o] # NoPayment
  <2>1. ASSUME payment'[o].settled # {}, payment[o] = NoPayment
        PROVE  handler[h].order = o /\ handler[h].at \in CountedPlaces
    BY <1>1, <2>1, FreeState DEF PaymentStays, CountedPlaces
  <2> QED BY <1>4, <2>1
<1>6. PICK d \in {TRUE} : payment'[o].settled # {} \/ \E g \in Handlers :
            handler'[g].order = o /\ handler'[g].at \in CountedPlaces
  BY DEF Counted
<1>7. payment[o] # NoPayment
  BY <1>3, <1>4, <1>5, <1>6
<1>8. /\ payment[o].coupon
      /\ payment'[o].settled # {} =>
            payment[o].settled # {} \/ (handler[h].order = o /\ handler[h].at = "items")
  BY <1>1, <1>7 DEF PaymentStays
<1> QED BY <1>1, <1>3, <1>6, <1>8 DEF Counted, CountedPlaces

(* Only an answer settles an order, and no step changes its coupon.        *)
LEMMA CallStays ==
  ASSUME PaymentInv, NEW h \in Handlers, CallStep(h)
  PROVE  PaymentStays(h)
<1>1. CASE UNCHANGED payment
  BY <1>1 DEF PaymentStays
<1>2. PICK k \in HandlerStates : k = handler[h] /\ Knows(k)
  BY Types
<1>3. CASE StoreOrder(h)
  <2>1. PICK o \in Orders : o = k.order /\ payment[o] = NoPayment
    BY <1>2, <1>3 DEF StoreOrder, Knows, Placing, HandlerStates
  <2>2. PICK status \in Outcomes : payment' = [payment EXCEPT ![o] = [NoPayment EXCEPT
                !.status = status, !.items = k.items, !.coupon = k.coupon,
                !.succeeded = (status = "success")]]
    BY <1>2, <1>3, <2>1 DEF StoreOrder
  <2>3. payment'[o].settled = {} /\ \A q \in Orders \ {o} : payment'[q] = payment[q]
    BY <2>2, Types DEF NoPayment
  <2> QED BY <2>1, <2>3 DEF PaymentStays
<1>4. CASE StoreResult(h)
  <2>1. PICK o \in Orders : o = k.order
    BY <1>2, <1>4 DEF StoreResult, Knows, HandlerStates
  <2>2. PICK b \in PaymentStates : b = payment[o]
    BY Types
  <2>3. PICK p : p = [b EXCEPT !.status = k.status, !.succeeded = @ \/ k.status = "success"]
    OBVIOUS
  <2>4. p.coupon = b.coupon /\ p.settled = b.settled
    BY <2>3 DEF PaymentStates
  <2>5. payment' = [payment EXCEPT ![o] = p]
    BY <1>2, <1>4, <2>1, <2>2, <2>3 DEF StoreResult
  <2>6. payment'[o] = p /\ \A q \in Orders \ {o} : payment'[q] = payment[q]
    BY <2>5, Types
  <2> QED BY <2>2, <2>4, <2>6 DEF PaymentStays
<1>5. CASE Answer(h) /\ k.at = "items" /\ k.status = "success"
  <2>1. PICK o \in Orders : o = k.order
    BY <1>2, <1>5 DEF Knows, HandlerStates
  <2>2. PICK b \in PaymentStates : b = payment[o]
    BY Types
  <2>3. PICK p : p = [b EXCEPT !.settled = @ \cup k.items]
    OBVIOUS
  <2>4. p.coupon = b.coupon
    BY <2>3 DEF PaymentStates
  <2>5. payment' = [payment EXCEPT ![o] = p]
    BY <1>2, <1>5, <2>1, <2>2, <2>3 DEF Answer
  <2>6. payment'[o] = p /\ \A q \in Orders \ {o} : payment'[q] = payment[q]
    BY <2>5, Types
  <2> QED BY <1>2, <1>5, <2>1, <2>2, <2>4, <2>6 DEF PaymentStays
<1>6. StoreOrder(h) \/ StoreResult(h) \/ (Answer(h) /\ k.at = "items" /\ k.status = "success")
      \/ UNCHANGED payment
  BY <1>2 DEF CallStep, PlaceOrder, CheckEnrolled, DetailsStored, Result, ListDetails, Answer, HandlerFails
<1> QED BY <1>1, <1>3, <1>4, <1>5, <1>6

LEMMA LimitKept ==
  ASSUME PaymentInv, LimitInv, NEW h \in Handlers, HandlerStep(h)
  PROVE  LimitInv'
<1>0. PICK k \in HandlerStates : k = handler[h] /\ Knows(k)
  BY Types
<1>1. referral' = referral
  BY OtherHandlers
<1>2. CASE CountCoupon(h)
  <2>1. CASE LimitReached(k.order)
    <3>1. Becomes(h, Going(k, "switch off")) /\ UNCHANGED <<payment, couponOn>>
      BY <1>0, <1>2, <2>1 DEF CountCoupon, Goes, Going, Becomes
    <3>2. Going(k, "switch off").at = "switch off"
      BY GoingState DEF Places
    <3>3. PassesNoCoupon(h, Going(k, "switch off")) /\ PaymentStays(h)
      BY <3>1, <3>2 DEF PassesNoCoupon, CountedPlaces, PaymentStays
    <3> QED BY <1>1, <3>1, <3>3, CountedStays, LimitStays
  <2>2. CASE referral
    BY <1>1, <2>2 DEF LimitInv
  <2>3. CASE ~LimitReached(k.order) /\ ~referral
    <3> DEFINE S == {p \in Orders : payment[p].coupon}
    <3>1. S \in SUBSET Orders /\ IsFiniteSet(S)
      BY FS_Subset, PaymentAssumption
    <3>2. Cardinality(S) \in Nat /\ UsageLimit \in Nat
      BY <3>1, FS_CardinalityType, PaymentAssumption
    <3>3. Cardinality(S) < UsageLimit
      BY <2>3, <3>2 DEF LimitReached, Uses
    <3>4. UNCHANGED <<payment, couponOn>>
      BY <1>2 DEF CountCoupon
    <3>5. Counted' \subseteq S
      BY <3>4 DEF Counted
    <3> HIDE DEF S
    <3>6. IsFiniteSet(Counted') /\ Cardinality(Counted') <= Cardinality(S)
      BY <3>1, <3>5, FS_Subset
    <3>7. Cardinality(Counted') \in Nat
      BY <3>6, FS_CardinalityType
    <3>8. Cardinality(Counted') < UsageLimit
      BY <3>2, <3>3, <3>6, <3>7
    <3> QED BY <3>8 DEF LimitInv
  <2> QED BY <2>1, <2>2, <2>3
<1>3. CASE SwitchOff(h)
  BY <1>3 DEF SwitchOff, LimitInv
<1>4. CASE CallStep(h)
  <2>1. UNCHANGED couponOn
    BY <1>4 DEF CallStep, PlaceOrder, CheckEnrolled, StoreOrder, DetailsStored, Result, StoreResult,
       ListDetails, Answer, HandlerFails
  <2>2. PICK r \in HandlerStates : Becomes(h, r) /\ PassesNoCoupon(h, r)
    BY <1>4, CallState DEF MovesOn
  <2>3. Counted' \subseteq Counted
    BY <1>4, <2>2, CallStays, CountedStays
  <2> QED BY <1>1, <2>1, <2>3, LimitStays
<1>5. CASE \E i \in Items : ItemStep(h, i)
  <2>1. PICK i \in Items : ItemStep(h, i)
    BY <1>5
  <2>2. UNCHANGED <<payment, couponOn>>
    BY <2>1 DEF ItemStep, StoreDetail, MarkDetail, EnrollItems, LookUpItem, FindEnrolment,
       CreateEnrolment, CountEnrolment, ItemFails
  <2>3. \E r : Becomes(h, r) /\ PassesNoCoupon(h, r)
    <3>1. CASE StoreDetail(h, i)
      <4>1. Becomes(h, [k EXCEPT !.items = @ \ {i}]) /\ k.at = "store details"
        BY <1>0, <3>1 DEF StoreDetail, Becomes
      <4>2. [k EXCEPT !.items = @ \ {i}].at = k.at
        BY DEF HandlerStates
      <4> QED BY <4>1, <4>2 DEF PassesNoCoupon, CountedPlaces
    <3>2. CASE EnrollItems(h, i)
      <4>1. PICK r : r = [Free EXCEPT !.at = "items", !.item[i] = "look"]
        OBVIOUS
      <4>2. r.order = NoOrder
        BY <4>1 DEF Free
      <4> QED BY <3>2, <4>1, <4>2 DEF EnrollItems, Becomes, PassesNoCoupon
    <3>3. CASE ItemFails(h, i)
      <4>1. PICK r : r = [k EXCEPT !.at = "left", !.item[i] = "no"]
        OBVIOUS
      <4>2. Becomes(h, r)
        BY <1>0, <3>3, <4>1 DEF ItemFails, Becomes
      <4>3. r.at = "left"
        BY <4>1 DEF HandlerStates
      <4> QED BY <4>2, <4>3 DEF PassesNoCoupon, CountedPlaces
    <3>4. CASE MarkDetail(h, i) \/ LookUpItem(h, i) \/ FindEnrolment(h, i)
               \/ CreateEnrolment(h, i) \/ CountEnrolment(h, i)
      <4>1. PICK phase : ItemGoes(h, i, phase)
        BY <3>4 DEF MarkDetail, LookUpItem, FindEnrolment, CreateEnrolment, CountEnrolment
      <4>2. Becomes(h, Marking(k, i, phase))
        BY <1>0, <4>1 DEF ItemGoes, Marking, Becomes
      <4>3. Marking(k, i, phase).at = k.at /\ Marking(k, i, phase).order = k.order
        BY DEF HandlerStates, Marking
      <4>4. k.item[i] # "no"
        BY <1>0, <3>4 DEF MarkDetail, LookUpItem, FindEnrolment, CreateEnrolment, CountEnrolment
      <4>5. PassesNoCoupon(h, Marking(k, i, phase))
        BY <1>0, <4>3 DEF PassesNoCoupon
      <4> QED BY <4>2, <4>5
    <3> QED BY <2>1, <3>1, <3>2, <3>3, <3>4 DEF ItemStep
  <2>4. PaymentStays(h)
    BY <2>2 DEF PaymentStays
  <2> QED BY <1>1, <2>2, <2>3, <2>4, CountedStays, LimitStays
<1> QED BY <1>2, <1>3, <1>4, <1>5 DEF HandlerStep, CallStep

(***************************************************************************)
(* Enrolments and the coupon: the invariant                                *)
(***************************************************************************)
CountsInv == PaymentInv /\ OneInv /\ TallyInv /\ LimitInv

LEMMA InitCountsInv == PaymentInit => CountsInv
<1> SUFFICES ASSUME PaymentInit PROVE CountsInv
  OBVIOUS
<1>1. PaymentInv
  BY InitPaymentInv
<1>2. \A h \in Handlers : handler[h] = Free
  BY DEF PaymentInit
<1>3. OneInv
  BY <1>2, NoItem DEF PaymentInit, OneInv
<1>4. TallyInv
  <2>0. Series \subseteq Items
    BY PaymentAssumption
  <2>1. \A i \in Series : Counting(i) = {}
    BY <1>2, <2>0, NoItem DEF Counting
  <2>2. \A i \in Series : enrolled[i] = 0 /\ tally[i] = 0
    BY <2>0 DEF PaymentInit
  <2> QED BY <2>1, <2>2, FS_EmptySet DEF TallyInv
<1>5. LimitInv
  <2>1. \A o \in Orders : payment[o].settled = {}
    BY FreeState DEF PaymentInit
  <2>2. Counted = {}
    BY <1>2, <2>1, FreeState DEF Counted, CountedPlaces
  <2> QED BY <2>2 DEF LimitInv
<1> QED BY <1>1, <1>3, <1>4, <1>5 DEF CountsInv

LEMMA StepCountsInv == CountsInv /\ [PaymentNext]_paymentVars => CountsInv'
<1> SUFFICES ASSUME CountsInv, [PaymentNext]_paymentVars PROVE CountsInv'
  OBVIOUS
<1>0. PaymentInv /\ OneInv /\ TallyInv /\ LimitInv /\ PaymentInv'
  BY StepPaymentInv DEF CountsInv
<1>1. CASE \E h \in Handlers : HandlerStep(h)
  BY <1>0, <1>1, OneInvKept, TallyInvKept, LimitKept DEF CountsInv
<1>2. ASSUME UNCHANGED <<enrolled, tally, handler, oneByOne, overrun, refused>> PROVE OneInv' /\ TallyInv'
  BY <1>0, <1>2 DEF OneInv, TallyInv, Counting
<1>3. ASSUME UNCHANGED <<payment, couponOn, referral, handler>> PROVE LimitInv'
  <2>1. Counted' = Counted
    BY <1>3 DEF Counted
  <2> QED BY <1>0, <1>3, <2>1 DEF LimitInv
<1>4. CASE UNCHANGED paymentVars
  BY <1>0, <1>2, <1>3, <1>4 DEF paymentVars, CountsInv
<1>5. CASE \E i \in Items : DeleteItem(i)
  BY <1>0, <1>2, <1>3, <1>5 DEF DeleteItem, CountsInv
<1>6. CASE \E o \in Orders : CancelOrder(o)
  <2>1. PICK o \in Orders : CancelOrder(o)
    BY <1>6
  <2>2. UNCHANGED <<couponOn, referral, handler, enrolled, tally, oneByOne, overrun, refused>>
    BY <2>1 DEF CancelOrder
  <2>3. PICK b \in PaymentStates : b = payment[o]
    BY <1>0, Types
  <2>4. payment' = [payment EXCEPT ![o] = [b EXCEPT !.status = "other"]]
    BY <2>1, <2>3 DEF CancelOrder
  <2>5. /\ [b EXCEPT !.status = "other"].coupon = b.coupon
        /\ [b EXCEPT !.status = "other"].settled = b.settled
    BY DEF PaymentStates
  <2>6. \A q \in Orders : /\ payment'[q].coupon = payment[q].coupon
                          /\ payment'[q].settled = payment[q].settled
    BY <1>0, <2>3, <2>4, <2>5, Types
  <2>7. Counted' = Counted
    BY <2>2, <2>6 DEF Counted
  <2>8. LimitInv'
    BY <1>0, <2>2, <2>7 DEF LimitInv
  <2> QED BY <1>0, <1>2, <2>2, <2>8 DEF CountsInv
<1>7. CASE ServiceStops
  <2>1. /\ UNCHANGED <<payment, couponOn, referral, enrolled, tally, oneByOne, overrun>>
        /\ refused' = TRUE /\ \A h \in Handlers : handler'[h] = Free
    BY <1>7 DEF ServiceStops
  <2>2. OneInv' /\ TallyInv'
    BY <1>0, <2>1, NoItem DEF OneInv, TallyInv
  <2>3. Counted' \subseteq Counted
    BY <2>1, FreeState DEF Counted, CountedPlaces
  <2>4. LimitInv'
    BY <1>0, <2>1, <2>3, LimitStays
  <2> QED BY <1>0, <2>2, <2>4 DEF CountsInv
<1> QED BY <1>1, <1>4, <1>5, <1>6, <1>7 DEF PaymentNext

THEOREM CountsInvariant == PaymentSpec => []CountsInv
BY InitCountsInv, StepCountsInv, PTL DEF PaymentSpec

(* When the client waits for each answer, and nothing of a failed call     *)
(* still goes on, repeated results and free enrolment of an ordered item   *)
(* leave one enrolment per item, whatever stops between find and create.   *)
THEOREM OneEnrolmentEach == PaymentSpec => []OneEnrolment
<1>1. CountsInv => OneEnrolment
  BY DEF CountsInv, OneInv, OneEnrolment
<1> QED BY <1>1, CountsInvariant, PTL

(* As long as nothing fails, totalEnrollUsers is the number of enrolments  *)
(* of a test series once the handlers have ended, for any number of them.  *)
THEOREM TallyIsExact == PaymentSpec => []TallyIsEnrolments
<1>1. CountsInv => TallyIsEnrolments
  <2> SUFFICES ASSUME CountsInv, ~refused, \A h \in Handlers : handler[h].at \notin {"items", "left"}, NEW i \in Series
               PROVE  tally[i] = enrolled[i]
    BY DEF TallyIsEnrolments
  <2>1. PaymentInv /\ i \in Items
    BY PaymentAssumption DEF CountsInv
  <2>2. ASSUME NEW h \in Handlers PROVE handler[h].item[i] # "count"
    <3>1. handler[h].item = NoItems
      BY <2>1, Types DEF Knows
    <3> QED BY <2>1, <3>1, NoItem
  <2>3. Counting(i) = {}
    BY <2>2 DEF Counting
  <2>4. enrolled[i] \in Nat /\ tally[i] \in Nat
    BY <2>1, Types
  <2> QED BY <2>3, <2>4, FS_EmptySet DEF CountsInv, TallyInv
<1> QED BY <1>1, CountsInvariant, PTL

(* A coupon that is not of a referral is off once as many orders with it   *)
(* are settled as it may be used, although storing an order, counting and  *)
(* switching it off are separate operations, for any number of orders.     *)
THEOREM LimitSwitchesCouponOff == PaymentSpec => []LimitSwitchesOff
<1>1. CountsInv => LimitSwitchesOff
  <2> DEFINE settled == {o \in Orders : payment[o].settled # {} /\ payment[o].coupon}
  <2> SUFFICES ASSUME CountsInv, ~referral, settled # {}, Cardinality(settled) >= UsageLimit, couponOn
               PROVE  FALSE
    BY DEF LimitSwitchesOff
  <2>1. settled \subseteq Counted /\ Counted \in SUBSET Orders
    BY DEF Counted
  <2>2. IsFiniteSet(Counted) /\ IsFiniteSet(settled) /\ Cardinality(settled) <= Cardinality(Counted)
    BY <2>1, FS_Subset, PaymentAssumption
  <2>3. /\ Cardinality(Counted) \in Nat /\ Cardinality(settled) \in Nat /\ UsageLimit \in Nat
    BY <2>2, FS_CardinalityType, PaymentAssumption
  <2>4. Cardinality(Counted) < UsageLimit
    BY <2>1 DEF CountsInv, LimitInv
  <2> HIDE DEF settled
  <2> QED BY <2>2, <2>3, <2>4
<1> QED BY <1>1, CountsInvariant, PTL

=============================================================================
