------------------------------- MODULE Pricing -------------------------------
(***************************************************************************)
(* What an order is charged and what its statements say was sold.  Prices  *)
(* are copied when the order is placed and stated when it is executed.     *)
(* Prices and flat discounts are whole; amounts are in hundredths.         *)
(***************************************************************************)
EXTENDS Integers, FiniteSets, FiniteSetsExt

CONSTANTS
  Courses, Products, Bundles, None,
  Prices, Flats, Percentages, MaxMonths      \* the values of the model

Items == Courses \cup Products \cup Bundles

\* The months of a cart have an upper bound and no lower one; 0 when they are omitted.
Months == -1 .. MaxMonths

\* A null price counts as 0 wherever it is added.
Price == [Items -> Prices]

\* The coupon's scope comes to the set of items it covers, which are never bundles.
Coupon ==
  [covers : SUBSET (Courses \cup Products), operator : {"Flat"}, discount : Flats]
  \cup [covers : SUBSET (Courses \cup Products), operator : {"Percentage"}, discount : Percentages]

VARIABLES
  price,        \* the prices of the catalogue
  monthly,      \* the courses and bundles that are billed by the month
  empty,        \* the bundles without courses
  order,        \* the order: its meta, amount and status; None before it is placed
  linked,       \* the courses whose orderId still is the order's
  statements    \* the amounts of the order's statements, by item

vars == <<price, monthly, empty, order, linked, statements>>

\* discounted is undefined without a coupon: so is 0, for every use of it.
Meta == [list : Int, discounted : Int, months : Months]

TypeOK ==
  /\ price \in [Items -> Int]
  /\ monthly \subseteq Courses \cup Bundles
  /\ empty \subseteq Bundles
  /\ linked \subseteq Courses
  /\ order # None =>
       /\ DOMAIN order.meta \subseteq Items \ empty
       /\ \A i \in DOMAIN order.meta : order.meta[i] \in Meta
       /\ order.coupon \in Coupon \cup {None}
       /\ order.amount \in Int /\ order.status \in {"Pending", "Completed"}
  /\ DOMAIN statements \subseteq IF order = None THEN {} ELSE DOMAIN order.meta

Init ==
  /\ price \in Price
  /\ monthly \in SUBSET (Courses \cup Bundles)
  /\ empty \in SUBSET Bundles
  /\ order = None
  /\ linked = {}
  /\ statements = << >>

-----------------------------------------------------------------------------
\* calcCouponPrice: a percentage gives the discount, not the price it leaves.
CalcCouponPrice(p, coupon) ==
  IF coupon.operator = "Flat" THEN 100 * (p - coupon.discount) ELSE p * coupon.discount

\* calcProductMeta, calcCoursesMeta, calcBundleMeta: what is copied of an item.
MetaOf(i, months, coupon) ==
  [list |-> 100 * price[i],
   discounted |-> IF coupon # None /\ i \in coupon.covers
                    THEN CalcCouponPrice(price[i], coupon) ELSE 0,
   months |-> IF i \in monthly THEN months ELSE 0]

\* discountedPrice ? discountedPrice : price
UnitPrice(m) == IF m.discounted # 0 THEN m.discounted ELSE m.list

\* months ? months * price : price
Charge(m) == IF m.months # 0 THEN m.months * UnitPrice(m) ELSE UnitPrice(m)

\* coursesCost, productsCost and bundlesCost of createOrder.
Cost(meta, is) == MapThenSumSet(LAMBDA i : Charge(meta[i]), is \cap DOMAIN meta)

\* Mutant: the bundles are left out.
AmountOfSingles(meta) == Cost(meta, Courses) + Cost(meta, Products)

\* The amount of createOrder.
Amount(meta) == Cost(meta, Bundles) + Cost(meta, Courses) + Cost(meta, Products)

\* placeOrder.  Bundles without courses leave no trace in the meta.
PlaceOrder(cart, coupon) ==
  LET meta == [i \in DOMAIN cart \ empty |-> MetaOf(i, cart[i], coupon)]
  IN  /\ order = None
      /\ order' = [meta |-> meta, coupon |-> coupon, amount |-> Amount(meta), status |-> "Pending"]
      /\ linked' = Courses \cap DOMAIN meta
      /\ UNCHANGED <<price, monthly, empty, statements>>

\* updateCourse, updateBundle, updateProduct, at any time.
ChangePrice(i, p) ==
  /\ price' = [price EXCEPT ![i] = p]
  /\ UNCHANGED <<monthly, empty, order, linked, statements>>

\* A later order of the course takes the course's only orderId.
Relink(c) ==
  /\ linked' = linked \ {c}
  /\ UNCHANGED <<price, monthly, empty, order, statements>>

\* Mutant: the statement is of the price of the day.
StatedNow(i) == 100 * price[i]

\* The amount of an item's statement: for one month, whatever the months.
Stated(i) == UnitPrice(order.meta[i])

\* What executeOrder states: what is not linked any more is skipped, bundles excepted.
StatedItems == DOMAIN order.meta \ (Courses \ linked)

\* executeOrder, called at once when nothing is to be paid, and else when it is paid.
\* A statement of a fraction is refused (Statement.amount is an Int), and with it all.
ExecuteOrder ==
  /\ order # None
  /\ order.status = "Pending" /\ order.amount >= 0
  /\ \A i \in StatedItems : Stated(i) % 100 = 0
  /\ order' = [order EXCEPT !.status = "Completed"]
  /\ statements' = [i \in StatedItems |-> Stated(i)]
  /\ UNCHANGED <<price, monthly, empty, linked>>

Carts == UNION {[is -> Months] : is \in SUBSET Items}

Next ==
  \/ \E cart \in Carts, coupon \in Coupon \cup {None} : PlaceOrder(cart, coupon)
  \/ \E i \in Items, p \in Prices : ChangePrice(i, p)
  \/ \E c \in linked : Relink(c)
  \/ ExecuteOrder

Spec == Init /\ [][Next]_vars

-----------------------------------------------------------------------------
Executed == order # None /\ order.status = "Completed"

\* What an order was charged is what its statements add up to, whatever the prices became
\* in between, unless it was for several months or a later order took a course of it.
StatementsAddUp ==
  Executed
  /\ (\A i \in DOMAIN order.meta : order.meta[i].months \in {0, 1})
  /\ DOMAIN statements = DOMAIN order.meta
  => order.amount = MapThenSumSet(LAMBDA i : statements[i], DOMAIN statements)

\* An order that is executed without a payment is of what cost nothing when it was placed,
\* unless something of it was charged less than nothing: a flat coupon may be worth more
\* than what it covers, and months may be negative.
FreeIsFree ==
  Executed /\ order.amount = 0
  => \/ \A i \in DOMAIN order.meta : order.meta[i].list = 0
     \/ \E i \in DOMAIN order.meta : Charge(order.meta[i]) < 0

\* A percentage is taken off the price: "Calcuate new price for course after coupon
\* applied", order.service.ts:231.
PercentageTakesOff ==
  order # None /\ order.coupon # None /\ order.coupon.operator = "Percentage"
  => \A i \in DOMAIN order.meta \cap order.coupon.covers :
       100 * UnitPrice(order.meta[i]) = (100 - order.coupon.discount) * order.meta[i].list
=============================================================================
