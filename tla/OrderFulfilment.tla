--------------------------- MODULE OrderFulfilment ---------------------------
(***************************************************************************)
(* Ordering, paying and fulfilling: OrderService, PaymentService and the   *)
(* repositories they call.  A handler is a request slot; every await that  *)
(* separates a read from a write that relies on it is a step boundary, and *)
(* each prisma.$transaction is one step, except for the reward points that *)
(* executeOrder grants through a connection of their own.                  *)
(***************************************************************************)
EXTENDS Naturals, FiniteSets

CONSTANTS
  Users, Courses, Products, Bundles,
  Carts,      \* the carts users submit, as the catalogue reads resolve them
  Requests,   \* request slots: how many handlers overlap
  None,       \* undefined / null
  MaxOrders, MaxCharges, MaxTx, MaxRewards       \* bounds of the model

OrderId  == 1 .. MaxOrders      \* Order.id, autoincrement
ChargeId == 1 .. MaxCharges     \* Yoco checkout id = Payment.chargeId, unique
TxId     == 1 .. MaxTx          \* StoreOrder.id: one row per executed order

\* An entry of Order.meta.courses; months is "a number of months is given".
CourseMeta == [course : Courses, bundle : Bundles \cup {None}, months : BOOLEAN]

\* What a statement is for.
Item == ({"course"} \X Courses) \cup ({"bundle"} \X Bundles) \cup ({"product"} \X Products)

\* Order.meta with the amount reduced to "is it 0" and the prices to "is it a fraction"
\* (cents: the items whose price, after the coupon, is not a whole number).
Cart == [meta : SUBSET CourseMeta, products : SUBSET Products, free : BOOLEAN,
         cents : SUBSET Item]

Order == [status : {"Pending", "Completed", "Expired"}, user : Users, cart : Carts]

ASSUME CartsAssumption == Carts \subseteq Cart
ASSUME BoundsAssumption ==
  /\ MaxOrders \in Nat /\ MaxCharges \in Nat
  /\ MaxTx \in Nat /\ MaxRewards \in Nat
ASSUME RequestsAssumption == IsFiniteSet(Requests)
ASSUME NoneAssumption ==
  /\ None \notin Order /\ None \notin OrderId /\ None \notin ChargeId
  /\ None \notin Bundles
  /\ None \notin [order : OrderId, settled : BOOLEAN]
  /\ None \notin [order : OrderId, state : {"open", "offered", "paid"}]

VARIABLES
  orders,        \* the Order table
  courseOrder,   \* Course.orderId: a course belongs to one order at most
  productOrder,  \* Product.orderId
  enrollments,   \* Enrollment rows (tx: the execution that wrote the row)
  statements,    \* Statement rows
  storeOrders,   \* StoreOrder rows, with the order and charge that led to each
  rewards,       \* RewardPoints rows granted on behalf of each order
  charges,       \* Yoco's checkouts
  payments,      \* the Payment table, keyed by chargeId
  early,         \* history: the checkouts whose order was let through unpaid
  req            \* the handlers in flight and what each has read

vars == <<orders, courseOrder, productOrder, enrollments, statements,
          storeOrders, rewards, charges, payments, early, req>>

tables == <<orders, courseOrder, productOrder, enrollments, statements,
            storeOrders>>

Enrollment == [tx : TxId, student : Users, course : Courses,
               bundle : Bundles \cup {None}, expiry : {"never", "ahead", "past"}]

Statement == [tx : TxId, charge : ChargeId \cup {None}, item : Item]

StoreOrder == [tx : TxId, order : OrderId, charge : ChargeId \cup {None}]

Idle == [pc |-> "idle"]

Request ==
  {Idle}
  \cup [pc : {"checked"}, user : Users, cart : Carts]
  \cup [pc : {"charging"}, order : OrderId]
  \cup [pc : {"charged", "executed"}, charge : ChargeId]
  \cup [pc : {"execute", "rewarded"}, order : OrderId, courses : SUBSET Courses,
        products : SUBSET Products, charge : ChargeId \cup {None}]

TypeOK ==
  /\ orders \in [OrderId -> Order \cup {None}]
  /\ courseOrder \in [Courses -> OrderId \cup {None}]
  /\ productOrder \in [Products -> OrderId \cup {None}]
  /\ enrollments \subseteq Enrollment
  /\ statements \subseteq Statement
  /\ storeOrders \subseteq StoreOrder
  /\ rewards \in [OrderId -> 0 .. MaxRewards]
  /\ charges \in [ChargeId -> [order : OrderId,
                               state : {"open", "offered", "paid"}] \cup {None}]
  /\ payments \in [ChargeId -> [order : OrderId, settled : BOOLEAN] \cup {None}]
  /\ early \subseteq ChargeId
  /\ req \in [Requests -> Request]

Init ==
  /\ orders = [o \in OrderId |-> None]
  /\ courseOrder = [c \in Courses |-> None]
  /\ productOrder = [p \in Products |-> None]
  /\ enrollments = {} /\ statements = {} /\ storeOrders = {}
  /\ rewards = [o \in OrderId |-> 0]
  /\ charges = [c \in ChargeId |-> None]
  /\ payments = [c \in ChargeId |-> None]
  /\ early = {}
  /\ req = [r \in Requests |-> Idle]

-----------------------------------------------------------------------------
Placed == {o \in OrderId : orders[o] # None}

\* The courses an order (or a cart) is for, bundles flattened.
MetaCourses(cart) == {m.course : m \in cart.meta}

OrderCourses(o) == MetaCourses(orders[o].cart)

\* Rows are numbered in the order in which their transactions commit.  The database
\* draws ids a little earlier, but no code compares them, and the row locks on the
\* courses and orders a transaction updates are held until it commits.
NextId(id, used) == id - 1 \in used \cup {0} /\ \A k \in used : k < id

\* A request answers, or throws: the slot is free again.
Finish(r) == req' = [req EXCEPT ![r] = Idle]

-----------------------------------------------------------------------------
(* placeOrder.                                                             *)

\* intersectionBy(coursesMeta, bundleCoursesMeta, 'id') is not empty.
Overlapping(meta) ==
  \E m, n \in meta : m.course = n.course /\ m.bundle = None /\ n.bundle # None

\* Mutant: the check is left out.
AlreadyEnrolledIgnored(u, meta) == FALSE

\* The student holds an enrollment that has not expired in one of the courses.
AlreadyEnrolled(u, meta) ==
  \E e \in enrollments : /\ e.student = u
                         /\ e.expiry # "past"
                         /\ \E m \in meta : m.course = e.course

CheckCart(r, u, cart) ==
  /\ req[r].pc = "idle"
  /\ ~ Overlapping(cart.meta)
  /\ ~ AlreadyEnrolled(u, cart.meta)
  /\ req' = [req EXCEPT ![r] = [pc |-> "checked", user |-> u, cart |-> cart]]
  /\ UNCHANGED <<tables, rewards, charges, payments, early>>

\* executeOrder starts from the order as it was read: id, courses, products.
Execution(o, cs, ps, ch) ==
  [pc |-> "execute", order |-> o, courses |-> cs, products |-> ps, charge |-> ch]

\* Mutant: every new order is executed at once, whatever its amount.
AfterCreateUnpaid(o, cart) == Execution(o, MetaCourses(cart), cart.products, None)

\* order.amount === 0 is executed by placeOrder itself, any other order awaits payment.
AfterCreate(o, cart) ==
  IF cart.free THEN Execution(o, MetaCourses(cart), cart.products, None) ELSE Idle

\* Mutant: the courses of bundles are not connected to the order.
ConnectSinglesOnly(o, cart) ==
  [c \in Courses |-> IF \E m \in cart.meta : m.course = c /\ m.bundle = None
                     THEN o ELSE courseOrder[c]]

\* courses: { connect: cids } sets Course.orderId, whichever order it pointed to.
ConnectCourses(o, cart) ==
  [c \in Courses |-> IF c \in MetaCourses(cart) THEN o ELSE courseOrder[c]]

CreateOrder(r, o) ==
  LET q == req[r] IN
  /\ q.pc = "checked"
  /\ NextId(o, Placed)
  /\ orders' = [orders EXCEPT ![o] =
                  [status |-> "Pending", user |-> q.user, cart |-> q.cart]]
  /\ courseOrder' = ConnectCourses(o, q.cart)
  /\ productOrder' = [p \in Products |->
                        IF p \in q.cart.products THEN o ELSE productOrder[p]]
  /\ req' = [req EXCEPT ![r] = AfterCreate(o, q.cart)]
  /\ UNCHANGED <<enrollments, statements, storeOrders, rewards, charges, payments, early>>

-----------------------------------------------------------------------------
(* executeOrder: the statements and enrollments are computed from the meta  *)
(* of the order and the courses and products that were read with it.        *)

\* Mutant: an entry of a bundle gives no enrollment.
EnrollmentRowsSinglesOnly(t, o, courses) ==
  {[tx |-> t, student |-> orders[o].user, course |-> m.course, bundle |-> m.bundle,
    expiry |-> IF m.months THEN "ahead" ELSE "never"] :
     m \in {n \in orders[o].cart.meta : n.course \in courses /\ n.bundle = None}}

\* One row for each entry of the meta whose course was linked to the order.
EnrollmentRows(t, o, courses) ==
  {[tx |-> t, student |-> orders[o].user, course |-> m.course, bundle |-> m.bundle,
    expiry |-> IF m.months THEN "ahead" ELSE "never"] :
     m \in {n \in orders[o].cart.meta : n.course \in courses}}

\* Mutant: a course is stated from the meta alone, linked or not.
StatementItemsOfMeta(q) ==
  LET cart == orders[q.order].cart IN
  {<<"product", p>> : p \in q.products \cap cart.products}
  \cup {<<"course", m.course>> : m \in {n \in cart.meta : n.bundle = None}}
  \cup {<<"bundle", m.bundle>> : m \in {n \in cart.meta : n.bundle # None}}

\* Single courses and products if they were linked, and every bundle of the meta.
StatementItems(q) ==
  LET cart == orders[q.order].cart IN
  {<<"product", p>> : p \in q.products \cap cart.products}
  \cup {<<"course", m.course>> :
          m \in {n \in cart.meta : n.bundle = None /\ n.course \in q.courses}}
  \cup {<<"bundle", m.bundle>> : m \in {n \in cart.meta : n.bundle # None}}

StatementRows(t, q) ==
  {[tx |-> t, charge |-> q.charge, item |-> i] : i \in StatementItems(q)}

\* giveRewardPoints: through its own connection, so it stands if the transaction
\* aborts.  No row when the rule is off or the insert fails.
GiveReward(r) ==
  /\ req[r].pc = "execute"
  /\ \/ /\ rewards[req[r].order] < MaxRewards
        /\ rewards' = [rewards EXCEPT ![req[r].order] = @ + 1]
     \/ UNCHANGED rewards
  /\ req' = [req EXCEPT ![r].pc = "rewarded"]
  /\ UNCHANGED <<tables, charges, payments, early>>

\* Mutant: the update of the order is left out of the transaction.
CompleteNothing(o) == orders

\* Mutant: the status of the store order is written to the order.
CompleteAsPaid(o) == [orders EXCEPT ![o].status = "Paid"]

\* updateOrder, whatever the status is by now.
Complete(o) == [orders EXCEPT ![o].status = "Completed"]

\* Statement.amount is an Int: createMany refuses a fraction and the transaction aborts.
Commit(r) ==
  LET q == req[r] IN
  /\ q.pc = "rewarded"
  /\ StatementItems(q) \cap orders[q.order].cart.cents = {}
  /\ \E t \in TxId :
       /\ NextId(t, {s.tx : s \in storeOrders})
       /\ storeOrders' = storeOrders \cup {[tx |-> t, order |-> q.order, charge |-> q.charge]}
       /\ enrollments' = enrollments \cup EnrollmentRows(t, q.order, q.courses)
       /\ statements' = statements \cup StatementRows(t, q)
  /\ orders' = Complete(q.order)
  /\ req' = [req EXCEPT ![r] = IF q.charge = None THEN Idle
                               ELSE [pc |-> "executed", charge |-> q.charge]]
  /\ UNCHANGED <<courseOrder, productOrder, rewards, charges, payments, early>>

\* The end of approveOrder: payment.executeMeta is saved.
Settle(r) ==
  /\ req[r].pc = "executed"
  /\ payments' = [payments EXCEPT ![req[r].charge].settled = TRUE]
  /\ Finish(r)
  /\ UNCHANGED <<tables, rewards, charges, early>>

\* Mutant: the enrollments are written outside the transaction that aborts.
FailAfterEnrolling(r) ==
  /\ req[r].pc = "rewarded"
  /\ \E t \in TxId :
       /\ NextId(t, {s.tx : s \in storeOrders})
       /\ enrollments' = enrollments \cup EnrollmentRows(t, req[r].order, req[r].courses)
  /\ Finish(r)
  /\ UNCHANGED <<orders, courseOrder, productOrder, statements, storeOrders,
                 rewards, charges, payments, early>>

\* A query fails, a transaction times out and is rolled back, or the process
\* stops (every request in flight then fails): what was committed stays.
Fail(r) ==
  /\ req[r].pc # "idle"
  /\ Finish(r)
  /\ UNCHANGED <<tables, rewards, charges, payments, early>>

-----------------------------------------------------------------------------
(* createCharge, the gateway, and its webhook.                             *)

\* Mutant: the status of the order is not looked at.
FulfilledNever(o) == FALSE

\* No code sets the status Expired.
Fulfilled(o) == orders[o].status \in {"Completed", "Expired"}

StartCharge(r, u, o) ==
  /\ req[r].pc = "idle"
  /\ o \in Placed /\ orders[o].user = u
  /\ ~ Fulfilled(o)
  /\ req' = [req EXCEPT ![r] = [pc |-> "charging", order |-> o]]
  /\ UNCHANGED <<tables, rewards, charges, payments, early>>

\* Yoco answers with a new checkout.
YocoCheckout(r, c) ==
  /\ req[r].pc = "charging"
  /\ NextId(c, {k \in ChargeId : charges[k] # None})
  /\ charges' = [charges EXCEPT ![c] = [order |-> req[r].order, state |-> "open"]]
  /\ req' = [req EXCEPT ![r] = [pc |-> "charged", charge |-> c]]
  /\ UNCHANGED <<tables, rewards, payments, early>>

\* Mutant: the payment page is offered but the row is not written.
RecordNothing(r) ==
  /\ req[r].pc = "charged"
  /\ charges' = [charges EXCEPT ![req[r].charge].state = "offered"]
  /\ Finish(r)
  /\ UNCHANGED <<tables, rewards, payments, early>>

\* createPayment; only then is the url of the payment page returned.
RecordPayment(r) ==
  LET c == req[r].charge IN
  /\ req[r].pc = "charged"
  /\ payments' = [payments EXCEPT ![c] = [order |-> charges[c].order, settled |-> FALSE]]
  /\ charges' = [charges EXCEPT ![c].state = "offered"]
  /\ Finish(r)
  /\ UNCHANGED <<tables, rewards, early>>

\* External: the student pays on the page of the checkout.
YocoPays(c) ==
  /\ charges[c] # None /\ charges[c].state = "offered"
  /\ charges' = [charges EXCEPT ![c].state = "paid"]
  /\ UNCHANGED <<tables, rewards, payments, early, req>>

LinkedCourses(o) == {c \in Courses : courseOrder[c] = o}
LinkedProducts(o) == {p \in Products : productOrder[p] = o}

IsPaid(c) == charges[c] # None /\ charges[c].state = "paid"

\* One delivery of a payment event.  The webhook is not guarded and the check of the
\* signature is commented out: any event is taken whose checkout has a Payment row,
\* whether or not the checkout was paid.
Approve(r, c) ==
  /\ req[r].pc = "idle"
  /\ payments[c] # None
  /\ LET o == payments[c].order IN
       /\ ~ Fulfilled(o)
       /\ req' = [req EXCEPT ![r] =
                    Execution(o, LinkedCourses(o), LinkedProducts(o), c)]
  /\ early' = IF IsPaid(c) THEN early ELSE early \cup {c}
  /\ UNCHANGED <<tables, rewards, charges, payments>>

\* The clock passes the expiry of an enrollment.
Lapse(e) ==
  /\ e.expiry = "ahead"
  /\ enrollments' = (enrollments \ {e}) \cup {[e EXCEPT !.expiry = "past"]}
  /\ UNCHANGED <<orders, courseOrder, productOrder, statements, storeOrders,
                 rewards, charges, payments, early, req>>

-----------------------------------------------------------------------------
Handler(r) ==
  \/ \E o \in OrderId : CreateOrder(r, o)
  \/ GiveReward(r)
  \/ Commit(r)
  \/ Settle(r)
  \/ \E c \in ChargeId : YocoCheckout(r, c)
  \/ RecordPayment(r)
  \/ Fail(r)

Next ==
  \/ \E r \in Requests :
       \/ \E u \in Users, cart \in Carts : CheckCart(r, u, cart)
       \/ \E u \in Users, o \in OrderId : StartCharge(r, u, o)
       \/ \E c \in ChargeId : Approve(r, c)
       \/ Handler(r)
  \/ \E c \in ChargeId : YocoPays(c)
  \/ \E e \in enrollments : Lapse(e)

Spec == Init /\ [][Next]_vars

\* Every handler answers or throws (Prisma's timeouts); Yoco repeats the event of a
\* payment until it is answered with success, and nobody promises any other event;
\* no failure of the database is permanent.
Fairness ==
  /\ \A r \in Requests : /\ WF_vars(Handler(r))
                         /\ SF_vars(GiveReward(r))
                         /\ SF_vars(Commit(r))
  /\ \A c \in ChargeId : SF_vars(IsPaid(c) /\ \E r \in Requests : Approve(r, c))

FairSpec == Spec /\ Fairness

-----------------------------------------------------------------------------
Executions(o) == {s \in storeOrders : s.order = o}

\* Enrollments exist only through an execution that committed: each row belongs
\* to the student and to an entry of the order that execution completed, however
\* handlers overlap and wherever they fail (one transaction in executeOrder).
EnrollmentBacked ==
  \A e \in enrollments : \E s \in storeOrders :
    /\ s.tx = e.tx
    /\ orders[s.order] # None
    /\ orders[s.order].status = "Completed"
    /\ orders[s.order].user = e.student
    /\ \E m \in orders[s.order].cart.meta : m.course = e.course /\ m.bundle = e.bundle

\* The status says Completed exactly for the orders that have been executed: no
\* failure, timeout or crash leaves the one without the other.
CompletedIffExecuted ==
  \A o \in Placed : orders[o].status = "Completed" <=> Executions(o) # {}

\* What a single course earns is stated exactly when the course is delivered: in
\* every execution the course statements are the enrollments outside bundles.
StatementsMatch ==
  \A s \in storeOrders, c \in Courses :
    (\E x \in statements : x.tx = s.tx /\ x.item = <<"course", c>>)
      <=> (\E e \in enrollments : e.tx = s.tx /\ e.course = c /\ e.bundle = None)

\* The checkout was paid, unless its order was let through on an event that came before.
PaidOrEarly(c) == IsPaid(c) \/ c \in early

\* Placing an order executes it only if it is free; any other execution answers an
\* event for a checkout whose row names that very order, and the checkout was paid,
\* or the event came before the payment: the code asks the event alone.
ExecutionPaid ==
  \A s \in storeOrders :
    IF s.charge = None THEN orders[s.order].cart.free
    ELSE /\ PaidOrEarly(s.charge)
         /\ charges[s.charge] # None /\ charges[s.charge].order = s.order
         /\ payments[s.charge] # None /\ payments[s.charge].order = s.order

\* Points are granted on behalf of an order only when it is free, or one of its own
\* checkouts was paid or reported as paid, even where the transaction around the
\* grant aborts and the order stays open.
RewardPaid ==
  \A o \in OrderId : rewards[o] > 0 =>
    /\ o \in Placed
    /\ \/ orders[o].cart.free
       \/ \E c \in ChargeId : /\ PaidOrEarly(c)
                             /\ payments[c] # None /\ payments[c].order = o

\* The gateway never takes money for a checkout the database does not know
\* (createPayment comes before the answer that carries the url).
PaidIsRecorded ==
  \A c \in ChargeId :
    IsPaid(c) =>
      payments[c] # None /\ payments[c].order = charges[c].order

\* A course is linked to the newest order that contains it: an order placed later,
\* by anybody, takes the link away from the orders before it.
NewestOrderHolds ==
  \A o \in Placed : \A c \in OrderCourses(o) :
    \E k \in Placed : courseOrder[c] = k /\ k >= o /\ c \in OrderCourses(k)

\* An execution leaves out a course of its order only if a newer order contains
\* the course: until then, everything that was ordered is delivered.
LostOnlyToNewer ==
  \A s \in storeOrders : \A c \in OrderCourses(s.order) :
    \/ \E e \in enrollments : e.tx = s.tx /\ e.course = c
    \/ \E k \in Placed : k > s.order /\ c \in OrderCourses(k)

\* An order is executed at most as many times as handlers overlap: approveOrder
\* refuses a fulfilled order, so the executions of one order all began before the
\* first of them committed.  With one slot: exactly once.
ExecutionsWithinOverlap ==
  \A o \in OrderId : Cardinality(Executions(o)) <= Cardinality(Requests)

\* A student never holds two enrollments in a course that are both in force.
NoDuplicateLiveEnrollment ==
  \A e, f \in enrollments :
    /\ e.student = f.student /\ e.course = f.course
    /\ e.expiry # "past" /\ f.expiry # "past"
    => e = f

\* 'Order already fulfilled.': an order is not executed twice.
ExecutedAtMostOnce == \A s, x \in storeOrders : s.order = x.order => s = x

\* A completed order has enrolled its student in every course it was paid for.
PaidOrderEnrolls ==
  \A s \in storeOrders : \A c \in OrderCourses(s.order) :
    \E e \in enrollments : e.tx = s.tx /\ e.course = c

\* A charge that was paid leads to a completed order.
PaidIsFulfilled ==
  \A c \in ChargeId :
    IsPaid(c)
      ~> (charges[c] # None /\ orders[charges[c].order].status = "Completed")
=============================================================================
