------------------------ MODULE OrderFulfilment_proof ------------------------
(***************************************************************************)
(* What OrderFulfilment guarantees for every set of users, courses, carts   *)
(* and request slots, and every bound; and what it guarantees when handlers *)
(* do not overlap.                                                          *)
(***************************************************************************)
EXTENDS MCFulfilRegimes, FiniteSetTheorems, TLAPS

Executing(r) == req[r].pc \in {"execute", "rewarded"}

\* What a handler, a payment or a checkout refers to has been written before:
\* without it a step could write through a row that is not there.
References ==
  /\ \A r \in Requests : req[r].pc = "charging" \/ Executing(r) => req[r].order \in Placed
  /\ \A r \in Requests : req[r].pc = "charged" => charges[req[r].charge] # None
  /\ \A r \in Requests : req[r].pc = "executed" => payments[req[r].charge] # None
  /\ \A r \in Requests : Executing(r) /\ req[r].charge # None =>
       payments[req[r].charge] # None
  /\ \A c \in early : payments[c] # None
  /\ \A c \in ChargeId : payments[c] # None => payments[c].order \in Placed
  /\ \A c \in ChargeId : charges[c] # None => charges[c].order \in Placed
  /\ \A s \in storeOrders : s.order \in Placed

\* A checkout is open until its row is written, and no two handlers hold the same.
CheckoutsHeldOnce ==
  /\ \A r \in Requests : req[r].pc = "charged" => charges[req[r].charge].state = "open"
  /\ \A r, q \in Requests :
       r # q /\ req[r].pc = "charged" /\ req[q].pc = "charged"
         => req[r].charge # req[q].charge

\* The row and the checkout of a charge name the same order.
PaymentsAgree ==
  /\ \A c \in ChargeId : payments[c] # None =>
       charges[c] # None /\ charges[c].order = payments[c].order
  /\ \A c \in ChargeId : charges[c] # None /\ charges[c].state # "open" =>
       payments[c] # None

\* What lets order o be executed on account of ch: it is free, or ch is its own
\* checkout, recorded, and was paid or reported as paid.
PaidFor(o, ch) ==
  IF ch = None THEN orders[o].cart.free
  ELSE /\ PaidOrEarly(ch)
       /\ charges[ch] # None /\ charges[ch].order = o
       /\ payments[ch] # None /\ payments[ch].order = o

\* ExecutionPaid, of the executions still in flight as well.
PaidInFlight == \A r \in Requests : Executing(r) => PaidFor(req[r].order, req[r].charge)

\* The course is in an order placed after o.
InNewerOrder(o, c) == \E k \in Placed : k > o /\ c \in OrderCourses(k)

\* LostOnlyToNewer, of the courses an execution in flight will leave out.
SnapshotLacksOnlyNewer ==
  \A r \in Requests : Executing(r) =>
    \A c \in OrderCourses(req[r].order) :
      c \in req[r].courses \/ InNewerOrder(req[r].order, c)

\* Every statement names an execution that committed.
StatementsBacked == \A x \in statements : \E s \in storeOrders : s.tx = x.tx

\* The handlers that will execute order o.
ExecutingOf(o) == {r \in Requests : Executing(r) /\ req[r].order = o}

\* The executions there are and those still to come were all let through before the
\* first of them committed, by handlers that are or were in different slots.
ExecutionsLetThrough ==
  /\ IsFiniteSet(storeOrders)
  /\ \A o \in OrderId :
       Cardinality(Executions(o)) + Cardinality(ExecutingOf(o)) <= Cardinality(Requests)

\* The inductive invariant.
IInv ==
  /\ TypeOK /\ References /\ ExecutionsLetThrough /\ RewardPaid
  /\ CheckoutsHeldOnce /\ PaymentsAgree /\ PaidInFlight /\ ExecutionPaid
  /\ CompletedIffExecuted /\ EnrollmentBacked
  /\ NewestOrderHolds /\ SnapshotLacksOnlyNewer /\ LostOnlyToNewer
  /\ StatementsBacked /\ StatementsMatch

-----------------------------------------------------------------------------
\* The fields a request has are those of its program counter.
LEMMA RequestShape ==
  ASSUME NEW q \in Request
  PROVE  /\ q.pc = "checked" => q \in [pc : {"checked"}, user : Users, cart : Carts]
         /\ q.pc = "charging" => q \in [pc : {"charging"}, order : OrderId]
         /\ q.pc \in {"charged", "executed"} =>
              q \in [pc : {"charged", "executed"}, charge : ChargeId]
         /\ q.pc \in {"execute", "rewarded"} =>
              q \in [pc : {"execute", "rewarded"}, order : OrderId, courses : SUBSET Courses,
                     products : SUBSET Products, charge : ChargeId \cup {None}]
  BY DEF Request, Idle

\* The empty tables and idle handlers have their types.
LEMMA InitType == Init => TypeOK /\ References
  BY BoundsAssumption, NoneAssumption
  DEF Init, TypeOK, References, Request, Idle, Executing, Placed

\* Every row the commit of an execution writes is a row of its table.
LEMMA RowsType ==
  ASSUME TypeOK, NEW t \in TxId, NEW q \in Request,
         q.pc \in {"execute", "rewarded"}, q.order \in Placed
  PROVE  /\ EnrollmentRows(t, q.order, q.courses) \subseteq Enrollment
         /\ StatementRows(t, q) \subseteq Statement
         /\ Complete(q.order) \in [OrderId -> Order \cup {None}]
<1> DEFINE cart == orders[q.order].cart
<1>1. /\ q.order \in OrderId /\ q.courses \subseteq Courses /\ q.products \subseteq Products
      /\ q.charge \in ChargeId \cup {None}
  BY RequestShape
<1>2. orders[q.order] \in Order
  BY <1>1 DEF TypeOK, Placed
<1>3. cart \in Cart /\ orders[q.order].user \in Users
  BY <1>2, CartsAssumption DEF Order
<1>4. \A m \in cart.meta : /\ m.course \in Courses /\ m.bundle \in Bundles \cup {None}
                           /\ m.months \in BOOLEAN
  BY <1>3 DEF Cart, CourseMeta
<1>5. EnrollmentRows(t, q.order, q.courses) \subseteq Enrollment
  BY <1>3, <1>4 DEF EnrollmentRows, Enrollment
<1>6. StatementRows(t, q) \subseteq Statement
  BY <1>1, <1>4 DEF StatementRows, StatementItems, Statement, Item
<1>7. Complete(q.order) \in [OrderId -> Order \cup {None}]
  BY <1>1, <1>2 DEF Complete, TypeOK, Order
<1> QED BY <1>5, <1>6, <1>7

\* Every handler step writes rows and requests of the declared shape.
LEMMA NextType ==
  ASSUME TypeOK, References, [Next]_vars
  PROVE  TypeOK'
<1>1. ASSUME NEW r \in Requests, NEW u \in Users, NEW cart \in Carts, CheckCart(r, u, cart)
      PROVE  TypeOK'
  <2>1. [pc |-> "checked", user |-> u, cart |-> cart] \in Request
    BY DEF Request
  <2> QED BY <1>1, <2>1 DEF CheckCart, TypeOK, tables
<1>2. ASSUME NEW r \in Requests, NEW u \in Users, NEW o \in OrderId, StartCharge(r, u, o)
      PROVE  TypeOK'
  <2>1. [pc |-> "charging", order |-> o] \in Request
    BY DEF Request
  <2> QED BY <1>2, <2>1 DEF StartCharge, TypeOK, tables
<1>3. ASSUME NEW r \in Requests, NEW c \in ChargeId, Approve(r, c)
      PROVE  TypeOK'
  <2>1. payments[c].order \in OrderId
    BY <1>3 DEF Approve, TypeOK
  <2>2. Execution(payments[c].order, LinkedCourses(payments[c].order),
                  LinkedProducts(payments[c].order), c) \in Request
    BY <2>1 DEF Execution, LinkedCourses, LinkedProducts, Request
  <2> QED BY <1>3, <2>2 DEF Approve, TypeOK, tables
<1>4. ASSUME NEW r \in Requests, NEW o \in OrderId, CreateOrder(r, o)
      PROVE  TypeOK'
  <2>1. req[r] \in [pc : {"checked"}, user : Users, cart : Carts]
    BY <1>4, RequestShape DEF CreateOrder, TypeOK
  <2>2. /\ MetaCourses(req[r].cart) \subseteq Courses /\ req[r].cart.products \subseteq Products
    BY <2>1, CartsAssumption DEF MetaCourses, Cart, CourseMeta
  <2>3. AfterCreate(o, req[r].cart) \in Request
    BY <2>2 DEF AfterCreate, Execution, Request, Idle
  <2>4. ConnectCourses(o, req[r].cart) \in [Courses -> OrderId \cup {None}]
    BY DEF ConnectCourses, TypeOK
  <2>5. [status |-> "Pending", user |-> req[r].user, cart |-> req[r].cart] \in Order
    BY <2>1 DEF Order
  <2>6. orders' \in [OrderId -> Order \cup {None}]
    BY <1>4, <2>5 DEF CreateOrder, TypeOK
  <2>7. productOrder' \in [Products -> OrderId \cup {None}] /\ req' \in [Requests -> Request]
    BY <1>4, <2>3 DEF CreateOrder, TypeOK
  <2> QED BY <1>4, <2>4, <2>6, <2>7 DEF CreateOrder, TypeOK
<1>5. ASSUME NEW r \in Requests, GiveReward(r)
      PROVE  TypeOK'
  <2>1. req[r] \in [pc : {"execute", "rewarded"}, order : OrderId, courses : SUBSET Courses,
                    products : SUBSET Products, charge : ChargeId \cup {None}]
    BY <1>5, RequestShape DEF GiveReward, TypeOK
  <2>2. [req[r] EXCEPT !.pc = "rewarded"] \in Request
    BY <2>1 DEF Request
  <2>3. req' \in [Requests -> Request]
    BY <1>5, <2>2 DEF GiveReward, TypeOK
  <2>4. rewards' \in [OrderId -> 0 .. MaxRewards]
    BY <1>5, <2>1, BoundsAssumption DEF GiveReward, TypeOK
  <2> QED BY <1>5, <2>3, <2>4 DEF GiveReward, TypeOK, tables
<1>6. ASSUME NEW r \in Requests, Commit(r)
      PROVE  TypeOK'
  <2>1. /\ req[r] \in Request /\ req[r].pc \in {"execute", "rewarded"}
        /\ req[r].order \in Placed
    BY <1>6 DEF Commit, TypeOK, References, Executing
  <2>2. req[r].order \in OrderId /\ req[r].charge \in ChargeId \cup {None}
    BY <2>1, RequestShape
  <2>3. PICK t \in TxId :
          /\ storeOrders' = storeOrders \cup
                {[tx |-> t, order |-> req[r].order, charge |-> req[r].charge]}
          /\ enrollments' = enrollments \cup EnrollmentRows(t, req[r].order, req[r].courses)
          /\ statements' = statements \cup StatementRows(t, req[r])
    BY <1>6 DEF Commit
  <2>4. storeOrders' \subseteq StoreOrder
    BY <2>2, <2>3 DEF TypeOK, StoreOrder
  <2>5. enrollments' \subseteq Enrollment /\ statements' \subseteq Statement
    BY <2>1, <2>3, RowsType DEF TypeOK
  <2>6. orders' \in [OrderId -> Order \cup {None}]
    BY <1>6, <2>1, <2>3, RowsType DEF Commit
  <2>7. (IF req[r].charge = None THEN Idle
         ELSE [pc |-> "executed", charge |-> req[r].charge]) \in Request
    BY <2>2 DEF Request
  <2>8. req' \in [Requests -> Request]
    BY <1>6, <2>7 DEF Commit, TypeOK
  <2> QED BY <1>6, <2>4, <2>5, <2>6, <2>8 DEF Commit, TypeOK
<1>7. ASSUME NEW r \in Requests, Settle(r)
      PROVE  TypeOK'
  <2>1. req[r].charge \in ChargeId
    BY <1>7, RequestShape DEF Settle, TypeOK
  <2>2. payments[req[r].charge] \in [order : OrderId, settled : BOOLEAN]
    BY <1>7, <2>1 DEF Settle, TypeOK, References
  <2>3. payments' \in [ChargeId -> [order : OrderId, settled : BOOLEAN] \cup {None}]
    BY <1>7, <2>1, <2>2 DEF Settle, TypeOK
  <2> QED BY <1>7, <2>3 DEF Settle, Finish, TypeOK, tables, Request
<1>8. ASSUME NEW r \in Requests, NEW c \in ChargeId, YocoCheckout(r, c)
      PROVE  TypeOK'
  <2>1. req[r].order \in OrderId
    BY <1>8, RequestShape DEF YocoCheckout, TypeOK
  <2>2. [pc |-> "charged", charge |-> c] \in Request
    BY DEF Request
  <2>3. charges' \in [ChargeId -> [order : OrderId,
                                   state : {"open", "offered", "paid"}] \cup {None}]
    BY <1>8, <2>1 DEF YocoCheckout, TypeOK
  <2> QED BY <1>8, <2>2, <2>3 DEF YocoCheckout, TypeOK, tables
<1>9. ASSUME NEW r \in Requests, RecordPayment(r)
      PROVE  TypeOK'
  <2>1. req[r].charge \in ChargeId
    BY <1>9, RequestShape DEF RecordPayment, TypeOK
  <2>2. charges[req[r].charge] \in [order : OrderId, state : {"open", "offered", "paid"}]
    BY <1>9, <2>1 DEF RecordPayment, TypeOK, References
  <2>3. charges' \in [ChargeId -> [order : OrderId,
                                   state : {"open", "offered", "paid"}] \cup {None}]
    BY <1>9, <2>1, <2>2 DEF RecordPayment, TypeOK
  <2>4. payments' \in [ChargeId -> [order : OrderId, settled : BOOLEAN] \cup {None}]
    BY <1>9, <2>1, <2>2 DEF RecordPayment, TypeOK
  <2> QED BY <1>9, <2>3, <2>4 DEF RecordPayment, Finish, TypeOK, tables, Request
<1>10. ASSUME NEW r \in Requests, Fail(r)
       PROVE  TypeOK'
  BY <1>10 DEF Fail, Finish, TypeOK, tables, Request
<1>11. ASSUME NEW c \in ChargeId, YocoPays(c)
       PROVE  TypeOK'
  <2>1. charges' \in [ChargeId -> [order : OrderId,
                                   state : {"open", "offered", "paid"}] \cup {None}]
    BY <1>11 DEF YocoPays, TypeOK
  <2> QED BY <1>11, <2>1 DEF YocoPays, TypeOK, tables
<1>12. ASSUME NEW e \in enrollments, Lapse(e)
       PROVE  TypeOK'
  <2>1. [e EXCEPT !.expiry = "past"] \in Enrollment
    BY DEF TypeOK, Enrollment
  <2> QED BY <1>12, <2>1 DEF Lapse, TypeOK
<1>13. CASE UNCHANGED vars
  BY <1>13 DEF vars, TypeOK
<1> QED BY <1>1, <1>2, <1>3, <1>4, <1>5, <1>6, <1>7, <1>8, <1>9, <1>10, <1>11, <1>12,
           <1>13 DEF Next, Handler

-----------------------------------------------------------------------------
(* What every step leaves alone.                                            *)

\* Orders are written by CreateOrder and Commit alone (createOrder, updateOrder), and
\* Commit alone writes statements and store orders.
LEMMA StepKinds ==
  ASSUME [Next]_vars
  PROVE  \/ \E r \in Requests, o \in OrderId : CreateOrder(r, o)
         \/ \E r \in Requests : Commit(r)
         \/ UNCHANGED <<orders, courseOrder, storeOrders>>
  BY DEF Next, Handler, vars, CheckCart, StartCharge, Approve, GiveReward, Settle,
     YocoCheckout, RecordPayment, Fail, YocoPays, Lapse, tables

\* An order that has been placed keeps its student and its cart, and stays completed.
LEMMA OrdersPersist ==
  ASSUME TypeOK, References, [Next]_vars, NEW o \in Placed
  PROVE  /\ o \in Placed'
         /\ orders[o] \in Order /\ orders'[o] \in Order
         /\ orders'[o].user = orders[o].user /\ orders'[o].cart = orders[o].cart
         /\ orders[o].status = "Completed" => orders'[o].status = "Completed"
<1>1. o \in OrderId /\ orders[o] \in Order
  BY DEF Placed, TypeOK
<1>2. CASE \E r \in Requests, k \in OrderId : CreateOrder(r, k)
  <2>1. PICK r \in Requests, k \in OrderId : CreateOrder(r, k)
    BY <1>2
  <2>2. o # k
    BY <1>1, <2>1 DEF CreateOrder, NextId, OrderId
  <2>3. orders'[o] = orders[o]
    BY <1>1, <2>1, <2>2 DEF CreateOrder, TypeOK
  <2> QED BY <1>1, <2>3, NoneAssumption DEF Placed
<1>3. CASE \E r \in Requests : Commit(r)
  <2>1. PICK r \in Requests : Commit(r)
    BY <1>3
  <2>2. \/ orders'[o] = orders[o]
        \/ orders'[o] = [orders[o] EXCEPT !.status = "Completed"]
    BY <1>1, <2>1 DEF Commit, Complete, TypeOK
  <2> QED BY <1>1, <2>2, NoneAssumption DEF Placed, Order
<1>4. CASE UNCHANGED <<orders, courseOrder, storeOrders>>
  BY <1>1, <1>4 DEF Placed
<1> QED BY <1>2, <1>3, <1>4, StepKinds

\* A checkout keeps its order, and once it is paid it stays paid; so does its row.
LEMMA ChargesPersist ==
  ASSUME TypeOK, References, CheckoutsHeldOnce, PaymentsAgree, [Next]_vars,
         NEW c \in ChargeId
  PROVE  /\ charges[c] # None => /\ charges'[c] # None
                                 /\ charges'[c].order = charges[c].order
         /\ charges[c] # None /\ charges[c].state = "paid" => charges'[c].state = "paid"
         /\ payments[c] # None => /\ payments'[c] # None
                                  /\ payments'[c].order = payments[c].order
<1> DEFINE ChargeRow == [order : OrderId, state : {"open", "offered", "paid"}]
           PaymentRow == [order : OrderId, settled : BOOLEAN]
<1>0. /\ charges \in [ChargeId -> ChargeRow \cup {None}]
      /\ payments \in [ChargeId -> PaymentRow \cup {None}]
      /\ None \notin ChargeRow /\ None \notin PaymentRow
  BY NoneAssumption DEF TypeOK
<1>1. ASSUME NEW r \in Requests, Settle(r)
      PROVE  /\ charges' = charges
             /\ \/ payments'[c] = payments[c]
                \/ /\ payments[c] \in PaymentRow
                   /\ payments'[c] = [payments[c] EXCEPT !.settled = TRUE]
  <2>1. req[r].charge \in ChargeId /\ payments[req[r].charge] \in PaymentRow
    BY <1>1, <1>0, RequestShape DEF Settle, TypeOK, References
  <2> QED BY <1>0, <1>1, <2>1 DEF Settle
<1>2. ASSUME NEW r \in Requests, NEW k \in ChargeId, YocoCheckout(r, k)
      PROVE  payments' = payments /\ (charges[c] # None => charges'[c] = charges[c])
  <2>1. charges[c] # None => c # k
    BY <1>2 DEF YocoCheckout, NextId, ChargeId
  <2> QED BY <1>0, <1>2, <2>1 DEF YocoCheckout
<1>3. ASSUME NEW r \in Requests, RecordPayment(r)
      PROVE  \/ charges'[c] = charges[c] /\ payments'[c] = payments[c]
             \/ /\ charges[c] \in ChargeRow /\ charges[c].state = "open"
                /\ charges'[c] = [charges[c] EXCEPT !.state = "offered"]
                /\ payments'[c] = [order |-> charges[c].order, settled |-> FALSE]
  <2>1. /\ req[r].charge \in ChargeId /\ charges[req[r].charge] \in ChargeRow
        /\ charges[req[r].charge].state = "open"
    BY <1>0, <1>3, RequestShape DEF RecordPayment, TypeOK, References, CheckoutsHeldOnce
  <2> QED BY <1>0, <1>3, <2>1 DEF RecordPayment
<1>4. ASSUME NEW k \in ChargeId, YocoPays(k)
      PROVE  /\ payments' = payments
             /\ \/ charges'[c] = charges[c]
                \/ charges[c] \in ChargeRow
                   /\ charges'[c] = [charges[c] EXCEPT !.state = "paid"]
  BY <1>0, <1>4 DEF YocoPays
<1>5. \/ \E r \in Requests : Settle(r) \/ RecordPayment(r)
      \/ \E r \in Requests, k \in ChargeId : YocoCheckout(r, k)
      \/ \E k \in ChargeId : YocoPays(k)
      \/ UNCHANGED <<charges, payments>>
  BY DEF Next, Handler, vars, CheckCart, StartCharge, Approve, GiveReward, Commit,
     CreateOrder, Fail, Lapse, tables
<1>6. CASE \E r \in Requests : Settle(r)
  BY <1>0, <1>1, <1>6
<1>7. CASE \E r \in Requests : RecordPayment(r)
  <2>1. PICK r \in Requests : RecordPayment(r)
    BY <1>7
  <2>2. payments[c] # None => charges[c].order = payments[c].order
    BY DEF PaymentsAgree
  <2>3. CASE charges'[c] = charges[c] /\ payments'[c] = payments[c]
    BY <2>3
  <2>4. CASE /\ charges[c] \in ChargeRow /\ charges[c].state = "open"
             /\ charges'[c] = [charges[c] EXCEPT !.state = "offered"]
             /\ payments'[c] = [order |-> charges[c].order, settled |-> FALSE]
    <3>1. charges'[c] \in ChargeRow /\ charges'[c].order = charges[c].order
      BY <2>4
    <3>2. payments'[c] \in PaymentRow /\ payments'[c].order = charges[c].order
      BY <2>4
    <3>3. charges[c].state # "paid"
      BY <2>4
    <3> QED BY <1>0, <2>2, <3>1, <3>2, <3>3
  <2> QED BY <1>3, <2>1, <2>3, <2>4
<1>8. CASE \E r \in Requests, k \in ChargeId : YocoCheckout(r, k)
  BY <1>0, <1>2, <1>8
<1>9. CASE \E k \in ChargeId : YocoPays(k)
  <2>1. PICK k \in ChargeId : YocoPays(k)
    BY <1>9
  <2>2. CASE charges'[c] = charges[c]
    BY <1>4, <2>1, <2>2
  <2>3. CASE charges[c] \in ChargeRow /\ charges'[c] = [charges[c] EXCEPT !.state = "paid"]
    <3>1. charges'[c] \in ChargeRow
      BY <2>3
    <3> QED BY <1>0, <1>4, <2>1, <2>3, <3>1
  <2> QED BY <1>4, <2>1, <2>2, <2>3
<1> QED BY <1>5, <1>6, <1>7, <1>8, <1>9

-----------------------------------------------------------------------------
(* The inductive step, one lemma for each part of the invariant.            *)

\* Every foreign key, and every id a handler holds, names a row that exists.
LEMMA NextReferences ==
  ASSUME TypeOK, References, CheckoutsHeldOnce, PaymentsAgree, [Next]_vars
  PROVE  References'
<1> USE DEF Executing
<1>1. \A o \in Placed : o \in Placed'
  BY OrdersPersist
<1>2. \A c \in ChargeId :
        /\ charges[c] # None => charges'[c] # None /\ charges'[c].order = charges[c].order
        /\ payments[c] # None => payments'[c] # None /\ payments'[c].order = payments[c].order
  BY ChargesPersist
<1>3. \A r \in Requests :
        /\ req[r].pc \in {"charging", "execute", "rewarded"} => req[r].order \in Placed'
        /\ req[r].pc = "charged" => req[r].charge \in ChargeId /\ charges'[req[r].charge] # None
        /\ req[r].pc = "executed" => payments'[req[r].charge] # None
        /\ Executing(r) /\ req[r].charge # None => payments'[req[r].charge] # None
  BY <1>1, <1>2, RequestShape DEF References, TypeOK
<1>4. \A c \in ChargeId : payments[c] # None => payments'[c].order \in Placed'
  BY <1>1, <1>2 DEF References
<1>5. \A c \in ChargeId : charges[c] # None => charges'[c].order \in Placed'
  BY <1>1, <1>2 DEF References
<1>6. /\ \A s \in storeOrders : s.order \in Placed'
      /\ \A c \in early : payments'[c] # None
  BY <1>1, <1>2 DEF References, TypeOK
<1>7. ASSUME NEW r \in Requests, NEW u \in Users, NEW cart \in Carts, CheckCart(r, u, cart)
      PROVE  References'
  BY <1>3, <1>4, <1>5, <1>6, <1>7 DEF CheckCart, References, TypeOK, tables
<1>8. ASSUME NEW r \in Requests, NEW u \in Users, NEW o \in OrderId, StartCharge(r, u, o)
      PROVE  References'
  BY <1>1, <1>3, <1>4, <1>5, <1>6, <1>8 DEF StartCharge, References, TypeOK, tables
<1>9. ASSUME NEW r \in Requests, NEW c \in ChargeId, Approve(r, c)
      PROVE  References'
  BY <1>2, <1>3, <1>4, <1>5, <1>6, <1>9
  DEF Approve, Execution, References, TypeOK, tables
<1>10. ASSUME NEW r \in Requests, NEW o \in OrderId, CreateOrder(r, o)
       PROVE  References'
  <2>1. orders'[o] # None
    <3>1. req[r] \in [pc : {"checked"}, user : Users, cart : Carts]
      BY <1>10, RequestShape DEF CreateOrder, TypeOK
    <3> QED BY <1>10, <3>1, NoneAssumption DEF CreateOrder, TypeOK, Order
  <2>2. o \in Placed'
    BY <2>1 DEF Placed
  <2> QED BY <1>3, <1>4, <1>5, <1>6, <1>10, <2>2
          DEF CreateOrder, AfterCreate, Execution, Idle, References, TypeOK
<1>11. ASSUME NEW r \in Requests, GiveReward(r)
       PROVE  References'
  BY <1>3, <1>4, <1>5, <1>6, <1>11, RequestShape DEF GiveReward, References, TypeOK, tables
<1>12. ASSUME NEW r \in Requests, Commit(r)
       PROVE  References'
  BY <1>3, <1>4, <1>5, <1>6, <1>12, RequestShape DEF Commit, Idle, References, TypeOK
<1>13. ASSUME NEW r \in Requests, Settle(r)
       PROVE  References'
  BY <1>3, <1>4, <1>5, <1>6, <1>13, NoneAssumption, RequestShape
  DEF Settle, Finish, Idle, References, TypeOK, tables
<1>14. ASSUME NEW r \in Requests, NEW c \in ChargeId, YocoCheckout(r, c)
       PROVE  References'
  BY <1>1, <1>3, <1>4, <1>5, <1>6, <1>14, NoneAssumption, RequestShape
  DEF YocoCheckout, References, TypeOK, tables
<1>15. ASSUME NEW r \in Requests, RecordPayment(r)
       PROVE  References'
  BY <1>1, <1>3, <1>4, <1>5, <1>6, <1>15, NoneAssumption, RequestShape
  DEF RecordPayment, Finish, Idle, References, TypeOK, tables
<1>16. ASSUME NEW r \in Requests, Fail(r)
       PROVE  References'
  BY <1>3, <1>4, <1>5, <1>6, <1>16 DEF Fail, Finish, Idle, References, TypeOK, tables
<1>17. ASSUME NEW c \in ChargeId, YocoPays(c)
       PROVE  References'
  BY <1>3, <1>4, <1>5, <1>6, <1>17 DEF YocoPays, References, TypeOK, tables
<1>18. ASSUME NEW e \in enrollments, Lapse(e)
       PROVE  References'
  BY <1>3, <1>4, <1>5, <1>6, <1>18 DEF Lapse, References
<1>19. CASE UNCHANGED vars
  BY <1>19 DEF vars, References, Placed
<1> QED BY <1>7, <1>8, <1>9, <1>10, <1>11, <1>12, <1>13, <1>14, <1>15, <1>16, <1>17, <1>18,
           <1>19 DEF Next, Handler

\* What one commit writes, under the number t, for the order the request holds.
LEMMA CommitWrites ==
  ASSUME TypeOK, References, NEW r \in Requests, Commit(r)
  PROVE  /\ Executing(r)
         /\ req[r].order \in Placed /\ req[r].order \in OrderId
         /\ orders[req[r].order] \in Order
         /\ req[r].charge \in ChargeId \cup {None}
         /\ \A k \in OrderId : k # req[r].order => orders'[k] = orders[k]
         /\ orders'[req[r].order] \in Order
         /\ orders'[req[r].order].status = "Completed"
         /\ \E t \in TxId :
              /\ \A s \in storeOrders : s.tx # t
              /\ storeOrders' = storeOrders \cup
                   {[tx |-> t, order |-> req[r].order, charge |-> req[r].charge]}
              /\ enrollments' = enrollments \cup
                   EnrollmentRows(t, req[r].order, req[r].courses)
              /\ statements' = statements \cup StatementRows(t, req[r])
<1>1. /\ Executing(r) /\ req[r].order \in Placed /\ req[r].order \in OrderId
      /\ orders[req[r].order] \in Order
  BY DEF Commit, References, Executing, Placed, TypeOK
<1>2. req[r].charge \in ChargeId \cup {None}
  BY RequestShape DEF Commit, TypeOK
<1>3. orders' = [orders EXCEPT ![req[r].order].status = "Completed"]
  BY DEF Commit, Complete
<1>4. /\ \A k \in OrderId : k # req[r].order => orders'[k] = orders[k]
      /\ orders'[req[r].order] = [orders[req[r].order] EXCEPT !.status = "Completed"]
  BY <1>1, <1>3 DEF TypeOK
<1>5. /\ orders'[req[r].order] \in Order
      /\ orders'[req[r].order].status = "Completed"
  BY <1>1, <1>4 DEF Order
<1>6. PICK t \in TxId :
        /\ NextId(t, {s.tx : s \in storeOrders})
        /\ storeOrders' = storeOrders \cup
             {[tx |-> t, order |-> req[r].order, charge |-> req[r].charge]}
        /\ enrollments' = enrollments \cup EnrollmentRows(t, req[r].order, req[r].courses)
        /\ statements' = statements \cup StatementRows(t, req[r])
  BY DEF Commit
<1>7. \A s \in storeOrders : s.tx # t
  BY <1>6 DEF NextId, TxId
<1> QED BY <1>1, <1>2, <1>4, <1>5, <1>6, <1>7

\* Only Commit executes an order, and it completes it in the same transaction.
LEMMA NextCompleted ==
  ASSUME TypeOK, References, CompletedIffExecuted, [Next]_vars
  PROVE  CompletedIffExecuted'
<1>1. CASE \E r \in Requests, o \in OrderId : CreateOrder(r, o)
  <2>1. PICK r \in Requests, o \in OrderId : CreateOrder(r, o)
    BY <1>1
  <2>2. o \notin Placed
    BY <2>1 DEF CreateOrder, NextId, OrderId
  <2>3. Executions(o)' = {} /\ orders'[o].status = "Pending"
    BY <2>1, <2>2 DEF CreateOrder, Executions, References, TypeOK
  <2>4. ASSUME NEW k \in Placed', k # o
        PROVE  k \in Placed /\ orders'[k] = orders[k] /\ Executions(k)' = Executions(k)
    BY <2>1, <2>4 DEF CreateOrder, Placed, Executions, TypeOK
  <2> QED BY <2>3, <2>4 DEF CompletedIffExecuted
<1>2. CASE \E r \in Requests : Commit(r)
  <2>1. PICK r \in Requests : Commit(r)
    BY <1>2
  <2>2. PICK o \in OrderId : o = req[r].order
    BY <2>1, CommitWrites
  <2>3. PICK t \in TxId : storeOrders' = storeOrders \cup
                            {[tx |-> t, order |-> o, charge |-> req[r].charge]}
    BY <2>1, <2>2, CommitWrites
  <2>4. Executions(o)' # {} /\ orders'[o].status = "Completed"
    <3>1. [tx |-> t, order |-> o, charge |-> req[r].charge] \in Executions(o)'
      BY <2>3 DEF Executions
    <3> QED BY <2>1, <2>2, <3>1, CommitWrites
  <2>5. ASSUME NEW k \in Placed', k # o
        PROVE  k \in Placed /\ orders'[k] = orders[k] /\ Executions(k)' = Executions(k)
    BY <2>1, <2>2, <2>3, <2>5, CommitWrites DEF Placed, Executions
  <2> QED BY <2>4, <2>5 DEF CompletedIffExecuted
<1>3. CASE UNCHANGED <<orders, courseOrder, storeOrders>>
  BY <1>3 DEF CompletedIffExecuted, Placed, Executions
<1> QED BY <1>1, <1>2, <1>3, StepKinds

\* A checkout is handed to one handler, which alone records it.
LEMMA NextCheckouts ==
  ASSUME TypeOK, References, CheckoutsHeldOnce, PaymentsAgree, [Next]_vars
  PROVE  CheckoutsHeldOnce'
<1>1. \A r \in Requests : req[r].pc = "charged" => req[r].charge \in ChargeId
  BY RequestShape DEF TypeOK
<1>2. ASSUME NEW r \in Requests, NEW c \in ChargeId, YocoCheckout(r, c)
      PROVE  CheckoutsHeldOnce'
  <2>1. charges[c] = None
    BY <1>2 DEF YocoCheckout, NextId, ChargeId
  <2>2. \A q \in Requests : req[q].pc = "charged" => req[q].charge # c
    BY <1>1, <2>1 DEF References
  <2> QED BY <1>1, <1>2, <2>2 DEF YocoCheckout, CheckoutsHeldOnce, TypeOK
<1>3. ASSUME NEW r \in Requests, RecordPayment(r)
      PROVE  CheckoutsHeldOnce'
  BY <1>1, <1>3 DEF RecordPayment, Finish, Idle, CheckoutsHeldOnce, TypeOK
<1>4. ASSUME NEW c \in ChargeId, YocoPays(c)
      PROVE  CheckoutsHeldOnce'
  BY <1>1, <1>4 DEF YocoPays, CheckoutsHeldOnce, TypeOK
<1>5. CASE /\ UNCHANGED charges
           /\ \A r \in Requests : req'[r] = req[r] \/ req'[r].pc # "charged"
  BY <1>5 DEF CheckoutsHeldOnce
<1>6. ASSUME NEW r \in Requests,
             \/ \E u \in Users, cart \in Carts : CheckCart(r, u, cart)
             \/ \E u \in Users, o \in OrderId : StartCharge(r, u, o)
             \/ \E c \in ChargeId : Approve(r, c)
             \/ \E o \in OrderId : CreateOrder(r, o)
             \/ GiveReward(r) \/ Commit(r) \/ Settle(r) \/ Fail(r)
      PROVE  /\ UNCHANGED charges
             /\ \A q \in Requests : req'[q] = req[q] \/ req'[q].pc # "charged"
  <2>1. CASE \E u \in Users, cart \in Carts : CheckCart(r, u, cart)
    BY <2>1 DEF CheckCart, TypeOK
  <2>2. CASE \E u \in Users, o \in OrderId : StartCharge(r, u, o)
    BY <2>2 DEF StartCharge, TypeOK
  <2>3. CASE \E c \in ChargeId : Approve(r, c)
    BY <2>3 DEF Approve, Execution, TypeOK
  <2>4. CASE \E o \in OrderId : CreateOrder(r, o)
    BY <2>4 DEF CreateOrder, AfterCreate, Execution, Idle, TypeOK
  <2>5. CASE GiveReward(r)
    BY <2>5, RequestShape DEF GiveReward, TypeOK
  <2>6. CASE Commit(r)
    BY <2>6 DEF Commit, Idle, TypeOK
  <2>7. CASE Settle(r)
    BY <2>7 DEF Settle, Finish, Idle, TypeOK
  <2>8. CASE Fail(r)
    BY <2>8 DEF Fail, Finish, Idle, TypeOK
  <2> QED BY <1>6, <2>1, <2>2, <2>3, <2>4, <2>5, <2>6, <2>7, <2>8
<1>7. ASSUME NEW e \in enrollments, Lapse(e)
      PROVE  UNCHANGED <<charges, req>>
  BY <1>7 DEF Lapse
<1>8. CASE UNCHANGED vars
  BY <1>5, <1>8 DEF vars
<1> QED BY <1>2, <1>3, <1>4, <1>5, <1>6, <1>7, <1>8 DEF Next, Handler

\* createPayment comes before the answer that carries the url.
LEMMA NextPaymentsAgree ==
  ASSUME TypeOK, References, CheckoutsHeldOnce, PaymentsAgree, [Next]_vars
  PROVE  PaymentsAgree'
<1>1. \A c \in ChargeId :
        /\ charges[c] # None => charges'[c] # None /\ charges'[c].order = charges[c].order
        /\ payments[c] # None => payments'[c] # None /\ payments'[c].order = payments[c].order
  BY ChargesPersist
<1>2. ASSUME NEW r \in Requests, Settle(r)
      PROVE  PaymentsAgree'
  <2>1. req[r].charge \in ChargeId /\ payments[req[r].charge] # None
    BY <1>2, RequestShape DEF Settle, TypeOK, References
  <2> QED BY <1>1, <1>2, <2>1 DEF Settle, PaymentsAgree, TypeOK, tables
<1>3. ASSUME NEW r \in Requests, NEW c \in ChargeId, YocoCheckout(r, c)
      PROVE  PaymentsAgree'
  BY <1>1, <1>3 DEF YocoCheckout, PaymentsAgree, TypeOK
<1>4. ASSUME NEW r \in Requests, RecordPayment(r)
      PROVE  PaymentsAgree'
  <2> DEFINE c == req[r].charge
             row == [order |-> charges[c].order, settled |-> FALSE]
  <2>1. /\ c \in ChargeId /\ charges[c] # None
        /\ charges[c] \in [order : OrderId, state : {"open", "offered", "paid"}]
    BY <1>4, RequestShape DEF RecordPayment, TypeOK, References
  <2>2. row # None /\ row.order = charges[c].order
    <3>1. row \in [order : OrderId, settled : BOOLEAN]
      BY <2>1
    <3> QED BY <3>1, NoneAssumption
  <2>3. payments' = [payments EXCEPT ![c] = row] /\ charges'[c] # None
        /\ charges' = [charges EXCEPT ![c].state = "offered"]
    BY <1>1, <1>4, <2>1 DEF RecordPayment
  <2>4. ASSUME NEW k \in ChargeId, k # c
        PROVE  charges'[k] = charges[k] /\ payments'[k] = payments[k]
    BY <2>1, <2>3, <2>4 DEF TypeOK
  <2>5. payments'[c] = row
    BY <2>1, <2>3 DEF TypeOK
  <2>6. charges'[c].order = charges[c].order
    BY <1>1, <2>1
  <2> HIDE DEF c, row
  <2>7. ASSUME NEW k \in ChargeId
        PROVE  /\ payments'[k] # None =>
                    charges'[k] # None /\ charges'[k].order = payments'[k].order
               /\ charges'[k] # None /\ charges'[k].state # "open" => payments'[k] # None
    <3>1. CASE k = c
      BY <2>2, <2>3, <2>5, <2>6, <3>1
    <3>2. CASE k # c
      BY <2>4, <3>2 DEF PaymentsAgree
    <3> QED BY <3>1, <3>2
  <2> QED BY <2>7 DEF PaymentsAgree
<1>5. ASSUME NEW c \in ChargeId, YocoPays(c)
      PROVE  PaymentsAgree'
  BY <1>1, <1>5 DEF YocoPays, PaymentsAgree, TypeOK
<1>6. CASE UNCHANGED <<charges, payments>>
  BY <1>6 DEF PaymentsAgree
<1> QED BY <1>2, <1>3, <1>4, <1>5, <1>6
        DEF Next, Handler, vars, CheckCart, StartCharge, Approve, GiveReward, Commit,
            CreateOrder, Fail, Lapse, tables

\* A request executes an order because it did before, or because it has just placed
\* a free order, or because it has just received the payment event of its charge.
LEMMA ExecutionBegins ==
  ASSUME TypeOK, [Next]_vars, NEW q \in Requests, Executing(q)'
  PROVE  \/ /\ Executing(q)
            /\ req'[q].order = req[q].order /\ req'[q].courses = req[q].courses
            /\ req'[q].charge = req[q].charge
         \/ \E o \in OrderId :
              /\ CreateOrder(q, o) /\ req[q].cart.free
              /\ req'[q].order = o /\ req'[q].courses = MetaCourses(req[q].cart)
              /\ req'[q].charge = None
         \/ \E c \in ChargeId :
              /\ Approve(q, c)
              /\ req'[q].order = payments[c].order
              /\ req'[q].courses = LinkedCourses(payments[c].order)
              /\ req'[q].charge = c
<1>1. CASE req'[q] = req[q]
  BY <1>1 DEF Executing
<1>2. ASSUME NEW r \in Requests, Handler(r), req'[q] # req[q]
      PROVE  \/ r = q /\ GiveReward(q)
             \/ r = q /\ \E o \in OrderId : CreateOrder(q, o)
  <2>1. CASE \E o \in OrderId : CreateOrder(r, o)
    BY <1>2, <2>1 DEF CreateOrder, TypeOK
  <2>2. CASE GiveReward(r)
    BY <1>2, <2>2 DEF GiveReward, TypeOK
  <2>3. CASE Commit(r)
    BY <1>2, <2>3 DEF Commit, Executing, Idle, TypeOK
  <2>4. CASE Settle(r) \/ RecordPayment(r) \/ Fail(r)
    BY <1>2, <2>4 DEF Settle, RecordPayment, Fail, Finish, Executing, Idle, TypeOK
  <2>5. CASE \E c \in ChargeId : YocoCheckout(r, c)
    BY <1>2, <2>5 DEF YocoCheckout, Executing, TypeOK
  <2> QED BY <1>2, <2>1, <2>2, <2>3, <2>4, <2>5 DEF Handler
<1>3. ASSUME NEW r \in Requests, req'[q] # req[q],
             \/ \E u \in Users, cart \in Carts : CheckCart(r, u, cart)
             \/ \E u \in Users, o \in OrderId : StartCharge(r, u, o)
             \/ \E c \in ChargeId : Approve(r, c)
      PROVE  \E c \in ChargeId : Approve(q, c)
  BY <1>3 DEF CheckCart, StartCharge, Approve, Executing, TypeOK
<1>4. CASE GiveReward(q)
  <2>1. /\ req[q] \in [pc : {"execute", "rewarded"}, order : OrderId, courses : SUBSET Courses,
                       products : SUBSET Products, charge : ChargeId \cup {None}]
        /\ Executing(q)
    BY <1>4, RequestShape DEF GiveReward, Executing, TypeOK
  <2>2. req'[q] = [req[q] EXCEPT !.pc = "rewarded"]
    BY <1>4 DEF GiveReward, TypeOK
  <2>3. /\ req'[q].order = req[q].order /\ req'[q].courses = req[q].courses
        /\ req'[q].charge = req[q].charge
    BY <2>1, <2>2
  <2> QED BY <2>1, <2>3
<1>5. CASE \E o \in OrderId : CreateOrder(q, o)
  <2>1. PICK o \in OrderId : CreateOrder(q, o)
    BY <1>5
  <2>2. req'[q] = AfterCreate(o, req[q].cart)
    BY <2>1 DEF CreateOrder, TypeOK
  <2>3. req[q].cart.free
    BY <2>2 DEF AfterCreate, Executing, Idle
  <2>4. req'[q] = Execution(o, MetaCourses(req[q].cart), req[q].cart.products, None)
    BY <2>2, <2>3 DEF AfterCreate
  <2> QED BY <2>1, <2>3, <2>4 DEF Execution
<1>6. CASE \E c \in ChargeId : Approve(q, c)
  <2>1. PICK c \in ChargeId : Approve(q, c)
    BY <1>6
  <2>2. req'[q] = Execution(payments[c].order, LinkedCourses(payments[c].order),
                            LinkedProducts(payments[c].order), c)
    BY <2>1 DEF Approve, TypeOK
  <2> QED BY <2>1, <2>2 DEF Execution
<1>7. CASE \/ \E c \in ChargeId : YocoPays(c)
           \/ \E e \in enrollments : Lapse(e)
           \/ UNCHANGED vars
  BY <1>1, <1>7 DEF YocoPays, Lapse, vars
<1> QED BY <1>1, <1>2, <1>3, <1>4, <1>5, <1>6, <1>7 DEF Next

\* A checkout that was paid, or let through before, stays so.
LEMMA PaidPersists ==
  ASSUME TypeOK, References, CheckoutsHeldOnce, PaymentsAgree, [Next]_vars,
         NEW c \in ChargeId, PaidOrEarly(c)
  PROVE  PaidOrEarly(c)'
<1>1. IsPaid(c) => IsPaid(c)'
  BY ChargesPersist DEF IsPaid
<1>2. early \subseteq early'
  BY DEF Next, Handler, vars, CheckCart, StartCharge, Approve, GiveReward, CreateOrder, Commit,
         Settle, YocoCheckout, RecordPayment, Fail, YocoPays, Lapse
<1> QED BY <1>1, <1>2 DEF PaidOrEarly

\* An execution begins with the order free, or its own charge paid or reported as
\* paid, and stays so.
LEMMA NextPaid ==
  ASSUME TypeOK, References, CheckoutsHeldOnce, PaymentsAgree, PaidInFlight, ExecutionPaid,
         [Next]_vars
  PROVE  PaidInFlight' /\ ExecutionPaid'
<1>1. \A o \in Placed, ch \in ChargeId \cup {None} : PaidFor(o, ch) => PaidFor(o, ch)'
  <2> TAKE o \in Placed, ch \in ChargeId \cup {None}
  <2>1. orders'[o].cart = orders[o].cart
    BY OrdersPersist
  <2>2. CASE ch = None
    BY <2>1, <2>2 DEF PaidFor
  <2>3. CASE ch \in ChargeId
    BY <2>3, ChargesPersist, PaidPersists, NoneAssumption DEF PaidFor
  <2> QED BY <2>2, <2>3
<1>2. \A r \in Requests : Executing(r) =>
        /\ req[r].order \in Placed /\ req[r].charge \in ChargeId \cup {None}
        /\ PaidFor(req[r].order, req[r].charge)
  BY RequestShape DEF References, Executing, PaidInFlight, TypeOK
<1>3. \A s \in storeOrders : /\ s.order \in Placed /\ s.charge \in ChargeId \cup {None}
                             /\ PaidFor(s.order, s.charge)
  BY DEF References, TypeOK, StoreOrder, ExecutionPaid, PaidFor
<1>4. ASSUME NEW q \in Requests, Executing(q)'
      PROVE  PaidFor(req[q].order, req[q].charge)'
  <2>1. CASE /\ Executing(q)
             /\ req'[q].order = req[q].order /\ req'[q].charge = req[q].charge
    <3>1. PICK o \in Placed, ch \in ChargeId \cup {None} :
            o = req[q].order /\ ch = req[q].charge
      BY <1>2, <2>1
    <3>2. PaidFor(o, ch)'
      BY <1>1, <1>2, <2>1, <3>1
    <3> QED BY <2>1, <3>1, <3>2 DEF PaidFor
  <2>2. CASE \E o \in OrderId :
               /\ CreateOrder(q, o) /\ req[q].cart.free
               /\ req'[q].order = o /\ req'[q].charge = None
    <3>1. PICK o \in OrderId :
            /\ CreateOrder(q, o) /\ req[q].cart.free
            /\ req'[q].order = o /\ req'[q].charge = None
      BY <2>2
    <3>2. orders'[o].cart.free
      BY <3>1 DEF CreateOrder, TypeOK
    <3> QED BY <3>1, <3>2 DEF PaidFor
  <2>3. CASE \E c \in ChargeId :
               /\ Approve(q, c)
               /\ req'[q].order = payments[c].order /\ req'[q].charge = c
    <3>1. PICK c \in ChargeId :
            /\ Approve(q, c)
            /\ req'[q].order = payments[c].order /\ req'[q].charge = c
      BY <2>3
    <3>2. /\ UNCHANGED <<charges, payments>> /\ payments[c] # None
          /\ charges[c] # None /\ charges[c].order = payments[c].order
      BY <3>1 DEF Approve, PaymentsAgree
    <3>3. PaidOrEarly(c)'
      BY <3>1, <3>2 DEF Approve, PaidOrEarly, IsPaid
    <3> QED BY <3>1, <3>2, <3>3, NoneAssumption DEF PaidFor
  <2> QED BY <1>4, <2>1, <2>2, <2>3, ExecutionBegins
<1>5. ASSUME NEW s \in storeOrders'
      PROVE  PaidFor(s.order, s.charge)'
  <2>1. CASE s \in storeOrders
    BY <1>1, <1>3, <2>1
  <2>2. CASE s \notin storeOrders
    <3>1. PICK r \in Requests : Commit(r)
      BY <1>5, <2>2, StepKinds DEF CreateOrder
    <3>2. Executing(r) /\ s.order = req[r].order /\ s.charge = req[r].charge
      BY <1>5, <2>2, <3>1, CommitWrites
    <3> QED BY <1>1, <1>2, <3>2
  <2> QED BY <2>1, <2>2
<1> QED BY <1>4, <1>5 DEF PaidInFlight, ExecutionPaid, PaidFor

\* Enrollments are kept, but for their expiry, and only a commit adds to them.
LEMMA EnrollmentsPersist ==
  ASSUME TypeOK, [Next]_vars
  PROVE  /\ \A e \in enrollments : \E f \in enrollments' :
              /\ f.tx = e.tx /\ f.student = e.student
              /\ f.course = e.course /\ f.bundle = e.bundle
         /\ \/ \E r \in Requests : Commit(r)
            \/ \A f \in enrollments' : \E e \in enrollments :
                 /\ f.tx = e.tx /\ f.student = e.student
                 /\ f.course = e.course /\ f.bundle = e.bundle
<1>1. CASE \E r \in Requests : Commit(r)
  BY <1>1 DEF Commit
<1>2. CASE \E e \in enrollments : Lapse(e)
  <2>1. PICK e \in enrollments : Lapse(e)
    BY <1>2
  <2>2. PICK g : g = [e EXCEPT !.expiry = "past"]
    OBVIOUS
  <2>3. /\ g.tx = e.tx /\ g.student = e.student /\ g.course = e.course /\ g.bundle = e.bundle
    BY <2>2 DEF TypeOK, Enrollment
  <2>4. enrollments' = (enrollments \ {e}) \cup {g}
    BY <2>1, <2>2 DEF Lapse
  <2> QED BY <2>3, <2>4
<1>3. CASE UNCHANGED enrollments
  BY <1>3
<1> QED BY <1>1, <1>2, <1>3
        DEF Next, Handler, vars, CheckCart, StartCharge, Approve, GiveReward, Settle,
            CreateOrder, YocoCheckout, RecordPayment, Fail, YocoPays, tables

\* The rows of the transaction are its execution's.
LEMMA NextBacked ==
  ASSUME TypeOK, References, EnrollmentBacked, [Next]_vars
  PROVE  EnrollmentBacked'
<1>1. ASSUME NEW s \in storeOrders
      PROVE  /\ s \in storeOrders' /\ s.order \in Placed /\ orders[s.order] # None
             /\ orders'[s.order] # None
             /\ orders'[s.order].user = orders[s.order].user
             /\ orders'[s.order].cart = orders[s.order].cart
             /\ orders[s.order].status = "Completed" => orders'[s.order].status = "Completed"
  <2>1. s \in storeOrders' /\ s.order \in Placed
    BY StepKinds DEF References, CreateOrder, Commit
  <2> QED BY <2>1, OrdersPersist DEF Placed
<1>2. ASSUME NEW f, NEW e \in enrollments,
             /\ f.tx = e.tx /\ f.student = e.student
             /\ f.course = e.course /\ f.bundle = e.bundle
      PROVE  \E s \in storeOrders' :
               /\ s.tx = f.tx /\ orders'[s.order] # None
               /\ orders'[s.order].status = "Completed" /\ orders'[s.order].user = f.student
               /\ \E m \in orders'[s.order].cart.meta :
                    m.course = f.course /\ m.bundle = f.bundle
  BY <1>1, <1>2 DEF EnrollmentBacked
<1>3. CASE \A f \in enrollments' : \E e \in enrollments :
             /\ f.tx = e.tx /\ f.student = e.student
             /\ f.course = e.course /\ f.bundle = e.bundle
  BY <1>2, <1>3 DEF EnrollmentBacked
<1>4. CASE \E r \in Requests : Commit(r)
  <2>1. PICK r \in Requests : Commit(r)
    BY <1>4
  <2>2. PICK o \in Placed, t \in TxId :
          /\ o = req[r].order /\ orders'[o] \in Order /\ orders'[o].status = "Completed"
          /\ storeOrders' = storeOrders \cup {[tx |-> t, order |-> o, charge |-> req[r].charge]}
          /\ enrollments' = enrollments \cup EnrollmentRows(t, o, req[r].courses)
    BY <2>1, CommitWrites
  <2>3. orders'[o].user = orders[o].user /\ orders'[o].cart = orders[o].cart
    BY OrdersPersist
  <2>4. ASSUME NEW f \in EnrollmentRows(t, o, req[r].courses)
        PROVE  /\ f.tx = t /\ f.student = orders[o].user
               /\ \E m \in orders[o].cart.meta : m.course = f.course /\ m.bundle = f.bundle
    BY <2>4 DEF EnrollmentRows
  <2>5. PICK s : s = [tx |-> t, order |-> o, charge |-> req[r].charge]
    OBVIOUS
  <2>6. s \in storeOrders' /\ s.tx = t /\ s.order = o
    BY <2>2, <2>5
  <2>7. orders'[o] # None
    BY <2>2, NoneAssumption
  <2>8. \A f \in enrollments' : f \in enrollments \/ f \in EnrollmentRows(t, o, req[r].courses)
    BY <2>2
  <2> QED BY <1>2, <2>2, <2>3, <2>4, <2>6, <2>7, <2>8 DEF EnrollmentBacked
<1> QED BY <1>3, <1>4, EnrollmentsPersist

\* A commit writes the course statements and the enrollments from the same entries.
LEMMA NextStatements ==
  ASSUME TypeOK, References, EnrollmentBacked, StatementsBacked, StatementsMatch, [Next]_vars
  PROVE  StatementsBacked' /\ StatementsMatch'
<1>1. CASE \E r \in Requests : Commit(r)
  <2>1. PICK r \in Requests : Commit(r)
    BY <1>1
  <2>2. PICK o \in Placed, t \in TxId, q \in Request :
          /\ o = q.order /\ q = req[r]
          /\ \A s \in storeOrders : s.tx # t
          /\ storeOrders' = storeOrders \cup {[tx |-> t, order |-> o, charge |-> q.charge]}
          /\ enrollments' = enrollments \cup EnrollmentRows(t, o, q.courses)
          /\ statements' = statements \cup StatementRows(t, q)
    BY <2>1, CommitWrites DEF TypeOK
  <2>3. PICK n : n = [tx |-> t, order |-> o, charge |-> q.charge]
    OBVIOUS
  <2>4. n.tx = t /\ storeOrders' = storeOrders \cup {n}
    BY <2>2, <2>3
  <2>5. /\ \A e \in enrollments : e.tx # t
        /\ \A x \in statements : x.tx # t
    BY <2>2 DEF EnrollmentBacked, StatementsBacked
  <2>6. /\ \A e \in EnrollmentRows(t, o, q.courses) : e.tx = t
        /\ \A x \in StatementRows(t, q) : x.tx = t
    BY DEF EnrollmentRows, StatementRows
  <2>7. ASSUME NEW c \in Courses
        PROVE  (\E x \in StatementRows(t, q) : x.item = <<"course", c>>)
                 <=> (\E e \in EnrollmentRows(t, o, q.courses) :
                        e.course = c /\ e.bundle = None)
    <3> DEFINE Linked == \E m \in orders[o].cart.meta :
                           m.course = c /\ m.bundle = None /\ m.course \in q.courses
    <3>1. (\E x \in StatementRows(t, q) : x.item = <<"course", c>>)
            <=> <<"course", c>> \in StatementItems(q)
      <4>1. ASSUME NEW x \in StatementRows(t, q), x.item = <<"course", c>>
            PROVE  <<"course", c>> \in StatementItems(q)
        BY <4>1 DEF StatementRows
      <4>2. ASSUME <<"course", c>> \in StatementItems(q)
            PROVE  \E x \in StatementRows(t, q) : x.item = <<"course", c>>
        <5>1. [tx |-> t, charge |-> q.charge, item |-> <<"course", c>>] \in StatementRows(t, q)
          BY <4>2 DEF StatementRows
        <5> QED BY <5>1
      <4> QED BY <4>1, <4>2
    <3>2. <<"course", c>> \in StatementItems(q) <=> Linked
      BY <2>2 DEF StatementItems
    <3>3. (\E e \in EnrollmentRows(t, o, q.courses) : e.course = c /\ e.bundle = None)
            <=> Linked
      <4>1. ASSUME NEW e \in EnrollmentRows(t, o, q.courses), e.course = c, e.bundle = None
            PROVE  Linked
        BY <4>1 DEF EnrollmentRows
      <4>2. ASSUME NEW m \in orders[o].cart.meta,
                   m.course = c, m.bundle = None, m.course \in q.courses
            PROVE  \E e \in EnrollmentRows(t, o, q.courses) : e.course = c /\ e.bundle = None
        <5>1. [tx |-> t, student |-> orders[o].user, course |-> m.course,
               bundle |-> m.bundle, expiry |-> IF m.months THEN "ahead" ELSE "never"]
                \in EnrollmentRows(t, o, q.courses)
          BY <4>2 DEF EnrollmentRows
        <5> QED BY <4>2, <5>1
      <4> QED BY <4>1, <4>2
    <3> QED BY <3>1, <3>2, <3>3
  <2>8. StatementsBacked'
    BY <2>2, <2>4, <2>6 DEF StatementsBacked
  <2>9. ASSUME NEW s \in storeOrders', NEW c \in Courses
        PROVE  (\E x \in statements' : x.tx = s.tx /\ x.item = <<"course", c>>)
                 <=> (\E e \in enrollments' : e.tx = s.tx /\ e.course = c /\ e.bundle = None)
    <3>1. CASE s \in storeOrders
      BY <2>2, <2>6, <3>1 DEF StatementsMatch
    <3>2. CASE s = n
      BY <2>2, <2>4, <2>5, <2>6, <2>7, <3>2
    <3> QED BY <2>4, <3>1, <3>2
  <2> QED BY <2>8, <2>9 DEF StatementsMatch
<1>2. CASE ~ \E r \in Requests : Commit(r)
  <2>1. UNCHANGED <<statements, storeOrders>>
    BY <1>2 DEF Next, Handler, vars, CheckCart, StartCharge, Approve, GiveReward, Settle,
       CreateOrder, YocoCheckout, RecordPayment, Fail, YocoPays, Lapse, tables
  <2>2. ASSUME NEW t, NEW c
        PROVE  (\E e \in enrollments : e.tx = t /\ e.course = c /\ e.bundle = None)
                 <=> (\E e \in enrollments' : e.tx = t /\ e.course = c /\ e.bundle = None)
    BY <1>2, EnrollmentsPersist
  <2>3. StatementsBacked'
    BY <2>1 DEF StatementsBacked
  <2>4. ASSUME NEW s \in storeOrders', NEW c \in Courses
        PROVE  (\E x \in statements' : x.tx = s.tx /\ x.item = <<"course", c>>)
                 <=> (\E e \in enrollments' : e.tx = s.tx /\ e.course = c /\ e.bundle = None)
    BY <2>1, <2>2 DEF StatementsMatch
  <2> QED BY <2>3, <2>4 DEF StatementsMatch
<1> QED BY <1>1, <1>2

\* Until a newer order takes a course away, the course is linked, read and delivered.
LEMMA NextLinks ==
  ASSUME TypeOK, References, NewestOrderHolds, SnapshotLacksOnlyNewer, LostOnlyToNewer,
         [Next]_vars
  PROVE  NewestOrderHolds' /\ SnapshotLacksOnlyNewer' /\ LostOnlyToNewer'
<1>1. \A o \in Placed : o \in Placed' /\ OrderCourses(o)' = OrderCourses(o)
  BY OrdersPersist DEF OrderCourses, MetaCourses
<1>2. \A o \in OrderId : \A c : InNewerOrder(o, c) => InNewerOrder(o, c)'
  BY <1>1 DEF InNewerOrder
<1>3. ASSUME NEW r \in Requests, NEW o \in OrderId, CreateOrder(r, o)
      PROVE  /\ \A k \in Placed : k < o
             /\ Placed' = Placed \cup {o}
             /\ OrderCourses(o)' = MetaCourses(req[r].cart)
             /\ courseOrder' = ConnectCourses(o, req[r].cart)
  <2>1. req[r] \in [pc : {"checked"}, user : Users, cart : Carts]
    BY <1>3, RequestShape DEF CreateOrder, TypeOK
  <2>2. [status |-> "Pending", user |-> req[r].user, cart |-> req[r].cart] \in Order
    BY <2>1 DEF Order
  <2> QED BY <1>3, <2>2, NoneAssumption
          DEF CreateOrder, NextId, OrderCourses, Placed, TypeOK, MetaCourses
<1>4. ASSUME NEW r \in Requests, NEW n \in OrderId, CreateOrder(r, n),
             NEW o \in Placed', NEW c \in OrderCourses(o)'
      PROVE  \E k \in Placed' : courseOrder'[c] = k /\ k >= o /\ c \in OrderCourses(k)'
  <2>1. c \in Courses
    BY <1>4, CartsAssumption, NextType
    DEF OrderCourses, MetaCourses, Placed, TypeOK, Order, Cart, CourseMeta
  <2>2. CASE c \in MetaCourses(req[r].cart)
    <3>1. courseOrder'[c] = n
      BY <1>3, <1>4, <2>1, <2>2 DEF ConnectCourses
    <3>2. n >= o
      BY <1>3, <1>4 DEF Placed, OrderId
    <3> QED BY <1>3, <1>4, <2>2, <3>1, <3>2
  <2>3. CASE c \notin MetaCourses(req[r].cart)
    <3>1. o \in Placed /\ c \in OrderCourses(o)
      BY <1>1, <1>3, <1>4, <2>3
    <3>2. courseOrder'[c] = courseOrder[c]
      BY <1>3, <1>4, <2>1, <2>3 DEF ConnectCourses
    <3>3. PICK k \in Placed : courseOrder[c] = k /\ k >= o /\ c \in OrderCourses(k)
      BY <3>1 DEF NewestOrderHolds
    <3> QED BY <1>1, <3>2, <3>3
  <2> QED BY <2>2, <2>3
<1>5. ASSUME NEW r \in Requests, Commit(r)
      PROVE  UNCHANGED <<courseOrder, Placed>>
  BY <1>5, CommitWrites, NoneAssumption DEF Commit, Placed
<1>6. NewestOrderHolds'
  <2>1. CASE \E r \in Requests, n \in OrderId : CreateOrder(r, n)
    BY <1>4, <2>1 DEF NewestOrderHolds
  <2>2. CASE UNCHANGED <<courseOrder, Placed>>
    BY <1>1, <2>2 DEF NewestOrderHolds
  <2> QED BY <1>5, <2>1, <2>2, StepKinds DEF Placed
<1>7. ASSUME NEW q \in Requests, Executing(q)'
      PROVE  \E o \in Placed' :
               /\ o = req'[q].order
               /\ \A c \in OrderCourses(o)' : c \in req'[q].courses \/ InNewerOrder(o, c)'
  <2>1. CASE /\ Executing(q)
             /\ req'[q].order = req[q].order /\ req'[q].courses = req[q].courses
    <3>1. PICK o \in Placed : o = req[q].order
      BY <2>1 DEF References
    <3>2. \A c \in OrderCourses(o) : c \in req[q].courses \/ InNewerOrder(o, c)
      BY <2>1, <3>1 DEF SnapshotLacksOnlyNewer
    <3> QED BY <1>1, <1>2, <2>1, <3>1, <3>2 DEF Placed
  <2>2. CASE \E o \in OrderId :
               /\ CreateOrder(q, o)
               /\ req'[q].order = o /\ req'[q].courses = MetaCourses(req[q].cart)
    BY <1>3, <2>2
  <2>3. CASE \E k \in ChargeId :
               /\ Approve(q, k)
               /\ req'[q].order = payments[k].order
               /\ req'[q].courses = LinkedCourses(payments[k].order)
    <3>1. PICK k \in ChargeId :
            /\ Approve(q, k)
            /\ req'[q].order = payments[k].order
            /\ req'[q].courses = LinkedCourses(payments[k].order)
      BY <2>3
    <3>2. PICK o \in Placed : o = payments[k].order
      BY <3>1 DEF Approve, References
    <3>3. ASSUME NEW c \in OrderCourses(o)
          PROVE  c \in LinkedCourses(o) \/ InNewerOrder(o, c)
      <4>1. c \in Courses
        BY CartsAssumption
        DEF OrderCourses, MetaCourses, Placed, TypeOK, Order, Cart, CourseMeta
      <4>2. PICK n \in Placed : courseOrder[c] = n /\ n >= o /\ c \in OrderCourses(n)
        BY DEF NewestOrderHolds
      <4> QED BY <4>1, <4>2 DEF LinkedCourses, InNewerOrder, Placed, OrderId
    <3> QED BY <1>1, <1>2, <3>1, <3>2, <3>3 DEF Placed
  <2> QED BY <1>7, <2>1, <2>2, <2>3, ExecutionBegins
<1>8. SnapshotLacksOnlyNewer'
  <2>1. ASSUME NEW q \in Requests, Executing(q)', NEW c \in OrderCourses(req[q].order)'
        PROVE  c \in req'[q].courses \/ InNewerOrder(req[q].order, c)'
    <3>1. PICK o \in Placed' :
            /\ o = req'[q].order
            /\ \A k \in OrderCourses(o)' : k \in req'[q].courses \/ InNewerOrder(o, k)'
      BY <1>7, <2>1
    <3>2. c \in OrderCourses(o)'
      BY <2>1, <3>1 DEF OrderCourses
    <3> QED BY <3>1, <3>2 DEF InNewerOrder
  <2> QED BY <2>1 DEF SnapshotLacksOnlyNewer
<1>9. LostOnlyToNewer'
  <2>1. ASSUME NEW s \in storeOrders, NEW c \in OrderCourses(s.order)'
        PROVE  \/ \E e \in enrollments' : e.tx = s.tx /\ e.course = c
               \/ \E k \in Placed' : k > s.order /\ c \in OrderCourses(k)'
    <3>1. s.order \in Placed /\ c \in OrderCourses(s.order)
      BY <1>1, <2>1 DEF References
    <3>2. CASE \E e \in enrollments : e.tx = s.tx /\ e.course = c
      BY <3>2, EnrollmentsPersist
    <3>3. CASE \E k \in Placed : k > s.order /\ c \in OrderCourses(k)
      BY <1>1, <3>3
    <3> QED BY <3>1, <3>2, <3>3 DEF LostOnlyToNewer
  <2>2. ASSUME NEW r \in Requests, Commit(r), NEW s \in storeOrders', s \notin storeOrders,
               NEW c \in OrderCourses(s.order)'
        PROVE  \/ \E e \in enrollments' : e.tx = s.tx /\ e.course = c
               \/ \E k \in Placed' : k > s.order /\ c \in OrderCourses(k)'
    <3>1. PICK o \in Placed, t \in TxId :
            /\ o = req[r].order /\ Executing(r)
            /\ storeOrders' = storeOrders \cup
                 {[tx |-> t, order |-> o, charge |-> req[r].charge]}
            /\ enrollments' = enrollments \cup EnrollmentRows(t, o, req[r].courses)
      BY <2>2, CommitWrites
    <3>2. s.tx = t /\ s.order = o
      BY <2>2, <3>1
    <3>3. c \in OrderCourses(o)
      BY <1>1, <2>2, <3>2
    <3>4. CASE c \in req[r].courses
      <4>1. PICK m \in orders[o].cart.meta : m.course = c
        BY <3>3 DEF OrderCourses, MetaCourses
      <4>2. [tx |-> t, student |-> orders[o].user, course |-> m.course,
             bundle |-> m.bundle, expiry |-> IF m.months THEN "ahead" ELSE "never"]
              \in EnrollmentRows(t, o, req[r].courses)
        BY <3>4, <4>1 DEF EnrollmentRows
      <4> QED BY <3>1, <3>2, <4>1, <4>2
    <3>5. CASE InNewerOrder(o, c)
      BY <1>1, <3>2, <3>5 DEF InNewerOrder
    <3> QED BY <3>1, <3>3, <3>4, <3>5 DEF SnapshotLacksOnlyNewer
  <2>3. \A s \in storeOrders' : s \in storeOrders \/ \E r \in Requests : Commit(r)
    BY StepKinds DEF CreateOrder
  <2> QED BY <2>1, <2>2, <2>3 DEF LostOnlyToNewer
<1> QED BY <1>6, <1>8, <1>9

-----------------------------------------------------------------------------
\* Points are granted by a handler whose execution is paid for or reported; that stays so.
LEMMA NextRewards ==
  ASSUME TypeOK, References, CheckoutsHeldOnce, PaymentsAgree, PaidInFlight, RewardPaid,
         [Next]_vars
  PROVE  RewardPaid'
<1> DEFINE Earned(o) == /\ o \in Placed
                        /\ \/ orders[o].cart.free
                           \/ \E c \in ChargeId :
                                /\ PaidOrEarly(c)
                                /\ payments[c] # None /\ payments[c].order = o
<1>1. ASSUME NEW o \in OrderId, Earned(o)
      PROVE  Earned(o)'
  <2>1. o \in Placed' /\ orders'[o].cart = orders[o].cart
    BY <1>1, OrdersPersist
  <2>2. CASE orders[o].cart.free
    BY <2>1, <2>2
  <2>3. CASE \E c \in ChargeId : /\ PaidOrEarly(c)
                                /\ payments[c] # None /\ payments[c].order = o
    <3>1. PICK c \in ChargeId : /\ PaidOrEarly(c)
                               /\ payments[c] # None /\ payments[c].order = o
      BY <2>3
    <3>2. PaidOrEarly(c)' /\ payments'[c] # None /\ payments'[c].order = o
      BY <3>1, ChargesPersist, PaidPersists
    <3> QED BY <2>1, <3>2
  <2> QED BY <1>1, <2>2, <2>3
<1>2. ASSUME NEW o \in OrderId, NEW r \in Requests, GiveReward(r), req[r].order = o
      PROVE  Earned(o)
  <2>1. Executing(r) /\ o \in Placed
    BY <1>2 DEF GiveReward, Executing, References
  <2>2. PaidFor(o, req[r].charge) /\ req[r].charge \in ChargeId \cup {None}
    BY <1>2, <2>1, RequestShape DEF PaidInFlight, Executing, TypeOK
  <2> QED BY <2>1, <2>2 DEF PaidFor
<1>3. ASSUME NEW o \in OrderId, rewards'[o] > 0
      PROVE  Earned(o)
  <2>1. CASE \E r \in Requests : GiveReward(r) /\ req[r].order = o
    BY <1>2, <2>1
  <2>2. CASE rewards'[o] = rewards[o]
    BY <1>3, <2>2 DEF RewardPaid
  <2>3. ASSUME NEW r \in Requests, GiveReward(r), req[r].order # o
        PROVE  rewards'[o] = rewards[o]
    BY <2>3 DEF GiveReward, TypeOK
  <2>4. ASSUME UNCHANGED rewards
        PROVE  rewards'[o] = rewards[o]
    BY <2>4
  <2> QED BY <2>1, <2>2, <2>3, <2>4
          DEF Next, Handler, vars, CheckCart, StartCharge, Approve, CreateOrder, Commit,
              Settle, YocoCheckout, RecordPayment, Fail, YocoPays, Lapse
<1> QED BY <1>1, <1>3 DEF RewardPaid

-----------------------------------------------------------------------------
\* The sets that are counted are finite, and no more handlers execute than there are.
LEMMA FiniteExecutions ==
  ASSUME IsFiniteSet(storeOrders)
  PROVE  /\ Cardinality(Requests) \in Nat
         /\ \A o : /\ IsFiniteSet(Executions(o)) /\ IsFiniteSet(ExecutingOf(o))
                  /\ Cardinality(Executions(o)) \in Nat
                  /\ Cardinality(ExecutingOf(o)) \in Nat
                  /\ Cardinality(ExecutingOf(o)) <= Cardinality(Requests)
<1>1. \A o : Executions(o) \in SUBSET storeOrders /\ ExecutingOf(o) \in SUBSET Requests
  BY DEF Executions, ExecutingOf
<1>2. \A o : /\ IsFiniteSet(Executions(o)) /\ IsFiniteSet(ExecutingOf(o))
           /\ Cardinality(ExecutingOf(o)) <= Cardinality(Requests)
  BY <1>1, FS_Subset, RequestsAssumption
<1> QED BY <1>2, FS_CardinalityType, RequestsAssumption

\* A handler begins to execute an order only while nothing has executed it.
LEMMA BeginsUnexecuted ==
  ASSUME TypeOK, References, CompletedIffExecuted, [Next]_vars,
         NEW o \in OrderId, NEW q \in ExecutingOf(o)', q \notin ExecutingOf(o)
  PROVE  Executions(o)' = {}
<1>1. q \in Requests /\ Executing(q)' /\ req'[q].order = o
  BY DEF ExecutingOf
<1>2. ~ (Executing(q) /\ req'[q].order = req[q].order)
  BY <1>1 DEF ExecutingOf
<1>3. CASE CreateOrder(q, o)
  <2>1. o \notin Placed
    BY <1>3 DEF CreateOrder, NextId, OrderId
  <2>2. Executions(o) = {}
    BY <2>1 DEF Executions, References
  <2> QED BY <1>3, <2>2 DEF CreateOrder, Executions
<1>4. CASE \E c \in ChargeId : Approve(q, c) /\ payments[c].order = o
  <2>1. PICK c \in ChargeId : Approve(q, c) /\ payments[c].order = o
    BY <1>4
  <2>2. o \in Placed /\ orders[o].status # "Completed"
    BY <2>1 DEF Approve, References, Fulfilled
  <2>3. Executions(o) = {}
    BY <2>2 DEF CompletedIffExecuted
  <2>4. storeOrders' = storeOrders
    BY <2>1 DEF Approve, tables
  <2> QED BY <2>3, <2>4 DEF Executions
<1> QED BY <1>1, <1>2, <1>3, <1>4, ExecutionBegins

\* approveOrder lets a handler through only while the order is not completed, so the
\* executions and the handlers let through are never more than the slots.
LEMMA NextExecutions ==
  ASSUME TypeOK, References, CompletedIffExecuted, ExecutionsLetThrough, [Next]_vars
  PROVE  ExecutionsLetThrough'
<1>1. IsFiniteSet(storeOrders')
  <2>1. CASE \E r \in Requests : Commit(r)
    <3>1. PICK x : storeOrders' = storeOrders \cup {x}
      BY <2>1, CommitWrites
    <3> QED BY <3>1, FS_AddElement DEF ExecutionsLetThrough
  <2>2. CASE storeOrders' = storeOrders
    BY <2>2 DEF ExecutionsLetThrough
  <2> QED BY <2>1, <2>2, StepKinds DEF CreateOrder
<1>2. \A o : /\ IsFiniteSet(Executions(o)') /\ Cardinality(Executions(o)') \in Nat
           /\ IsFiniteSet(ExecutingOf(o)') /\ Cardinality(ExecutingOf(o)') \in Nat
           /\ Cardinality(ExecutingOf(o)') <= Cardinality(Requests)
  <2>1. \A o : Executions(o)' \in SUBSET storeOrders' /\ ExecutingOf(o)' \in SUBSET Requests
    BY DEF Executions, ExecutingOf
  <2>2. \A o : /\ IsFiniteSet(Executions(o)') /\ IsFiniteSet(ExecutingOf(o)')
             /\ Cardinality(ExecutingOf(o)') <= Cardinality(Requests)
    BY <1>1, <2>1, FS_Subset, RequestsAssumption
  <2> QED BY <2>2, FS_CardinalityType
<1>3. IsFiniteSet(storeOrders)
  BY DEF ExecutionsLetThrough
<1>4. ASSUME NEW o \in OrderId
      PROVE  Cardinality(Executions(o)') + Cardinality(ExecutingOf(o)') <= Cardinality(Requests)
  <2>1. CASE \E q \in ExecutingOf(o)' : q \notin ExecutingOf(o)
    <3>1. Executions(o)' = {}
      BY <2>1, BeginsUnexecuted
    <3>2. Cardinality(Executions(o)') = 0
      BY <3>1, FS_EmptySet
    <3> QED BY <1>2, <1>3, <3>2, FiniteExecutions
  <2>2. ASSUME NEW r \in Requests, Commit(r), req[r].order = o
        PROVE  Cardinality(Executions(o)') + Cardinality(ExecutingOf(o) \ {r})
                 <= Cardinality(Requests)
    <3>1. r \in ExecutingOf(o)
      BY <2>2, CommitWrites DEF ExecutingOf
    <3>2. PICK t \in TxId :
            /\ \A s \in storeOrders : s.tx # t
            /\ storeOrders' = storeOrders \cup
                 {[tx |-> t, order |-> o, charge |-> req[r].charge]}
      BY <2>2, CommitWrites
    <3> DEFINE x == [tx |-> t, order |-> o, charge |-> req[r].charge]
    <3>3. Executions(o)' = Executions(o) \cup {x} /\ x \notin Executions(o)
      BY <3>2 DEF Executions
    <3>4. Cardinality(Executions(o)') = Cardinality(Executions(o)) + 1
      BY <1>3, <3>3, FiniteExecutions, FS_AddElement
    <3>5. Cardinality(ExecutingOf(o) \ {r}) = Cardinality(ExecutingOf(o)) - 1
      BY <1>3, <3>1, FiniteExecutions, FS_RemoveElement
    <3> QED BY <1>3, <3>4, <3>5, FiniteExecutions DEF ExecutionsLetThrough
  <2>3. ASSUME \A q \in ExecutingOf(o)' : q \in ExecutingOf(o),
               NEW r \in Requests, Commit(r), req[r].order = o
        PROVE  Cardinality(ExecutingOf(o)') <= Cardinality(ExecutingOf(o) \ {r})
    <3>1. req'[r].pc \in {"idle", "executed"}
      BY <2>3 DEF Commit, Idle, TypeOK
    <3>2. ExecutingOf(o)' \in SUBSET (ExecutingOf(o) \ {r})
      BY <2>3, <3>1 DEF ExecutingOf, Executing
    <3>3. IsFiniteSet(ExecutingOf(o) \ {r})
      BY <1>3, FiniteExecutions, FS_RemoveElement
    <3> QED BY <3>2, <3>3, FS_Subset
  <2>4. ASSUME \A q \in ExecutingOf(o)' : q \in ExecutingOf(o),
               NEW r \in Requests, Commit(r), req[r].order = o
        PROVE  Cardinality(Executions(o)') + Cardinality(ExecutingOf(o)')
                 <= Cardinality(Requests)
    <3>1. Cardinality(ExecutingOf(o) \ {r}) \in Nat
      BY <1>3, FiniteExecutions, FS_RemoveElement, FS_CardinalityType
    <3> QED BY <1>2, <1>3, <2>2, <2>3, <2>4, <3>1, FiniteExecutions
  <2>5. ASSUME \A q \in ExecutingOf(o)' : q \in ExecutingOf(o),
               Executions(o)' = Executions(o)
        PROVE  Cardinality(Executions(o)') + Cardinality(ExecutingOf(o)')
                 <= Cardinality(Requests)
    <3>1. Cardinality(ExecutingOf(o)') <= Cardinality(ExecutingOf(o))
      BY <1>3, <2>5, FiniteExecutions, FS_Subset
    <3> QED BY <1>2, <1>3, <2>5, <3>1, FiniteExecutions DEF ExecutionsLetThrough
  <2>6. \/ \E r \in Requests : Commit(r) /\ req[r].order = o
        \/ Executions(o)' = Executions(o)
    <3>1. ASSUME NEW r \in Requests, Commit(r), req[r].order # o
          PROVE  Executions(o)' = Executions(o)
      BY <3>1, CommitWrites DEF Executions
    <3>2. ASSUME storeOrders' = storeOrders
          PROVE  Executions(o)' = Executions(o)
      BY <3>2 DEF Executions
    <3> QED BY <3>1, <3>2, StepKinds DEF CreateOrder
  <2> QED BY <2>1, <2>4, <2>5, <2>6
<1> QED BY <1>1, <1>4 DEF ExecutionsLetThrough

-----------------------------------------------------------------------------
\* The inductive invariant holds of the empty database.
LEMMA InitInvariant == Init => IInv
<1> SUFFICES ASSUME Init PROVE IInv
  OBVIOUS
<1>1. TypeOK /\ References
  BY InitType
<1>2. CheckoutsHeldOnce /\ PaymentsAgree /\ PaidInFlight /\ ExecutionPaid
  BY DEF Init, CheckoutsHeldOnce, PaymentsAgree, PaidInFlight, ExecutionPaid, Executing, Idle
<1>3. CompletedIffExecuted /\ EnrollmentBacked /\ StatementsBacked /\ StatementsMatch
  BY DEF Init, CompletedIffExecuted, EnrollmentBacked, StatementsBacked, StatementsMatch, Placed
<1>4. NewestOrderHolds /\ SnapshotLacksOnlyNewer /\ LostOnlyToNewer
  BY DEF Init, NewestOrderHolds, SnapshotLacksOnlyNewer, LostOnlyToNewer, Placed, Executing, Idle
<1>5. RewardPaid
  BY DEF Init, RewardPaid
<1>6. ExecutionsLetThrough
  <2>1. IsFiniteSet(storeOrders)
    BY FS_EmptySet DEF Init
  <2>2. \A o : Executions(o) = {} /\ ExecutingOf(o) = {}
    BY DEF Init, Executions, ExecutingOf, Executing, Idle
  <2>3. \A o : Cardinality(Executions(o)) = 0 /\ Cardinality(ExecutingOf(o)) = 0
    BY <2>2, FS_EmptySet
  <2> QED BY <2>1, <2>3, FiniteExecutions DEF ExecutionsLetThrough
<1> QED BY <1>1, <1>2, <1>3, <1>4, <1>5, <1>6 DEF IInv

\* Every step of every handler preserves the inductive invariant.
LEMMA NextInvariant == IInv /\ [Next]_vars => IInv'
  BY NextType, NextReferences, NextCheckouts, NextPaymentsAgree, NextPaid, NextCompleted,
     NextBacked, NextStatements, NextLinks, NextRewards, NextExecutions
  DEF IInv

\* The inductive invariant holds in every reachable state of the order handlers, for
\* any carts, users and number of overlapping requests.
THEOREM Invariant == Spec => []IInv
  BY InitInvariant, NextInvariant, PTL DEF Spec

\* TypeOK: every table and every request in flight has its shape, always.
THEOREM TypeCorrect == Spec => []TypeOK
<1>1. IInv => TypeOK
  BY DEF IInv
<1> QED BY <1>1, Invariant, PTL

\* CompletedIffExecuted: no failure, timeout or overlap leaves an order completed and
\* not executed, or executed and not completed (the transaction of executeOrder).
THEOREM CompletedIsExecuted == Spec => []CompletedIffExecuted
<1>1. IInv => CompletedIffExecuted
  BY DEF IInv
<1> QED BY <1>1, Invariant, PTL

\* EnrollmentBacked: whatever fails, an enrollment is the delivery of an entry of a
\* completed order to the student who placed it.
THEOREM EnrollmentsAreBacked == Spec => []EnrollmentBacked
<1>1. IInv => EnrollmentBacked
  BY DEF IInv
<1> QED BY <1>1, Invariant, PTL

\* ExecutionPaid: placing an order delivers nothing that is not free, and an event
\* delivers the order of its own recorded checkout alone, which is paid unless the
\* event came before the payment (approveOrder asks the event, not the gateway).
THEOREM NothingUnpaid == Spec => []ExecutionPaid
<1>1. IInv => ExecutionPaid
  BY DEF IInv
<1> QED BY <1>1, Invariant, PTL

\* PaidIsRecorded: nothing is paid that the Payment table does not know, for the order
\* that was charged, wherever createCharge stops.
THEOREM PaidIsKnown == Spec => []PaidIsRecorded
<1>1. IInv => PaidIsRecorded
  BY DEF IInv, PaymentsAgree, PaidIsRecorded, IsPaid
<1> QED BY <1>1, Invariant, PTL

\* StatementsMatch: what payouts are computed from states the single courses that were
\* delivered, each in the execution that delivered it.
THEOREM StatementsAreDelivered == Spec => []StatementsMatch
<1>1. IInv => StatementsMatch
  BY DEF IInv
<1> QED BY <1>1, Invariant, PTL

\* NewestOrderHolds: a course is linked to the newest order that contains it.
THEOREM NewestIsLinked == Spec => []NewestOrderHolds
<1>1. IInv => NewestOrderHolds
  BY DEF IInv
<1> QED BY <1>1, Invariant, PTL

\* LostOnlyToNewer: an execution leaves out a course only if a newer order contains it.
THEOREM LostToNewerOnly == Spec => []LostOnlyToNewer
<1>1. IInv => LostOnlyToNewer
  BY DEF IInv
<1> QED BY <1>1, Invariant, PTL

\* RewardPaid: points are granted for an order only if it is free, or a checkout of its
\* own was paid or reported as paid, although the grant outlives its transaction.
THEOREM RewardsArePaid == Spec => []RewardPaid
<1>1. IInv => RewardPaid
  BY DEF IInv
<1> QED BY <1>1, Invariant, PTL

\* ExecutionsWithinOverlap: approveOrder's look at the status bounds the executions of
\* an order by the number of handlers that overlap; without overlap there is one.
THEOREM ExecutionsBounded == Spec => []ExecutionsWithinOverlap
<1>1. IInv => ExecutionsWithinOverlap
  <2> SUFFICES ASSUME IInv, NEW o \in OrderId
               PROVE  Cardinality(Executions(o)) <= Cardinality(Requests)
    BY DEF ExecutionsWithinOverlap
  <2>1. /\ IsFiniteSet(storeOrders)
        /\ Cardinality(Executions(o)) + Cardinality(ExecutingOf(o)) <= Cardinality(Requests)
    BY DEF IInv, ExecutionsLetThrough
  <2> QED BY <2>1, FiniteExecutions
<1> QED BY <1>1, Invariant, PTL

-----------------------------------------------------------------------------
(* One handler at a time.                                                    *)

OneBusy == \A r, s \in Busy : r = s

\* A cart has each course once, whether alone or in a bundle.
OneEntryEach(cart) == \A m, n \in cart.meta : m.course = n.course => m = n

\* A course of which a student holds an enrollment in force is not linked to an order of
\* the student that is still to be executed.
LinkedExecuted ==
  \A e \in enrollments : \A k \in Placed :
    e.expiry # "past" /\ courseOrder[e.course] = k /\ orders[k].user = e.student
      => orders[k].status = "Completed"

\* What the only handler in flight has read is still so.
StillHolds(q) ==
  /\ q.pc = "checked" => ~ AlreadyEnrolled(q.user, q.cart.meta) /\ OneEntryEach(q.cart)
  /\ q.pc \in {"execute", "rewarded"} =>
       /\ orders[q.order].status # "Completed"
       /\ q.courses \subseteq LinkedCourses(q.order)

LinksPlaced == \A c \in Courses : courseOrder[c] # None => courseOrder[c] \in Placed

PlacedEntries == \A o \in Placed : OneEntryEach(orders[o].cart)

\* The inductive invariant of the sequential regime.
SequenceInv ==
  /\ OneBusy /\ NoDuplicateLiveEnrollment /\ LinkedExecuted /\ LinksPlaced /\ PlacedEntries
  /\ \A r \in Busy : StillHolds(req[r])

CheckedEntries == \A r \in Requests : req[r].pc = "checked" => OneEntryEach(req[r].cart)

\* A set of at most one element has no two.
LEMMA AtMostOne ==
  ASSUME NEW S, IsFiniteSet(S), Cardinality(S) <= 1, NEW x \in S, NEW y \in S
  PROVE  x = y
<1> SUFFICES ASSUME x # y
             PROVE  FALSE
  OBVIOUS
<1>1. IsFiniteSet({x}) /\ Cardinality({x}) = 1
  BY FS_Singleton
<1>2. Cardinality({x} \cup {y}) = 2
  BY <1>1, FS_AddElement
<1>3. {x} \cup {y} \in SUBSET S
  OBVIOUS
<1>4. Cardinality({x} \cup {y}) <= Cardinality(S)
  BY <1>3, FS_Subset
<1>5. Cardinality(S) \in Nat
  BY FS_CardinalityType
<1> QED BY <1>2, <1>4, <1>5

\* Without a commit no enrollment comes into force.
LEMMA LiveKept ==
  ASSUME TypeOK, [Next]_vars, \A r \in Requests : ~ Commit(r),
         NEW e \in enrollments', e.expiry # "past"
  PROVE  e \in enrollments
<1>1. CASE \E f \in enrollments : Lapse(f)
  <2>1. PICK f \in enrollments : Lapse(f)
    BY <1>1
  <2>2. [f EXCEPT !.expiry = "past"].expiry = "past"
    BY DEF TypeOK, Enrollment
  <2> QED BY <2>1, <2>2 DEF Lapse
<1>2. CASE UNCHANGED enrollments
  BY <1>2
<1> QED BY <1>1, <1>2
        DEF Next, Handler, vars, CheckCart, StartCharge, Approve, GiveReward, Settle,
            CreateOrder, YocoCheckout, RecordPayment, Fail, YocoPays, tables

\* A new order takes the links of courses that its student is not enrolled in.
LEMMA CreateInSequence ==
  ASSUME TypeOK, References, SequenceInv, [Next]_vars,
         NEW r \in Requests, NEW o \in OrderId, CreateOrder(r, o)
  PROVE  SequenceInv'
<1> DEFINE q == req[r]
<1>1. /\ q \in [pc : {"checked"}, user : Users, cart : Carts] /\ StillHolds(q)
      /\ q.cart \in Cart
  BY RequestShape, CartsAssumption DEF CreateOrder, TypeOK, SequenceInv, Busy
<1>2. o \notin Placed
  BY DEF CreateOrder, NextId, OrderId
<1>3. /\ orders'[o] = [status |-> "Pending", user |-> q.user, cart |-> q.cart]
      /\ \A k \in OrderId \ {o} : orders'[k] = orders[k]
  BY DEF CreateOrder, TypeOK
<1>4. Placed' = Placed \cup {o}
  <2>1. orders'[o] \in Order
    BY <1>1, <1>3 DEF Order
  <2> QED BY <1>3, <2>1, NoneAssumption DEF Placed
<1>5. \A c \in Courses :
        courseOrder'[c] = IF c \in MetaCourses(q.cart) THEN o ELSE courseOrder[c]
  BY DEF CreateOrder, ConnectCourses
<1>6. UNCHANGED enrollments /\ req' = [req EXCEPT ![r] = AfterCreate(o, q.cart)]
  BY DEF CreateOrder
<1>7. NoDuplicateLiveEnrollment'
  BY <1>6 DEF NoDuplicateLiveEnrollment, SequenceInv
<1>8. LinkedExecuted'
  <2> SUFFICES ASSUME NEW e \in enrollments, NEW k \in Placed', e.expiry # "past",
                      courseOrder'[e.course] = k, orders'[k].user = e.student
               PROVE  orders'[k].status = "Completed"
    BY <1>6 DEF LinkedExecuted
  <2>1. e.course \in Courses
    BY DEF TypeOK, Enrollment
  <2>2. CASE e.course \in MetaCourses(q.cart)
    BY <1>1, <1>3, <1>5, <2>1, <2>2 DEF StillHolds, AlreadyEnrolled, MetaCourses
  <2>3. CASE e.course \notin MetaCourses(q.cart)
    <3>1. courseOrder[e.course] = k
      BY <1>5, <2>1, <2>3
    <3>2. k \in Placed
      BY <2>1, <3>1, NoneAssumption DEF SequenceInv, LinksPlaced, Placed
    <3> QED BY <1>2, <1>3, <3>1, <3>2 DEF SequenceInv, LinkedExecuted, Placed
  <2> QED BY <2>2, <2>3
<1>9. LinksPlaced'
  BY <1>4, <1>5 DEF LinksPlaced, SequenceInv
<1>10. PlacedEntries'
  BY <1>1, <1>2, <1>3, <1>4 DEF PlacedEntries, SequenceInv, StillHolds, Placed
<1>11. Busy' \subseteq {r}
  BY <1>6 DEF Busy, OneBusy, SequenceInv, CreateOrder, TypeOK
<1>12. req'[r].pc # "idle" => StillHolds(req[r])'
  <2>1. req'[r] = AfterCreate(o, q.cart)
    BY <1>6 DEF TypeOK
  <2>2. CASE q.cart.free
    <3>1. req'[r] = Execution(o, MetaCourses(q.cart), q.cart.products, None)
      BY <2>1, <2>2 DEF AfterCreate
    <3>2. MetaCourses(q.cart) \subseteq Courses
      BY <1>1 DEF MetaCourses, Cart, CourseMeta
    <3> QED BY <1>3, <1>5, <3>1, <3>2 DEF Execution, StillHolds, LinkedCourses
  <2>3. CASE ~ q.cart.free
    BY <2>1, <2>3 DEF AfterCreate, Idle
  <2> QED BY <2>2, <2>3
<1> QED BY <1>7, <1>8, <1>9, <1>10, <1>11, <1>12 DEF SequenceInv, OneBusy, Busy

\* An execution enrolls in courses that are linked to its order, and not yet held.
LEMMA CommitInSequence ==
  ASSUME TypeOK, References, SequenceInv, [Next]_vars,
         NEW r \in Requests, Commit(r)
  PROVE  SequenceInv'
<1>1. PICK o \in Placed : o = req[r].order
  BY CommitWrites
<1>2. PICK cs : cs = req[r].courses
  OBVIOUS
<1>3. /\ o \in OrderId /\ orders[o].status # "Completed" /\ cs \subseteq LinkedCourses(o)
      /\ orders[o] \in Order /\ orders'[o].status = "Completed"
      /\ \A k \in OrderId : k # o => orders'[k] = orders[k]
  BY <1>1, <1>2, CommitWrites DEF SequenceInv, StillHolds, Busy, Commit
<1>4. PICK t \in TxId : enrollments' = enrollments \cup EnrollmentRows(t, o, cs)
  BY <1>1, <1>2, CommitWrites
<1>5. /\ UNCHANGED courseOrder /\ Placed' = Placed
      /\ \A k \in Placed : /\ orders'[k].user = orders[k].user
                           /\ orders'[k].cart = orders[k].cart
                           /\ orders[k].status = "Completed" => orders'[k].status = "Completed"
  <2>1. \A k \in Placed : /\ k \in Placed'
                          /\ orders'[k].user = orders[k].user
                          /\ orders'[k].cart = orders[k].cart
                          /\ orders[k].status = "Completed" => orders'[k].status = "Completed"
    BY OrdersPersist
  <2>2. Placed' \subseteq Placed
    BY <1>3 DEF Placed
  <2> QED BY <2>1, <2>2 DEF Commit
<1>6. ASSUME NEW e \in EnrollmentRows(t, o, cs)
      PROVE  /\ e.student = orders[o].user /\ courseOrder[e.course] = o
             /\ \A f \in EnrollmentRows(t, o, cs) : f.course = e.course => f = e
  <2>1. PICK m \in orders[o].cart.meta :
          /\ m.course \in cs
          /\ e = [tx |-> t, student |-> orders[o].user, course |-> m.course,
                  bundle |-> m.bundle, expiry |-> IF m.months THEN "ahead" ELSE "never"]
    BY DEF EnrollmentRows
  <2>2. courseOrder[e.course] = o
    BY <1>3, <2>1 DEF LinkedCourses
  <2>3. ASSUME NEW f \in EnrollmentRows(t, o, cs), f.course = e.course
        PROVE  f = e
    <3>1. PICK n \in orders[o].cart.meta :
            f = [tx |-> t, student |-> orders[o].user, course |-> n.course,
                 bundle |-> n.bundle, expiry |-> IF n.months THEN "ahead" ELSE "never"]
      BY DEF EnrollmentRows
    <3>2. m = n
      BY <2>1, <2>3, <3>1 DEF SequenceInv, PlacedEntries, OneEntryEach
    <3> QED BY <2>1, <3>1, <3>2
  <2> QED BY <2>1, <2>2, <2>3
<1>7. ASSUME NEW e \in EnrollmentRows(t, o, cs), NEW f \in enrollments,
             f.student = e.student, f.course = e.course, f.expiry # "past"
      PROVE  FALSE
  BY <1>3, <1>6, <1>7 DEF SequenceInv, LinkedExecuted
<1>8. NoDuplicateLiveEnrollment'
  BY <1>4, <1>6, <1>7 DEF NoDuplicateLiveEnrollment, SequenceInv
<1>9. LinkedExecuted'
  <2> SUFFICES ASSUME NEW e \in enrollments', NEW k \in Placed, e.expiry # "past",
                      courseOrder[e.course] = k, orders[k].user = e.student
               PROVE  orders'[k].status = "Completed"
    BY <1>5 DEF LinkedExecuted
  <2>1. CASE e \in enrollments
    BY <1>5, <2>1 DEF SequenceInv, LinkedExecuted
  <2>2. CASE e \in EnrollmentRows(t, o, cs)
    BY <1>3, <1>6, <2>2
  <2> QED BY <1>4, <2>1, <2>2
<1>10. LinksPlaced' /\ PlacedEntries'
  BY <1>5 DEF SequenceInv, LinksPlaced, PlacedEntries
<1>11. Busy' \subseteq {r} /\ req'[r].pc \in {"idle", "executed"}
  BY DEF Busy, OneBusy, SequenceInv, Commit, TypeOK, Idle
<1> QED BY <1>8, <1>9, <1>10, <1>11 DEF SequenceInv, OneBusy, StillHolds, Busy

\* Every other step leaves orders and links, and brings no enrollment into force.
LEMMA OtherInSequence ==
  ASSUME TypeOK, References, SequenceInv, [Next]_vars, OneBusy', CheckedEntries',
         UNCHANGED <<orders, courseOrder, storeOrders>>, \A r \in Requests : ~ Commit(r)
  PROVE  SequenceInv'
<1>1. \A e \in enrollments' : e.expiry # "past" => e \in enrollments
  BY LiveKept
<1>2. NoDuplicateLiveEnrollment' /\ LinkedExecuted' /\ LinksPlaced' /\ PlacedEntries'
  BY <1>1 DEF NoDuplicateLiveEnrollment, LinkedExecuted, LinksPlaced, PlacedEntries, Placed,
     SequenceInv
<1>3. ASSUME NEW r \in Busy', req'[r] = req[r]
      PROVE  StillHolds(req[r])'
  BY <1>1, <1>3 DEF StillHolds, AlreadyEnrolled, LinkedCourses, SequenceInv, Busy
<1>4. ASSUME NEW r \in Busy', req'[r] # req[r]
      PROVE  StillHolds(req[r])'
  <2>0. req'[r].pc \in {"checked", "execute", "rewarded"} =>
          \/ \E u \in Users, cart \in Carts : CheckCart(r, u, cart)
          \/ \E c \in ChargeId : Approve(r, c)
          \/ GiveReward(r)
    <3> SUFFICES ASSUME req'[r].pc \in {"checked", "execute", "rewarded"}
                 PROVE  \/ \E u \in Users, cart \in Carts : CheckCart(r, u, cart)
                        \/ \E c \in ChargeId : Approve(r, c)
                        \/ GiveReward(r)
      OBVIOUS
    <3>0. r \in Requests
      BY <1>4 DEF Busy
    <3>1. ASSUME NEW s \in Requests, NEW o \in OrderId, CreateOrder(s, o)
          PROVE  FALSE
      <4>1. o \notin Placed /\ orders'[o] \in Order
        BY <3>1, RequestShape, CartsAssumption DEF CreateOrder, NextId, OrderId, TypeOK, Order
      <4> QED BY <4>1, NoneAssumption DEF Placed
    <3>2. ASSUME NEW s \in Requests,
                 \/ \E u \in Users, o \in OrderId : StartCharge(s, u, o)
                 \/ Settle(s) \/ RecordPayment(s) \/ Fail(s)
                 \/ \E c \in ChargeId : YocoCheckout(s, c)
          PROVE  FALSE
      <4>1. CASE \E u \in Users, o \in OrderId : StartCharge(s, u, o)
        BY <1>4, <3>0, <4>1 DEF StartCharge, TypeOK
      <4>2. CASE Settle(s) \/ RecordPayment(s) \/ Fail(s)
        BY <1>4, <3>0, <4>2 DEF Settle, RecordPayment, Fail, Finish, Idle, TypeOK
      <4>3. CASE \E c \in ChargeId : YocoCheckout(s, c)
        BY <1>4, <3>0, <4>3 DEF YocoCheckout, TypeOK
      <4> QED BY <3>2, <4>1, <4>2, <4>3
    <3>3. ASSUME NEW s \in Requests,
                 \/ \E u \in Users, cart \in Carts : CheckCart(s, u, cart)
                 \/ \E c \in ChargeId : Approve(s, c)
                 \/ GiveReward(s)
          PROVE  s = r
      <4>1. \A k \in Requests : k # s => req'[k] = req[k]
        BY <3>3 DEF CheckCart, Approve, GiveReward, TypeOK
      <4> QED BY <1>4, <3>0, <4>1
    <3>4. UNCHANGED req => FALSE
      BY <1>4
    <3> QED BY <3>1, <3>2, <3>3, <3>4 DEF Next, Handler, vars, YocoPays, Lapse
  <2>1. ASSUME NEW u \in Users, NEW cart \in Carts, CheckCart(r, u, cart)
        PROVE  StillHolds(req[r])'
    BY <2>1 DEF CheckCart, StillHolds, AlreadyEnrolled, CheckedEntries, TypeOK, tables, Busy
  <2>2. ASSUME NEW c \in ChargeId, Approve(r, c)
        PROVE  StillHolds(req[r])'
    BY <2>2 DEF Approve, Execution, Fulfilled, StillHolds, LinkedCourses, TypeOK, tables, Busy
  <2>3. ASSUME GiveReward(r)
        PROVE  StillHolds(req[r])'
    BY <2>3, RequestShape
    DEF GiveReward, StillHolds, LinkedCourses, TypeOK, tables, Busy, SequenceInv
  <2>4. CASE req'[r].pc \notin {"checked", "execute", "rewarded"}
    BY <2>4 DEF StillHolds
  <2> QED BY <2>0, <2>1, <2>2, <2>3, <2>4
<1> QED BY <1>2, <1>3, <1>4 DEF SequenceInv

\* Nothing is linked, ordered or enrolled at the start.
LEMMA InitSequence == Init => SequenceInv
  BY DEF Init, SequenceInv, OneBusy, NoDuplicateLiveEnrollment, LinkedExecuted, LinksPlaced,
     PlacedEntries, Placed, Busy, Idle

\* Every step of the sequential regime preserves its invariant.
LEMMA NextSequence ==
  ASSUME TypeOK, References, SequenceInv, [Next]_vars, OneBusy', CheckedEntries'
  PROVE  SequenceInv'
<1>1. CASE \E r \in Requests : Commit(r)
  BY <1>1, CommitInSequence
<1>2. CASE \E r \in Requests, o \in OrderId : CreateOrder(r, o)
  BY <1>2, CreateInSequence
<1>3. CASE UNCHANGED <<orders, courseOrder, storeOrders>> /\ \A r \in Requests : ~ Commit(r)
  BY <1>3, OtherInSequence
<1> QED BY <1>1, <1>2, <1>3, StepKinds

\* The carts of the regime have each course once.
LEMMA OneStudentEntries ==
  ASSUME NEW cart \in CartsOneStudent
  PROVE  OneEntryEach(cart)
<1>1. \A meta, products, free : CartOf(meta, products, free).meta = meta
  BY DEF CartOf
<1>2. CASE cart = MonthlyCart
  <2>1. cart.meta = {Entry(c1, None, TRUE)}
    BY <1>1, <1>2 DEF MonthlyCart
  <2> QED BY <2>1 DEF OneEntryEach
<1>3. CASE cart = TwoCart
  <2>1. cart.meta = {Entry(c1, None, FALSE), Entry(c2, None, TRUE)}
    BY <1>1, <1>3 DEF TwoCart
  <2>2. Entry(c1, None, FALSE).course # Entry(c2, None, TRUE).course
    BY CoursesDiffer DEF Entry
  <2> QED BY <2>1, <2>2 DEF OneEntryEach
<1>4. CASE cart = FreeCart
  <2>1. cart.meta = {Entry(c2, b1, TRUE)}
    BY <1>1, <1>4 DEF FreeCart
  <2> QED BY <2>1 DEF OneEntryEach
<1> QED BY <1>2, <1>3, <1>4 DEF CartsOneStudent

\* In the sequential regime its invariant holds in every reachable state.
THEOREM SequenceInvariant == RegimeSpec => [](IInv /\ (regime = "sequential" => SequenceInv))
<1> DEFINE Both == IInv /\ (regime = "sequential" => SequenceInv)
<1>1. RegimeInit => Both
  BY InitInvariant, InitSequence DEF RegimeInit
<1>2. Both /\ [RegimeNext]_<<vars, regime>> => Both'
  <2> SUFFICES ASSUME Both, [RegimeNext]_<<vars, regime>>
               PROVE  Both'
    OBVIOUS
  <2>1. [Next]_vars /\ regime' = regime
    BY DEF RegimeNext, vars
  <2>2. IInv'
    BY <2>1, NextInvariant
  <2>3. ASSUME regime = "sequential"
        PROVE  SequenceInv'
    <3>1. CASE RegimeNext
      <4>1. Sequential'
        BY <2>1, <2>3, <3>1 DEF RegimeNext, TwoOverlap
      <4>2. IsFiniteSet(Busy')
        BY RequestsAssumption, FS_Subset DEF Busy
      <4>3. OneBusy'
        BY <4>1, <4>2, AtMostOne DEF Sequential, OneBusy
      <4>4. CheckedEntries'
        BY <4>1, OneStudentEntries DEF Sequential, CartsInUse, CheckedEntries
      <4> QED BY <2>1, <2>3, <4>3, <4>4, NextSequence DEF IInv
    <3>2. CASE UNCHANGED <<vars, regime>>
      <4>1. OneBusy' /\ CheckedEntries'
        BY <2>3, <3>2 DEF vars, SequenceInv, OneBusy, Busy, CheckedEntries, StillHolds
      <4> QED BY <2>1, <2>3, <4>1, NextSequence DEF IInv
    <3> QED BY <3>1, <3>2
  <2> QED BY <2>1, <2>2, <2>3
<1> QED BY <1>1, <1>2, PTL DEF RegimeSpec

\* NoDuplicateInSequence: with one handler at a time, placeOrder's check for enrollments
\* and the single link of a course to an order keep every student at one enrollment in
\* force for a course.
THEOREM NoDuplicateWhenInSequence == RegimeSpec => []NoDuplicateInSequence
<1>1. IInv /\ (regime = "sequential" => SequenceInv) => NoDuplicateInSequence
  BY DEF SequenceInv, NoDuplicateInSequence
<1> QED BY <1>1, SequenceInvariant, PTL
=============================================================================
