--------------------- MODULE FulfilmentRefinement_proof ---------------------
(***************************************************************************)
(* OrderFulfilment implements Entitlement, for every instance: the empty   *)
(* tables map to the initial state, and every step of a handler, of the    *)
(* gateway or of the clock maps to a step or to a stutter.                 *)
(***************************************************************************)
EXTENDS OrderFulfilment_proof, FulfilmentRefinement

\* The empty tables.
LEMMA InitMaps == Init => Promise!Init
<1> SUFFICES ASSUME Init PROVE Promise!Init
  OBVIOUS
<1>1. OrderView = [o \in OrderId |-> None]
  BY DEF Init, OrderView
<1>2. SettledOrders = {}
  BY DEF Init, SettledOrders, Placed
<1>3. Deliveries = {} /\ ReportedOrders = {}
  BY DEF Init, Deliveries, ReportedOrders
<1> QED BY <1>1, <1>2, <1>3 DEF Promise!Init


\* The view of an order that has been placed, with its shape.
LEMMA ViewOfPlaced ==
  ASSUME TypeOK, NEW o \in Placed
  PROVE  /\ o \in OrderId
         /\ OrderView[o] = [user |-> orders[o].user, entries |-> EntriesOf(orders[o].cart),
                            done |-> orders[o].status = "Completed"]
         /\ OrderView[o].user = orders[o].user
         /\ OrderView[o].entries = EntriesOf(orders[o].cart)
         /\ OrderView[o] \in [user : Users, entries : SUBSET MetaEntry, done : BOOLEAN]
         /\ OrderView[o] # None
         /\ orders[o].user \in Users /\ EntriesOf(orders[o].cart) \in SUBSET MetaEntry
<1>1. o \in OrderId /\ orders[o] \in Order /\ orders[o] # None
  BY DEF Placed, TypeOK
<1>2. orders[o].user \in Users /\ orders[o].cart \in Cart
  BY <1>1, CartsAssumption DEF Order
<1>3. EntriesOf(orders[o].cart) \in SUBSET MetaEntry
  BY <1>2 DEF EntriesOf, MetaEntry, Cart, CourseMeta
<1>4. PICK v : v = [user |-> orders[o].user, entries |-> EntriesOf(orders[o].cart),
                    done |-> orders[o].status = "Completed"]
  OBVIOUS
<1>5. OrderView[o] = v
  BY <1>1, <1>4 DEF OrderView
<1>6. v \in [user : Users, entries : SUBSET MetaEntry, done : BOOLEAN]
  BY <1>2, <1>3, <1>4
<1>7. v.user = orders[o].user /\ v.entries = EntriesOf(orders[o].cart)
  BY <1>4
<1> QED BY <1>1, <1>2, <1>3, <1>4, <1>5, <1>6, <1>7, RowAssumption

\* The two specifications agree on which orders have been placed.
LEMMA SamePlaced == ASSUME TypeOK PROVE Placed = Promise!Placed
<1>1. \A o \in OrderId : o \notin Placed => OrderView[o] = None
  BY DEF OrderView, Placed
<1>2. \A o \in OrderId : o \in Placed => OrderView[o] # None
  BY ViewOfPlaced
<1> QED BY <1>1, <1>2 DEF Placed, Promise!Placed

\* A step that leaves the orders alone leaves their view alone.
LEMMA ViewKept == orders' = orders => OrderView' = OrderView
  BY DEF OrderView

\* The deliveries are kept when the store orders are and the rows still stand for
\* the same entries.
LEMMA DeliveriesKept ==
  ASSUME storeOrders' = storeOrders, \A t : Enrolled(t)' = Enrolled(t)
  PROVE  Deliveries' = Deliveries
  BY DEF Deliveries

-----------------------------------------------------------------------------
(* One lemma for each kind of step.                                         *)

\* What is reported is kept while the orders, the early events and the orders of the
\* Payment rows are.
LEMMA ReportedKept ==
  ASSUME IInv, [Next]_vars, Placed' = Placed, early' = early
  PROVE  ReportedOrders' = ReportedOrders
<1>1. ASSUME NEW c \in early
      PROVE  /\ payments[c] # None /\ c \in ChargeId
             /\ payments'[c] # None /\ payments'[c].order = payments[c].order
  BY <1>1, ChargesPersist DEF IInv, References, TypeOK
<1> QED BY <1>1 DEF ReportedOrders

\* The steps of handlers that change neither the order, the checkouts nor the
\* deliveries stutter, and so does the clock, which changes only an expiry.
LEMMA QuietStep ==
  ASSUME IInv, [Next]_vars, orders' = orders, charges' = charges, early' = early,
         storeOrders' = storeOrders,
         \/ enrollments' = enrollments
         \/ \E e \in enrollments : Lapse(e)
  PROVE  UNCHANGED Promise!vars
<1>1. OrderView' = OrderView
  BY ViewKept
<1>2. SettledOrders' = SettledOrders /\ ReportedOrders' = ReportedOrders
  BY ReportedKept DEF SettledOrders, Placed, IsPaid
<1>3. ASSUME NEW t PROVE Enrolled(t)' = Enrolled(t)
  <2>1. CASE enrollments' = enrollments
    BY <2>1 DEF Enrolled
  <2>2. CASE \E e \in enrollments : Lapse(e)
    <3>1. PICK e \in enrollments : Lapse(e)
      BY <2>2
    <3>2. PICK g : g = [e EXCEPT !.expiry = "past"]
      OBVIOUS
    <3>3. g.tx = e.tx /\ g.course = e.course /\ g.bundle = e.bundle
      BY <3>2 DEF IInv, TypeOK, Enrollment
    <3>4. enrollments' = (enrollments \ {e}) \cup {g}
      BY <3>1, <3>2 DEF Lapse
    <3> QED BY <3>3, <3>4 DEF Enrolled
  <2> QED BY <2>1, <2>2
<1>4. Deliveries' = Deliveries
  BY <1>3, DeliveriesKept
<1> QED BY <1>1, <1>2, <1>4 DEF Promise!vars

\* A checkout that opens or is offered settles nothing, and one that is paid settles
\* the order it was opened for.
LEMMA CheckoutStep ==
  ASSUME IInv, [Next]_vars, orders' = orders, storeOrders' = storeOrders,
         enrollments' = enrollments, early' = early,
         \/ \E r \in Requests, c \in ChargeId : YocoCheckout(r, c)
         \/ \E r \in Requests : RecordPayment(r)
         \/ \E c \in ChargeId : YocoPays(c)
  PROVE  [Promise!Next]_(Promise!vars)
<1> DEFINE ChargeRow == [order : OrderId, state : {"open", "offered", "paid"}]
           PaidBy(c, o) == charges[c] # None /\ charges[c].state = "paid" /\ charges[c].order = o
           PaidByNext(c, o) ==
             charges'[c] # None /\ charges'[c].state = "paid" /\ charges'[c].order = o
<1>0. charges \in [ChargeId -> ChargeRow \cup {None}] /\ None \notin ChargeRow /\ TypeOK
  BY NoneAssumption DEF IInv, TypeOK
<1>1. OrderView' = OrderView /\ Placed' = Placed
  BY ViewKept DEF Placed
<1>2. Deliveries' = Deliveries /\ ReportedOrders' = ReportedOrders
  BY <1>1, DeliveriesKept, ReportedKept DEF Enrolled
<1>3. ASSUME \A c \in ChargeId, o \in Placed : PaidByNext(c, o) <=> PaidBy(c, o)
      PROVE  UNCHANGED Promise!vars
  <2>1. SettledOrders' = SettledOrders
    BY <1>1, <1>3 DEF SettledOrders, IsPaid
  <2> QED BY <1>1, <1>2, <2>1 DEF Promise!vars
<1>4. CASE \E r \in Requests, c \in ChargeId : YocoCheckout(r, c)
  <2>1. PICK r \in Requests, k \in ChargeId : YocoCheckout(r, k)
    BY <1>4
  <2>2. charges[k] = None
    BY <2>1 DEF YocoCheckout, NextId, ChargeId
  <2>3. /\ \A c \in ChargeId : c # k => charges'[c] = charges[c]
        /\ charges'[k] = [order |-> req[r].order, state |-> "open"]
    BY <1>0, <2>1 DEF YocoCheckout
  <2>4. charges'[k].state = "open"
    BY <2>3
  <2> QED BY <1>3, <2>2, <2>3, <2>4
<1>5. CASE \E r \in Requests : RecordPayment(r)
  <2>1. PICK r \in Requests : RecordPayment(r)
    BY <1>5
  <2>2. PICK k \in ChargeId : k = req[r].charge /\ charges[k] \in ChargeRow
                              /\ charges[k].state = "open"
    BY <1>0, <2>1, RequestShape DEF RecordPayment, TypeOK, IInv, References, CheckoutsHeldOnce
  <2>3. /\ \A c \in ChargeId : c # k => charges'[c] = charges[c]
        /\ charges'[k] = [charges[k] EXCEPT !.state = "offered"]
    BY <1>0, <2>1, <2>2 DEF RecordPayment
  <2>4. charges'[k].state = "offered"
    BY <2>2, <2>3
  <2> QED BY <1>3, <2>2, <2>3, <2>4
<1>6. CASE \E c \in ChargeId : YocoPays(c)
  <2>1. PICK k \in ChargeId : YocoPays(k)
    BY <1>6
  <2>2. charges[k] \in ChargeRow /\ charges[k].order \in Placed /\ charges[k].state = "offered"
    BY <1>0, <2>1 DEF YocoPays, IInv, References
  <2>3. /\ \A c \in ChargeId : c # k => charges'[c] = charges[c]
        /\ charges'[k] = [charges[k] EXCEPT !.state = "paid"]
    BY <1>0, <2>1 DEF YocoPays
  <2>4. charges'[k] \in ChargeRow /\ charges'[k].state = "paid"
        /\ charges'[k].order = charges[k].order
    BY <2>2, <2>3
  <2>5. PICK o \in Placed : o = charges[k].order
    BY <2>2
  <2>6. \A n \in Placed : (\E c \in ChargeId : PaidByNext(c, n))
                           <=> (\E c \in ChargeId : PaidBy(c, n)) \/ n \in {o}
    BY <1>0, <2>2, <2>3, <2>4, <2>5
  <2>7. SettledOrders' = SettledOrders \cup ({o} \cap Placed)
    BY <1>1, <2>6 DEF SettledOrders, IsPaid
  <2>8. Promise!Pay(o)
    BY <1>0, <1>1, <1>2, <2>5, <2>7, SamePlaced DEF Promise!Pay
  <2> QED BY <2>5, <2>8 DEF Promise!Next, Placed
<1> QED BY <1>4, <1>5, <1>6

\* An event that comes before the payment reports the order of its row.
LEMMA ReportStep ==
  ASSUME IInv, [Next]_vars, NEW r \in Requests, NEW c \in ChargeId, Approve(r, c)
  PROVE  [Promise!Next]_(Promise!vars)
<1>0. /\ TypeOK /\ payments[c] # None /\ payments[c].order \in Placed
      /\ orders' = orders /\ charges' = charges /\ payments' = payments
      /\ storeOrders' = storeOrders /\ enrollments' = enrollments
  BY DEF Approve, IInv, References, tables
<1>1. CASE IsPaid(c)
  BY <1>0, <1>1, QuietStep DEF Approve
<1>2. CASE ~ IsPaid(c)
  <2>1. PICK o \in Placed : o = payments[c].order
    BY <1>0
  <2>2. early' = early \cup {c} /\ Placed' = Placed
    BY <1>0, <1>2 DEF Approve, Placed
  <2>3. ReportedOrders' = ReportedOrders \cup {o}
    BY <1>0, <2>1, <2>2 DEF ReportedOrders
  <2>4. OrderView' = OrderView /\ SettledOrders' = SettledOrders /\ Deliveries' = Deliveries
    BY <1>0, <2>2, ViewKept, DeliveriesKept DEF SettledOrders, Enrolled, IsPaid
  <2>5. Promise!Report(o)
    BY <1>0, <2>1, <2>3, <2>4, SamePlaced DEF Promise!Report
  <2> QED BY <2>1, <2>5 DEF Promise!Next, Placed
<1> QED BY <1>1, <1>2

\* placeOrder's order is the newest, belongs to nobody's checkout, has not been
\* executed, and is settled from the start when it is free.
LEMMA CreateStep ==
  ASSUME IInv, NEW r \in Requests, NEW o \in OrderId, CreateOrder(r, o), TypeOK'
  PROVE  Promise!Place(o)
<1>0. TypeOK /\ req[r] \in Request /\ req[r].pc = "checked" /\ NextId(o, Placed)
  BY DEF IInv, TypeOK, CreateOrder
<1> DEFINE row == [status |-> "Pending", user |-> req[r].user, cart |-> req[r].cart]
<1>1. /\ req[r].user \in Users /\ req[r].cart \in Carts
      /\ o \notin Placed /\ \A k \in Placed : k < o
  BY <1>0, RequestShape DEF NextId, OrderId, Placed
<1>2. /\ \A k \in OrderId : k # o => orders'[k] = orders[k]
      /\ orders'[o] = row /\ row \in Order
      /\ charges' = charges /\ payments' = payments /\ early' = early
      /\ storeOrders' = storeOrders /\ enrollments' = enrollments
  BY <1>0, <1>1 DEF CreateOrder, TypeOK, Order
<1>3. Placed' = Placed \cup {o} /\ orders'[o].cart = req[r].cart
  BY <1>2, NoneAssumption DEF Placed
<1>4. OrderView' = [OrderView EXCEPT ![o] =
                      [user |-> req[r].user, entries |-> EntriesOf(req[r].cart), done |-> FALSE]]
  <2>1. orders'[o] # None
    BY <1>2, NoneAssumption
  <2>2. /\ orders'[o].user = req[r].user
        /\ EntriesOf(orders'[o].cart) = EntriesOf(req[r].cart)
        /\ (orders'[o].status = "Completed") = FALSE
    BY <1>2
  <2> QED BY <1>2, <2>1, <2>2 DEF OrderView, EntriesOf
<1>5. EntriesOf(req[r].cart) \in SUBSET Promise!Entry
  BY <1>1, CartsAssumption DEF EntriesOf, Promise!Entry, Cart, CourseMeta
<1>6. SettledOrders' \in {SettledOrders, SettledOrders \cup {o}}
  <2>1. \A c \in ChargeId : charges[c] # None => charges[c].order # o
    BY <1>1 DEF IInv, References
  <2>2. \A k \in Placed : orders'[k] = orders[k]
    BY <1>1, <1>2 DEF Placed
  <2>3. CASE req[r].cart.free
    <3>1. SettledOrders' = SettledOrders \cup {o}
      BY <1>2, <1>3, <2>1, <2>2, <2>3 DEF SettledOrders, IsPaid
    <3> QED BY <3>1
  <2>4. CASE ~ req[r].cart.free
    <3>1. SettledOrders' = SettledOrders
      BY <1>2, <1>3, <2>1, <2>2, <2>4 DEF SettledOrders, IsPaid
    <3> QED BY <3>1
  <2> QED BY <2>3, <2>4
<1>7. Deliveries' = Deliveries
  BY <1>2, DeliveriesKept DEF Enrolled
<1>8. ReportedOrders' = ReportedOrders
  <2>1. \A c \in early : payments[c] # None => payments[c].order # o
    BY <1>0, <1>1 DEF IInv, References, TypeOK
  <2> QED BY <1>2, <1>3, <2>1 DEF ReportedOrders
<1> QED BY <1>0, <1>1, <1>4, <1>5, <1>6, <1>7, <1>8, SamePlaced DEF Promise!Place

\* What the update of the status does to a row of the view.
LEMMA DoneRow ==
  ASSUME NEW A, NEW B, NEW w \in [user : A, entries : B, done : BOOLEAN]
  PROVE  [w EXCEPT !.done = TRUE] = [user |-> w.user, entries |-> w.entries, done |-> TRUE]
<1>1. PICK x : x = [w EXCEPT !.done = TRUE]
  OBVIOUS
<1>2. x \in [user : A, entries : B, done : BOOLEAN]
  BY <1>1
<1>3. x.user = w.user /\ x.entries = w.entries /\ x.done = TRUE
  BY <1>1
<1>4. x = [user |-> x.user, entries |-> x.entries, done |-> x.done]
  BY <1>2
<1> QED BY <1>1, <1>3, <1>4

\* executeOrder's transaction delivers, to an order that is settled or reported, all its entries
\* but those whose course a newer order asks for.
LEMMA CommitStep ==
  ASSUME IInv, NEW r \in Requests, Commit(r), [Next]_vars
  PROVE  \E o \in OrderId : Promise!Deliver(o)
<1>0. TypeOK /\ References /\ charges' = charges /\ early' = early
  BY DEF IInv, Commit
<1>1. PICK o \in Placed, t \in TxId :
        /\ Executing(r) /\ o = req[r].order /\ o \in OrderId /\ orders[o] \in Order
        /\ \A k \in OrderId : k # o => orders'[k] = orders[k]
        /\ orders'[o] \in Order /\ orders'[o].status = "Completed"
        /\ \A s \in storeOrders : s.tx # t
        /\ storeOrders' = storeOrders \cup {[tx |-> t, order |-> o, charge |-> req[r].charge]}
        /\ enrollments' = enrollments \cup EnrollmentRows(t, o, req[r].courses)
  BY <1>0, CommitWrites
<1> DEFINE meta == orders[o].cart.meta
           given == {[course |-> m.course, bundle |-> m.bundle] :
                       m \in {n \in meta : n.course \in req[r].courses}}
<1>2. /\ orders'[o].user = orders[o].user /\ orders'[o].cart = orders[o].cart
      /\ orders'[o] # None
  BY <1>0, <1>1, OrdersPersist, NoneAssumption
<1>3. OrderView' = [OrderView EXCEPT ![o].done = TRUE]
  <2>1. /\ OrderView'[o] = [user |-> orders'[o].user, entries |-> EntriesOf(orders'[o].cart),
                           done |-> orders'[o].status = "Completed"]
        /\ \A k \in OrderId : k # o => OrderView'[k] = OrderView[k]
    BY <1>1, <1>2 DEF OrderView, EntriesOf
  <2>2. EntriesOf(orders'[o].cart) = EntriesOf(orders[o].cart)
    BY <1>2
  <2>3. (orders'[o].status = "Completed") = TRUE
    BY <1>1
  <2>4. OrderView'[o] = [OrderView[o] EXCEPT !.done = TRUE]
    <3>1. PICK v : v = [user |-> orders[o].user, entries |-> EntriesOf(orders[o].cart),
                        done |-> TRUE]
      OBVIOUS
    <3>2. OrderView'[o] = v
      BY <1>2, <2>1, <2>2, <2>3, <3>1
    <3>3. /\ OrderView[o] \in [user : Users, entries : SUBSET MetaEntry, done : BOOLEAN]
          /\ OrderView[o].user = orders[o].user
          /\ OrderView[o].entries = EntriesOf(orders[o].cart)
      BY <1>0, ViewOfPlaced
    <3>4. [OrderView[o] EXCEPT !.done = TRUE] = v
      <4>1. [OrderView[o] EXCEPT !.done = TRUE]
              = [user |-> OrderView[o].user, entries |-> OrderView[o].entries, done |-> TRUE]
        BY <3>3, DoneRow
      <4> QED BY <3>1, <3>3, <4>1
    <3> QED BY <3>2, <3>4
  <2>5. OrderView' = [k \in OrderId |-> OrderView'[k]] /\ OrderView = [k \in OrderId |-> OrderView[k]]
    BY DEF OrderView
  <2> QED BY <1>1, <2>1, <2>4, <2>5
<1>4. Placed' = Placed
  BY <1>1, <1>2 DEF Placed
<1>5. SettledOrders' = SettledOrders /\ ReportedOrders' = ReportedOrders
  <2>1. \A k \in Placed : orders'[k].cart = orders[k].cart
    BY <1>1, <1>2 DEF Placed
  <2> QED BY <1>0, <1>4, <2>1, ReportedKept DEF SettledOrders, IsPaid
<1>6. o \in SettledOrders \cup ReportedOrders
  <2>1. PaidFor(o, req[r].charge) /\ req[r].charge \in ChargeId \cup {None}
    BY <1>0, <1>1, CommitWrites DEF IInv, PaidInFlight
  <2> QED BY <2>1 DEF PaidFor, PaidOrEarly, IsPaid, SettledOrders, ReportedOrders
<1>7. \A e \in enrollments : e.tx # t
  BY <1>1 DEF IInv, EnrollmentBacked
<1>8. \A s \in storeOrders : Enrolled(s.tx)' = Enrolled(s.tx)
  <2>1. \A f \in EnrollmentRows(t, o, req[r].courses) : f.tx = t
    BY DEF EnrollmentRows
  <2> QED BY <1>1, <2>1 DEF Enrolled
<1>9. Enrolled(t)' = given
  <2>1. {f \in enrollments' : f.tx = t} = EnrollmentRows(t, o, req[r].courses)
    BY <1>1, <1>7 DEF EnrollmentRows
  <2>2. {[course |-> f.course, bundle |-> f.bundle] : f \in EnrollmentRows(t, o, req[r].courses)}
          = given
    <3>1. \A m \in {n \in meta : n.course \in req[r].courses} :
            \E f \in EnrollmentRows(t, o, req[r].courses) :
              f.course = m.course /\ f.bundle = m.bundle
      <4> TAKE m \in {n \in meta : n.course \in req[r].courses}
      <4>1. PICK f : f = [tx |-> t, student |-> orders[o].user, course |-> m.course,
                          bundle |-> m.bundle, expiry |-> IF m.months THEN "ahead" ELSE "never"]
        OBVIOUS
      <4>2. f \in EnrollmentRows(t, o, req[r].courses)
        BY <4>1 DEF EnrollmentRows
      <4>3. f.course = m.course /\ f.bundle = m.bundle
        BY <4>1
      <4> QED BY <4>2, <4>3
    <3>2. \A f \in EnrollmentRows(t, o, req[r].courses) :
            \E m \in {n \in meta : n.course \in req[r].courses} :
              f.course = m.course /\ f.bundle = m.bundle
      BY DEF EnrollmentRows
    <3> QED BY <3>1, <3>2
  <2> QED BY <2>1, <2>2 DEF Enrolled
<1>10. Deliveries' = Deliveries \cup {[id |-> t, order |-> o, entries |-> given]}
  <2>1. PICK s : s = [tx |-> t, order |-> o, charge |-> req[r].charge]
    OBVIOUS
  <2>2. s.tx = t /\ s.order = o /\ storeOrders' = storeOrders \cup {s}
    BY <1>1, <2>1
  <2> QED BY <1>8, <1>9, <2>2 DEF Deliveries
<1>11. OrderView[o].entries = EntriesOf(orders[o].cart) /\ given \subseteq EntriesOf(orders[o].cart)
  <2>1. OrderView[o].entries = EntriesOf(orders[o].cart)
    BY <1>0, ViewOfPlaced
  <2>2. given \subseteq EntriesOf(orders[o].cart)
    BY DEF EntriesOf
  <2> QED BY <2>1, <2>2
<1>12. \A e \in OrderView[o].entries \ given : Promise!AskedForLater(o, e.course)
  <2> TAKE e \in OrderView[o].entries \ given
  <2>1. PICK m \in meta : e = [course |-> m.course, bundle |-> m.bundle]
    BY <1>11 DEF EntriesOf
  <2>2. e.course = m.course /\ m.course \notin req[r].courses
    BY <2>1
  <2>3. m.course \in OrderCourses(o)
    BY <2>1 DEF OrderCourses, MetaCourses
  <2>4. PICK k \in Placed : k > o /\ m.course \in OrderCourses(k)
    BY <1>1, <2>2, <2>3 DEF IInv, SnapshotLacksOnlyNewer, InNewerOrder
  <2>5. PICK n \in orders[k].cart.meta : n.course = m.course
    BY <2>4 DEF OrderCourses, MetaCourses
  <2>6. PICK x : x = [course |-> n.course, bundle |-> n.bundle]
    OBVIOUS
  <2>7. x \in EntriesOf(orders[k].cart) /\ x.course = e.course
    BY <2>2, <2>5, <2>6 DEF EntriesOf
  <2>8. OrderView[k].entries = EntriesOf(orders[k].cart)
    BY <1>0, ViewOfPlaced
  <2>9. k \in Promise!Placed /\ x \in OrderView[k].entries
    BY <1>0, <2>7, <2>8, SamePlaced
  <2> QED BY <2>4, <2>7, <2>9 DEF Promise!AskedForLater
<1>13. \A d \in Deliveries : d.id # t
  BY <1>1 DEF Deliveries
<1>14. Promise!Deliver(o)
  <2>1. o \in Promise!Placed
    BY <1>0, SamePlaced
  <2>2. given \in SUBSET OrderView[o].entries
    BY <1>11
  <2> HIDE DEF given
  <2>3. \E d \in TxId, entries \in SUBSET OrderView[o].entries :
          /\ \A x \in Deliveries : x.id # d
          /\ \A e \in OrderView[o].entries \ entries : Promise!AskedForLater(o, e.course)
          /\ Deliveries' = Deliveries \cup {[id |-> d, order |-> o, entries |-> entries]}
    BY <1>10, <1>12, <1>13, <2>2
  <2> QED BY <1>3, <1>5, <1>6, <2>1, <2>3 DEF Promise!Deliver
<1> QED BY <1>1, <1>14

-----------------------------------------------------------------------------
\* Every step of a handler, of the gateway or of the clock is a step of the promise,
\* or changes nothing that it speaks of.
LEMMA StepMaps == IInv /\ TypeOK' /\ [Next]_vars => [Promise!Next]_(Promise!vars)
<1> SUFFICES ASSUME IInv, TypeOK', [Next]_vars
             PROVE  [Promise!Next]_(Promise!vars)
  OBVIOUS
<1>1. CASE \E r \in Requests, o \in OrderId : CreateOrder(r, o)
  BY <1>1, CreateStep DEF Promise!Next
<1>2. CASE \E r \in Requests : Commit(r)
  BY <1>2, CommitStep DEF Promise!Next
<1>3. CASE \/ \E r \in Requests, c \in ChargeId : YocoCheckout(r, c)
           \/ \E r \in Requests : RecordPayment(r)
           \/ \E c \in ChargeId : YocoPays(c)
  <2>1. /\ orders' = orders /\ early' = early
        /\ storeOrders' = storeOrders /\ enrollments' = enrollments
    BY <1>3 DEF YocoCheckout, RecordPayment, YocoPays, tables
  <2> QED BY <1>3, <2>1, CheckoutStep
<1>4. CASE \E e \in enrollments : Lapse(e)
  <2>1. /\ orders' = orders /\ charges' = charges /\ early' = early
        /\ storeOrders' = storeOrders
    BY <1>4 DEF Lapse
  <2> QED BY <1>4, <2>1, QuietStep
<1>5. CASE UNCHANGED <<orders, charges, early, storeOrders, enrollments>>
  BY <1>5, QuietStep
<1>6. CASE \E r \in Requests, c \in ChargeId : Approve(r, c)
  BY <1>6, ReportStep
<1> QED BY <1>1, <1>2, <1>3, <1>4, <1>5, <1>6
        DEF Next, Handler, vars, CheckCart, StartCharge, GiveReward, Settle,
            Fail, tables

\* ImplementsEntitlement: whatever overlaps, fails or is repeated, the tables only
\* ever show orders placed, settled or reported as paid, and then delivered, each delivery in one step.
THEOREM Implementation == Spec => ImplementsEntitlement
<1>1. IInv => TypeOK
  BY DEF IInv
<1> QED BY <1>1, InitMaps, StepMaps, Invariant, PTL DEF Spec, ImplementsEntitlement, Promise!Spec
=============================================================================
