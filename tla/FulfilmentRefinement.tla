------------------------ MODULE FulfilmentRefinement ------------------------
(***************************************************************************)
(* OrderFulfilment as an implementation of Entitlement: the abstract state *)
(* as the tables show it.                                                  *)
(***************************************************************************)
EXTENDS OrderFulfilment

MetaEntry == [course : Courses, bundle : Bundles \cup {None}]

\* A row of the Order table is something.
ASSUME RowAssumption ==
  None \notin [user : Users, entries : SUBSET MetaEntry, done : BOOLEAN]

EntriesOf(cart) == {[course |-> m.course, bundle |-> m.bundle] : m \in cart.meta}

\* The Order table: the student, the meta and whether the status is Completed.
OrderView ==
  [o \in OrderId |->
     IF orders[o] = None THEN None
     ELSE [user |-> orders[o].user, entries |-> EntriesOf(orders[o].cart),
           done |-> orders[o].status = "Completed"]]

\* The orders that are free or have a paid checkout.
SettledOrders ==
  {o \in Placed : \/ orders[o].cart.free
                  \/ \E c \in ChargeId : IsPaid(c) /\ charges[c].order = o}

\* The orders let through on an event that came before the payment.
ReportedOrders ==
  {o \in Placed : \E c \in early : payments[c] # None /\ payments[c].order = o}

\* The entries that the enrollments of one execution stand for.
Enrolled(t) ==
  {[course |-> e.course, bundle |-> e.bundle] : e \in {f \in enrollments : f.tx = t}}

\* Every store order is the mark of one execution.
Deliveries ==
  {[id |-> s.tx, order |-> s.order, entries |-> Enrolled(s.tx)] : s \in storeOrders}

Promise ==
  INSTANCE Entitlement WITH
    order <- OrderView, settled <- SettledOrders, reported <- ReportedOrders,
    delivered <- Deliveries, DeliveryId <- TxId

\* However handlers overlap, fail and are repeated, what the tables show is an order
\* that is placed, settled or reported as paid, and then delivered in one step
\* (placeOrder, createCharge, approveOrder and executeOrder implement Entitlement).
ImplementsEntitlement == Promise!Spec
=============================================================================
