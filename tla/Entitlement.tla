----------------------------- MODULE Entitlement -----------------------------
(***************************************************************************)
(* What ordering promises, without handlers, gateways or tables: an order  *)
(* is placed, it is settled (being free, or by a payment) or reported as   *)
(* paid, and only then delivered, all of it at once but for the courses    *)
(* that an order placed later asks for too.  A report is believed: whoever *)
(* reports is trusted to report only what has been paid.                   *)
(***************************************************************************)
EXTENDS Naturals

CONSTANTS Users, Courses, Bundles, None, OrderId, DeliveryId

\* What an order asks for: a course, alone or as part of a bundle.
Entry == [course : Courses, bundle : Bundles \cup {None}]

VARIABLES
  order,       \* what each order asks for, for whom, and whether it was delivered
  settled,     \* the orders that are free or have been paid for
  reported,    \* the orders reported as paid before they were settled
  delivered    \* the deliveries: for which order, and which entries

vars == <<order, settled, reported, delivered>>

Init ==
  /\ order = [o \in OrderId |-> None]
  /\ settled = {}
  /\ reported = {}
  /\ delivered = {}

Placed == {o \in OrderId : order[o] # None}

\* Orders are numbered as they are placed.
Place(o) ==
  /\ \A k \in Placed : k < o
  /\ \E u \in Users, entries \in SUBSET Entry :
       order' = [order EXCEPT ![o] = [user |-> u, entries |-> entries, done |-> FALSE]]
  /\ settled' \in {settled, settled \cup {o}}
  /\ UNCHANGED <<reported, delivered>>

Pay(o) ==
  /\ o \in Placed
  /\ settled' = settled \cup {o}
  /\ UNCHANGED <<order, reported, delivered>>

Report(o) ==
  /\ o \in Placed
  /\ reported' = reported \cup {o}
  /\ UNCHANGED <<order, settled, delivered>>

\* An order placed after o asks for the course too.
AskedForLater(o, course) ==
  \E k \in Placed : k > o /\ \E e \in order[k].entries : e.course = course

\* The status and the entries change together, or not at all.
Deliver(o) ==
  /\ o \in Placed /\ o \in settled \cup reported
  /\ \E d \in DeliveryId, entries \in SUBSET order[o].entries :
       /\ \A x \in delivered : x.id # d
       /\ \A e \in order[o].entries \ entries : AskedForLater(o, e.course)
       /\ delivered' = delivered \cup {[id |-> d, order |-> o, entries |-> entries]}
  /\ order' = [order EXCEPT ![o].done = TRUE]
  /\ UNCHANGED <<settled, reported>>

Next == \E o \in OrderId : Place(o) \/ Pay(o) \/ Report(o) \/ Deliver(o)

Spec == Init /\ [][Next]_vars
=============================================================================
