---------------------------- MODULE MCFulfilRegimes ----------------------------
(* One exploration in two regimes: handlers that overlap, with few orders,  *)
(* and one student who waits for every answer, with more orders, lapsing    *)
(* enrollments and rewards.                                                 *)
EXTENDS MCOrderFulfilment, FulfilmentRefinement

VARIABLE regime

CartsBoth == CartsAll \cup CartsOneStudent

Busy == {r \in Requests : req[r].pc # "idle"}

CartsInUse ==
  {orders[o].cart : o \in Placed}
  \cup {req[r].cart : r \in {q \in Requests : req[q].pc = "checked"}}

StudentsInUse ==
  {orders[o].user : o \in Placed}
  \cup {req[r].user : r \in {q \in Requests : req[q].pc = "checked"}}

TwoOverlap ==
  /\ regime = "overlapping"
  /\ CartsInUse \subseteq CartsAll
  /\ Cardinality(Placed) <= 2
  /\ \A o \in OrderId : rewards[o] = 0

Sequential ==
  /\ regime = "sequential"
  /\ CartsInUse \subseteq CartsOneStudent
  /\ Cardinality(Busy) <= 1 /\ Cardinality(StudentsInUse) <= 1

\* How far events that come before the payment are explored: one student's two orders
\* when handlers overlap, one such checkout when they do not.
EarlyWithin ==
  \/ early = {}
  \/ /\ regime = "overlapping"
     /\ CartsInUse \subseteq {SingleCart, MixedCart} /\ Cardinality(StudentsInUse) <= 1
  \/ regime = "sequential" /\ Cardinality(early) <= 1 /\ Cardinality(Placed) <= 2

RegimeInit == Init /\ regime \in {"overlapping", "sequential"}
RegimeNext == Next /\ UNCHANGED regime /\ (TwoOverlap \/ Sequential)'
RegimeSpec == RegimeInit /\ [][RegimeNext]_<<vars, regime>>

\* When a student waits for each answer of placeOrder, createCharge and the webhook,
\* the check for enrollments and the single link of a course to an order are enough:
\* no two enrollments of the student in a course are ever in force together.
NoDuplicateInSequence == regime = "sequential" => NoDuplicateLiveEnrollment
=============================================================================
