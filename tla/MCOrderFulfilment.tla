--------------------------- MODULE MCOrderFulfilment ---------------------------
(***************************************************************************)
(* Instances of OrderFulfilment for TLC: a course c1, a course c2 that the  *)
(* free bundle b1 offers too, a store product, and carts that collide.      *)
(***************************************************************************)
EXTENDS OrderFulfilment, TLC

CONSTANTS c1, c2, p1, b1

ASSUME CoursesDiffer == c1 # c2

Entry(c, b, m) == [course |-> c, bundle |-> b, months |-> m]
CartOf(meta, products, free) ==
  [meta |-> meta, products |-> products, free |-> free, cents |-> {}]

SingleCart  == CartOf({Entry(c1, None, FALSE)}, {}, FALSE)
MonthlyCart == CartOf({Entry(c1, None, TRUE)}, {}, FALSE)
TwoCart     == CartOf({Entry(c1, None, FALSE), Entry(c2, None, TRUE)}, {}, FALSE)
FreeCart    == CartOf({Entry(c2, b1, TRUE)}, {}, TRUE)
MixedCart   == CartOf({Entry(c1, None, FALSE), Entry(c2, b1, TRUE)}, {p1}, FALSE)
OverlapCart == CartOf({Entry(c2, None, FALSE), Entry(c2, b1, TRUE)}, {}, FALSE)
\* A course for 19.9: CreateCourseDto allows one decimal.
CentsCart   == [SingleCart EXCEPT !.cents = {<<"course", c1>>}]

\* Every kind of entry, with and without payment.
CartsAll == {SingleCart, MixedCart, FreeCart, OverlapCart}

\* Enrollments that lapse, and courses that two carts share.
CartsOneStudent == {MonthlyCart, TwoCart, FreeCart}

\* Two orders for the same courses, one of them by the month, both to be paid.
CartsLive == {TwoCart}

CartsFree == {FreeCart}
CartsCents == {CentsCart}

Symmetry == Permutations(Users) \cup Permutations(Requests)
=============================================================================
