-------------------------------- MODULE Store --------------------------------
(***************************************************************************)
(* The store: products, which admins keep; store orders, which executed    *)
(* orders leave and admins move between states; reviews of what was bought.*)
(***************************************************************************)
EXTENDS Naturals, FiniteSets

CONSTANTS
  Users, Requests, None,
  MaxProduct, MaxStoreOrder, MaxReview      \* bounds of the model

ProductId == 1 .. MaxProduct
OrderId == 1 .. MaxStoreOrder

\* StoreOrderStatus: as paid, delivered, and any other.
Status == {"Paid", "Deliverd", "Returned"}

VARIABLES
  products,    \* the Product table, by id
  orders,      \* the StoreOrder table, by id; delivered: it has once been
  reviews,     \* the number of Review rows, by product and user
  req

tables == <<products, orders, reviews>>
vars == <<tables, req>>

Idle == [pc |-> "idle"]

Product == [available : BOOLEAN, deleted : BOOLEAN]

StoreOrder == [user : Users, products : SUBSET ProductId, status : Status, delivered : BOOLEAN]

Request ==
  {Idle}
  \cup [pc : {"paying"}, user : Users, products : SUBSET ProductId]
  \cup [pc : {"updating"}, product : ProductId, available : BOOLEAN]
  \cup [pc : {"deleting"}, product : ProductId]
  \cup [pc : {"moving"}, order : OrderId, status : Status]
  \cup [pc : {"looking", "writing"}, product : ProductId, user : Users, found : BOOLEAN]

TypeOK ==
  /\ products \in [ProductId -> Product \cup {None}]
  /\ orders \in [OrderId -> StoreOrder \cup {None}]
  /\ reviews \in [ProductId -> [Users -> 0 .. MaxReview]]
  /\ req \in [Requests -> Request]

Init ==
  /\ products = [p \in ProductId |-> None]
  /\ orders = [o \in OrderId |-> None]
  /\ reviews = [p \in ProductId |-> [u \in Users |-> 0]]
  /\ req = [r \in Requests |-> Idle]

-----------------------------------------------------------------------------
(* What is found and shown.                                                 *)

\* getProductByIdRaw finds the deleted products too.
Raw == {p \in ProductId : products[p] # None}

\* getProductById and getProductByIdAdmin; listProducts and listProductsAdmin.
Found == {p \in Raw : ~ products[p].deleted}
ListedProducts(availability) == {p \in Found : products[p].available \in availability}

\* getProductsByIds: the products of a cart that are left.
Sold(ps) == ps \cap Found

\* getOrderById and listStoreOrders of a user, getStoreOrderByIdAdmin and
\* listStoreOrdersAdmin: nothing deletes a store order.
Orders == {o \in OrderId : orders[o] # None}
OrdersOf(u) == {o \in Orders : orders[o].user = u}

\* Mutant: an order of any product will do.
BoughtAnything(p, u) == OrdersOf(u)

\* getOrderByProductAndUser picks any of these.
Bought(p, u) == {o \in OrdersOf(u) : p \in orders[o].products}

\* getReviewByProductAndUser.
Reviewed(p, u) == reviews[p][u] > 0

\* listReviews: the reviews of a product by some of its users.
ListedReviews(p, us) == {u \in us : Reviewed(p, u)}

-----------------------------------------------------------------------------
Proceed(r, step) == req' = [req EXCEPT ![r] = step]

Start(r, step) == req[r].pc = "idle" /\ Proceed(r, step)

\* createProduct, once the category and the images are found.
CreateProduct(p, available) ==
  /\ p \notin Raw /\ \A k \in ProductId : k < p => k \in Raw
  /\ products' = [products EXCEPT ![p] = [available |-> available, deleted |-> FALSE]]
  /\ UNCHANGED <<orders, reviews, req>>

\* updateProduct finds the product,
FindForUpdate(r, p, available) ==
  /\ p \in Found
  /\ Start(r, [pc |-> "updating", product |-> p, available |-> available])
  /\ UNCHANGED tables

\* and updates it by its id.
UpdateProduct(r) ==
  /\ req[r].pc = "updating"
  /\ products' = [products EXCEPT ![req[r].product].available = req[r].available]
  /\ Proceed(r, Idle)
  /\ UNCHANGED <<orders, reviews>>

\* deleteProduct finds any product,
FindForDelete(r, p) ==
  /\ p \in Raw
  /\ Start(r, [pc |-> "deleting", product |-> p])
  /\ UNCHANGED tables

\* and deletes it softly.
DeleteProduct(r) ==
  /\ req[r].pc = "deleting"
  /\ products' = [products EXCEPT ![req[r].product].deleted = TRUE]
  /\ Proceed(r, Idle)
  /\ UNCHANGED <<orders, reviews>>

\* An order is placed: deleted products are dropped, one out of stock refuses it.
PlaceOrder(r, u, ps) ==
  /\ Sold(ps) \subseteq ListedProducts({TRUE})
  /\ Start(r, [pc |-> "paying", user |-> u, products |-> Sold(ps)])
  /\ UNCHANGED tables

\* It is executed when it is paid, whatever became of the products.
CreateStoreOrder(r, o) ==
  /\ req[r].pc = "paying"
  /\ o \notin Orders /\ \A k \in OrderId : k < o => k \in Orders
  /\ orders' = [orders EXCEPT ![o] = [user |-> req[r].user, products |-> req[r].products,
                                      status |-> "Paid", delivered |-> FALSE]]
  /\ Proceed(r, Idle)
  /\ UNCHANGED <<products, reviews>>

\* updateStoreOrder of the admin: to any state, from any state.
FindStoreOrder(r, o, status) ==
  /\ o \in Orders
  /\ Start(r, [pc |-> "moving", order |-> o, status |-> status])
  /\ UNCHANGED tables

UpdateStoreOrder(r) ==
  LET o == req[r].order IN
  /\ req[r].pc = "moving"
  /\ orders' = [orders EXCEPT ![o].status = req[r].status,
                              ![o].delivered = @ \/ req[r].status = "Deliverd"]
  /\ Proceed(r, Idle)
  /\ UNCHANGED <<products, reviews>>

\* createProductReview looks for the review,
FindReview(r, p, u) ==
  /\ Start(r, [pc |-> "looking", product |-> p, user |-> u, found |-> Reviewed(p, u)])
  /\ UNCHANGED tables

\* for an order, the first the database returns, which has to be delivered,
FindOrder(r) ==
  /\ req[r].pc = "looking"
  /\ \E o \in Bought(req[r].product, req[r].user) : orders[o].status = "Deliverd"
  /\ Proceed(r, [req[r] EXCEPT !.pc = "writing"])
  /\ UNCHANGED tables

\* and changes the review that was found or creates one.
WriteReview(r) ==
  LET q == req[r] IN
  /\ q.pc = "writing"
  /\ ~ q.found => reviews[q.product][q.user] < MaxReview
  /\ reviews' = IF q.found THEN reviews ELSE [reviews EXCEPT ![q.product][q.user] = @ + 1]
  /\ Proceed(r, Idle)
  /\ UNCHANGED <<products, orders>>

\* A refusal, a failing query, a payment that never comes, or the end of the process.
Fail(r) ==
  /\ req[r].pc # "idle"
  /\ Proceed(r, Idle)
  /\ UNCHANGED tables

Next ==
  \/ \E p \in ProductId, available \in BOOLEAN : CreateProduct(p, available)
  \/ \E r \in Requests :
       \/ \E p \in ProductId :
            \/ \E available \in BOOLEAN : FindForUpdate(r, p, available)
            \/ FindForDelete(r, p)
            \/ \E u \in Users : FindReview(r, p, u)
       \/ \E u \in Users, ps \in SUBSET ProductId : PlaceOrder(r, u, ps)
       \/ \E o \in OrderId :
            \/ CreateStoreOrder(r, o)
            \/ \E status \in Status : FindStoreOrder(r, o, status)
       \/ UpdateProduct(r) \/ DeleteProduct(r) \/ UpdateStoreOrder(r)
       \/ FindOrder(r) \/ WriteReview(r) \/ Fail(r)

-----------------------------------------------------------------------------
\* Whoever reviewed a product has had an order of it delivered, though the order was found
\* awaits before the review is written and may have been moved on since.
ReviewedWasDelivered ==
  \A p \in ProductId : \A u \in ListedReviews(p, Users) :
    \E o \in OrdersOf(u) : p \in orders[o].products /\ orders[o].delivered

\* A user has one review of a product, or one for each of the requests that overlapped.
ReviewsWithin(overlap) ==
  \A p \in ProductId, u \in Users : reviews[p][u] <= overlap
=============================================================================
