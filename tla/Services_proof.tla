---------------------------- MODULE Services_proof ----------------------------
(***************************************************************************)
(* Of the store, the community, the tickets and the notifications: reviews,*)
(* feedback and devices are at most as many as handlers overlap; who       *)
(* reviews a product has had it delivered; what is deleted gets no more    *)
(* than what had found it; closed tickets stay quiet; announcements reach  *)
(* who is enrolled.  For any users, products, posts, tickets and tokens.   *)
(***************************************************************************)
EXTENDS Catalogue_proof

\* Through INSTANCE, cardinality is the same cardinality.
LEMMA ForumCardinality ==
  ASSUME NEW S
  PROVE  Forum!Cardinality(S) = Cardinality(S)
  BY DEF Forum!Cardinality, Cardinality

\* ... the same of notifications.
LEMMA NoticeCardinality ==
  ASSUME NEW S
  PROVE  Notice!Cardinality(S) = Cardinality(S)
  BY DEF Notice!Cardinality, Cardinality

\* One handler at a time is the only one that is busy.
LEMMA Alone ==
  ASSUME overlap = 1, NEW handlers, Within(handlers),
         NEW r \in Busy(handlers), NEW s \in Busy(handlers)
  PROVE  r = s
<1>1. Busy(handlers) \in SUBSET Requests
  BY DEF Busy
<1>2. IsFiniteSet(Busy(handlers)) /\ Cardinality(Busy(handlers)) \in Nat
  BY <1>1, HandlersAssumption, FS_Subset, FS_CardinalityType
<1>3. IsFiniteSet(Busy(handlers) \ {r})
      /\ Cardinality(Busy(handlers) \ {r}) = Cardinality(Busy(handlers)) - 1
  BY <1>2, FS_RemoveElement
<1>4. Cardinality(Busy(handlers) \ {r}) \in Nat
  BY <1>3, FS_CardinalityType
<1>5. Cardinality(Busy(handlers) \ {r}) = 0
  BY <1>2, <1>3, <1>4 DEF Within
<1>6. Busy(handlers) \ {r} = {}
  BY <1>3, <1>5, FS_EmptySet
<1>7. QED  BY <1>6

-----------------------------------------------------------------------------
(* The store.                                                               *)

\* The user has had an order of the product delivered.
Delivered(os, p, u) ==
  \E o \in Shop!OrderId : /\ os[o] # None /\ os[o].user = u
                          /\ p \in os[o].products /\ os[o].delivered

\* A handler that has found no review of the user.
ProductReviewing(q, p, u) ==
  q.pc \in {"looking", "writing"} /\ q.product = p /\ q.user = u /\ ~ q.found

ShopHeld(q, ps, os) ==
  /\ q.pc \in {"updating", "deleting"} => ps[q.product] # None
  /\ q.pc = "moving" => os[q.order] # None
  /\ q.pc = "writing" => Delivered(os, q.product, q.user)

ProductReviews ==
  \A p \in Shop!ProductId, u \in Students :
    /\ Fit(productReviews[p][u], {r \in Requests : ProductReviewing(shopReq[r], p, u)})
    /\ productReviews[p][u] > 0 => Delivered(orders, p, u)

ShopInv ==
  /\ overlap \in Nat
  /\ Shop!TypeOK
  /\ \A o \in Shop!OrderId :
       orders[o] # None /\ orders[o].status = "Deliverd" => orders[o].delivered
  /\ \A r \in Requests : ShopHeld(shopReq[r], products, orders)
  /\ ProductReviews

\* Orders stay with their user and their products, and delivered.
OrdersKept ==
  \A o \in Shop!OrderId : orders[o] # None =>
    /\ orders'[o] # None
    /\ orders'[o].user = orders[o].user /\ orders'[o].products = orders[o].products
    /\ orders[o].delivered => orders'[o].delivered

ProductsStay == \A p \in Shop!ProductId : products[p] # None => products'[p] # None

\* Of the store every step is its own, with as many handlers as overlap, or none.
LEMMA ShopSteps ==
  ASSUME [PlatformNext]_platform
  PROVE  /\ overlap' = overlap
         /\ (Shop!Next /\ Within(shopReq')) \/ UNCHANGED storeVars
  BY DEF PlatformNext, platform, LectureStep, CatalogueStep, CommunityStep, SupportStep,
     StoreStep, NoticeStep, RewardStep, PricingStep, UploadStep, AccountStep

\* At first nothing is for sale and nothing bought.
LEMMA InitShop == PlatformInit => ShopInv
<1> SUFFICES ASSUME PlatformInit PROVE ShopInv
  OBVIOUS
<1>1. Shop!Init /\ overlap \in Nat
  BY HandlersAssumption, FS_CardinalityType DEF PlatformInit
<1>2. \A r \in Requests : shopReq[r] = [pc |-> "idle"]
  BY <1>1 DEF Shop!Init, Shop!Idle
<1>3. Shop!TypeOK
  BY <1>1, <1>2, PlatformBounds DEF Shop!Init, Shop!TypeOK, Shop!Request, Shop!Idle
<1>4. ProductReviews
  <2>1. \A p \in Shop!ProductId, u \in Students :
          productReviews[p][u] = 0 /\ {r \in Requests : ProductReviewing(shopReq[r], p, u)} = {}
    BY <1>1, <1>2 DEF Shop!Init, ProductReviewing
  <2>2. ASSUME NEW S, S = {} PROVE Fit(0, S)
    <3>1. overlap >= 0 /\ Cardinality(S) = 0
      BY <2>2, <1>1, FS_EmptySet
    <3>2. QED  BY <3>1, <1>1 DEF Fit
  <2>3. QED  BY <2>1, <2>2 DEF ProductReviews
<1>5. QED  BY <1>1, <1>2, <1>3, <1>4 DEF Shop!Init, ShopInv, ShopHeld

\* What a handler of the store holds has its fields.
LEMMA ShopFields ==
  ASSUME Shop!TypeOK, NEW r \in Requests
  PROVE  /\ shopReq[r] \in Shop!Request
         /\ shopReq[r].pc = "paying" => /\ shopReq[r].user \in Students
                                        /\ shopReq[r].products \in SUBSET Shop!ProductId
         /\ shopReq[r].pc = "updating" => /\ shopReq[r].product \in Shop!ProductId
                                          /\ shopReq[r].available \in BOOLEAN
         /\ shopReq[r].pc = "deleting" => shopReq[r].product \in Shop!ProductId
         /\ shopReq[r].pc = "moving" => /\ shopReq[r].order \in Shop!OrderId
                                        /\ shopReq[r].status \in Shop!Status
         /\ shopReq[r].pc \in {"looking", "writing"} =>
              /\ shopReq[r] \in [pc : {"looking", "writing"}, product : Shop!ProductId,
                                 user : Students, found : BOOLEAN]
              /\ shopReq[r].product \in Shop!ProductId /\ shopReq[r].user \in Students
              /\ shopReq[r].found \in BOOLEAN
<1>1. shopReq[r] \in Shop!Request
  BY DEF Shop!TypeOK
<1>2. QED  BY <1>1 DEF Shop!Request, Shop!Idle

\* What was delivered stays so, and what handlers hold is still there.
LEMMA ShopStays ==
  ASSUME ShopInv, OrdersKept, ProductsStay
  PROVE  /\ \A p \in Shop!ProductId, u \in Students :
              Delivered(orders, p, u) => Delivered(orders', p, u)
         /\ \A r \in Requests : ShopHeld(shopReq[r], products', orders')
<1>1. ASSUME NEW p \in Shop!ProductId, NEW u \in Students, Delivered(orders, p, u)
      PROVE  Delivered(orders', p, u)
  BY <1>1 DEF Delivered, OrdersKept
<1>2. ASSUME NEW r \in Requests PROVE ShopHeld(shopReq[r], products', orders')
  <2>1. ShopHeld(shopReq[r], products, orders) /\ Shop!TypeOK
    BY DEF ShopInv
  <2>2. shopReq[r].pc \in {"updating", "deleting"} => products'[shopReq[r].product] # None
    BY <2>1, ShopFields DEF ShopHeld, ProductsStay
  <2>3. shopReq[r].pc = "moving" => orders'[shopReq[r].order] # None
    BY <2>1, ShopFields DEF ShopHeld, OrdersKept
  <2>4. shopReq[r].pc = "writing" => Delivered(orders', shopReq[r].product, shopReq[r].user)
    BY <2>1, <1>1, ShopFields DEF ShopHeld
  <2>5. QED  BY <2>2, <2>3, <2>4 DEF ShopHeld
<1>3. QED  BY <1>1, <1>2

\* A handler of the store that proceeds is the only one whose step changes.
LEMMA ShopProceeds ==
  ASSUME ShopInv, NEW r \in Requests, NEW step \in Shop!Request, Shop!Proceed(r, step)
  PROVE  /\ shopReq' \in [Requests -> Shop!Request]
         /\ shopReq'[r] = step /\ \A x \in Requests : x # r => shopReq'[x] = shopReq[x]
  BY DEF Shop!Proceed, ShopInv, Shop!TypeOK

\* A step that reviews nothing, of a handler that has found no review to be missing.
LEMMA ShopPlain ==
  ASSUME ShopInv, overlap' = overlap, OrdersKept, ProductsStay,
         products' \in [Shop!ProductId -> Shop!Product \cup {None}],
         orders' \in [Shop!OrderId -> Shop!StoreOrder \cup {None}],
         \A o \in Shop!OrderId :
           orders'[o] # None /\ orders'[o].status = "Deliverd" => orders'[o].delivered,
         UNCHANGED productReviews, shopReq' \in [Requests -> Shop!Request],
         \A x \in Requests : \/ shopReq'[x] = shopReq[x]
                             \/ ShopHeld(shopReq'[x], products', orders'),
         \A p \in Shop!ProductId, u \in Students :
           \A x \in Requests : ProductReviewing(shopReq'[x], p, u) => ProductReviewing(shopReq[x], p, u)
  PROVE  ShopInv'
<1>1. ASSUME NEW p \in Shop!ProductId, NEW u \in Students
      PROVE  /\ Fit(productReviews[p][u], {x \in Requests : ProductReviewing(shopReq'[x], p, u)})
             /\ productReviews[p][u] > 0 => Delivered(orders', p, u)
  <2> DEFINE H == {x \in Requests : ProductReviewing(shopReq[x], p, u)}
             G == {x \in Requests : ProductReviewing(shopReq'[x], p, u)}
  <2>1. productReviews \in [Shop!ProductId -> [Students -> 0 .. MaxReview]] /\ overlap \in Nat
    BY DEF ShopInv, Shop!TypeOK
  <2>2. productReviews[p][u] \in Nat /\ productReviews[p][u] <= productReviews[p][u]
    BY <2>1
  <2>3. H \in SUBSET Requests /\ G \in SUBSET H /\ Fit(productReviews[p][u], H)
        /\ (productReviews[p][u] > 0 => Delivered(orders, p, u))
    BY DEF ShopInv, ProductReviews
  <2> HIDE DEF H, G
  <2>4. Fit(productReviews[p][u], G)
    BY <2>1, <2>2, <2>3, FitLess
  <2>5. productReviews[p][u] > 0 => Delivered(orders', p, u)
    BY <2>3, ShopStays
  <2>6. QED  BY <2>4, <2>5 DEF G
<1>2. ProductReviews'
  BY <1>1 DEF ProductReviews, Fit
<1>3. \A r \in Requests : ShopHeld(shopReq'[r], products', orders')
  BY ShopStays
<1>4. QED  BY <1>2, <1>3 DEF ShopInv, Shop!TypeOK

\* A handler reads what it starts with, or is done.
LEMMA ShopReads ==
  ASSUME ShopInv, overlap' = overlap, UNCHANGED Shop!tables, NEW r \in Requests,
         NEW step \in Shop!Request, Shop!Proceed(r, step), ShopHeld(step, products, orders),
         step.pc \in {"looking", "writing"} => step.found
  PROVE  ShopInv'
<1>1. OrdersKept /\ ProductsStay
  BY DEF Shop!tables, OrdersKept, ProductsStay
<1>2. \A p \in Shop!ProductId, u \in Students : \A x \in Requests :
        ProductReviewing(shopReq'[x], p, u) => ProductReviewing(shopReq[x], p, u)
  BY ShopProceeds DEF ProductReviewing
<1>3. \A x \in Requests : shopReq'[x] = shopReq[x] \/ ShopHeld(shopReq'[x], products', orders')
  BY ShopProceeds DEF Shop!tables
<1>4. QED  BY <1>1, <1>2, <1>3, ShopPlain, ShopProceeds DEF Shop!tables, ShopInv, Shop!TypeOK

\* Done, a handler holds nothing.
LEMMA ShopDone ==
  Shop!Idle \in Shop!Request /\ Shop!Idle.pc = "idle" /\ \A ps, os : ShopHeld(Shop!Idle, ps, os)
  BY DEF Shop!Idle, Shop!Request, ShopHeld

\* Who finds no review may write one: as many as overlap.
LEMMA FindReviewKeeps ==
  ASSUME ShopInv, overlap' = overlap, Within(shopReq'), NEW r \in Requests,
         NEW d \in Shop!ProductId, NEW v \in Students, Shop!FindReview(r, d, v)
  PROVE  ShopInv'
<1> DEFINE step == [pc |-> "looking", product |-> d, user |-> v, found |-> Shop!Reviewed(d, v)]
<1>1. step \in Shop!Request /\ ShopHeld(step, products, orders)
  BY DEF Shop!Request, ShopHeld, Shop!Reviewed
<1>2. Shop!Proceed(r, step) /\ UNCHANGED Shop!tables
  BY DEF Shop!FindReview, Shop!Start
<1>3. shopReq' \in [Requests -> Shop!Request] /\ shopReq'[r] = step
      /\ \A x \in Requests : x # r => shopReq'[x] = shopReq[x]
  BY <1>1, <1>2, ShopProceeds
<1>4. ASSUME NEW p \in Shop!ProductId, NEW u \in Students
      PROVE  /\ Fit(productReviews[p][u], {x \in Requests : ProductReviewing(shopReq'[x], p, u)})
             /\ productReviews[p][u] > 0 => Delivered(orders, p, u)
  <2> DEFINE H == {x \in Requests : ProductReviewing(shopReq[x], p, u)}
             G == {x \in Requests : ProductReviewing(shopReq'[x], p, u)}
  <2>1. productReviews \in [Shop!ProductId -> [Students -> 0 .. MaxReview]] /\ overlap \in Nat
    BY DEF ShopInv, Shop!TypeOK
  <2>2. productReviews[p][u] \in Nat /\ productReviews[p][u] <= productReviews[p][u]
    BY <2>1
  <2>3. H \in SUBSET Requests /\ Fit(productReviews[p][u], H)
        /\ (productReviews[p][u] > 0 => Delivered(orders, p, u))
    BY DEF ShopInv, ProductReviews
  <2>4. CASE ProductReviewing(step, p, u)
    <3>1. ~ Shop!Reviewed(p, u)
      BY <2>4, Zenon DEF ProductReviewing
    <3>2. productReviews[p][u] = 0
      BY <3>1, <2>2 DEF Shop!Reviewed
    <3>3. G \in SUBSET Busy(shopReq')
      BY DEF ProductReviewing, Busy
    <3>4. Fit(0, G)
      BY <2>1, <3>3, FitStarted
    <3>5. QED  BY <2>3, <3>2, <3>4
  <2>5. CASE ~ ProductReviewing(step, p, u)
    <3>1. G \in SUBSET H
      BY <1>3, <2>5
    <3> HIDE DEF H, G
    <3>2. Fit(productReviews[p][u], G)
      BY <2>1, <2>2, <2>3, <3>1, FitLess
    <3>3. QED  BY <2>3, <3>2 DEF G
  <2>6. QED  BY <2>4, <2>5
<1>5. ProductReviews'
  BY <1>2, <1>4 DEF ProductReviews, Fit, Shop!tables
<1>6. \A x \in Requests : ShopHeld(shopReq'[x], products, orders)
  BY <1>1, <1>3 DEF ShopInv
<1>7. QED  BY <1>2, <1>3, <1>5, <1>6 DEF ShopInv, Shop!TypeOK, Shop!tables

\* A review is written by one of them, for an order that was delivered.
LEMMA WriteReviewKeeps ==
  ASSUME ShopInv, overlap' = overlap, NEW r \in Requests, Shop!WriteReview(r)
  PROVE  ShopInv'
<1> DEFINE d == shopReq[r].product
           v == shopReq[r].user
<1>1. shopReq[r].pc = "writing" /\ Shop!Proceed(r, Shop!Idle) /\ UNCHANGED <<products, orders>>
  BY DEF Shop!WriteReview
<1>2. d \in Shop!ProductId /\ v \in Students /\ shopReq[r].found \in BOOLEAN
      /\ Delivered(orders, d, v)
  BY <1>1, ShopFields DEF ShopInv, ShopHeld
<1>typ. productReviews \in [Shop!ProductId -> [Students -> 0 .. MaxReview]] /\ overlap \in Nat
  BY DEF ShopInv, Shop!TypeOK
<1>3. CASE shopReq[r].found
  <2>1. UNCHANGED Shop!tables
    BY <1>1, <1>3 DEF Shop!WriteReview, Shop!tables
  <2>2. QED  BY <1>1, <2>1, ShopDone, ShopReads
<1>4. CASE ~ shopReq[r].found
  <2>1. productReviews' = [productReviews EXCEPT ![d] = [productReviews[d] EXCEPT ![v] = @ + 1]]
        /\ productReviews[d][v] < MaxReview
    BY <1>2, <1>4, <1>typ DEF Shop!WriteReview
  <2>2. productReviews[d] \in [Students -> 0 .. MaxReview] /\ productReviews[d][v] + 1 \in 0 .. MaxReview
    BY <2>1, <1>2, <1>typ, PlatformBounds
  <2>3. productReviews' \in [Shop!ProductId -> [Students -> 0 .. MaxReview]]
    BY <2>1, <2>2, <1>2, <1>typ
  <2>4. shopReq' \in [Requests -> Shop!Request] /\ shopReq'[r] = Shop!Idle
        /\ \A x \in Requests : x # r => shopReq'[x] = shopReq[x]
    BY <1>1, ShopDone, ShopProceeds
  <2>5. ASSUME NEW p \in Shop!ProductId, NEW u \in Students
        PROVE  /\ Fit(productReviews'[p][u], {x \in Requests : ProductReviewing(shopReq'[x], p, u)})
               /\ productReviews'[p][u] > 0 => Delivered(orders, p, u)
    <3> DEFINE H == {x \in Requests : ProductReviewing(shopReq[x], p, u)}
               G == {x \in Requests : ProductReviewing(shopReq'[x], p, u)}
    <3>1. productReviews[p][u] \in Nat
      BY <1>typ
    <3>2. H \in SUBSET Requests /\ Fit(productReviews[p][u], H)
          /\ (productReviews[p][u] > 0 => Delivered(orders, p, u))
      BY DEF ShopInv, ProductReviews
    <3>3. G \in SUBSET (H \ {r}) /\ G \in SUBSET H
      BY <2>4, ShopDone DEF ProductReviewing
    <3>4. CASE p = d /\ u = v
      <4>1. productReviews'[p][u] = productReviews[p][u] + 1
        BY <2>1, <2>2, <1>2, <1>typ, <3>4
      <4>2. r \in H
        BY <1>1, <1>4, <3>4 DEF ProductReviewing
      <4>3. productReviews[p][u] + 1 \in Nat /\ productReviews[p][u] + 1 <= productReviews[p][u] + 1
        BY <3>1
      <4> HIDE DEF H, G
      <4>4. Fit(productReviews[p][u] + 1, G)
        BY <3>1, <3>2, <3>3, <4>2, <4>3, <1>typ, FitWritten
      <4>5. Delivered(orders, p, u)
        BY <1>2, <3>4
      <4>6. QED  BY <4>1, <4>4, <4>5 DEF G
    <3>5. CASE ~ (p = d /\ u = v)
      <4>1. productReviews'[p][u] = productReviews[p][u]
        BY <2>1, <2>2, <1>2, <1>typ, <3>5
      <4>2. productReviews[p][u] <= productReviews[p][u]
        BY <3>1
      <4> HIDE DEF H, G
      <4>3. Fit(productReviews[p][u], G)
        BY <3>1, <3>2, <3>3, <4>2, <1>typ, FitLess
      <4>4. QED  BY <4>1, <4>3, <3>2 DEF G
    <3>6. QED  BY <3>4, <3>5
  <2>6. ProductReviews'
    BY <1>1, <2>5 DEF ProductReviews, Fit
  <2>7. \A x \in Requests : ShopHeld(shopReq'[x], products, orders)
    BY <2>4, ShopDone DEF ShopInv
  <2>8. QED  BY <1>1, <2>3, <2>4, <2>6, <2>7 DEF ShopInv, Shop!TypeOK
<1>5. QED  BY <1>2, <1>3, <1>4

\* Products that are written stay,
LEMMA ProductWritten ==
  ASSUME ShopInv, overlap' = overlap, UNCHANGED <<orders, productReviews>>,
         NEW d \in Shop!ProductId, NEW row \in Shop!Product,
         products' = [products EXCEPT ![d] = row],
         \/ UNCHANGED shopReq
         \/ \E r \in Requests : Shop!Proceed(r, Shop!Idle)
  PROVE  ShopInv'
<1>1. products' \in [Shop!ProductId -> Shop!Product \cup {None}] /\ ProductsStay
  BY NoneIsNoRow DEF ShopInv, Shop!TypeOK, ProductsStay
<1>2. OrdersKept
  BY DEF OrdersKept
<1>3. shopReq' \in [Requests -> Shop!Request]
      /\ \A x \in Requests : shopReq'[x] = shopReq[x] \/ shopReq'[x] = Shop!Idle
  BY ShopDone, ShopProceeds DEF ShopInv, Shop!TypeOK
<1>4. /\ \A x \in Requests : shopReq'[x] = shopReq[x] \/ ShopHeld(shopReq'[x], products', orders')
      /\ \A p \in Shop!ProductId, u \in Students : \A x \in Requests :
           ProductReviewing(shopReq'[x], p, u) => ProductReviewing(shopReq[x], p, u)
  BY <1>3, ShopDone DEF ProductReviewing
<1>5. QED  BY <1>1, <1>2, <1>3, <1>4, ShopPlain DEF ShopInv, Shop!TypeOK

\* ... and so do orders, whoever they are of and whatever they are for.
LEMMA OrderWritten ==
  ASSUME ShopInv, overlap' = overlap, UNCHANGED <<products, productReviews>>,
         NEW o \in Shop!OrderId, NEW row \in Shop!StoreOrder,
         orders' = [orders EXCEPT ![o] = row],
         row.status = "Deliverd" => row.delivered,
         orders[o] # None => /\ row.user = orders[o].user /\ row.products = orders[o].products
                             /\ orders[o].delivered => row.delivered,
         NEW r \in Requests, Shop!Proceed(r, Shop!Idle)
  PROVE  ShopInv'
<1>typ. orders \in [Shop!OrderId -> Shop!StoreOrder \cup {None}] /\ row # None
  BY NoneIsNoRow DEF ShopInv, Shop!TypeOK
<1>1. orders' \in [Shop!OrderId -> Shop!StoreOrder \cup {None}]
  BY <1>typ
<1>2. OrdersKept /\ ProductsStay
  BY <1>typ DEF OrdersKept, ProductsStay
<1>3. \A k \in Shop!OrderId : orders'[k] # None /\ orders'[k].status = "Deliverd" => orders'[k].delivered
  BY <1>typ DEF ShopInv
<1>4. shopReq' \in [Requests -> Shop!Request]
      /\ \A x \in Requests : shopReq'[x] = shopReq[x] \/ shopReq'[x] = Shop!Idle
  BY ShopDone, ShopProceeds
<1>5. /\ \A x \in Requests : shopReq'[x] = shopReq[x] \/ ShopHeld(shopReq'[x], products', orders')
      /\ \A p \in Shop!ProductId, u \in Students : \A x \in Requests :
           ProductReviewing(shopReq'[x], p, u) => ProductReviewing(shopReq[x], p, u)
  BY <1>4, ShopDone DEF ProductReviewing
<1>6. QED  BY <1>1, <1>2, <1>3, <1>4, <1>5, ShopPlain DEF ShopInv, Shop!TypeOK

\* Every step keeps the invariant of the store.
LEMMA NextShop ==
  ASSUME ShopInv, [PlatformNext]_platform
  PROVE  ShopInv'
<1>ov. overlap' = overlap
  BY ShopSteps
<1>typ. /\ products \in [Shop!ProductId -> Shop!Product \cup {None}]
        /\ orders \in [Shop!OrderId -> Shop!StoreOrder \cup {None}]
        /\ \A x \in Requests : ShopHeld(shopReq[x], products, orders)
  BY DEF ShopInv, Shop!TypeOK
<1>1. ASSUME NEW d \in Shop!ProductId, NEW available \in BOOLEAN, Shop!CreateProduct(d, available)
      PROVE  ShopInv'
  <2>1. [available |-> available, deleted |-> FALSE] \in Shop!Product
    BY DEF Shop!Product
  <2>2. QED  BY <1>1, <1>ov, <2>1, ProductWritten DEF Shop!CreateProduct
<1>2. ASSUME NEW r \in Requests, Shop!UpdateProduct(r) PROVE ShopInv'
  <2> DEFINE d == shopReq[r].product
             row == [products[d] EXCEPT !.available = shopReq[r].available]
  <2>1. d \in Shop!ProductId /\ shopReq[r].available \in BOOLEAN /\ products[d] \in Shop!Product
    BY <1>2, <1>typ, ShopFields DEF Shop!UpdateProduct, ShopInv, ShopHeld
  <2>2. row \in Shop!Product
    BY <2>1 DEF Shop!Product
  <2>3. products' = [products EXCEPT ![d] = row] /\ Shop!Proceed(r, Shop!Idle)
        /\ UNCHANGED <<orders, productReviews>>
    BY <1>2, <1>typ DEF Shop!UpdateProduct
  <2>4. QED  BY <2>1, <2>2, <2>3, <1>ov, ProductWritten
<1>3. ASSUME NEW r \in Requests, Shop!DeleteProduct(r) PROVE ShopInv'
  <2> DEFINE d == shopReq[r].product
             row == [products[d] EXCEPT !.deleted = TRUE]
  <2>1. d \in Shop!ProductId /\ products[d] \in Shop!Product
    BY <1>3, <1>typ, ShopFields DEF Shop!DeleteProduct, ShopInv, ShopHeld
  <2>2. row \in Shop!Product
    BY <2>1 DEF Shop!Product
  <2>3. products' = [products EXCEPT ![d] = row] /\ Shop!Proceed(r, Shop!Idle)
        /\ UNCHANGED <<orders, productReviews>>
    BY <1>3, <1>typ DEF Shop!DeleteProduct
  <2>4. QED  BY <2>1, <2>2, <2>3, <1>ov, ProductWritten
<1>4. ASSUME NEW r \in Requests, NEW o \in Shop!OrderId, Shop!CreateStoreOrder(r, o) PROVE ShopInv'
  <2> DEFINE row == [user |-> shopReq[r].user, products |-> shopReq[r].products,
                     status |-> "Paid", delivered |-> FALSE]
  <2>1. row \in Shop!StoreOrder /\ row.status = "Paid"
    BY <1>4, ShopFields DEF Shop!CreateStoreOrder, ShopInv, Shop!StoreOrder, Shop!Status
  <2>2. orders[o] = None /\ orders' = [orders EXCEPT ![o] = row] /\ Shop!Proceed(r, Shop!Idle)
        /\ UNCHANGED <<products, productReviews>>
    BY <1>4 DEF Shop!CreateStoreOrder, Shop!Orders
  <2> HIDE DEF row
  <2>3. QED  BY <2>1, <2>2, <1>ov, OrderWritten
<1>5. ASSUME NEW r \in Requests, Shop!UpdateStoreOrder(r) PROVE ShopInv'
  <2> DEFINE o == shopReq[r].order
             row == [orders[o] EXCEPT !.status = shopReq[r].status,
                                      !.delivered = @ \/ shopReq[r].status = "Deliverd"]
  <2>1. o \in Shop!OrderId /\ shopReq[r].status \in Shop!Status /\ orders[o] \in Shop!StoreOrder
    BY <1>5, <1>typ, ShopFields DEF Shop!UpdateStoreOrder, ShopInv, ShopHeld
  <2>2. (orders[o].delivered \/ shopReq[r].status = "Deliverd") \in BOOLEAN
    OBVIOUS
  <2>3. /\ row \in Shop!StoreOrder /\ row.user = orders[o].user /\ row.products = orders[o].products
        /\ row.status = shopReq[r].status
        /\ row.delivered = (orders[o].delivered \/ shopReq[r].status = "Deliverd")
    BY <2>1, <2>2 DEF Shop!StoreOrder
  <2>4. orders' = [orders EXCEPT ![o] = row] /\ Shop!Proceed(r, Shop!Idle)
        /\ UNCHANGED <<products, productReviews>>
    BY <1>5, <1>typ DEF Shop!UpdateStoreOrder
  <2>5. /\ row.status = "Deliverd" => row.delivered
        /\ orders[o].delivered => row.delivered
    BY <2>3, Zenon
  <2> HIDE DEF row
  <2>6. QED  BY <2>1, <2>3, <2>4, <2>5, <1>ov, OrderWritten
<1>6. ASSUME NEW r \in Requests, NEW d \in Shop!ProductId,
             \/ \E available \in BOOLEAN : Shop!FindForUpdate(r, d, available)
             \/ Shop!FindForDelete(r, d)
      PROVE  ShopInv'
  <2>1. \E available \in BOOLEAN :
          LET update == [pc |-> "updating", product |-> d, available |-> available]
              delete == [pc |-> "deleting", product |-> d]
          IN /\ products[d] # None /\ UNCHANGED Shop!tables
             /\ Shop!Proceed(r, update) \/ Shop!Proceed(r, delete)
    BY <1>6 DEF Shop!FindForUpdate, Shop!FindForDelete, Shop!Found, Shop!Raw, Shop!Start
  <2>2. PICK available \in BOOLEAN :
          /\ products[d] # None /\ UNCHANGED Shop!tables
          /\ \/ Shop!Proceed(r, [pc |-> "updating", product |-> d, available |-> available])
             \/ Shop!Proceed(r, [pc |-> "deleting", product |-> d])
    BY <2>1
  <2> DEFINE update == [pc |-> "updating", product |-> d, available |-> available]
             delete == [pc |-> "deleting", product |-> d]
  <2>3. update \in Shop!Request /\ delete \in Shop!Request
    BY DEF Shop!Request
  <2>4. ShopHeld(update, products, orders) /\ ShopHeld(delete, products, orders)
    BY <2>2 DEF ShopHeld
  <2>5. update.pc = "updating" /\ delete.pc = "deleting"
    OBVIOUS
  <2> HIDE DEF update, delete
  <2>6. CASE Shop!Proceed(r, update)
    BY <2>2, <2>3, <2>4, <2>5, <2>6, <1>ov, ShopReads
  <2>7. CASE Shop!Proceed(r, delete)
    BY <2>2, <2>3, <2>4, <2>5, <2>7, <1>ov, ShopReads
  <2>8. QED  BY <2>2, <2>6, <2>7 DEF update, delete
<1>7. ASSUME NEW r \in Requests, NEW u \in Students, NEW ps \in SUBSET Shop!ProductId,
             Shop!PlaceOrder(r, u, ps)
      PROVE  ShopInv'
  <2> DEFINE step == [pc |-> "paying", user |-> u, products |-> Shop!Sold(ps)]
  <2>1. step \in Shop!Request /\ step.pc = "paying" /\ ShopHeld(step, products, orders)
    BY DEF Shop!Request, Shop!Sold, ShopHeld
  <2>2. Shop!Proceed(r, step) /\ UNCHANGED Shop!tables
    BY <1>7 DEF Shop!PlaceOrder, Shop!Start
  <2> HIDE DEF step
  <2>3. QED  BY <2>1, <2>2, <1>ov, ShopReads
<1>8. ASSUME NEW r \in Requests, NEW o \in Shop!OrderId, NEW status \in Shop!Status,
             Shop!FindStoreOrder(r, o, status)
      PROVE  ShopInv'
  <2> DEFINE step == [pc |-> "moving", order |-> o, status |-> status]
  <2>1. step \in Shop!Request /\ step.pc = "moving"
    BY DEF Shop!Request
  <2>2. Shop!Proceed(r, step) /\ UNCHANGED Shop!tables /\ ShopHeld(step, products, orders)
    BY <1>8 DEF Shop!FindStoreOrder, Shop!Orders, Shop!Start, ShopHeld
  <2> HIDE DEF step
  <2>3. QED  BY <2>1, <2>2, <1>ov, ShopReads
<1>9. ASSUME NEW r \in Requests, Shop!FindOrder(r) PROVE ShopInv'
  <2> DEFINE q == shopReq[r]
             step == [q EXCEPT !.pc = "writing"]
  <2>1. q \in [pc : {"looking", "writing"}, product : Shop!ProductId, user : Students, found : BOOLEAN]
        /\ Shop!Proceed(r, step) /\ UNCHANGED Shop!tables /\ q.pc = "looking"
    BY <1>9, ShopFields DEF Shop!FindOrder, ShopInv
  <2>2. /\ step \in Shop!Request /\ step.pc = "writing" /\ step.product = q.product
        /\ step.user = q.user /\ step.found = q.found
        /\ q.product \in Shop!ProductId /\ q.user \in Students
    BY <2>1 DEF Shop!Request
  <2>3. Delivered(orders, q.product, q.user)
    BY <1>9 DEF Shop!FindOrder, Shop!Bought, Shop!OrdersOf, Shop!Orders, Delivered, ShopInv
  <2>4. ShopHeld(step, products, orders)
    BY <2>2, <2>3 DEF ShopHeld
  <2> HIDE DEF step
  <2>5. shopReq' \in [Requests -> Shop!Request] /\ shopReq'[r] = step
        /\ \A x \in Requests : x # r => shopReq'[x] = shopReq[x]
    BY <2>1, <2>2, ShopProceeds
  <2>6. \A p \in Shop!ProductId, u \in Students : \A x \in Requests :
          ProductReviewing(shopReq'[x], p, u) => ProductReviewing(shopReq[x], p, u)
    BY <2>1, <2>2, <2>5 DEF ProductReviewing
  <2>7. \A x \in Requests : shopReq'[x] = shopReq[x] \/ ShopHeld(shopReq'[x], products', orders')
    BY <2>1, <2>4, <2>5 DEF Shop!tables
  <2>8. OrdersKept /\ ProductsStay
    BY <2>1 DEF Shop!tables, OrdersKept, ProductsStay
  <2>9. QED  BY <1>ov, <2>1, <2>5, <2>6, <2>7, <2>8, ShopPlain DEF Shop!tables, ShopInv, Shop!TypeOK
<1>10. ASSUME NEW r \in Requests, NEW d \in Shop!ProductId, NEW u \in Students,
              Shop!FindReview(r, d, u), Within(shopReq')
       PROVE  ShopInv'
  BY <1>10, <1>ov, FindReviewKeeps
<1>11. ASSUME NEW r \in Requests, Shop!WriteReview(r) PROVE ShopInv'
  BY <1>11, <1>ov, WriteReviewKeeps
<1>12. ASSUME NEW r \in Requests, Shop!Fail(r) PROVE ShopInv'
  BY <1>12, <1>ov, ShopDone, ShopReads DEF Shop!Fail
<1>13. CASE UNCHANGED storeVars
  BY <1>13, <1>ov, ShopPlain DEF storeVars, ShopInv, Shop!TypeOK, OrdersKept, ProductsStay
<1>14. CASE Shop!Next /\ Within(shopReq')
  BY <1>14, <1>1, <1>2, <1>3, <1>4, <1>5, <1>6, <1>7, <1>8, <1>9, <1>10, <1>11, <1>12 DEF Shop!Next
<1>15. QED  BY <1>13, <1>14, ShopSteps

\* The invariant of the store holds in every behaviour.
LEMMA ShopInvariant == PlatformSpec => []ShopInv
<1>1. ShopInv /\ [PlatformNext]_platform => ShopInv'
  BY NextShop
<1>2. QED  BY <1>1, InitShop, PTL DEF PlatformSpec

\* Who reviewed a product has had it delivered, whatever became of the order while the
\* review was written.
THEOREM ReviewersHadIt == PlatformSpec => []ReviewedWasDelivered
<1>1. ASSUME ShopInv PROVE ReviewedWasDelivered
  BY <1>1 DEF ShopInv, ProductReviews, Delivered, ReviewedWasDelivered, Shop!ReviewedWasDelivered,
     Shop!ListedReviews, Shop!Reviewed, Shop!OrdersOf, Shop!Orders
<1>2. ShopInv => ReviewedWasDelivered
  BY <1>1
<1>3. QED  BY <1>2, ShopInvariant, PTL

-----------------------------------------------------------------------------
(* Threads and blogs.                                                       *)

PostRow == Forum!Thread \cup Forum!Blog

FeedbackRow == [post : Forum!PostId, user : Students]

\* A handler that will write to the post.
Touching(q, p) == q.pc \in {"updating", "commenting", "asking", "reacting"} /\ q.post = p

\* A handler that has found no feedback of the user.
Reacting(q, p, u) == q.pc = "reacting" /\ q.post = p /\ q.user = u

\* One of those that overlap deletes the thread; blogs are deleted by none of them.
Deleting(row) == IF row.owner = None THEN 0 ELSE 1

PostHeld(q, ps) ==
  /\ q.pc \in {"updating", "deleting", "commenting", "asking", "reacting"} => ps[q.post] # None
  /\ q.pc = "deleting" => ps[q.post].owner # None

\* Only what is deleted is written to late, by those that had found it.
LateFor(row, handlers) ==
  IF row.deleted THEN Fit(row.late + Deleting(row), handlers) ELSE row.late = 0

LateWrites ==
  \A p \in Forum!PostId :
    posts[p] # None => LateFor(posts[p], {r \in Requests : Touching(forumReq[r], p)})

FeedbackOf(fs, p, u) == {f \in Forum!FeedbackId : fs[f] = [post |-> p, user |-> u]}

Reactions ==
  \A p \in Forum!PostId, u \in Students :
    Fit(Cardinality(FeedbackOf(feedbacks, p, u)), {r \in Requests : Reacting(forumReq[r], p, u)})

ForumInv ==
  /\ overlap \in Nat /\ overlap >= 1
  /\ Forum!TypeOK
  /\ Within(forumReq)
  /\ \A r \in Requests : PostHeld(forumReq[r], posts)
  /\ LateWrites /\ Reactions

\* Of the community every step is its own, with as many handlers as overlap, or none.
LEMMA ForumSteps ==
  ASSUME [PlatformNext]_platform
  PROVE  /\ overlap' = overlap
         /\ (Forum!Next /\ Within(forumReq')) \/ UNCHANGED communityVars
  BY DEF PlatformNext, platform, LectureStep, CatalogueStep, CommunityStep, SupportStep,
     StoreStep, NoticeStep, RewardStep, PricingStep, UploadStep, AccountStep

\* When none is busy, the handlers are within what overlaps.
LEMMA NoneBusy ==
  ASSUME overlap \in Nat, NEW handlers, \A r \in Requests : handlers[r].pc = "idle"
  PROVE  Within(handlers)
<1>1. Busy(handlers) = {}
  BY DEF Busy
<1>2. QED  BY <1>1, FS_EmptySet DEF Within

\* Nothing fits without handlers.
LEMMA FitNothing ==
  ASSUME overlap \in Nat, NEW S, S = {}
  PROVE  Fit(0, S)
<1>1. overlap >= 0 /\ Cardinality(S) = 0
  BY FS_EmptySet
<1>2. QED  BY <1>1 DEF Fit

\* At first nothing is posted.
LEMMA InitForum == PlatformInit => ForumInv
<1> SUFFICES ASSUME PlatformInit PROVE ForumInv
  OBVIOUS
<1>1. Forum!Init /\ overlap \in Nat /\ overlap >= 1
  BY HandlersAssumption, FS_CardinalityType DEF PlatformInit
<1>2. \A r \in Requests : forumReq[r] = [pc |-> "idle"]
  BY <1>1 DEF Forum!Init, Forum!Idle
<1>3. Forum!TypeOK
  BY <1>1, <1>2, PlatformBounds DEF Forum!Init, Forum!TypeOK, Forum!Request, Forum!Idle
<1>4. Within(forumReq)
  BY <1>1, <1>2, NoneBusy
<1>5. Reactions
  <2>1. \A p \in Forum!PostId, u \in Students :
          FeedbackOf(feedbacks, p, u) = {} /\ {r \in Requests : Reacting(forumReq[r], p, u)} = {}
    <3>1. \A p \in Forum!PostId, u \in Students : [post |-> p, user |-> u] # None
      BY NoneIsNoRow
    <3>2. QED  BY <3>1, <1>1, <1>2 DEF Forum!Init, FeedbackOf, Reacting
  <2>2. QED  BY <2>1, <1>1, FitNothing, FS_EmptySet DEF Reactions
<1>6. LateWrites /\ \A r \in Requests : PostHeld(forumReq[r], posts)
  BY <1>1, <1>2 DEF Forum!Init, LateWrites, PostHeld
<1>7. QED  BY <1>1, <1>3, <1>4, <1>5, <1>6 DEF ForumInv

\* What a handler of the community holds has its fields.
LEMMA ForumFields ==
  ASSUME Forum!TypeOK, NEW r \in Requests
  PROVE  /\ forumReq[r] \in Forum!Request
         /\ forumReq[r].pc \in {"updating", "deleting", "commenting", "asking", "reacting"} =>
              forumReq[r].post \in Forum!PostId
         /\ forumReq[r].pc \in {"commenting", "asking", "reacting"} =>
              /\ forumReq[r] \in [pc : {"commenting", "asking", "reacting"}, post : Forum!PostId,
                                  user : Students]
              /\ forumReq[r].user \in Students
         /\ forumReq[r].pc = "retracting" => forumReq[r].feedback \in Forum!FeedbackId
<1>1. forumReq[r] \in Forum!Request
  BY DEF Forum!TypeOK
<1>2. QED  BY <1>1 DEF Forum!Request, Forum!Idle

\* A handler of the community that proceeds is the only one whose step changes.
LEMMA ForumProceeds ==
  ASSUME Forum!TypeOK, NEW r \in Requests, NEW step \in Forum!Request, Forum!Proceed(r, step)
  PROVE  /\ forumReq' \in [Requests -> Forum!Request]
         /\ forumReq'[r] = step /\ \A x \in Requests : x # r => forumReq'[x] = forumReq[x]
  BY DEF Forum!Proceed, Forum!TypeOK

\* The fields of posts.
LEMMA PostFields ==
  ASSUME NEW row \in PostRow
  PROVE  /\ row.deleted \in BOOLEAN /\ row.late \in 0 .. MaxComment
         /\ row.late \in Nat /\ Deleting(row) \in Nat
         /\ row # None
<1>1. row.deleted \in BOOLEAN /\ row.late \in 0 .. MaxComment
  BY DEF PostRow, Forum!Thread, Forum!Blog
<1>2. row.late \in Nat
  BY <1>1
<1>3. Deleting(row) \in Nat
  BY DEF Deleting
<1>4. row # None
  BY NoneIsNoRow DEF PostRow
<1>5. QED  BY <1>1, <1>2, <1>3, <1>4

\* A post that is deleted.
LEMMA PostDeleted ==
  ASSUME NEW row \in PostRow
  PROVE  /\ [row EXCEPT !.deleted = TRUE] \in PostRow
         /\ [row EXCEPT !.deleted = TRUE].deleted
         /\ [row EXCEPT !.deleted = TRUE].late = row.late
         /\ [row EXCEPT !.deleted = TRUE].owner = row.owner
<1>1. CASE row \in Forum!Thread
  BY <1>1 DEF PostRow, Forum!Thread
<1>2. CASE row \in Forum!Blog
  BY <1>2 DEF PostRow, Forum!Blog
<1>3. QED  BY <1>1, <1>2 DEF PostRow

\* A post that is written to late, or not.
LEMMA PostLate ==
  ASSUME NEW row \in PostRow, NEW n \in 0 .. MaxComment
  PROVE  /\ [row EXCEPT !.late = n] \in PostRow
         /\ [row EXCEPT !.late = n].deleted = row.deleted
         /\ [row EXCEPT !.late = n].late = n
         /\ [row EXCEPT !.late = n].owner = row.owner
<1>1. CASE row \in Forum!Thread
  BY <1>1 DEF PostRow, Forum!Thread
<1>2. CASE row \in Forum!Blog
  BY <1>2 DEF PostRow, Forum!Blog
<1>3. QED  BY <1>1, <1>2 DEF PostRow

\* Fewer handlers write late no more.
LEMMA LateLess ==
  ASSUME overlap \in Nat, NEW row \in PostRow, NEW S \in SUBSET Requests, NEW T \in SUBSET S,
         LateFor(row, S)
  PROVE  LateFor(row, T)
<1>1. row.late \in Nat /\ Deleting(row) \in Nat
  BY PostFields
<1>2. row.late + Deleting(row) \in Nat /\ row.late + Deleting(row) <= row.late + Deleting(row)
  BY <1>1
<1>3. CASE row.deleted
  <2>1. Fit(row.late + Deleting(row), S)
    BY <1>3 DEF LateFor
  <2>2. Fit(row.late + Deleting(row), T)
    BY <1>2, <2>1, FitLess
  <2>3. QED  BY <1>3, <2>2 DEF LateFor
<1>4. CASE ~ row.deleted
  BY <1>4 DEF LateFor
<1>5. QED  BY <1>3, <1>4

\* One of them writes.
LEMMA LateWritten ==
  ASSUME overlap \in Nat, NEW row \in PostRow, NEW S \in SUBSET Requests, NEW r \in S,
         NEW T \in SUBSET (S \ {r}), LateFor(row, S),
         NEW n \in 0 .. MaxComment, n = IF row.deleted THEN row.late + 1 ELSE row.late
  PROVE  LateFor([row EXCEPT !.late = n], T)
<1> DEFINE new == [row EXCEPT !.late = n]
<1>1. new.deleted = row.deleted /\ new.late = n /\ new.owner = row.owner
  BY PostLate
<1>2. CASE row.deleted
  <2>1. n = row.late + 1 /\ Deleting(new) = Deleting(row)
    BY <1>1, <1>2 DEF Deleting
  <2>a. row.late \in Nat /\ Deleting(row) \in Nat
    BY PostFields
  <2>2. row.late + Deleting(row) \in Nat /\ n + Deleting(row) \in Nat
        /\ n + Deleting(row) <= row.late + Deleting(row) + 1
    BY <2>1, <2>a
  <2>3. Fit(row.late + Deleting(row), S)
    BY <1>2 DEF LateFor
  <2>4. Fit(n + Deleting(row), T)
    BY <2>2, <2>3, FitWritten
  <2> HIDE DEF new
  <2>5. QED  BY <1>1, <1>2, <2>1, <2>4 DEF LateFor, new
<1>3. CASE ~ row.deleted
  <2> HIDE DEF new
  <2>1. QED  BY <1>1, <1>3 DEF LateFor, new
<1>4. QED  BY <1>2, <1>3

\* Who deletes a thread is one of those that overlap, and writes nothing late.
LEMMA ThreadDeleted ==
  ASSUME overlap \in Nat, Within(forumReq), NEW row \in PostRow, row.owner # None,
         NEW r \in Busy(forumReq), NEW S \in SUBSET Requests, LateFor(row, S),
         NEW T \in SUBSET S, T \subseteq Busy(forumReq) \ {r}
  PROVE  LateFor([row EXCEPT !.deleted = TRUE], T)
<1> DEFINE new == [row EXCEPT !.deleted = TRUE]
<1>1. new.deleted /\ new.late = row.late /\ new.owner = row.owner
  BY PostDeleted
<1>2. Deleting(new) = 1 /\ Deleting(row) = 1
  BY <1>1 DEF Deleting
<1>3. CASE row.deleted
  <2>1. LateFor(row, T)
    BY LateLess
  <2> HIDE DEF new
  <2>2. QED  BY <1>1, <1>2, <1>3, <2>1 DEF LateFor, new
<1>4. CASE ~ row.deleted
  <2>1. row.late = 0
    BY <1>4 DEF LateFor
  <2>2. Busy(forumReq) \in SUBSET Requests /\ Busy(forumReq) \in SUBSET Busy(forumReq)
    BY DEF Busy
  <2>3. Fit(0, Busy(forumReq))
    BY <2>2, FitStarted
  <2>4. Fit(1, T)
    BY <2>2, <2>3, FitWritten
  <2> HIDE DEF new
  <2>5. QED  BY <1>1, <1>2, <2>1, <2>4 DEF LateFor, new
<1>5. QED  BY <1>3, <1>4

\* Who deletes a blog need not be.
LEMMA BlogDeleted ==
  ASSUME overlap \in Nat, Within(forumReq), NEW row \in PostRow, row.owner = None,
         NEW S \in SUBSET Requests, LateFor(row, S), S \subseteq Busy(forumReq)
  PROVE  LateFor([row EXCEPT !.deleted = TRUE], S)
<1> DEFINE new == [row EXCEPT !.deleted = TRUE]
<1>1. new.deleted /\ new.late = row.late /\ new.owner = row.owner
  BY PostDeleted
<1>2. Deleting(new) = 0 /\ Deleting(row) = 0
  BY <1>1 DEF Deleting
<1>3. CASE row.deleted
  <2> HIDE DEF new
  <2>1. QED  BY <1>1, <1>2, <1>3 DEF LateFor, new
<1>4. CASE ~ row.deleted
  <2>1. row.late = 0
    BY <1>4 DEF LateFor
  <2>2. Fit(0, S)
    BY FitStarted
  <2> HIDE DEF new
  <2>3. QED  BY <1>1, <1>2, <2>1, <2>2 DEF LateFor, new
<1>5. QED  BY <1>3, <1>4

\* Of a post that is not written, when no handler comes to write to it unless it may.
LEMMA LatePart ==
  ASSUME ForumInv, NEW p \in Forum!PostId, posts'[p] = posts[p], posts[p] # None,
         \/ ~ posts[p].deleted
         \/ \A x \in Requests : Touching(forumReq'[x], p) => Touching(forumReq[x], p)
  PROVE  LateFor(posts'[p], {x \in Requests : Touching(forumReq'[x], p)})
<1> DEFINE S == {x \in Requests : Touching(forumReq[x], p)}
           T == {x \in Requests : Touching(forumReq'[x], p)}
<1>1. posts[p] \in PostRow /\ overlap \in Nat /\ LateFor(posts[p], S)
  BY DEF ForumInv, Forum!TypeOK, LateWrites, PostRow
<1>2. CASE ~ posts[p].deleted
  BY <1>1, <1>2 DEF LateFor
<1>3. CASE \A x \in Requests : Touching(forumReq'[x], p) => Touching(forumReq[x], p)
  <2>1. S \in SUBSET Requests /\ T \in SUBSET S
    BY <1>3
  <2> HIDE DEF S, T
  <2>2. LateFor(posts[p], T)
    BY <1>1, <2>1, LateLess
  <2>3. QED  BY <2>2 DEF T
<1>4. QED  BY <1>2, <1>3

\* The rows of feedback are finitely many.
LEMMA FeedbackFinite ==
  ASSUME NEW fs, NEW p, NEW u
  PROVE  /\ IsFiniteSet(FeedbackOf(fs, p, u)) /\ Cardinality(FeedbackOf(fs, p, u)) \in Nat
         /\ \A T \in SUBSET FeedbackOf(fs, p, u) :
              Cardinality(T) \in Nat /\ Cardinality(T) <= Cardinality(FeedbackOf(fs, p, u))
<1>1. IsFiniteSet(Forum!FeedbackId) /\ FeedbackOf(fs, p, u) \in SUBSET Forum!FeedbackId
  BY PlatformBounds, FS_Interval DEF Forum!FeedbackId, FeedbackOf
<1>2. IsFiniteSet(FeedbackOf(fs, p, u)) /\ Cardinality(FeedbackOf(fs, p, u)) \in Nat
  BY <1>1, FS_Subset, FS_CardinalityType
<1>3. QED  BY <1>2, FS_Subset, FS_CardinalityType

\* Of feedback that is not given, by handlers that are not more.
LEMMA ReactPart ==
  ASSUME ForumInv, NEW p \in Forum!PostId, NEW u \in Students,
         FeedbackOf(feedbacks', p, u) \subseteq FeedbackOf(feedbacks, p, u),
         \A x \in Requests : Reacting(forumReq'[x], p, u) => Reacting(forumReq[x], p, u)
  PROVE  Fit(Cardinality(FeedbackOf(feedbacks', p, u)), {x \in Requests : Reacting(forumReq'[x], p, u)})
<1> DEFINE S == {x \in Requests : Reacting(forumReq[x], p, u)}
           T == {x \in Requests : Reacting(forumReq'[x], p, u)}
           n == Cardinality(FeedbackOf(feedbacks, p, u))
           m == Cardinality(FeedbackOf(feedbacks', p, u))
<1>1. overlap \in Nat /\ Fit(n, S) /\ S \in SUBSET Requests /\ T \in SUBSET S
  BY DEF ForumInv, Reactions
<1>2. n \in Nat /\ m \in Nat /\ m <= n
  BY FeedbackFinite
<1> HIDE DEF S, T, n, m
<1>3. Fit(m, T)
  BY <1>1, <1>2, FitLess
<1>4. QED  BY <1>3 DEF T, m

\* The parts together.
LEMMA ForumTogether ==
  ASSUME ForumInv, overlap' = overlap, Within(forumReq'), Forum!TypeOK',
         \A x \in Requests : PostHeld(forumReq'[x], posts'),
         \A p \in Forum!PostId : posts'[p] # None =>
           LateFor(posts'[p], {x \in Requests : Touching(forumReq'[x], p)}),
         \A p \in Forum!PostId, u \in Students :
           Fit(Cardinality(FeedbackOf(feedbacks', p, u)), {x \in Requests : Reacting(forumReq'[x], p, u)})
  PROVE  ForumInv'
BY DEF ForumInv, LateWrites, Reactions, LateFor, Fit, Within, Deleting

\* A handler reads what it starts with, or is done.
LEMMA ForumReads ==
  ASSUME ForumInv, overlap' = overlap, Within(forumReq'), UNCHANGED <<posts, comments, feedbacks>>,
         NEW r \in Requests, NEW step \in Forum!Request, Forum!Proceed(r, step),
         PostHeld(step, posts),
         \A p \in Forum!PostId : Touching(step, p) => Touching(forumReq[r], p) \/ ~ posts[p].deleted,
         \A p \in Forum!PostId, u \in Students :
           Reacting(step, p, u) => FeedbackOf(feedbacks, p, u) = {}
  PROVE  ForumInv'
<1>typ. Forum!TypeOK /\ overlap \in Nat
  BY DEF ForumInv
<1>1. forumReq' \in [Requests -> Forum!Request] /\ forumReq'[r] = step
      /\ \A x \in Requests : x # r => forumReq'[x] = forumReq[x]
  BY <1>typ, ForumProceeds
<1>2. Forum!TypeOK' /\ \A x \in Requests : PostHeld(forumReq'[x], posts')
  BY <1>1 DEF ForumInv, Forum!TypeOK
<1>3. ASSUME NEW p \in Forum!PostId, posts'[p] # None
      PROVE  LateFor(posts'[p], {x \in Requests : Touching(forumReq'[x], p)})
  <2>1. posts'[p] = posts[p] /\ posts[p] # None
    BY <1>3
  <2>2. \/ ~ posts[p].deleted
        \/ \A x \in Requests : Touching(forumReq'[x], p) => Touching(forumReq[x], p)
    BY <1>1
  <2>3. QED  BY <2>1, <2>2, LatePart
<1>4. ASSUME NEW p \in Forum!PostId, NEW u \in Students
      PROVE  Fit(Cardinality(FeedbackOf(feedbacks', p, u)), {x \in Requests : Reacting(forumReq'[x], p, u)})
  <2>1. CASE Reacting(step, p, u)
    <3>1. Cardinality(FeedbackOf(feedbacks', p, u)) = 0
      BY <2>1, FS_EmptySet
    <3>2. {x \in Requests : Reacting(forumReq'[x], p, u)} \in SUBSET Busy(forumReq')
      BY DEF Reacting, Busy
    <3>3. QED  BY <3>1, <3>2, <1>typ, FitStarted
  <2>2. CASE ~ Reacting(step, p, u)
    <3>1. \A x \in Requests : Reacting(forumReq'[x], p, u) => Reacting(forumReq[x], p, u)
      BY <1>1, <2>2
    <3>2. FeedbackOf(feedbacks', p, u) \subseteq FeedbackOf(feedbacks, p, u)
      OBVIOUS
    <3>3. QED  BY <3>1, <3>2, ReactPart
  <2>3. QED  BY <2>1, <2>2
<1>5. QED  BY <1>2, <1>3, <1>4, ForumTogether

\* Posts stay, each with its owner.
PostsKept ==
  \A p \in Forum!PostId : posts[p] # None => posts'[p] # None /\ posts'[p].owner = posts[p].owner

\* What handlers hold of posts is still there.
LEMMA PostsHeld ==
  ASSUME ForumInv, PostsKept, NEW x \in Requests
  PROVE  PostHeld(forumReq[x], posts')
<1>1. PostHeld(forumReq[x], posts) /\ Forum!TypeOK
  BY DEF ForumInv
<1>2. QED  BY <1>1, ForumFields DEF PostHeld, PostsKept

\* One post is written, by a handler that will write no other.
LEMMA PostWritten ==
  ASSUME ForumInv, overlap' = overlap, Within(forumReq'),
         NEW d \in Forum!PostId, NEW row \in PostRow, posts' = [posts EXCEPT ![d] = row],
         posts[d] # None => row.owner = posts[d].owner,
         forumReq' \in [Requests -> Forum!Request],
         \A x \in Requests : forumReq'[x] = forumReq[x]
                             \/ forumReq'[x].pc \in {"idle", "rewarding"},
         LateFor(row, {x \in Requests : Touching(forumReq'[x], d)}),
         comments' \in [Forum!PostId -> [Students -> 0 .. MaxComment]],
         feedbacks' \in [Forum!FeedbackId -> FeedbackRow \cup {None}],
         \A p \in Forum!PostId, u \in Students :
           Fit(Cardinality(FeedbackOf(feedbacks', p, u)), {x \in Requests : Reacting(forumReq'[x], p, u)})
  PROVE  ForumInv'
<1>typ. posts \in [Forum!PostId -> PostRow \cup {None}] /\ row # None
  BY PostFields DEF ForumInv, Forum!TypeOK, PostRow
<1>1. posts' \in [Forum!PostId -> PostRow \cup {None}] /\ posts'[d] = row
      /\ \A p \in Forum!PostId : p # d => posts'[p] = posts[p]
  BY <1>typ
<1>2. PostsKept
  BY <1>typ, <1>1 DEF PostsKept
<1>3. \A x \in Requests : PostHeld(forumReq'[x], posts')
  <2>1. ASSUME NEW x \in Requests, forumReq'[x].pc \in {"idle", "rewarding"}
        PROVE  PostHeld(forumReq'[x], posts')
    BY <2>1 DEF PostHeld
  <2>2. QED  BY <1>2, <2>1, PostsHeld
<1>4. ASSUME NEW p \in Forum!PostId, posts'[p] # None
      PROVE  LateFor(posts'[p], {x \in Requests : Touching(forumReq'[x], p)})
  <2>1. CASE p = d
    BY <2>1, <1>1
  <2>2. CASE p # d
    <3>1. posts'[p] = posts[p] /\ posts[p] # None
      BY <1>1, <1>4, <2>2
    <3>2. \A x \in Requests : Touching(forumReq'[x], p) => Touching(forumReq[x], p)
      BY DEF Touching
    <3>3. QED  BY <3>1, <3>2, LatePart
  <2>3. QED  BY <2>1, <2>2
<1>5. Forum!TypeOK'
  BY <1>1 DEF Forum!TypeOK, PostRow, FeedbackRow
<1>6. QED  BY <1>3, <1>4, <1>5, ForumTogether

\* A handler that had found the post writes to it, late or not.
LEMMA TouchedKeeps ==
  ASSUME ForumInv, overlap' = overlap, Within(forumReq'), NEW r \in Requests,
         forumReq[r].pc \in {"updating", "commenting", "reacting"},
         Forum!CanTouch(forumReq[r].post), posts' = Forum!Touched(forumReq[r].post),
         NEW step \in Forum!Request, step.pc \in {"idle", "rewarding"}, Forum!Proceed(r, step),
         comments' \in [Forum!PostId -> [Students -> 0 .. MaxComment]],
         feedbacks' \in [Forum!FeedbackId -> FeedbackRow \cup {None}],
         \A p \in Forum!PostId, u \in Students :
           Fit(Cardinality(FeedbackOf(feedbacks', p, u)), {x \in Requests : Reacting(forumReq'[x], p, u)})
  PROVE  ForumInv'
<1> DEFINE d == forumReq[r].post
           n == IF posts[d].deleted THEN posts[d].late + 1 ELSE posts[d].late
           row == [posts[d] EXCEPT !.late = n]
           S == {x \in Requests : Touching(forumReq[x], d)}
           T == {x \in Requests : Touching(forumReq'[x], d)}
<1>typ. Forum!TypeOK /\ overlap \in Nat /\ posts \in [Forum!PostId -> PostRow \cup {None}]
  BY DEF ForumInv, Forum!TypeOK, PostRow
<1>1. d \in Forum!PostId /\ posts[d] # None /\ posts[d] \in PostRow
  BY <1>typ, ForumFields DEF ForumInv, PostHeld
<1>2. n \in 0 .. MaxComment
  <2>1. posts[d].late \in 0 .. MaxComment /\ (posts[d].deleted => posts[d].late < MaxComment)
    BY <1>1, PostFields DEF Forum!CanTouch
  <2>2. QED  BY <2>1, PlatformBounds
<1>3. posts' = [posts EXCEPT ![d] = row]
  BY <1>typ, <1>1 DEF Forum!Touched
<1>4. row \in PostRow /\ row.owner = posts[d].owner
  <2> HIDE DEF n
  <2>1. QED  BY <1>1, <1>2, PostLate
<1>5. forumReq' \in [Requests -> Forum!Request] /\ forumReq'[r] = step
      /\ \A x \in Requests : x # r => forumReq'[x] = forumReq[x]
  BY <1>typ, ForumProceeds
<1>6. \A x \in Requests : forumReq'[x] = forumReq[x] \/ forumReq'[x].pc \in {"idle", "rewarding"}
  BY <1>5
<1>7. LateFor(row, T)
  <2>1. S \in SUBSET Requests /\ r \in S /\ T \in SUBSET (S \ {r})
    BY <1>5 DEF Touching
  <2>2. LateFor(posts[d], S)
    BY <1>1 DEF ForumInv, LateWrites
  <2>3. n = IF posts[d].deleted THEN posts[d].late + 1 ELSE posts[d].late
    OBVIOUS
  <2> HIDE DEF n, S, T, d
  <2>4. QED  BY <2>1, <2>2, <2>3, <1>1, <1>2, <1>typ, LateWritten
<1> HIDE DEF row, n
<1>8. QED  BY <1>1, <1>3, <1>4, <1>5, <1>6, <1>7, PostWritten

\* Feedback that is created is one more, by a handler that is one less.
LEMMA FeedbackCreated ==
  ASSUME ForumInv, NEW r \in Requests, forumReq[r].pc = "reacting", NEW f \in Forum!FeedbackId,
         feedbacks[f] = None, Forum!Proceed(r, Forum!Idle),
         feedbacks' = [feedbacks EXCEPT ![f] = [post |-> forumReq[r].post, user |-> forumReq[r].user]]
  PROVE  /\ feedbacks' \in [Forum!FeedbackId -> FeedbackRow \cup {None}]
         /\ \A p \in Forum!PostId, u \in Students :
              Fit(Cardinality(FeedbackOf(feedbacks', p, u)),
                  {x \in Requests : Reacting(forumReq'[x], p, u)})
<1> DEFINE d == forumReq[r].post
           v == forumReq[r].user
           row == [post |-> d, user |-> v]
<1>typ. /\ Forum!TypeOK /\ overlap \in Nat
        /\ feedbacks \in [Forum!FeedbackId -> FeedbackRow \cup {None}]
  BY DEF ForumInv, Forum!TypeOK, FeedbackRow
<1>1. d \in Forum!PostId /\ v \in Students
  BY <1>typ, ForumFields
<1>2. row \in FeedbackRow
  BY <1>1 DEF FeedbackRow
<1>3. feedbacks' \in [Forum!FeedbackId -> FeedbackRow \cup {None}]
  BY <1>typ, <1>2
<1>4. forumReq'[r] = Forum!Idle /\ \A x \in Requests : x # r => forumReq'[x] = forumReq[x]
  <2>1. Forum!Idle \in Forum!Request
    BY DEF Forum!Idle, Forum!Request
  <2>2. QED  BY <2>1, <1>typ, ForumProceeds
<1>5. ASSUME NEW p \in Forum!PostId, NEW u \in Students
      PROVE  Fit(Cardinality(FeedbackOf(feedbacks', p, u)), {x \in Requests : Reacting(forumReq'[x], p, u)})
  <2>1. CASE p = d /\ u = v
    <3> DEFINE S == {x \in Requests : Reacting(forumReq[x], p, u)}
               T == {x \in Requests : Reacting(forumReq'[x], p, u)}
               n == Cardinality(FeedbackOf(feedbacks, p, u))
               m == Cardinality(FeedbackOf(feedbacks', p, u))
    <3>1. FeedbackOf(feedbacks', p, u) = FeedbackOf(feedbacks, p, u) \cup {f}
      BY <2>1, <1>typ DEF FeedbackOf
    <3>2. f \notin FeedbackOf(feedbacks, p, u)
      BY NoneIsNoRow, <1>1, <2>1 DEF FeedbackOf
    <3>b. IsFiniteSet(FeedbackOf(feedbacks, p, u)) /\ n \in Nat
      BY FeedbackFinite
    <3>c. Cardinality(FeedbackOf(feedbacks, p, u) \cup {f}) = n + 1
      BY <3>2, <3>b, FS_AddElement
    <3>d. m = n + 1
      BY <3>1, <3>c, Zenon
    <3>3. n \in Nat /\ m = n + 1 /\ m \in Nat /\ m <= n + 1
      BY <3>b, <3>d
    <3>4. r \in S /\ S \in SUBSET Requests /\ T \in SUBSET (S \ {r})
      BY <1>4, <2>1 DEF Reacting, Forum!Idle
    <3>5. Fit(n, S)
      BY DEF ForumInv, Reactions
    <3> HIDE DEF S, T, n, m
    <3>6. Fit(m, T)
      BY <3>3, <3>4, <3>5, <1>typ, FitWritten
    <3>7. QED  BY <3>6 DEF m, T
  <2>2. CASE ~ (p = d /\ u = v)
    <3>1. row # [post |-> p, user |-> u]
      <4>1. ASSUME row = [post |-> p, user |-> u] PROVE p = d /\ u = v
        <5>1. row.post = d /\ row.user = v
          OBVIOUS
        <5>2. [post |-> p, user |-> u].post = p /\ [post |-> p, user |-> u].user = u
          OBVIOUS
        <5> HIDE DEF row, d, v
        <5>3. QED  BY <4>1, <5>1, <5>2
      <4>2. QED  BY <4>1, <2>2
    <3>2. FeedbackOf(feedbacks', p, u) \subseteq FeedbackOf(feedbacks, p, u)
      BY <3>1, <1>typ DEF FeedbackOf
    <3>3. \A x \in Requests : Reacting(forumReq'[x], p, u) => Reacting(forumReq[x], p, u)
      BY <1>4 DEF Reacting, Forum!Idle
    <3>4. QED  BY <3>2, <3>3, ReactPart
  <2>3. QED  BY <2>1, <2>2
<1>6. QED  BY <1>3, <1>5

\* Of feedback when only posts are written.
LEMMA FeedbackSame ==
  ASSUME ForumInv, UNCHANGED feedbacks,
         \A x \in Requests : forumReq'[x] = forumReq[x] \/ forumReq'[x].pc \in {"idle", "rewarding"}
  PROVE  /\ feedbacks' \in [Forum!FeedbackId -> FeedbackRow \cup {None}]
         /\ \A p \in Forum!PostId, u \in Students :
              Fit(Cardinality(FeedbackOf(feedbacks', p, u)),
                  {x \in Requests : Reacting(forumReq'[x], p, u)})
<1>1. \A p \in Forum!PostId, u \in Students : \A x \in Requests :
        Reacting(forumReq'[x], p, u) => Reacting(forumReq[x], p, u)
  BY DEF Reacting
<1>2. \A p \in Forum!PostId, u \in Students :
        Fit(Cardinality(FeedbackOf(feedbacks', p, u)), {x \in Requests : Reacting(forumReq'[x], p, u)})
  BY <1>1, ReactPart
<1>3. QED  BY <1>2 DEF ForumInv, Forum!TypeOK, FeedbackRow

\* A post is created.
LEMMA PostCreated ==
  ASSUME ForumInv, overlap' = overlap, Within(forumReq'), UNCHANGED <<comments, feedbacks>>,
         NEW d \in Forum!PostId, posts[d] = None,
         NEW row \in PostRow, ~ row.deleted, row.late = 0, posts' = [posts EXCEPT ![d] = row],
         \/ UNCHANGED forumReq
         \/ \E r \in Requests : \E step \in Forum!Request :
              step.pc = "rewarding" /\ Forum!Proceed(r, step)
  PROVE  ForumInv'
<1>typ. Forum!TypeOK
  BY DEF ForumInv
<1>1. /\ forumReq' \in [Requests -> Forum!Request]
      /\ \A x \in Requests : forumReq'[x] = forumReq[x] \/ forumReq'[x].pc \in {"idle", "rewarding"}
  BY <1>typ, ForumProceeds DEF Forum!TypeOK
<1>2. LateFor(row, {x \in Requests : Touching(forumReq'[x], d)})
  BY DEF LateFor
<1>3. QED  BY <1>1, <1>2, FeedbackSame, PostWritten DEF ForumInv, Forum!TypeOK

\* The handler that deletes a thread is done.
LEMMA DeleteThreadKeeps ==
  ASSUME ForumInv, overlap' = overlap, Within(forumReq'), NEW r \in Requests, Forum!DeleteThread(r)
  PROVE  ForumInv'
<1> DEFINE d == forumReq[r].post
           row == [posts[d] EXCEPT !.deleted = TRUE]
           S == {x \in Requests : Touching(forumReq[x], d)}
           T == {x \in Requests : Touching(forumReq'[x], d)}
<1>typ. Forum!TypeOK /\ overlap \in Nat /\ posts \in [Forum!PostId -> PostRow \cup {None}]
        /\ Within(forumReq)
  BY DEF ForumInv, Forum!TypeOK, PostRow
<1>1. forumReq[r].pc = "deleting" /\ Forum!Proceed(r, Forum!Idle) /\ UNCHANGED <<comments, feedbacks>>
  BY DEF Forum!DeleteThread
<1>2. d \in Forum!PostId /\ posts[d] # None /\ posts[d] \in PostRow /\ posts[d].owner # None
  BY <1>typ, <1>1, ForumFields DEF ForumInv, PostHeld
<1>3. posts' = [posts EXCEPT ![d] = row]
  BY <1>typ DEF Forum!DeleteThread
<1>4. row \in PostRow /\ row.owner = posts[d].owner
  BY <1>2, PostDeleted
<1>5. forumReq' \in [Requests -> Forum!Request] /\ forumReq'[r] = Forum!Idle
      /\ Forum!Idle.pc = "idle" /\ \A x \in Requests : x # r => forumReq'[x] = forumReq[x]
  <2>1. Forum!Idle \in Forum!Request /\ Forum!Idle.pc = "idle"
    BY DEF Forum!Idle, Forum!Request
  <2>2. QED  BY <2>1, <1>1, <1>typ, ForumProceeds
<1>6. \A x \in Requests : forumReq'[x] = forumReq[x] \/ forumReq'[x].pc \in {"idle", "rewarding"}
  BY <1>5
<1>7. LateFor(row, T)
  <2>1. S \in SUBSET Requests /\ T \in SUBSET S /\ T \subseteq Busy(forumReq) \ {r}
        /\ r \in Busy(forumReq)
    BY <1>1, <1>5 DEF Touching, Busy
  <2>2. LateFor(posts[d], S)
    BY <1>2 DEF ForumInv, LateWrites
  <2> HIDE DEF S, T, d
  <2>3. QED  BY <2>1, <2>2, <1>2, <1>typ, ThreadDeleted
<1> HIDE DEF row
<1>8. QED  BY <1>1, <1>2, <1>3, <1>4, <1>5, <1>6, <1>7, <1>typ, FeedbackSame, PostWritten DEF Forum!TypeOK

\* An admin deletes a blog.
LEMMA DeleteBlogKeeps ==
  ASSUME ForumInv, overlap' = overlap, Within(forumReq'), NEW d \in Forum!PostId, Forum!DeleteBlog(d)
  PROVE  ForumInv'
<1> DEFINE row == [posts[d] EXCEPT !.deleted = TRUE]
           S == {x \in Requests : Touching(forumReq[x], d)}
<1>typ. Forum!TypeOK /\ overlap \in Nat /\ posts \in [Forum!PostId -> PostRow \cup {None}]
        /\ Within(forumReq)
  BY DEF ForumInv, Forum!TypeOK, PostRow
<1>1. UNCHANGED <<comments, feedbacks, forumReq>>
  BY DEF Forum!DeleteBlog
<1>2. posts[d] # None /\ posts[d] \in PostRow /\ posts[d].owner = None
  BY <1>typ DEF Forum!DeleteBlog, Forum!Blogs
<1>3. posts' = [posts EXCEPT ![d] = row]
  BY <1>typ DEF Forum!DeleteBlog
<1>4. row \in PostRow /\ row.owner = posts[d].owner
  BY <1>2, PostDeleted
<1>5. LateFor(row, S)
  <2>1. S \in SUBSET Requests /\ S \subseteq Busy(forumReq)
    BY DEF Touching, Busy
  <2>2. LateFor(posts[d], S)
    BY <1>2 DEF ForumInv, LateWrites
  <2> HIDE DEF S
  <2>3. QED  BY <2>1, <2>2, <1>2, <1>typ, BlogDeleted
<1>6. LateFor(row, {x \in Requests : Touching(forumReq'[x], d)})
  <2> HIDE DEF row
  <2>1. QED  BY <1>1, <1>5
<1>7. forumReq' \in [Requests -> Forum!Request] /\ \A x \in Requests : forumReq'[x] = forumReq[x]
  BY <1>1, <1>typ DEF Forum!TypeOK
<1> HIDE DEF row
<1>8. QED  BY <1>1, <1>2, <1>3, <1>4, <1>6, <1>7, <1>typ, FeedbackSame, PostWritten DEF Forum!TypeOK

\* Every step keeps the invariant of the community.
LEMMA NextForum ==
  ASSUME ForumInv, [PlatformNext]_platform
  PROVE  ForumInv'
<1>ov. overlap' = overlap
  BY ForumSteps
<1>typ. /\ Forum!TypeOK /\ overlap \in Nat
        /\ posts \in [Forum!PostId -> PostRow \cup {None}]
        /\ comments \in [Forum!PostId -> [Students -> 0 .. MaxComment]]
        /\ feedbacks \in [Forum!FeedbackId -> FeedbackRow \cup {None}]
  BY DEF ForumInv, Forum!TypeOK, PostRow, FeedbackRow
<1>idle. Forum!Idle \in Forum!Request /\ Forum!Idle.pc = "idle"
  BY DEF Forum!Idle, Forum!Request
\* A handler that holds no post.
<1>free. ASSUME Within(forumReq'), UNCHANGED Forum!tables, NEW r \in Requests,
                NEW step \in Forum!Request, Forum!Proceed(r, step),
                step.pc \in {"idle", "rewarding", "retracting"}
         PROVE  ForumInv'
  <2>1. /\ PostHeld(step, posts)
        /\ \A p \in Forum!PostId : ~ Touching(step, p)
        /\ \A p \in Forum!PostId, u \in Students : ~ Reacting(step, p, u)
    BY <1>free DEF PostHeld, Touching, Reacting
  <2>2. QED  BY <1>free, <1>ov, <2>1, ForumReads DEF Forum!tables
\* A handler that finds a post.
<1>found. ASSUME Within(forumReq'), UNCHANGED Forum!tables, NEW r \in Requests,
                 NEW step \in Forum!Request, Forum!Proceed(r, step),
                 step.pc \in {"updating", "deleting", "commenting", "asking"},
                 posts[step.post] # None, ~ posts[step.post].deleted,
                 step.pc = "deleting" => posts[step.post].owner # None
          PROVE  ForumInv'
  <2>1. /\ PostHeld(step, posts)
        /\ \A p \in Forum!PostId : Touching(step, p) => ~ posts[p].deleted
        /\ \A p \in Forum!PostId, u \in Students : ~ Reacting(step, p, u)
    BY <1>found DEF PostHeld, Touching, Reacting
  <2>2. UNCHANGED <<posts, comments, feedbacks>>
    BY <1>found DEF Forum!tables
  <2>3. /\ \A p \in Forum!PostId : Touching(step, p) => Touching(forumReq[r], p) \/ ~ posts[p].deleted
        /\ \A p \in Forum!PostId, u \in Students :
             Reacting(step, p, u) => FeedbackOf(feedbacks, p, u) = {}
    BY <2>1
  <2>4. QED  BY <1>found, <1>ov, <2>1, <2>2, <2>3, ForumReads
<1>1. ASSUME NEW r \in Requests, NEW u \in Students, NEW d \in Forum!PostId, Within(forumReq'),
             Forum!CreateThread(r, u, d)
      PROVE  ForumInv'
  <2> DEFINE row == [owner |-> u, deleted |-> FALSE, late |-> 0]
             step == [pc |-> "rewarding", user |-> u]
  <2>1. row \in PostRow /\ ~ row.deleted /\ row.late = 0
    BY PlatformBounds DEF PostRow, Forum!Thread
  <2>2. step \in Forum!Request /\ step.pc = "rewarding"
    BY DEF Forum!Request
  <2>3. posts[d] = None /\ posts' = [posts EXCEPT ![d] = row] /\ Forum!Proceed(r, step)
        /\ UNCHANGED <<comments, feedbacks>>
    BY <1>1 DEF Forum!CreateThread, Forum!NextPost, Forum!Start
  <2> HIDE DEF row, step
  <2>4. QED  BY <1>1, <1>ov, <2>1, <2>2, <2>3, PostCreated
<1>2. ASSUME NEW d \in Forum!PostId, Within(forumReq'), Forum!CreateBlog(d) PROVE ForumInv'
  <2> DEFINE row == [owner |-> None, deleted |-> FALSE, late |-> 0]
  <2>1. row \in PostRow /\ ~ row.deleted /\ row.late = 0
    BY PlatformBounds DEF PostRow, Forum!Blog
  <2>2. posts[d] = None /\ posts' = [posts EXCEPT ![d] = row]
        /\ UNCHANGED <<comments, feedbacks, forumReq>>
    BY <1>2 DEF Forum!CreateBlog, Forum!NextPost
  <2> HIDE DEF row
  <2>3. QED  BY <1>2, <1>ov, <2>1, <2>2, PostCreated
<1>3. ASSUME NEW r \in Requests, NEW u \in Students, NEW d \in Forum!PostId, Within(forumReq'),
             NEW pc \in {"updating", "deleting"}, Forum!FindOwned(r, u, d, pc)
      PROVE  ForumInv'
  <2> DEFINE step == [pc |-> pc, post |-> d]
  <2>1. step \in Forum!Request /\ step.pc = pc /\ step.post = d
    BY DEF Forum!Request
  <2>2. Forum!Proceed(r, step) /\ UNCHANGED Forum!tables /\ posts[d] # None /\ ~ posts[d].deleted
        /\ posts[d].owner # None
    BY <1>3 DEF Forum!FindOwned, Forum!FoundThread, Forum!Threads, Forum!Start
  <2> HIDE DEF step
  <2>3. QED  BY <1>3, <2>1, <2>2, <1>found
<1>4. ASSUME NEW r \in Requests, NEW u \in Students, NEW d \in Forum!PostId, Within(forumReq'),
             Forum!FindForComment(r, u, d)
      PROVE  ForumInv'
  <2> DEFINE step == [pc |-> "commenting", post |-> d, user |-> u]
  <2>1. step \in Forum!Request /\ step.pc = "commenting" /\ step.post = d
    BY DEF Forum!Request
  <2>2. Forum!Proceed(r, step) /\ UNCHANGED Forum!tables /\ posts[d] # None /\ ~ posts[d].deleted
    BY <1>4 DEF Forum!FindForComment, Forum!FoundThread, Forum!FoundBlog, Forum!Threads,
       Forum!Blogs, Forum!Start
  <2> HIDE DEF step
  <2>3. QED  BY <1>4, <2>1, <2>2, <1>found
<1>5. ASSUME NEW r \in Requests, NEW u \in Students, NEW d \in Forum!PostId, Within(forumReq'),
             Forum!FindForFeedback(r, u, d)
      PROVE  ForumInv'
  <2> DEFINE step == [pc |-> "asking", post |-> d, user |-> u]
  <2>1. step \in Forum!Request /\ step.pc = "asking" /\ step.post = d
    BY DEF Forum!Request
  <2>2. Forum!Proceed(r, step) /\ UNCHANGED Forum!tables /\ posts[d] # None /\ ~ posts[d].deleted
    BY <1>5 DEF Forum!FindForFeedback, Forum!FoundThread, Forum!FoundBlog, Forum!Threads,
       Forum!Blogs, Forum!Start
  <2> HIDE DEF step
  <2>3. QED  BY <1>5, <2>1, <2>2, <1>found
<1>6. ASSUME NEW r \in Requests, NEW u \in Students, NEW d \in Forum!PostId, NEW f \in Forum!FeedbackId,
             Within(forumReq'), Forum!FindFeedback(r, u, d, f)
      PROVE  ForumInv'
  <2> DEFINE step == [pc |-> "retracting", feedback |-> f]
  <2>1. step \in Forum!Request /\ step.pc = "retracting"
    BY DEF Forum!Request
  <2>2. Forum!Proceed(r, step) /\ UNCHANGED Forum!tables
    BY <1>6 DEF Forum!FindFeedback, Forum!Start
  <2> HIDE DEF step
  <2>3. QED  BY <1>6, <2>1, <2>2, <1>free
<1>7. ASSUME NEW r \in Requests, Within(forumReq'), Forum!UpdateThread(r) PROVE ForumInv'
  <2>1. forumReq[r].pc = "updating" /\ Forum!Proceed(r, Forum!Idle) /\ UNCHANGED <<comments, feedbacks>>
    BY <1>7 DEF Forum!UpdateThread
  <2>2. \A x \in Requests : forumReq'[x] = forumReq[x] \/ forumReq'[x].pc \in {"idle", "rewarding"}
    BY <2>1, <1>typ, <1>idle, ForumProceeds
  <2>3. QED  BY <1>7, <1>ov, <1>typ, <1>idle, <2>1, <2>2, FeedbackSame, TouchedKeeps DEF Forum!UpdateThread
<1>8. ASSUME NEW r \in Requests, Within(forumReq'), Forum!InsertComment(r) PROVE ForumInv'
  <2> DEFINE d == forumReq[r].post
             v == forumReq[r].user
             step == IF d \in Forum!Threads THEN [pc |-> "rewarding", user |-> v] ELSE Forum!Idle
  <2>1. forumReq[r].pc = "commenting" /\ Forum!Proceed(r, step) /\ UNCHANGED feedbacks
        /\ posts' = Forum!Touched(d) /\ Forum!CanTouch(d)
    BY <1>8 DEF Forum!InsertComment, Forum!AfterComment
  <2>2. d \in Forum!PostId /\ v \in Students
    BY <2>1, <1>typ, ForumFields
  <2>3. [pc |-> "rewarding", user |-> v] \in Forum!Request
    BY <2>2 DEF Forum!Request
  <2>4. step \in Forum!Request /\ step.pc \in {"idle", "rewarding"}
    BY <2>3, <1>idle
  <2>5. comments' = [comments EXCEPT ![d] = [comments[d] EXCEPT ![v] = @ + 1]]
        /\ comments[d][v] < MaxComment
    BY <1>8, <2>2, <1>typ DEF Forum!InsertComment
  <2>6. comments[d] \in [Students -> 0 .. MaxComment] /\ comments[d][v] + 1 \in 0 .. MaxComment
    BY <2>2, <2>5, <1>typ, PlatformBounds
  <2>7. comments' \in [Forum!PostId -> [Students -> 0 .. MaxComment]]
    BY <2>2, <2>5, <2>6, <1>typ
  <2> HIDE DEF step
  <2>8. \A x \in Requests : forumReq'[x] = forumReq[x] \/ forumReq'[x].pc \in {"idle", "rewarding"}
    BY <2>1, <2>4, <1>typ, ForumProceeds
  <2>9. QED  BY <1>8, <1>ov, <2>1, <2>4, <2>7, <2>8, FeedbackSame, TouchedKeeps
<1>9. ASSUME NEW r \in Requests, NEW f \in Forum!FeedbackId, Within(forumReq'), Forum!CreateFeedback(r, f)
      PROVE  ForumInv'
  <2>1. /\ forumReq[r].pc = "reacting" /\ Forum!Proceed(r, Forum!Idle) /\ UNCHANGED comments
        /\ feedbacks[f] = None
        /\ feedbacks' = [feedbacks EXCEPT ![f] = [post |-> forumReq[r].post, user |-> forumReq[r].user]]
        /\ posts' = Forum!Touched(forumReq[r].post) /\ Forum!CanTouch(forumReq[r].post)
    BY <1>9 DEF Forum!CreateFeedback, Forum!FreshFeedback
  <2>2. /\ feedbacks' \in [Forum!FeedbackId -> FeedbackRow \cup {None}]
        /\ \A p \in Forum!PostId, u \in Students :
             Fit(Cardinality(FeedbackOf(feedbacks', p, u)),
                 {x \in Requests : Reacting(forumReq'[x], p, u)})
    BY <2>1, FeedbackCreated
  <2>3. QED  BY <1>9, <1>ov, <1>typ, <1>idle, <2>1, <2>2, TouchedKeeps
<1>10. ASSUME NEW r \in Requests, Within(forumReq'), Forum!CheckFeedback(r) PROVE ForumInv'
  <2> DEFINE q == forumReq[r]
             step == [q EXCEPT !.pc = "reacting"]
  <2>1. q.pc = "asking" /\ Forum!Proceed(r, step) /\ UNCHANGED Forum!tables
        /\ q \in [pc : {"commenting", "asking", "reacting"}, post : Forum!PostId, user : Students]
    BY <1>10, <1>typ, ForumFields DEF Forum!CheckFeedback
  <2>2. step \in Forum!Request /\ step.pc = "reacting" /\ step.post = q.post /\ step.user = q.user
    BY <2>1 DEF Forum!Request
  <2>3. FeedbackOf(feedbacks, q.post, q.user) = {}
    BY <1>10 DEF Forum!CheckFeedback, Forum!Reacted, Forum!ThreadFeedback, FeedbackOf
  <2>4. PostHeld(q, posts)
    BY DEF ForumInv
  <2>5. /\ PostHeld(step, posts)
        /\ \A p \in Forum!PostId : Touching(step, p) => Touching(q, p)
        /\ \A p \in Forum!PostId, u \in Students : Reacting(step, p, u) => FeedbackOf(feedbacks, p, u) = {}
    BY <2>1, <2>2, <2>3, <2>4 DEF PostHeld, Touching, Reacting
  <2>6. UNCHANGED <<posts, comments, feedbacks>>
    BY <2>1 DEF Forum!tables
  <2>7. /\ \A p \in Forum!PostId : Touching(step, p) => Touching(forumReq[r], p) \/ ~ posts[p].deleted
        /\ \A p \in Forum!PostId, u \in Students :
             Reacting(step, p, u) => FeedbackOf(feedbacks, p, u) = {}
    BY <2>5
  <2> HIDE DEF step
  <2>8. QED  BY <1>10, <1>ov, <2>1, <2>2, <2>5, <2>6, <2>7, ForumReads
<1>11. ASSUME NEW r \in Requests, Within(forumReq'), Forum!DeleteFeedback(r) PROVE ForumInv'
  <2> DEFINE f == forumReq[r].feedback
  <2>1. f \in Forum!FeedbackId /\ feedbacks' = [feedbacks EXCEPT ![f] = None]
        /\ Forum!Proceed(r, Forum!Idle) /\ UNCHANGED <<posts, comments>>
    BY <1>11, <1>typ, ForumFields DEF Forum!DeleteFeedback
  <2>2. forumReq' \in [Requests -> Forum!Request] /\ forumReq'[r] = Forum!Idle
        /\ \A x \in Requests : x # r => forumReq'[x] = forumReq[x]
    BY <2>1, <1>typ, <1>idle, ForumProceeds
  <2>3. feedbacks' \in [Forum!FeedbackId -> FeedbackRow \cup {None}]
    BY <2>1, <1>typ
  <2>4. Forum!TypeOK'
    BY <2>1, <2>2, <2>3, <1>typ DEF Forum!TypeOK, FeedbackRow
  <2>5. \A x \in Requests : PostHeld(forumReq'[x], posts')
    BY <2>1, <2>2, <1>idle DEF ForumInv, PostHeld
  <2>6. ASSUME NEW p \in Forum!PostId, posts'[p] # None
        PROVE  LateFor(posts'[p], {x \in Requests : Touching(forumReq'[x], p)})
    <3>1. \A x \in Requests : Touching(forumReq'[x], p) => Touching(forumReq[x], p)
      BY <2>2, <1>idle DEF Touching
    <3>2. QED  BY <2>1, <2>6, <3>1, LatePart
  <2>7. ASSUME NEW p \in Forum!PostId, NEW u \in Students
        PROVE  Fit(Cardinality(FeedbackOf(feedbacks', p, u)), {x \in Requests : Reacting(forumReq'[x], p, u)})
    <3>1. \A x \in Requests : Reacting(forumReq'[x], p, u) => Reacting(forumReq[x], p, u)
      BY <2>2, <1>idle DEF Reacting
    <3>2. [post |-> p, user |-> u] # None
      BY NoneIsNoRow
    <3>3. FeedbackOf(feedbacks', p, u) \subseteq FeedbackOf(feedbacks, p, u)
      BY <2>1, <3>2, <1>typ DEF FeedbackOf
    <3>4. QED  BY <3>1, <3>3, ReactPart
  <2>8. QED  BY <1>11, <1>ov, <2>4, <2>5, <2>6, <2>7, ForumTogether
<1>12. ASSUME NEW r \in Requests, Within(forumReq'), Forum!GiveReward(r) \/ Forum!Fail(r) PROVE ForumInv'
  BY <1>12, <1>idle, <1>free DEF Forum!GiveReward, Forum!Fail
<1>13. CASE UNCHANGED communityVars
  <2>1. UNCHANGED <<posts, comments, feedbacks, forumReq>>
    BY <1>13 DEF communityVars
  <2>2. ForumInv
    OBVIOUS
  <2>3. QED  BY <2>1, <2>2, <1>ov DEF ForumInv, Forum!TypeOK, LateWrites, Reactions, LateFor, Fit, Within, Deleting
<1>14. CASE Forum!Next /\ Within(forumReq')
  BY <1>14, <1>1, <1>2, <1>3, <1>4, <1>5, <1>6, <1>7, <1>8, <1>9, <1>10, <1>11, <1>12, <1>ov,
     DeleteThreadKeeps, DeleteBlogKeeps DEF Forum!Next
<1>15. QED  BY <1>13, <1>14, ForumSteps

\* The invariant of the community holds in every behaviour.
LEMMA ForumInvariant == PlatformSpec => []ForumInv
<1>1. ForumInv /\ [PlatformNext]_platform => ForumInv'
  BY NextForum
<1>2. QED  BY <1>1, InitForum, PTL DEF PlatformSpec

\* A deleted thread or blog is written to at most by the handlers that had found it, of
\* which a thread's deletion is one.
THEOREM LateIsWithin == PlatformSpec => []LateWithin
<1>1. ASSUME ForumInv PROVE LateWithin
  <2>1. ASSUME NEW p \in Forum!PostId, posts[p] # None
        PROVE  posts[p].late + Deleting(posts[p]) <= overlap \/ posts[p].late = 0
    <3> DEFINE S == {r \in Requests : Touching(forumReq[r], p)}
    <3>1. posts[p] \in PostRow /\ overlap \in Nat /\ LateFor(posts[p], S) /\ S \in SUBSET Requests
      BY <1>1, <2>1 DEF ForumInv, Forum!TypeOK, PostRow, LateWrites
    <3>2. posts[p].late \in Nat /\ Deleting(posts[p]) \in Nat
      BY <3>1, PostFields
    <3>3. posts[p].late + Deleting(posts[p]) \in Nat
      BY <3>2
    <3> HIDE DEF S
    <3>4. QED  BY <3>1, <3>3, FitRows DEF LateFor
  <2>2. ASSUME NEW p \in Forum!PostId, posts[p] # None
        PROVE  posts[p].late <= IF p \in Forum!Threads THEN overlap - 1 ELSE overlap
    <3> DEFINE n == posts[p].late
               k == Deleting(posts[p])
    <3>1. posts[p] \in PostRow
      BY <1>1, <2>2 DEF ForumInv, Forum!TypeOK, PostRow
    <3>2. n \in Nat
      BY <3>1, PostFields
    <3>3. overlap \in Nat /\ overlap >= 1
      BY <1>1 DEF ForumInv
    <3>4. n + k <= overlap \/ n = 0
      BY <2>1, <2>2
    <3>5. k = IF p \in Forum!Threads THEN 1 ELSE 0
      BY <2>2 DEF Deleting, Forum!Threads
    <3> HIDE DEF n, k
    <3>6. n <= IF p \in Forum!Threads THEN overlap - 1 ELSE overlap
      BY <3>2, <3>3, <3>4, <3>5
    <3>7. QED  BY <3>6 DEF n
  <2>3. QED  BY <2>2 DEF LateWithin, Forum!LateWithin
<1>2. QED  BY <1>1, ForumInvariant, PTL

-----------------------------------------------------------------------------
(* Tickets.                                                                 *)

\* The ticket a handler holds is still there, is the platform's for who answers, and,
\* with one handler at a time, is open for who comments.
TicketHeld(q, ts) ==
  /\ q.pc \in {"opening", "commenting", "answering", "updating", "administering"} =>
       ts[q.ticket] # None
  /\ q.pc = "answering" => ts[q.ticket].platform
  /\ overlap = 1 /\ q.pc \in {"opening", "commenting"} => ~ ts[q.ticket].closed

TicketInv ==
  /\ overlap \in Nat
  /\ Ticket!TypeOK
  /\ Within(ticketReq)
  /\ \A r \in Requests : TicketHeld(ticketReq[r], tickets)

\* Of the tickets every step is their own, with as many handlers as overlap, or none.
LEMMA TicketSteps ==
  ASSUME [PlatformNext]_platform
  PROVE  /\ overlap' = overlap
         /\ (Ticket!Next /\ Within(ticketReq')) \/ UNCHANGED supportVars
  BY DEF PlatformNext, platform, LectureStep, CatalogueStep, CommunityStep, SupportStep,
     StoreStep, NoticeStep, RewardStep, PricingStep, UploadStep, AccountStep

\* At first there are no tickets.
LEMMA InitTicket == PlatformInit => TicketInv
<1> SUFFICES ASSUME PlatformInit PROVE TicketInv
  OBVIOUS
<1>1. Ticket!Init /\ overlap \in Nat
  BY HandlersAssumption, FS_CardinalityType DEF PlatformInit
<1>2. \A r \in Requests : ticketReq[r] = [pc |-> "idle"]
  BY <1>1 DEF Ticket!Init, Ticket!Idle
<1>3. Ticket!TypeOK
  BY <1>1, <1>2, PlatformBounds DEF Ticket!Init, Ticket!TypeOK, Ticket!Request, Ticket!Idle
<1>4. Within(ticketReq)
  BY <1>1, <1>2, NoneBusy
<1>5. QED  BY <1>1, <1>2, <1>3, <1>4 DEF TicketInv, TicketHeld

\* What a handler of tickets holds has its fields.
LEMMA TicketFields ==
  ASSUME Ticket!TypeOK, NEW r \in Requests
  PROVE  /\ ticketReq[r].pc = "creating" =>
              /\ ticketReq[r].user \in Users /\ ticketReq[r].platform \in BOOLEAN
              /\ ticketReq[r].course \in Courses \cup {None}
         /\ ticketReq[r].pc \in {"opening", "commenting", "answering", "updating", "administering"} =>
              ticketReq[r].ticket \in Ticket!TicketId
         /\ ticketReq[r].pc \in {"updating", "administering"} => ticketReq[r].closed \in BOOLEAN
<1>1. ticketReq[r] \in Ticket!Request
  BY DEF Ticket!TypeOK
<1>2. QED  BY <1>1 DEF Ticket!Request, Ticket!Idle

\* A step of one handler keeps the invariant when what it writes is typed, and what is
\* held still is.
LEMMA TicketKeeps ==
  ASSUME TicketInv, overlap' = overlap, Within(ticketReq'),
         NEW r \in Requests, NEW step \in Ticket!Request, Ticket!Proceed(r, step),
         tickets' \in [Ticket!TicketId -> Ticket!Ticket \cup {None}],
         ticketComments' \in [Ticket!TicketId -> [users : 0 .. MaxComment, admins : 0 .. MaxComment]],
         \A t \in Ticket!TicketId :
           tickets'[t] = None => ticketComments'[t] = [users |-> 0, admins |-> 0],
         TicketHeld(step, tickets'),
         \A x \in Requests : x # r => TicketHeld(ticketReq[x], tickets')
  PROVE  TicketInv'
<1>1. ticketReq' \in [Requests -> Ticket!Request] /\ ticketReq'[r] = step
      /\ \A x \in Requests : x # r => ticketReq'[x] = ticketReq[x]
  BY DEF TicketInv, Ticket!TypeOK, Ticket!Proceed
<1>2. Ticket!TypeOK'
  BY <1>1 DEF Ticket!TypeOK
<1>3. \A x \in Requests : TicketHeld(ticketReq'[x], tickets')
  BY <1>1
<1>4. QED  BY <1>2, <1>3 DEF TicketInv, TicketHeld, Within

\* A handler reads what it starts with, or is done.
LEMMA TicketReads ==
  ASSUME TicketInv, overlap' = overlap, Within(ticketReq'), UNCHANGED <<tickets, ticketComments>>,
         NEW r \in Requests, NEW step \in Ticket!Request, Ticket!Proceed(r, step),
         TicketHeld(step, tickets)
  PROVE  TicketInv'
<1>1. /\ tickets' \in [Ticket!TicketId -> Ticket!Ticket \cup {None}]
      /\ ticketComments' \in [Ticket!TicketId -> [users : 0 .. MaxComment, admins : 0 .. MaxComment]]
      /\ \A t \in Ticket!TicketId :
           tickets'[t] = None => ticketComments'[t] = [users |-> 0, admins |-> 0]
  BY DEF TicketInv, Ticket!TypeOK
<1>2. TicketHeld(step, tickets') /\ \A x \in Requests : x # r => TicketHeld(ticketReq[x], tickets')
  BY DEF TicketInv
<1>3. QED  BY <1>1, <1>2, TicketKeeps

\* A ticket is closed, or opened again, by a handler that is then the only one, when one
\* is in flight at a time.
LEMMA TicketUpdated ==
  ASSUME TicketInv, overlap' = overlap, Within(ticketReq'), NEW r \in Requests,
         ticketReq[r].pc \in {"updating", "administering"},
         tickets' = [tickets EXCEPT ![ticketReq[r].ticket].closed = ticketReq[r].closed],
         UNCHANGED ticketComments, Ticket!Proceed(r, Ticket!Idle)
  PROVE  TicketInv'
<1> DEFINE t == ticketReq[r].ticket
           row == [tickets[t] EXCEPT !.closed = ticketReq[r].closed]
<1>1. /\ Ticket!TypeOK /\ t \in Ticket!TicketId /\ tickets[t] # None
      /\ ticketReq[r].closed \in BOOLEAN /\ tickets[t] \in Ticket!Ticket
  <2>1. Ticket!TypeOK /\ TicketHeld(ticketReq[r], tickets)
    BY DEF TicketInv
  <2>2. QED  BY <2>1, TicketFields DEF TicketHeld, Ticket!TypeOK
<1>2. row \in Ticket!Ticket /\ row.platform = tickets[t].platform /\ row # None
  BY <1>1, NoneIsNoRow DEF Ticket!Ticket
<1>3. tickets' = [tickets EXCEPT ![t] = row]
  BY <1>1 DEF Ticket!TypeOK
<1> HIDE DEF row
<1>4. /\ tickets' \in [Ticket!TicketId -> Ticket!Ticket \cup {None}]
      /\ ticketComments' \in [Ticket!TicketId -> [users : 0 .. MaxComment, admins : 0 .. MaxComment]]
      /\ \A k \in Ticket!TicketId :
           tickets'[k] = None => ticketComments'[k] = [users |-> 0, admins |-> 0]
  BY <1>1, <1>2, <1>3 DEF Ticket!TypeOK
<1>5. Ticket!Idle \in Ticket!Request /\ TicketHeld(Ticket!Idle, tickets')
  BY DEF Ticket!Idle, Ticket!Request, TicketHeld
<1>6. ASSUME NEW x \in Requests, x # r PROVE TicketHeld(ticketReq[x], tickets')
  <2>1. TicketHeld(ticketReq[x], tickets)
    BY DEF TicketInv
  <2>2. ~ (overlap = 1 /\ ticketReq[x].pc \in {"opening", "commenting"})
    <3>1. SUFFICES ASSUME overlap = 1, ticketReq[x].pc \in {"opening", "commenting"} PROVE FALSE
      OBVIOUS
    <3>2. r \in Busy(ticketReq) /\ x \in Busy(ticketReq) /\ Within(ticketReq)
      BY <3>1 DEF Busy, TicketInv
    <3>3. QED  BY <3>1, <3>2, <1>6, Alone
  <2>3. \A k \in Ticket!TicketId : tickets[k] # None =>
          tickets'[k] # None /\ tickets'[k].platform = tickets[k].platform
    BY <1>1, <1>2, <1>3 DEF Ticket!TypeOK
  <2>4. ticketReq[x].pc \in {"opening", "commenting", "answering", "updating", "administering"} =>
          ticketReq[x].ticket \in Ticket!TicketId
    BY <1>1, TicketFields
  <2>5. QED  BY <2>1, <2>2, <2>3, <2>4 DEF TicketHeld
<1>7. QED  BY <1>4, <1>5, <1>6, TicketKeeps

\* A comment is written to a ticket that is there.
LEMMA TicketAnswered ==
  ASSUME TicketInv, overlap' = overlap, Within(ticketReq'), NEW r \in Requests,
         ticketReq[r].pc \in {"opening", "commenting", "answering"}, UNCHANGED tickets,
         NEW row \in [users : 0 .. MaxComment, admins : 0 .. MaxComment],
         ticketComments' = [ticketComments EXCEPT ![ticketReq[r].ticket] = row],
         Ticket!Proceed(r, Ticket!Idle)
  PROVE  TicketInv'
<1>1. /\ Ticket!TypeOK /\ ticketReq[r].ticket \in Ticket!TicketId
      /\ tickets[ticketReq[r].ticket] # None
  <2>1. Ticket!TypeOK /\ TicketHeld(ticketReq[r], tickets)
    BY DEF TicketInv
  <2>2. QED  BY <2>1, TicketFields DEF TicketHeld
<1>2. /\ tickets' \in [Ticket!TicketId -> Ticket!Ticket \cup {None}]
      /\ ticketComments' \in [Ticket!TicketId -> [users : 0 .. MaxComment, admins : 0 .. MaxComment]]
      /\ \A k \in Ticket!TicketId :
           tickets'[k] = None => ticketComments'[k] = [users |-> 0, admins |-> 0]
  BY <1>1 DEF Ticket!TypeOK
<1>3. Ticket!Idle \in Ticket!Request /\ TicketHeld(Ticket!Idle, tickets')
  BY DEF Ticket!Idle, Ticket!Request, TicketHeld
<1>4. \A x \in Requests : x # r => TicketHeld(ticketReq[x], tickets')
  BY DEF TicketInv
<1>5. QED  BY <1>2, <1>3, <1>4, TicketKeeps

\* A ticket is created, open, under an id that none holds.
LEMMA TicketInserted ==
  ASSUME TicketInv, overlap' = overlap, Within(ticketReq'), NEW r \in Requests,
         NEW t \in Ticket!TicketId, Ticket!InsertTicket(r, t)
  PROVE  TicketInv'
<1> DEFINE q == ticketReq[r]
           row == [user |-> q.user, platform |-> q.platform, course |-> q.course, closed |-> FALSE]
           step == [pc |-> "opening", ticket |-> t]
<1>1. /\ q.pc = "creating" /\ tickets[t] = None /\ tickets' = [tickets EXCEPT ![t] = row]
      /\ Ticket!Proceed(r, step) /\ UNCHANGED ticketComments
  BY DEF Ticket!InsertTicket
<1>2. Ticket!TypeOK
  BY DEF TicketInv
<1>3. row \in Ticket!Ticket /\ ~ row.closed /\ row # None
  <2>1. q.user \in Users /\ q.platform \in BOOLEAN /\ q.course \in Courses \cup {None}
    BY <1>1, <1>2, TicketFields
  <2>2. row \in Ticket!Ticket /\ row.closed = FALSE
    BY <2>1 DEF Ticket!Ticket
  <2>3. QED  BY <2>2, NoneIsNoRow
<1>4. step \in Ticket!Request /\ step.pc = "opening" /\ step.ticket = t
  BY DEF Ticket!Request
<1> HIDE DEF row, step
<1>5. tickets'[t] = row /\ \A k \in Ticket!TicketId : k # t => tickets'[k] = tickets[k]
  BY <1>1, <1>2 DEF Ticket!TypeOK
<1>6. /\ tickets' \in [Ticket!TicketId -> Ticket!Ticket \cup {None}]
      /\ ticketComments' \in [Ticket!TicketId -> [users : 0 .. MaxComment, admins : 0 .. MaxComment]]
      /\ \A k \in Ticket!TicketId :
           tickets'[k] = None => ticketComments'[k] = [users |-> 0, admins |-> 0]
  BY <1>1, <1>2, <1>3 DEF Ticket!TypeOK
<1>7. TicketHeld(step, tickets')
  BY <1>3, <1>4, <1>5 DEF TicketHeld
<1>8. ASSUME NEW x \in Requests, x # r PROVE TicketHeld(ticketReq[x], tickets')
  <2>1. TicketHeld(ticketReq[x], tickets)
    BY DEF TicketInv
  <2>2. ticketReq[x].pc \in {"opening", "commenting", "answering", "updating", "administering"} =>
          ticketReq[x].ticket \in Ticket!TicketId /\ ticketReq[x].ticket # t
    BY <1>1, <1>2, <2>1, TicketFields DEF TicketHeld
  <2>3. QED  BY <1>5, <2>1, <2>2 DEF TicketHeld
<1>9. QED  BY <1>1, <1>4, <1>6, <1>7, <1>8, TicketKeeps

\* Every step keeps the invariant of the tickets.
LEMMA NextTicket ==
  ASSUME TicketInv, [PlatformNext]_platform
  PROVE  TicketInv'
<1>ov. overlap' = overlap
  BY TicketSteps
<1>typ. Ticket!TypeOK
  BY DEF TicketInv
<1>idle. Ticket!Idle \in Ticket!Request /\ TicketHeld(Ticket!Idle, tickets)
  BY DEF Ticket!Idle, Ticket!Request, TicketHeld
<1>1. ASSUME NEW r \in Requests, NEW u \in Users, NEW platformTicket \in BOOLEAN,
             NEW c \in Courses \cup {None}, Within(ticketReq'),
             Ticket!CreateTicket(r, u, platformTicket, c)
      PROVE  TicketInv'
  <2> DEFINE d == IF platformTicket THEN None ELSE c
             step == [pc |-> "creating", user |-> u, platform |-> platformTicket, course |-> d]
  <2>1. step \in Ticket!Request /\ step.pc = "creating"
    BY DEF Ticket!Request
  <2>2. Ticket!Proceed(r, step) /\ UNCHANGED <<tickets, ticketComments>>
    BY <1>1 DEF Ticket!CreateTicket, Ticket!Start, Ticket!tables
  <2>3. TicketHeld(step, tickets)
    BY <2>1 DEF TicketHeld
  <2> HIDE DEF step
  <2>4. QED  BY <1>1, <1>ov, <2>1, <2>2, <2>3, TicketReads
<1>2. ASSUME NEW r \in Requests, NEW u \in Users, NEW t \in Ticket!TicketId, Within(ticketReq'),
             Ticket!CheckTicket(r, u, t)
      PROVE  TicketInv'
  <2> DEFINE step == [pc |-> "commenting", ticket |-> t]
  <2>1. step \in Ticket!Request /\ step.pc = "commenting" /\ step.ticket = t
    BY DEF Ticket!Request
  <2>2. /\ Ticket!Proceed(r, step) /\ UNCHANGED <<tickets, ticketComments>>
        /\ tickets[t] # None /\ ~ tickets[t].closed
    BY <1>2 DEF Ticket!CheckTicket, Ticket!Start, Ticket!tables, Ticket!Existing, Ticket!Closed
  <2> HIDE DEF step
  <2>3. TicketHeld(step, tickets)
    BY <2>1, <2>2 DEF TicketHeld
  <2>4. QED  BY <1>2, <1>ov, <2>1, <2>2, <2>3, TicketReads
<1>3. ASSUME NEW r \in Requests, NEW t \in Ticket!TicketId, Within(ticketReq'),
             Ticket!AnswerTicket(r, t)
      PROVE  TicketInv'
  <2> DEFINE step == [pc |-> "answering", ticket |-> t]
  <2>1. step \in Ticket!Request /\ step.pc = "answering" /\ step.ticket = t
    BY DEF Ticket!Request
  <2>2. /\ Ticket!Proceed(r, step) /\ UNCHANGED <<tickets, ticketComments>>
        /\ tickets[t] # None /\ tickets[t].platform
    BY <1>3 DEF Ticket!AnswerTicket, Ticket!Start, Ticket!tables, Ticket!Existing,
       Ticket!FoundPlatform
  <2> HIDE DEF step
  <2>3. TicketHeld(step, tickets)
    BY <2>1, <2>2 DEF TicketHeld
  <2>4. QED  BY <1>3, <1>ov, <2>1, <2>2, <2>3, TicketReads
<1>4. ASSUME NEW r \in Requests, NEW t \in Ticket!TicketId, NEW closed \in BOOLEAN,
             Within(ticketReq'), 
             Ticket!FindCourseTicket(r, t, closed) \/ Ticket!FindPlatformTicket(r, t, closed)
      PROVE  TicketInv'
  <2>1. PICK next \in {"updating", "administering"} :
          /\ Ticket!Proceed(r, [pc |-> next, ticket |-> t, closed |-> closed])
          /\ UNCHANGED <<tickets, ticketComments>> /\ tickets[t] # None
    BY <1>4 DEF Ticket!FindCourseTicket, Ticket!FindPlatformTicket, Ticket!Start, Ticket!tables,
       Ticket!Existing, Ticket!FoundPlatform
  <2> DEFINE step == [pc |-> next, ticket |-> t, closed |-> closed]
  <2>2. step \in Ticket!Request /\ step.pc \in {"updating", "administering"} /\ step.ticket = t
    BY DEF Ticket!Request
  <2>3. Ticket!Proceed(r, step)
    BY <2>1
  <2> HIDE DEF step
  <2>4. TicketHeld(step, tickets)
    BY <2>1, <2>2 DEF TicketHeld
  <2>5. QED  BY <1>4, <1>ov, <2>1, <2>2, <2>3, <2>4, TicketReads
<1>5. ASSUME NEW r \in Requests, Within(ticketReq'),
             Ticket!InsertComment(r) \/ Ticket!InsertAnswer(r)
      PROVE  TicketInv'
  <2> DEFINE t == ticketReq[r].ticket
             old == ticketComments[t]
  <2>1. ticketReq[r].pc \in {"opening", "commenting", "answering"} /\ t \in Ticket!TicketId
        /\ old \in [users : 0 .. MaxComment, admins : 0 .. MaxComment]
    BY <1>5, <1>typ, TicketFields DEF Ticket!InsertComment, Ticket!InsertAnswer, Ticket!TypeOK
  <2>2. UNCHANGED tickets /\ Ticket!Proceed(r, Ticket!Idle)
    BY <1>5 DEF Ticket!InsertComment, Ticket!InsertAnswer
  <2>3. CASE Ticket!InsertComment(r)
    <3> DEFINE row == [old EXCEPT !.users = old.users + 1]
    <3>1. old.users < MaxComment /\ ticketComments' = [ticketComments EXCEPT ![t] = row]
      BY <2>1, <2>3, <1>typ DEF Ticket!InsertComment, Ticket!TypeOK
    <3>2. old.users + 1 \in 0 .. MaxComment
      BY <2>1, <3>1, PlatformBounds
    <3>3. row \in [users : 0 .. MaxComment, admins : 0 .. MaxComment]
      BY <2>1, <3>2
    <3> HIDE DEF row
    <3>4. QED  BY <1>5, <1>ov, <2>1, <2>2, <3>1, <3>3, TicketAnswered
  <2>4. CASE Ticket!InsertAnswer(r)
    <3> DEFINE row == [old EXCEPT !.admins = old.admins + 1]
    <3>1. old.admins < MaxComment /\ ticketComments' = [ticketComments EXCEPT ![t] = row]
      BY <2>1, <2>4, <1>typ DEF Ticket!InsertAnswer, Ticket!TypeOK
    <3>2. old.admins + 1 \in 0 .. MaxComment
      BY <2>1, <3>1, PlatformBounds
    <3>3. row \in [users : 0 .. MaxComment, admins : 0 .. MaxComment]
      BY <2>1, <3>2
    <3> HIDE DEF row
    <3>4. QED  BY <1>5, <1>ov, <2>1, <2>2, <3>1, <3>3, TicketAnswered
  <2>5. QED  BY <1>5, <2>3, <2>4
<1>6. ASSUME NEW r \in Requests, Within(ticketReq'),
             Ticket!UpdateTicket(r) \/ Ticket!UpdateTicketAdmin(r)
      PROVE  TicketInv'
  BY <1>6, <1>ov, TicketUpdated DEF Ticket!UpdateTicket, Ticket!UpdateTicketAdmin
<1>7. ASSUME NEW r \in Requests, Within(ticketReq'), Ticket!Fail(r) PROVE TicketInv'
  <2>1. Ticket!Proceed(r, Ticket!Idle) /\ UNCHANGED <<tickets, ticketComments>>
    BY <1>7 DEF Ticket!Fail, Ticket!tables
  <2>2. QED  BY <1>7, <1>ov, <1>idle, <2>1, TicketReads
<1>8. CASE UNCHANGED supportVars
  <2>1. UNCHANGED <<tickets, ticketComments, ticketReq>>
    BY <1>8 DEF supportVars
  <2>2. TicketInv
    OBVIOUS
  <2>3. QED  BY <2>1, <2>2, <1>ov DEF TicketInv, Ticket!TypeOK, TicketHeld, Within
<1>9. CASE Ticket!Next /\ Within(ticketReq')
  BY <1>9, <1>1, <1>2, <1>3, <1>4, <1>5, <1>6, <1>7, <1>ov, TicketInserted DEF Ticket!Next
<1>10. QED  BY <1>8, <1>9, TicketSteps

\* The invariant of the tickets holds in every behaviour.
LEMMA TicketInvariant == PlatformSpec => []TicketInv
<1>1. TicketInv /\ [PlatformNext]_platform => TicketInv'
  BY NextTicket
<1>2. QED  BY <1>1, InitTicket, PTL DEF PlatformSpec

\* With one handler in flight at a time, a closed ticket gets no comments of users; and
\* admins answer the tickets of the platform only, however many are.
THEOREM ClosedStaysQuiet == PlatformSpec => ClosedStaysQuietInSequence
<1>1. ASSUME TicketInv, [PlatformNext]_platform, overlap = 1 PROVE Ticket!ClosedStaysQuiet
  <2>1. ASSUME NEW t \in Ticket!TicketId, NEW r \in Requests,
               Ticket!InsertComment(r) \/ Ticket!InsertAnswer(r)
        PROVE  /\ tickets[t] # None /\ tickets[t].closed =>
                    ticketComments'[t].users = ticketComments[t].users
               /\ ticketComments'[t].admins # ticketComments[t].admins =>
                    tickets[t] # None /\ tickets[t].platform
    <3> DEFINE d == ticketReq[r].ticket
    <3>1. Ticket!TypeOK /\ TicketHeld(ticketReq[r], tickets)
      BY <1>1 DEF TicketInv
    <3>2. d \in Ticket!TicketId
      BY <2>1, <3>1, TicketFields DEF Ticket!InsertComment, Ticket!InsertAnswer
    <3>3. ticketComments[d] \in [users : 0 .. MaxComment, admins : 0 .. MaxComment]
      BY <3>1, <3>2 DEF Ticket!TypeOK
    <3>4. t # d => ticketComments'[t] = ticketComments[t]
      BY <2>1, <3>1 DEF Ticket!InsertComment, Ticket!InsertAnswer, Ticket!TypeOK
    <3>5. CASE Ticket!InsertComment(r)
      <4>1. ~ tickets[d].closed
        BY <1>1, <3>1, <3>5 DEF Ticket!InsertComment, TicketHeld
      <4>2. ticketComments'[d].admins = ticketComments[d].admins
        BY <3>1, <3>2, <3>3, <3>5 DEF Ticket!InsertComment, Ticket!TypeOK
      <4>3. QED  BY <3>4, <4>1, <4>2
    <3>6. CASE Ticket!InsertAnswer(r)
      <4>1. tickets[d] # None /\ tickets[d].platform
        BY <3>1, <3>6 DEF Ticket!InsertAnswer, TicketHeld
      <4>2. ticketComments'[d].users = ticketComments[d].users
        BY <3>1, <3>2, <3>3, <3>6 DEF Ticket!InsertAnswer, Ticket!TypeOK
      <4>3. QED  BY <3>4, <4>1, <4>2
    <3>7. QED  BY <2>1, <3>5, <3>6
  <2>2. \/ \E r \in Requests : Ticket!InsertComment(r) \/ Ticket!InsertAnswer(r)
        \/ UNCHANGED ticketComments
    <3>1. Ticket!Next \/ UNCHANGED supportVars
      BY <1>1, TicketSteps
    <3>2. QED  BY <3>1 DEF Ticket!Next, supportVars, Ticket!tables, Ticket!CreateTicket,
                   Ticket!CheckTicket, Ticket!InsertTicket, Ticket!AnswerTicket,
                   Ticket!FindCourseTicket, Ticket!FindPlatformTicket, Ticket!UpdateTicket,
                   Ticket!UpdateTicketAdmin, Ticket!Fail
  <2>3. QED  BY <2>1, <2>2 DEF Ticket!ClosedStaysQuiet, Ticket!Existing, Ticket!FoundPlatform
<1>2. TicketInv /\ [PlatformNext]_platform => [overlap = 1 => Ticket!ClosedStaysQuiet]_platform
  BY <1>1
<1>3. QED  BY <1>2, TicketInvariant, PTL DEF PlatformSpec, ClosedStaysQuietInSequence

-----------------------------------------------------------------------------
(* What is checked, and then created.                                       *)

\* Reviews of courses and of products, invitations, rewarded publications and feedback
\* are each at most as many as handlers overlap: the checks that come before an await
\* let no more through.
THEOREM DuplicatesAreWithin == PlatformSpec => []DuplicatesWithin
<1>1. ASSUME ShopInv PROVE Shop!ReviewsWithin(overlap)
  <2>1. ASSUME NEW p \in Shop!ProductId, NEW u \in Students PROVE productReviews[p][u] <= overlap
    <3>1. /\ overlap \in Nat
          /\ Fit(productReviews[p][u], {r \in Requests : ProductReviewing(shopReq[r], p, u)})
          /\ productReviews[p][u] \in 0 .. MaxReview
      BY <1>1 DEF ShopInv, ProductReviews, Shop!TypeOK
    <3>2. productReviews[p][u] \in Nat
      BY <3>1
    <3>3. QED  BY <3>1, <3>2, FitRows
  <2>2. QED  BY <2>1 DEF Shop!ReviewsWithin
<1>2. ASSUME ForumInv PROVE Forum!FeedbackWithin(overlap)
  <2>1. ASSUME NEW p \in Forum!PostId, NEW u \in Students
        PROVE  Forum!Cardinality(Forum!ThreadFeedback(p, u)) <= overlap
    <3>1. /\ overlap \in Nat
          /\ Fit(Cardinality(FeedbackOf(feedbacks, p, u)),
                 {r \in Requests : Reacting(forumReq[r], p, u)})
      BY <1>2 DEF ForumInv, Reactions
    <3>2. Cardinality(FeedbackOf(feedbacks, p, u)) <= overlap
      BY <3>1, FeedbackFinite, FitRows
    <3>3. Forum!ThreadFeedback(p, u) = FeedbackOf(feedbacks, p, u)
      BY DEF Forum!ThreadFeedback, FeedbackOf
    <3>4. QED  BY <3>2, <3>3, ForumCardinality, Zenon
  <2>2. QED  BY <2>1 DEF Forum!FeedbackWithin
<1>3. ShopInv /\ ForumInv /\ RowsWithin(overlap) => DuplicatesWithin
  BY <1>1, <1>2 DEF DuplicatesWithin
<1>4. QED  BY <1>3, ShopInvariant, ForumInvariant, RowsAreWithin, PTL

-----------------------------------------------------------------------------
(* Notifications.                                                           *)

\* The entries of a token among those that are read.
At(s, t) == {k \in 1 .. Len(s) : k <= Window /\ s[k] = t}

\* A handler that has found the token missing.
Adding(q, u, t) == q.pc = "registering" /\ q.user = u /\ q.token = t

Devices ==
  \A u \in Users, t \in Tokens :
    Fit(Cardinality(At(devices[u], t)), {r \in Requests : Adding(noticeReq[r], u, t)})

\* Who is due is enrolled, and has a device.
DueLive ==
  \A n \in Notice!NoticeId : notices[n] # None =>
    \A u \in notices[n].due :
      /\ notices[n].course # None /\ enrollments[u][notices[n].course] = "live"
      /\ devices[u] # << >>
      /\ notices[n].done => u \in notices[n].tried

\* Who is due has been tried, or will be by the handler that pushes.
NoticeHeld(q, ns) ==
  /\ q.pc \in {"asking", "pushing"} => ns[q.notice] # None
  /\ q.pc = "pushing" =>
       \A u \in ns[q.notice].due :
         u \in ns[q.notice].tried \/ <<u, ns[q.notice].course>> \in q.left \cup q.found

NoticeInv ==
  /\ overlap \in Nat
  /\ Notice!TypeOK
  /\ Devices
  /\ DueLive
  /\ \A r \in Requests : NoticeHeld(noticeReq[r], notices)

\* Of the notifications every step is their own, with as many handlers as overlap, or none.
LEMMA NoticeSteps ==
  ASSUME [PlatformNext]_platform
  PROVE  /\ overlap' = overlap
         /\ (Notice!Next /\ Within(noticeReq')) \/ UNCHANGED noticeVars
  BY DEF PlatformNext, platform, LectureStep, CatalogueStep, CommunityStep, SupportStep,
     StoreStep, NoticeStep, RewardStep, PricingStep, UploadStep, AccountStep

\* The smaller of the window and the length bounds what is read.
LEMMA ShownDevices ==
  ASSUME NEW s \in Seq(Tokens)
  PROVE  /\ \A t : At(s, t) = {} <=> ~ Notice!Contains(SubSeq(s, 1, Notice!Min({Window, Len(s)})), t)
         /\ \A t : {k \in DOMAIN SubSeq(s, 1, Notice!Min({Window, Len(s)})) :
                      SubSeq(s, 1, Notice!Min({Window, Len(s)}))[k] = t} = At(s, t)
<1> DEFINE m == Notice!Min({Window, Len(s)})
<1>1. Len(s) \in Nat /\ Window \in Nat
  BY PlatformBounds
<1>2. m = IF Window <= Len(s) THEN Window ELSE Len(s)
  BY <1>1 DEF Notice!Min
<1>3. m \in Nat /\ m <= Len(s) /\ m <= Window /\ (m = Len(s) \/ m = Window)
  BY <1>1, <1>2
<1> HIDE DEF m
<1>4. /\ SubSeq(s, 1, m) \in Seq(Tokens) /\ Len(SubSeq(s, 1, m)) = m
      /\ \A k \in 1 .. m : SubSeq(s, 1, m)[k] = s[k]
      /\ DOMAIN SubSeq(s, 1, m) = 1 .. m
  BY <1>1, <1>3
<1>5. \A t : {k \in DOMAIN SubSeq(s, 1, m) : SubSeq(s, 1, m)[k] = t} = At(s, t)
  BY <1>1, <1>3, <1>4 DEF At
<1>6. \A t : At(s, t) = {} <=> ~ Notice!Contains(SubSeq(s, 1, m), t)
  BY <1>1, <1>3, <1>4 DEF At, Notice!Contains
<1>7. QED  BY <1>5, <1>6 DEF m

\* Entries are finitely many.
LEMMA AtFinite ==
  ASSUME NEW s \in Seq(Tokens), NEW t
  PROVE  IsFiniteSet(At(s, t)) /\ Cardinality(At(s, t)) \in Nat
<1>1. IsFiniteSet(1 .. Len(s)) /\ At(s, t) \in SUBSET (1 .. Len(s))
  BY FS_Interval DEF At
<1>2. QED  BY <1>1, FS_Subset, FS_CardinalityType

\* A device that is added in front moves the others, perhaps one of them out of what is
\* read, and is one more of its own token.
LEMMA AtAdded ==
  ASSUME NEW s \in Seq(Tokens), NEW d \in Tokens, NEW t \in Tokens
  PROVE  /\ Cardinality(At(<<d>> \o s, t)) \in Nat
         /\ Cardinality(At(<<d>> \o s, t)) <= Cardinality(At(s, t)) + 1
         /\ t # d => Cardinality(At(<<d>> \o s, t)) <= Cardinality(At(s, t))
<1> DEFINE z == <<d>> \o s
           R == At(z, t) \ {1}
           f == [k \in R |-> k - 1]
<1>1. /\ z \in Seq(Tokens) /\ Len(z) = Len(s) + 1 /\ z[1] = d
      /\ \A k \in 2 .. Len(z) : z[k] = s[k - 1]
  OBVIOUS
<1> HIDE DEF z
<1>2. IsFiniteSet(At(z, t)) /\ Cardinality(At(z, t)) \in Nat
      /\ IsFiniteSet(At(s, t)) /\ Cardinality(At(s, t)) \in Nat
  BY <1>1, AtFinite
<1>3. \A k \in R : k \in Int /\ k - 1 \in At(s, t)
  BY <1>1, PlatformBounds DEF At
<1>4. f \in Injection(R, At(s, t))
  BY <1>3 DEF Injection, IsInjective
<1>5. Cardinality(R) <= Cardinality(At(s, t))
  BY <1>2, <1>4, FS_Injection
<1>6. IsFiniteSet(R) /\ Cardinality(R) \in Nat
      /\ Cardinality(R) = IF 1 \in At(z, t) THEN Cardinality(At(z, t)) - 1 ELSE Cardinality(At(z, t))
  <2>1. CASE 1 \in At(z, t)
    BY <2>1, <1>2, FS_RemoveElement, FS_CardinalityType
  <2>2. CASE 1 \notin At(z, t)
    <3>1. R = At(z, t)
      BY <2>2
    <3>2. QED  BY <3>1, <2>2, <1>2, Zenon
  <2>3. QED  BY <2>1, <2>2
<1>7. t # d => 1 \notin At(z, t)
  BY <1>1 DEF At
<1> HIDE DEF R
<1>8. /\ Cardinality(At(z, t)) \in Nat
      /\ Cardinality(At(z, t)) <= Cardinality(At(s, t)) + 1
      /\ t # d => Cardinality(At(z, t)) <= Cardinality(At(s, t))
  BY <1>2, <1>5, <1>6, <1>7
<1>9. QED  BY <1>8 DEF z

\* At first nothing is registered and nothing announced.
LEMMA InitNotice == PlatformInit => NoticeInv
<1> SUFFICES ASSUME PlatformInit PROVE NoticeInv
  OBVIOUS
<1>1. Notice!Init /\ overlap \in Nat
  BY HandlersAssumption, FS_CardinalityType DEF PlatformInit
<1>2. \A r \in Requests : noticeReq[r] = [pc |-> "idle"]
  BY <1>1 DEF Notice!Init, Notice!Idle
<1>3. Notice!TypeOK
  BY <1>1, <1>2, PlatformBounds DEF Notice!Init, Notice!TypeOK, Notice!Request, Notice!Idle
<1>4. Devices
  <2>1. \A u \in Users, t \in Tokens :
          At(devices[u], t) = {} /\ {r \in Requests : Adding(noticeReq[r], u, t)} = {}
    BY <1>1, <1>2 DEF Notice!Init, At, Adding
  <2>2. QED  BY <2>1, <1>1, FitNothing, FS_EmptySet DEF Devices
<1>5. DueLive /\ \A r \in Requests : NoticeHeld(noticeReq[r], notices)
  BY <1>1, <1>2 DEF Notice!Init, DueLive, NoticeHeld
<1>6. QED  BY <1>1, <1>3, <1>4, <1>5 DEF NoticeInv

\* What a handler of notifications holds has its fields.
LEMMA NoticeFields ==
  ASSUME Notice!TypeOK, NEW r \in Requests
  PROVE  /\ noticeReq[r].pc = "registering" =>
              noticeReq[r].user \in Users /\ noticeReq[r].token \in Tokens
         /\ noticeReq[r].pc = "announcing" => noticeReq[r].course \in Courses
         /\ noticeReq[r].pc \in {"asking", "pushing"} => noticeReq[r].notice \in Notice!NoticeId
         /\ noticeReq[r].pc = "pushing" =>
              noticeReq[r] \in [pc : {"pushing"}, notice : Notice!NoticeId,
                                left : SUBSET (Users \X Courses), found : SUBSET (Users \X Courses)]
<1>1. noticeReq[r] \in Notice!Request
  BY DEF Notice!TypeOK
<1>2. QED  BY <1>1 DEF Notice!Request, Notice!Idle

\* The fields of announcements.
LEMMA NoticeRow ==
  ASSUME Notice!TypeOK, NEW n \in Notice!NoticeId, notices[n] # None
  PROVE  /\ notices[n] \in Notice!Notice
         /\ notices[n].course \in Courses \cup {None}
         /\ notices[n].due \in SUBSET Users /\ notices[n].tried \in SUBSET Users
         /\ notices[n].done \in BOOLEAN
<1>1. notices[n] \in Notice!Notice
  BY DEF Notice!TypeOK
<1>2. QED  BY <1>1 DEF Notice!Notice

\* Announcements stay, with their course, due to no more users and tried for no fewer.
NoticesGrow ==
  \A n \in Notice!NoticeId : notices[n] # None =>
    /\ notices'[n] # None /\ notices'[n].course = notices[n].course
    /\ notices'[n].due \subseteq notices[n].due
    /\ notices[n].tried \subseteq notices'[n].tried

\* What a handler holds of an announcement it still holds.
LEMMA NoticesHeld ==
  ASSUME NoticeInv, NoticesGrow, NEW r \in Requests
  PROVE  NoticeHeld(noticeReq[r], notices')
<1> DEFINE q == noticeReq[r]
<1>1. NoticeHeld(q, notices) /\ Notice!TypeOK
  BY DEF NoticeInv
<1>2. CASE q.pc \in {"asking", "pushing"}
  <2>1. q.notice \in Notice!NoticeId
    BY <1>1, <1>2, NoticeFields
  <2>2. notices[q.notice] # None
    BY <1>1, <1>2 DEF NoticeHeld
  <2>3. /\ notices'[q.notice] # None /\ notices'[q.notice].course = notices[q.notice].course
        /\ notices'[q.notice].due \subseteq notices[q.notice].due
        /\ notices[q.notice].tried \subseteq notices'[q.notice].tried
    BY <2>1, <2>2 DEF NoticesGrow
  <2>4. QED  BY <1>1, <1>2, <2>3 DEF NoticeHeld
<1>3. CASE q.pc \notin {"asking", "pushing"}
  BY <1>3 DEF NoticeHeld
<1>4. QED  BY <1>2, <1>3

\* The devices when none is added, and handlers come to add one only where there is none.
LEMMA DevicesSame ==
  ASSUME NoticeInv, UNCHANGED devices, Within(noticeReq'),
         \A x \in Requests, u \in Users, t \in Tokens :
           Adding(noticeReq'[x], u, t) => Adding(noticeReq[x], u, t) \/ At(devices[u], t) = {},
         NEW u \in Users, NEW t \in Tokens
  PROVE  Fit(Cardinality(At(devices'[u], t)), {r \in Requests : Adding(noticeReq'[r], u, t)})
<1> DEFINE S == {r \in Requests : Adding(noticeReq[r], u, t)}
           T == {r \in Requests : Adding(noticeReq'[r], u, t)}
           n == Cardinality(At(devices[u], t))
<1>1. overlap \in Nat /\ Fit(n, S) /\ S \in SUBSET Requests
  BY DEF NoticeInv, Devices
<1>2. devices[u] \in Seq(Tokens)
  BY DEF NoticeInv, Notice!TypeOK
<1>3. n \in Nat /\ n <= n
  BY <1>2, AtFinite
<1>4. devices'[u] = devices[u]
  OBVIOUS
<1>5. CASE At(devices[u], t) = {}
  <2>1. n = 0
    BY <1>5, FS_EmptySet
  <2>2. T \in SUBSET Busy(noticeReq')
    BY DEF Adding, Busy
  <2> HIDE DEF T, n
  <2>3. Fit(0, T)
    BY <1>1, <2>2, FitStarted
  <2>4. QED  BY <1>4, <2>1, <2>3 DEF T, n
<1>6. CASE At(devices[u], t) # {}
  <2>1. T \in SUBSET S
    BY <1>6
  <2> HIDE DEF S, T, n
  <2>2. Fit(n, T)
    BY <1>1, <1>3, <2>1, FitLess
  <2>3. QED  BY <1>4, <2>2 DEF T, n
<1>7. QED  BY <1>5, <1>6

\* The parts together.
LEMMA NoticeTogether ==
  ASSUME NoticeInv, overlap' = overlap, Notice!TypeOK', DueLive',
         \A r \in Requests : NoticeHeld(noticeReq'[r], notices'),
         \A u \in Users, t \in Tokens :
           Fit(Cardinality(At(devices'[u], t)), {r \in Requests : Adding(noticeReq'[r], u, t)})
  PROVE  NoticeInv'
BY DEF NoticeInv, Devices, Fit

\* A handler that proceeds is the only one whose step changes.
LEMMA NoticeProceeds ==
  ASSUME Notice!TypeOK, NEW r \in Requests, NEW step \in Notice!Request, Notice!Proceed(r, step)
  PROVE  /\ noticeReq' \in [Requests -> Notice!Request]
         /\ noticeReq'[r] = step /\ \A x \in Requests : x # r => noticeReq'[x] = noticeReq[x]
  BY DEF Notice!Proceed, Notice!TypeOK

\* A handler whose step adds no device, and that holds what announcements say.
LEMMA NoticeKeeps ==
  ASSUME NoticeInv, overlap' = overlap, Within(noticeReq'), UNCHANGED <<devices, enrollments>>,
         NEW r \in Requests, NEW step \in Notice!Request, Notice!Proceed(r, step),
         \A u \in Users, t \in Tokens : Adding(step, u, t) => At(devices[u], t) = {},
         notices' \in [Notice!NoticeId -> Notice!Notice \cup {None}],
         NoticesGrow, DueLive', NoticeHeld(step, notices')
  PROVE  NoticeInv'
<1>typ. Notice!TypeOK /\ overlap \in Nat
  BY DEF NoticeInv
<1>1. noticeReq' \in [Requests -> Notice!Request] /\ noticeReq'[r] = step
      /\ \A x \in Requests : x # r => noticeReq'[x] = noticeReq[x]
  BY <1>typ, NoticeProceeds
<1>2. Notice!TypeOK'
  BY <1>1, <1>typ DEF Notice!TypeOK
<1>3. \A x \in Requests : NoticeHeld(noticeReq'[x], notices')
  BY <1>1, NoticesHeld
<1>4. \A x \in Requests, u \in Users, t \in Tokens :
        Adding(noticeReq'[x], u, t) => Adding(noticeReq[x], u, t) \/ At(devices[u], t) = {}
  BY <1>1
<1>5. \A u \in Users, t \in Tokens :
        Fit(Cardinality(At(devices'[u], t)), {x \in Requests : Adding(noticeReq'[x], u, t)})
  BY <1>4, DevicesSame
<1>6. QED  BY <1>2, <1>3, <1>5, NoticeTogether

\* A handler reads what it starts with, or is done.
LEMMA NoticeReads ==
  ASSUME NoticeInv, overlap' = overlap, Within(noticeReq'),
         UNCHANGED <<devices, enrollments, notices>>,
         NEW r \in Requests, NEW step \in Notice!Request, Notice!Proceed(r, step),
         \A u \in Users, t \in Tokens : Adding(step, u, t) => At(devices[u], t) = {},
         NoticeHeld(step, notices)
  PROVE  NoticeInv'
<1>1. NoticesGrow
  BY DEF NoticesGrow
<1>2. DueLive'
  BY DEF NoticeInv, DueLive
<1>3. notices' \in [Notice!NoticeId -> Notice!Notice \cup {None}] /\ NoticeHeld(step, notices')
  BY DEF NoticeInv, Notice!TypeOK
<1>4. QED  BY <1>1, <1>2, <1>3, NoticeKeeps

\* A device is added, by a handler that had found its token missing.
LEMMA DeviceRegistered ==
  ASSUME NoticeInv, overlap' = overlap, Within(noticeReq'), NEW r \in Requests,
         Notice!RegisterDevice(r)
  PROVE  NoticeInv'
<1> DEFINE v == noticeReq[r].user
           d == noticeReq[r].token
           s == devices[v]
<1>1. /\ noticeReq[r].pc = "registering" /\ devices' = [devices EXCEPT ![v] = <<d>> \o s]
      /\ Notice!Proceed(r, Notice!Idle) /\ UNCHANGED <<enrollments, notices>>
      /\ Len(s) < MaxDevice
  BY DEF Notice!RegisterDevice, NoticeInv, Notice!TypeOK
<1>typ. /\ Notice!TypeOK /\ overlap \in Nat /\ v \in Users /\ d \in Tokens
        /\ devices \in [Users -> Seq(Tokens)] /\ s \in Seq(Tokens)
  <2>1. Notice!TypeOK /\ overlap \in Nat
    BY DEF NoticeInv
  <2>2. v \in Users /\ d \in Tokens
    BY <1>1, <2>1, NoticeFields
  <2>3. QED  BY <2>1, <2>2 DEF Notice!TypeOK
<1>idle. Notice!Idle \in Notice!Request /\ Notice!Idle.pc = "idle"
  BY DEF Notice!Idle, Notice!Request
<1>2. /\ noticeReq' \in [Requests -> Notice!Request] /\ noticeReq'[r] = Notice!Idle
      /\ \A x \in Requests : x # r => noticeReq'[x] = noticeReq[x]
  BY <1>1, <1>typ, <1>idle, NoticeProceeds
<1> HIDE DEF s
<1>3. <<d>> \o s \in Seq(Tokens) /\ Len(<<d>> \o s) = Len(s) + 1 /\ <<d>> \o s # << >>
  BY <1>typ
<1>4. devices'[v] = <<d>> \o s /\ \A u \in Users : u # v => devices'[u] = devices[u]
  BY <1>1, <1>typ
<1>5. Notice!TypeOK'
  <2>1. devices' \in [Users -> Seq(Tokens)]
    BY <1>1, <1>typ, <1>3
  <2>2. \A u \in Users : Len(devices'[u]) <= MaxDevice
    <3>a. Len(s) \in Nat /\ MaxDevice \in Nat /\ Len(s) < MaxDevice
      BY <1>1, <1>typ, PlatformBounds
    <3>1. Len(s) + 1 <= MaxDevice
      BY <3>a
    <3>2. QED  BY <3>1, <1>3, <1>4, <1>typ DEF Notice!TypeOK
  <2>3. QED  BY <2>1, <2>2, <1>1, <1>2, <1>typ DEF Notice!TypeOK
<1>6. DueLive'
  <2>1. \A u \in Users : devices[u] # << >> => devices'[u] # << >>
    BY <1>3, <1>4
  <2>2. \A n \in Notice!NoticeId : notices[n] # None => notices[n].due \in SUBSET Users
    BY <1>typ, NoticeRow
  <2>3. DueLive
    BY DEF NoticeInv
  <2>4. QED  BY <1>1, <2>1, <2>2, <2>3 DEF DueLive
<1>7. \A x \in Requests : NoticeHeld(noticeReq'[x], notices')
  BY <1>1, <1>2, <1>idle DEF NoticeInv, NoticeHeld
<1>8. ASSUME NEW u \in Users, NEW t \in Tokens
      PROVE  Fit(Cardinality(At(devices'[u], t)), {x \in Requests : Adding(noticeReq'[x], u, t)})
  <2> DEFINE S == {x \in Requests : Adding(noticeReq[x], u, t)}
             T == {x \in Requests : Adding(noticeReq'[x], u, t)}
             n == Cardinality(At(devices[u], t))
             m == Cardinality(At(devices'[u], t))
  <2>1. Fit(n, S) /\ S \in SUBSET Requests /\ n \in Nat
    BY <1>typ, AtFinite DEF NoticeInv, Devices
  <2>2. T \in SUBSET (S \ {r})
    BY <1>2, <1>idle DEF Adding
  <2>3. CASE u = v /\ t = d
    <3>1. m \in Nat /\ m <= n + 1
      BY <2>3, <1>4, <1>typ, AtAdded DEF s
    <3>2. r \in S
      BY <2>3, <1>1 DEF Adding
    <3> HIDE DEF S, T, n, m
    <3>3. QED  BY <1>typ, <2>1, <2>2, <3>1, <3>2, FitWritten DEF T, m
  <2>4. CASE ~ (u = v /\ t = d)
    <3>1. m \in Nat /\ m <= n
      <4>1. CASE u = v
        <5>1. t # d /\ devices'[u] = <<d>> \o s /\ devices[u] = s
          BY <2>4, <4>1, <1>4 DEF s
        <5>2. /\ Cardinality(At(<<d>> \o s, t)) \in Nat
              /\ Cardinality(At(<<d>> \o s, t)) <= Cardinality(At(s, t))
          BY <5>1, <1>typ, AtAdded
        <5>3. QED  BY <5>1, <5>2
      <4>2. CASE u # v
        BY <2>1, <4>2, <1>4
      <4>3. QED  BY <4>1, <4>2
    <3>2. T \in SUBSET S
      BY <2>2
    <3> HIDE DEF S, T, n, m
    <3>3. QED  BY <1>typ, <2>1, <3>1, <3>2, FitLess DEF T, m
  <2>5. QED  BY <2>3, <2>4
<1>9. QED  BY <1>5, <1>6, <1>7, <1>8, NoticeTogether

\* Orders and time change who is enrolled, and who is due no longer.
LEMMA EnrollmentsChange ==
  ASSUME NoticeInv, overlap' = overlap, Within(noticeReq'), NEW v \in Users, NEW c \in Courses,
         Notice!Enroll(v, c) \/ Notice!Expire(v, c)
  PROVE  NoticeInv'
<1>typ. /\ Notice!TypeOK /\ DueLive
        /\ enrollments \in [Users -> [Courses -> {"none", "live", "expired"}]]
        /\ notices \in [Notice!NoticeId -> Notice!Notice \cup {None}]
  BY DEF NoticeInv, Notice!TypeOK
<1>1. UNCHANGED <<devices, noticeReq>>
  BY DEF Notice!Enroll, Notice!Expire
<1>2. PICK s \in {"live", "expired"} : enrollments' = [enrollments EXCEPT ![v][c] = s]
  BY DEF Notice!Enroll, Notice!Expire
<1>3. /\ enrollments' \in [Users -> [Courses -> {"none", "live", "expired"}]]
      /\ \A u \in Users, d \in Courses : u # v \/ d # c => enrollments'[u][d] = enrollments[u][d]
  BY <1>2, <1>typ
<1>4. /\ NoticesGrow /\ DueLive'
      /\ notices' \in [Notice!NoticeId -> Notice!Notice \cup {None}]
  <2>1. CASE Notice!Enroll(v, c)
    <3>1. UNCHANGED notices /\ enrollments'[v][c] = "live"
      BY <2>1, <1>typ DEF Notice!Enroll
    <3>2. ASSUME NEW n \in Notice!NoticeId, notices[n] # None, NEW u \in notices[n].due
          PROVE  enrollments'[u][notices[n].course] = "live"
      <4>1. /\ notices[n].course \in Courses /\ u \in Users
            /\ enrollments[u][notices[n].course] = "live"
        BY <3>2, <1>typ, NoticeRow DEF DueLive
      <4>2. QED  BY <4>1, <3>1, <1>3
    <3>3. NoticesGrow
      BY <3>1 DEF NoticesGrow
    <3>4. DueLive'
      BY <3>1, <3>2, <1>1, <1>typ DEF DueLive
    <3>5. QED  BY <3>1, <3>3, <3>4, <1>typ
  <2>2. CASE Notice!Expire(v, c)
    <3>1. ASSUME NEW n \in Notice!NoticeId, notices[n] # None
          PROVE  /\ notices'[n] \in Notice!Notice /\ notices'[n] # None
                 /\ notices'[n].course = notices[n].course
                 /\ notices'[n].tried = notices[n].tried /\ notices'[n].done = notices[n].done
                 /\ notices'[n].due = IF notices[n].course = c THEN notices[n].due \ {v}
                                                               ELSE notices[n].due
      <4>1. notices[n] \in Notice!Notice
        BY <3>1, <1>typ
      <4>2. notices'[n] = IF notices[n].course = c
                            THEN [notices[n] EXCEPT !.due = notices[n].due \ {v}] ELSE notices[n]
        BY <2>2, <3>1 DEF Notice!Expire
      <4>3. CASE notices[n].course = c
        <5> DEFINE row == [notices[n] EXCEPT !.due = notices[n].due \ {v}]
        <5>1. /\ row \in Notice!Notice /\ row.course = notices[n].course
              /\ row.tried = notices[n].tried /\ row.done = notices[n].done
              /\ row.due = notices[n].due \ {v}
          BY <4>1 DEF Notice!Notice
        <5>2. row # None
          BY <5>1, NoneIsNoRow
        <5>3. notices'[n] = row
          BY <4>2, <4>3
        <5> HIDE DEF row
        <5>4. QED  BY <4>3, <5>1, <5>2, <5>3
      <4>4. CASE notices[n].course # c
        BY <4>1, <4>2, <4>4, <3>1
      <4>5. QED  BY <4>3, <4>4
    <3>2. \A n \in Notice!NoticeId : notices[n] = None => notices'[n] = None
      BY <2>2 DEF Notice!Expire
    <3>3. NoticesGrow
      BY <3>1 DEF NoticesGrow
    <3>4. notices' \in [Notice!NoticeId -> Notice!Notice \cup {None}]
      <4>1. notices' = [n \in Notice!NoticeId |-> notices'[n]]
        BY <2>2, Zenon DEF Notice!Expire
      <4>2. \A n \in Notice!NoticeId : notices'[n] \in Notice!Notice \cup {None}
        BY <3>1, <3>2
      <4>3. QED  BY <4>1, <4>2
    <3>5. ASSUME NEW n \in Notice!NoticeId, notices'[n] # None, NEW u \in notices'[n].due
          PROVE  /\ notices'[n].course # None
                 /\ enrollments'[u][notices'[n].course] = "live"
                 /\ devices'[u] # << >>
                 /\ notices'[n].done => u \in notices'[n].tried
      <4>1. /\ notices[n] # None /\ u \in notices[n].due
            /\ u # v \/ notices[n].course # c
        BY <3>5, <3>1, <3>2
      <4>2. /\ notices[n].course # None /\ enrollments[u][notices[n].course] = "live"
            /\ devices[u] # << >>
            /\ notices[n].done => u \in notices[n].tried
        BY <4>1, <1>typ DEF DueLive
      <4>3. notices[n].course \in Courses /\ u \in Users
        BY <4>1, <4>2, <1>typ, NoticeRow
      <4>4. enrollments'[u][notices[n].course] = "live"
        BY <4>1, <4>2, <4>3, <1>3
      <4>5. QED  BY <4>1, <4>2, <4>4, <3>1, <1>1
    <3>6. DueLive'
      BY <3>5 DEF DueLive
    <3>7. QED  BY <3>3, <3>4, <3>6
  <2>3. QED  BY <2>1, <2>2
<1>5. Notice!TypeOK'
  BY <1>1, <1>3, <1>4, <1>typ DEF Notice!TypeOK
<1>6. \A x \in Requests : NoticeHeld(noticeReq'[x], notices')
  BY <1>1, <1>4, NoticesHeld
<1>7. \A u \in Users, t \in Tokens :
        Fit(Cardinality(At(devices'[u], t)), {x \in Requests : Adding(noticeReq'[x], u, t)})
  BY <1>1, DevicesSame
<1>8. QED  BY <1>4, <1>5, <1>6, <1>7, NoticeTogether

\* A notification is stored under an id that none has: the others stay.
LEMMA NoticeStored ==
  ASSUME NoticeInv, UNCHANGED <<devices, enrollments>>,
         NEW n \in Notice!NoticeId, notices[n] = None,
         NEW row \in Notice!Notice, notices' = [notices EXCEPT ![n] = row],
         \A u \in row.due : /\ row.course # None /\ enrollments[u][row.course] = "live"
                            /\ devices[u] # << >>,
         row.done => row.due = {}
  PROVE  /\ NoticesGrow /\ DueLive' /\ notices'[n] = row /\ row # None
         /\ notices' \in [Notice!NoticeId -> Notice!Notice \cup {None}]
<1>typ. /\ notices \in [Notice!NoticeId -> Notice!Notice \cup {None}] /\ DueLive
        /\ row # None
  BY NoneIsNoRow DEF NoticeInv, Notice!TypeOK
<1>1. notices'[n] = row /\ \A k \in Notice!NoticeId : k # n => notices'[k] = notices[k]
  BY <1>typ
<1>2. notices' \in [Notice!NoticeId -> Notice!Notice \cup {None}]
  BY <1>typ
<1>3. NoticesGrow
  BY <1>1 DEF NoticesGrow
<1>4. DueLive'
  BY <1>1, <1>typ DEF DueLive
<1>5. QED  BY <1>1, <1>2, <1>3, <1>4, <1>typ

\* One is tried, or all have been.
LEMMA NoticeTried ==
  ASSUME NoticeInv, UNCHANGED <<devices, enrollments>>,
         NEW n \in Notice!NoticeId, notices[n] # None,
         NEW row \in Notice!Notice, notices' = [notices EXCEPT ![n] = row],
         row.course = notices[n].course, row.due = notices[n].due,
         notices[n].tried \subseteq row.tried,
         row.done => notices[n].done \/ row.due \subseteq row.tried
  PROVE  /\ NoticesGrow /\ DueLive' /\ notices'[n] = row
         /\ notices' \in [Notice!NoticeId -> Notice!Notice \cup {None}]
<1>typ. /\ notices \in [Notice!NoticeId -> Notice!Notice \cup {None}] /\ DueLive
        /\ row # None
  BY NoneIsNoRow DEF NoticeInv, Notice!TypeOK
<1>1. notices'[n] = row /\ \A k \in Notice!NoticeId : k # n => notices'[k] = notices[k]
  BY <1>typ
<1>2. notices' \in [Notice!NoticeId -> Notice!Notice \cup {None}]
  BY <1>typ
<1>3. NoticesGrow
  BY <1>1, <1>typ DEF NoticesGrow
<1>4. DueLive'
  BY <1>1, <1>typ DEF DueLive
<1>5. QED  BY <1>1, <1>2, <1>3, <1>4

\* A handler of notifications that pushes to one device after the other.
LEMMA NoticePushed ==
  ASSUME NoticeInv, overlap' = overlap, Within(noticeReq'), NEW r \in Requests,
         NEW e \in Users \X Courses, Notice!ReadDevices(r, e) \/ Notice!Push(r, e)
  PROVE  NoticeInv'
<1> DEFINE q == noticeReq[r]
           n == q.notice
<1>typ. /\ Notice!TypeOK /\ NoticeHeld(q, notices) /\ DueLive
        /\ q.pc = "pushing" /\ n \in Notice!NoticeId /\ notices[n] # None
        /\ q \in [pc : {"pushing"}, notice : Notice!NoticeId,
                  left : SUBSET (Users \X Courses), found : SUBSET (Users \X Courses)]
  <2>1. Notice!TypeOK /\ NoticeHeld(q, notices) /\ DueLive /\ q.pc = "pushing"
    BY DEF NoticeInv, Notice!ReadDevices, Notice!Push
  <2>2. QED  BY <2>1, NoticeFields DEF NoticeHeld
<1>row. /\ notices[n] \in Notice!Notice
        /\ notices[n].due \in SUBSET Users /\ notices[n].tried \in SUBSET Users
        /\ \A u \in notices[n].due :
             u \in notices[n].tried \/ <<u, notices[n].course>> \in q.left \cup q.found
  BY <1>typ, NoticeRow DEF NoticeHeld
<1>1. CASE Notice!ReadDevices(r, e)
  <2> DEFINE rest == q.left \ {e}
             more == IF devices[e[1]] # << >> THEN q.found \cup {e} ELSE q.found
             step == [q EXCEPT !.left = rest, !.found = more]
  <2>1. Notice!Proceed(r, step) /\ UNCHANGED <<devices, enrollments, notices>> /\ e \in q.left
    BY <1>1 DEF Notice!ReadDevices, Notice!tables
  <2>2. /\ step \in Notice!Request /\ step.pc = "pushing" /\ step.notice = n
        /\ step.left = rest /\ step.found = more
    <3>1. rest \in SUBSET (Users \X Courses) /\ more \in SUBSET (Users \X Courses)
      BY <1>typ
    <3> HIDE DEF rest, more
    <3>2. QED  BY <3>1, <1>typ DEF Notice!Request
  <2>3. \A u \in notices[n].due : devices[u] # << >>
    BY <1>typ DEF DueLive
  <2>4. \A u \in notices[n].due :
          u \in notices[n].tried \/ <<u, notices[n].course>> \in rest \cup more
    <3>1. SUFFICES ASSUME NEW u \in notices[n].due, u \notin notices[n].tried
                   PROVE  <<u, notices[n].course>> \in rest \cup more
      OBVIOUS
    <3>2. <<u, notices[n].course>> \in q.left \cup q.found
      BY <3>1, <1>row
    <3>3. <<u, notices[n].course>> = e => devices[e[1]] # << >>
      BY <2>3
    <3>4. QED  BY <3>2, <3>3
  <2> HIDE DEF step
  <2>5. NoticeHeld(step, notices)
    BY <2>2, <2>4, <1>typ DEF NoticeHeld
  <2>6. \A u \in Users, t \in Tokens : ~ Adding(step, u, t)
    BY <2>2 DEF Adding
  <2>7. QED  BY <2>1, <2>2, <2>5, <2>6, NoticeReads
<1>2. CASE Notice!Push(r, e)
  <2> DEFINE rest == q.found \ {e}
             step == [q EXCEPT !.found = rest]
             all == notices[n].tried \cup {e[1]}
             row == [notices[n] EXCEPT !.tried = all]
  <2>1. /\ Notice!Proceed(r, step) /\ UNCHANGED <<devices, enrollments>> /\ q.left = {}
        /\ notices' = [notices EXCEPT ![n] = row]
    BY <1>2, <1>typ DEF Notice!Push, Notice!TypeOK
  <2>2. /\ step \in Notice!Request /\ step.pc = "pushing" /\ step.notice = n
        /\ step.left = {} /\ step.found = rest
    BY <2>1, <1>typ DEF Notice!Request
  <2>3. /\ row \in Notice!Notice /\ row.course = notices[n].course /\ row.due = notices[n].due
        /\ row.done = notices[n].done /\ row.tried = all
    <3>1. all \in SUBSET Users
      BY <1>row
    <3> HIDE DEF all
    <3>2. QED  BY <3>1, <1>row DEF Notice!Notice
  <2>4. \A u \in row.due : u \in row.tried \/ <<u, row.course>> \in step.left \cup step.found
    <3>1. ASSUME NEW u \in notices[n].due
          PROVE  u \in all \/ <<u, notices[n].course>> \in rest
      <4>1. u \in notices[n].tried \/ <<u, notices[n].course>> \in q.found
        BY <1>row, <2>1
      <4>2. <<u, notices[n].course>> = e => u = e[1]
        OBVIOUS
      <4>3. QED  BY <4>1, <4>2
    <3> HIDE DEF step, row
    <3>2. QED  BY <3>1, <2>2, <2>3
  <2> HIDE DEF step, row
  <2>5. /\ NoticesGrow /\ DueLive' /\ notices'[n] = row
        /\ notices' \in [Notice!NoticeId -> Notice!Notice \cup {None}]
    <3>1. notices[n].tried \subseteq row.tried
      BY <2>3
    <3>2. QED  BY <1>typ, <2>1, <2>3, <3>1, NoticeTried
  <2>6. row # None
    BY <2>3, NoneIsNoRow
  <2>7. NoticeHeld(step, notices')
    BY <2>2, <2>4, <2>5, <2>6 DEF NoticeHeld
  <2>8. \A u \in Users, t \in Tokens : ~ Adding(step, u, t)
    BY <2>2 DEF Adding
  <2>9. QED  BY <2>1, <2>2, <2>5, <2>7, <2>8, NoticeKeeps
<1>3. QED  BY <1>1, <1>2

\* A notification to one user is stored at once; nobody is due.
LEMMA UserNotified ==
  ASSUME NoticeInv, overlap' = overlap, Within(noticeReq'), NEW n \in Notice!NoticeId,
         Notice!NotifyUser(n)
  PROVE  NoticeInv'
<1> DEFINE row == [course |-> None, due |-> {}, tried |-> {}, done |-> TRUE]
<1>1. /\ notices[n] = None /\ notices' = [notices EXCEPT ![n] = row]
      /\ UNCHANGED <<devices, enrollments, noticeReq>>
  BY DEF Notice!NotifyUser, Notice!NextNotice
<1>2. row \in Notice!Notice /\ row.due = {}
  BY DEF Notice!Notice
<1> HIDE DEF row
<1>3. NoticesGrow /\ DueLive' /\ notices' \in [Notice!NoticeId -> Notice!Notice \cup {None}]
  BY <1>1, <1>2, NoticeStored
<1>4. Notice!TypeOK'
  BY <1>1, <1>3 DEF NoticeInv, Notice!TypeOK
<1>5. \A x \in Requests : NoticeHeld(noticeReq'[x], notices')
  BY <1>1, <1>3, NoticesHeld
<1>6. \A u \in Users, t \in Tokens :
        Fit(Cardinality(At(devices'[u], t)), {x \in Requests : Adding(noticeReq'[x], u, t)})
  BY <1>1, DevicesSame
<1>7. QED  BY <1>3, <1>4, <1>5, <1>6, NoticeTogether

\* An announcement is due to who is enrolled and has a device.
LEMMA AnnouncementStored ==
  ASSUME NoticeInv, overlap' = overlap, Within(noticeReq'), NEW r \in Requests,
         NEW n \in Notice!NoticeId, Notice!CreateNotification(r, n)
  PROVE  NoticeInv'
<1> DEFINE c == noticeReq[r].course
           to == {u \in Users : Notice!Live(u, c) /\ devices[u] # << >>}
           row == [course |-> c, tried |-> {}, done |-> FALSE, due |-> to]
           step == [pc |-> "asking", notice |-> n]
<1>1. /\ noticeReq[r].pc = "announcing" /\ notices[n] = None
      /\ notices' = [notices EXCEPT ![n] = row]
      /\ Notice!Proceed(r, step) /\ UNCHANGED <<devices, enrollments>>
  BY DEF Notice!CreateNotification, Notice!NextNotice
<1>2. c \in Courses /\ c # None
  BY <1>1, NoticeFields, NoneIsNoRow DEF NoticeInv
<1>3. row \in Notice!Notice /\ row.due = to /\ row.course = c /\ row.done = FALSE
  BY <1>2 DEF Notice!Notice
<1>4. \A u \in to : enrollments[u][c] = "live" /\ devices[u] # << >>
  BY DEF Notice!Live
<1>5. step \in Notice!Request /\ step.pc = "asking" /\ step.notice = n
  BY DEF Notice!Request
<1> HIDE DEF row, step, to, c
<1>6. /\ NoticesGrow /\ DueLive' /\ notices'[n] = row /\ row # None
      /\ notices' \in [Notice!NoticeId -> Notice!Notice \cup {None}]
  BY <1>1, <1>2, <1>3, <1>4, NoticeStored
<1>7. NoticeHeld(step, notices') /\ \A u \in Users, t \in Tokens : ~ Adding(step, u, t)
  BY <1>5, <1>6 DEF NoticeHeld, Adding
<1>8. QED  BY <1>1, <1>5, <1>6, <1>7, NoticeKeeps

\* When nothing is left to push, all that are due have been tried.
LEMMA PushEnded ==
  ASSUME NoticeInv, overlap' = overlap, Within(noticeReq'), NEW r \in Requests,
         Notice!EndPush(r)
  PROVE  NoticeInv'
<1> DEFINE q == noticeReq[r]
           n == q.notice
           row == [notices[n] EXCEPT !.done = TRUE]
<1>1. q.pc = "pushing" /\ q.left = {} /\ q.found = {} /\ Notice!Proceed(r, Notice!Idle)
      /\ UNCHANGED <<devices, enrollments>>
  BY DEF Notice!EndPush
<1>2. Notice!TypeOK /\ NoticeHeld(q, notices) /\ n \in Notice!NoticeId /\ notices[n] # None
  <2>1. Notice!TypeOK /\ NoticeHeld(q, notices)
    BY DEF NoticeInv
  <2>2. QED  BY <1>1, <2>1, NoticeFields DEF NoticeHeld
<1>3. notices' = [notices EXCEPT ![n] = row]
  BY <1>2 DEF Notice!EndPush, Notice!TypeOK
<1>4. notices[n].due \subseteq notices[n].tried
  BY <1>1, <1>2 DEF NoticeHeld
<1>5. /\ row \in Notice!Notice /\ row.course = notices[n].course /\ row.due = notices[n].due
      /\ row.tried = notices[n].tried
  <2>1. notices[n] \in Notice!Notice
    BY <1>2, NoticeRow
  <2>2. QED  BY <2>1 DEF Notice!Notice
<1> HIDE DEF row
<1>6. NoticesGrow /\ DueLive' /\ notices' \in [Notice!NoticeId -> Notice!Notice \cup {None}]
  BY <1>1, <1>2, <1>3, <1>4, <1>5, NoticeTried
<1>7. /\ Notice!Idle \in Notice!Request /\ NoticeHeld(Notice!Idle, notices')
      /\ \A u \in Users, t \in Tokens : ~ Adding(Notice!Idle, u, t)
  BY DEF Notice!Idle, Notice!Request, NoticeHeld, Adding
<1>8. QED  BY <1>1, <1>6, <1>7, NoticeKeeps

\* Every step keeps the invariant of the notifications.
LEMMA NextNotice ==
  ASSUME NoticeInv, [PlatformNext]_platform
  PROVE  NoticeInv'
<1>ov. overlap' = overlap
  BY NoticeSteps
<1>typ. Notice!TypeOK
  BY DEF NoticeInv
<1>idle. /\ Notice!Idle \in Notice!Request /\ NoticeHeld(Notice!Idle, notices)
         /\ \A u \in Users, t \in Tokens : ~ Adding(Notice!Idle, u, t)
  BY DEF Notice!Idle, Notice!Request, NoticeHeld, Adding
<1>1. ASSUME NEW r \in Requests, NEW v \in Users, NEW d \in Tokens, Within(noticeReq'),
             Notice!CheckDevice(r, v, d)
      PROVE  NoticeInv'
  <2> DEFINE step == [pc |-> "registering", user |-> v, token |-> d]
  <2>1. step \in Notice!Request /\ step.pc = "registering" /\ step.user = v /\ step.token = d
    BY DEF Notice!Request
  <2>2. Notice!Proceed(r, step) /\ UNCHANGED <<devices, enrollments, notices>>
        /\ ~ Notice!Registered(v, d)
    BY <1>1 DEF Notice!CheckDevice, Notice!Start, Notice!tables
  <2> HIDE DEF step
  <2>3. At(devices[v], d) = {}
    <3>1. devices[v] \in Seq(Tokens)
      BY <1>typ DEF Notice!TypeOK
    <3>2. QED  BY <2>2, <3>1, ShownDevices DEF Notice!Registered, Notice!UserDevices
  <2>4. /\ NoticeHeld(step, notices)
        /\ \A u \in Users, t \in Tokens : Adding(step, u, t) => At(devices[u], t) = {}
    BY <2>1, <2>3 DEF NoticeHeld, Adding
  <2>5. QED  BY <1>1, <1>ov, <2>1, <2>2, <2>4, NoticeReads
<1>2. ASSUME NEW r \in Requests, NEW i \in Users, NEW c \in Courses, Within(noticeReq'),
             Notice!FindCourse(r, i, c)
      PROVE  NoticeInv'
  <2> DEFINE step == [pc |-> "announcing", course |-> c]
  <2>1. step \in Notice!Request /\ step.pc = "announcing"
    BY DEF Notice!Request
  <2>2. Notice!Proceed(r, step) /\ UNCHANGED <<devices, enrollments, notices>>
    BY <1>2 DEF Notice!FindCourse, Notice!Start, Notice!tables
  <2> HIDE DEF step
  <2>3. NoticeHeld(step, notices) /\ \A u \in Users, t \in Tokens : ~ Adding(step, u, t)
    BY <2>1 DEF NoticeHeld, Adding
  <2>4. QED  BY <1>2, <1>ov, <2>1, <2>2, <2>3, NoticeReads
<1>3. ASSUME NEW r \in Requests, Within(noticeReq'), Notice!AskStudents(r)
      PROVE  NoticeInv'
  <2> DEFINE n == noticeReq[r].notice
             step == [pc |-> "pushing", notice |-> n, left |-> Notice!InForce, found |-> {}]
  <2>1. noticeReq[r].pc = "asking" /\ Notice!Proceed(r, step)
        /\ UNCHANGED <<devices, enrollments, notices>>
    BY <1>3 DEF Notice!AskStudents, Notice!tables
  <2>2. n \in Notice!NoticeId /\ notices[n] # None
    <3>1. NoticeHeld(noticeReq[r], notices)
      BY DEF NoticeInv
    <3>2. QED  BY <2>1, <3>1, <1>typ, NoticeFields DEF NoticeHeld
  <2>3. /\ step \in Notice!Request /\ step.pc = "pushing" /\ step.notice = n
        /\ step.left = Notice!InForce /\ step.found = {}
    <3>1. Notice!InForce \in SUBSET (Users \X Courses)
      BY DEF Notice!InForce
    <3>2. QED  BY <2>2, <3>1 DEF Notice!Request
  <2>4. \A u \in notices[n].due : <<u, notices[n].course>> \in Notice!InForce
    <3>1. ASSUME NEW u \in notices[n].due PROVE <<u, notices[n].course>> \in Notice!InForce
      <4>1. /\ notices[n].course # None /\ enrollments[u][notices[n].course] = "live"
            /\ u \in Users /\ notices[n].course \in Courses
        BY <2>2, <1>typ, NoticeRow DEF NoticeInv, DueLive
      <4>2. QED  BY <4>1 DEF Notice!InForce, Notice!Live
    <3>2. QED  BY <3>1
  <2> HIDE DEF step
  <2>5. NoticeHeld(step, notices) /\ \A u \in Users, t \in Tokens : ~ Adding(step, u, t)
    BY <2>2, <2>3, <2>4 DEF NoticeHeld, Adding
  <2>6. QED  BY <1>3, <1>ov, <2>1, <2>3, <2>5, NoticeReads
<1>4. ASSUME NEW r \in Requests, Within(noticeReq'), Notice!Fail(r) PROVE NoticeInv'
  <2>1. Notice!Proceed(r, Notice!Idle) /\ UNCHANGED <<devices, enrollments, notices>>
    BY <1>4 DEF Notice!Fail, Notice!tables
  <2>2. QED  BY <1>4, <1>ov, <1>idle, <2>1, NoticeReads
<1>5. CASE UNCHANGED noticeVars
  <2>1. UNCHANGED <<devices, enrollments, notices, noticeReq>>
    BY <1>5 DEF noticeVars
  <2>2. NoticeInv
    OBVIOUS
  <2>3. QED  BY <2>1, <2>2, <1>ov DEF NoticeInv, Notice!TypeOK, Devices, DueLive, Fit
<1>6. CASE Notice!Next /\ Within(noticeReq')
  BY <1>6, <1>1, <1>2, <1>3, <1>4, <1>ov, EnrollmentsChange, UserNotified, AnnouncementStored,
     NoticePushed, DeviceRegistered, PushEnded DEF Notice!Next
<1>7. QED  BY <1>5, <1>6, NoticeSteps

\* The invariant of the notifications holds in every behaviour.
LEMMA NoticeInvariant == PlatformSpec => []NoticeInv
<1>1. NoticeInv /\ [PlatformNext]_platform => NoticeInv'
  BY NextNotice
<1>2. QED  BY <1>1, InitNotice, PTL DEF PlatformSpec

\* A device is read, and pushed to, as many times as requests to register it overlap.
THEOREM DevicesAreWithin == PlatformSpec => []DevicesWithin
<1>1. ASSUME NoticeInv PROVE DevicesWithin
  <2>1. ASSUME NEW u \in Users, NEW t \in Tokens PROVE Notice!Copies(u, t) <= overlap
    <3>1. /\ overlap \in Nat /\ devices[u] \in Seq(Tokens)
          /\ Fit(Cardinality(At(devices[u], t)), {r \in Requests : Adding(noticeReq[r], u, t)})
      BY <1>1 DEF NoticeInv, Notice!TypeOK, Devices
    <3>2. Cardinality(At(devices[u], t)) <= overlap
      BY <3>1, AtFinite, FitRows
    <3>3. {k \in DOMAIN Notice!UserDevices(u) : Notice!UserDevices(u)[k] = t} = At(devices[u], t)
      BY <3>1, ShownDevices DEF Notice!UserDevices
    <3>4. Notice!Copies(u, t) = Cardinality(At(devices[u], t))
      BY <3>3, NoticeCardinality, Zenon DEF Notice!Copies
    <3>5. QED  BY <3>2, <3>4
  <2>2. QED  BY <2>1 DEF DevicesWithin, Notice!DevicesWithin
<1>2. NoticeInv => DevicesWithin
  BY <1>1
<1>3. QED  BY <1>2, NoticeInvariant, PTL

\* An announcement that has been pushed has been tried with every device owner who was
\* enrolled when it was stored and still is, and is listed to them.
THEOREM AnnouncementsReachAll == PlatformSpec => []AnnouncedToAll
<1>1. ASSUME NoticeInv PROVE AnnouncedToAll
  <2>1. ASSUME NEW n \in Notice!NoticeId, notices[n] # None, notices[n].done,
               NEW u \in notices[n].due
        PROVE  u \in notices[n].tried /\ n \in Notice!ListedUser(u)
    <3>1. /\ notices[n].course # None /\ enrollments[u][notices[n].course] = "live"
          /\ u \in notices[n].tried
      BY <1>1, <2>1 DEF NoticeInv, DueLive
    <3>2. QED  BY <2>1, <3>1 DEF Notice!ListedUser
  <2>2. QED  BY <2>1 DEF AnnouncedToAll, Notice!AnnouncedToAll
<1>2. NoticeInv => AnnouncedToAll
  BY <1>1
<1>3. QED  BY <1>2, NoticeInvariant, PTL

=============================================================================
