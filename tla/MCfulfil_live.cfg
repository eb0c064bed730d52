SPECIFICATION FairSpec
CONSTANTS
  Users = {u1}
  Courses = {c1, c2}
  Products = {p1}
  Bundles = {b1}
  c1 = c1
  c2 = c2
  p1 = p1
  b1 = b1
  Carts <- CartsLive
  Requests = {r1, r2}
  None = None
  MaxOrders = 2
  MaxCharges = 2
  MaxTx = 4
  MaxRewards = 0

CHECK_DEADLOCK FALSE
PROPERTIES
  PaidIsFulfilled
