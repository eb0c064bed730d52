SPECIFICATION FairSpec
CONSTANTS
  Users = {u1}
  Courses = {c1, c2}
  Products = {p1}
  Bundles = {b1}
  c1 = c1
  c2 = c2
  p1 = p1
  b1 = b1
  Carts <- CartsCents
  Requests = {r1}
  None = None
  MaxOrders = 1
  MaxCharges = 1
  MaxTx = 1
  MaxRewards = 0
PROPERTIES
  PaidIsFulfilled
