SPECIFICATION RegimeSpec
CONSTANTS
  Users = {u1, u2}
  Courses = {c1, c2}
  Products = {p1}
  Bundles = {b1}
  c1 = c1
  c2 = c2
  p1 = p1
  b1 = b1
  Carts <- CartsBoth
  Requests = {r1, r2}
  None = None
  MaxOrders = 3
  MaxCharges = 2
  MaxTx = 3
  MaxRewards = 1
SYMMETRY Symmetry
CONSTRAINT EarlyWithin
INVARIANTS
  TypeOK
  EnrollmentBacked
  CompletedIffExecuted
  StatementsMatch
  ExecutionPaid
  RewardPaid
  PaidIsRecorded
  NewestOrderHolds
  LostOnlyToNewer
  ExecutionsWithinOverlap
  NoDuplicateInSequence
PROPERTIES
  ImplementsEntitlement
