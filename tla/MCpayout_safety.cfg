SPECIFICATION RegimeSpec
CONSTANTS
  Instructors = {i1, i2}
  Requests = {r1, r2}
  AdminMoves <- AnyMove
  LockDays = 1
  None = None
  MaxStatements = 3
  MaxPayouts = 3
  MaxDays = 1
SYMMETRY Symmetry
INVARIANTS
  TypeOK
  CoveredUpToWatermark
  SinglePendingInSequence
  OverlapInSequence
