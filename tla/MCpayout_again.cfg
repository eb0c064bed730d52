SPECIFICATION Spec
CONSTANTS
  Instructors = {i1}
  Requests = {r1}
  AdminMoves <- SettleOnce
  LockDays = 1
  None = None
  MaxStatements = 3
  MaxPayouts = 3
  MaxDays = 0

INVARIANTS
  NeverPaidTwice
