SPECIFICATION Spec
CONSTANTS
  Courses = {c1}
  Products = {p1}
  Bundles = {}
  None = None
  Prices = {0, 2}
  Flats = {2}
  Percentages = {25}
  MaxMonths = 1
INVARIANTS
  PercentageTakesOff
CHECK_DEADLOCK FALSE
