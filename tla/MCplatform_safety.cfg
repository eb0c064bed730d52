SPECIFICATION FocusSpec
CONSTANTS
  u1 = u1
  i1 = i1
  c1 = c1
  c2 = c2
  p1 = p1
  b1 = b1
  t1 = t1
  t2 = t2
  r1 = r1
  r2 = r2
  None = None
  Instructors = {i1, i2}
  Members = {i2}
  Students = {u1}
  Requests = {r1, r2}
  MaxCourse = 2
  MaxBundle = 1
  MaxInvite = 2
  MaxReview = 3
  Users = {u1, i1}
  Courses = {c1, c2}
  InstructorOf <- MCInstructorOf
  CourseOf <- MCCourseOf
  MaxGroup = 3
  MaxIndex = 3
  PageSize = 2
  MaxPost = 2
  MaxComment = 2
  MaxFeedback = 2
  MaxTicket = 1
  MaxProduct = 2
  MaxStoreOrder = 2
  Tokens = {t1, t2}
  Window = 3
  MaxDevice = 4
  MaxNotice = 2
  Rules = {c1, c2}
  MaxPoints = 1
  MaxEarned = 2
  MaxRate = 2
  SoldCourses = {c1}
  SoldProducts = {p1}
  SoldBundles = {b1}
  Prices = {0, 2}
  Flats = {2, 3}
  Percentages = {25}
  MaxMonths = 2
  Keys = {t1}
  MaxRows = 2
  Names = {u1, t1}
  FacebookIds = {t1}
  Organizations = {c1}
  MaxUser = 2
INVARIANTS
  PlatformTypeOK
  IndexesDistinctInSequence
  LocksAgree
  CoursesHaveInstructor
  AssociatesAccepted
  DuplicatesWithin
  LateWithin
  ReviewedWasDelivered
  DevicesWithin
  AnnouncedToAll
  RulesKept
  StatementsAddUp
  FreeIsFree
  LinkedStored
  OneAccountEach
PROPERTIES
  OrderKeptInSequence
  ClosedStaysQuietInSequence
CHECK_DEADLOCK FALSE
