SPECIFICATION RegimeSpec
CONSTANTS
  Students = {s1, s2}
  LastLecture = 2
  Assigned = {2}
  Requests = {r1, r2}
  None = None
  MaxActive = 3
  MaxCertificates = 3
SYMMETRY Symmetry
INVARIANTS
  TypeOK
  CertificateEarned
  AssignmentsUnlocked
  RowsWithinOverlap
PROPERTIES
  CompletedStaysInSequence
  PassedStaysInSequence
