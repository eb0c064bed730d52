SPECIFICATION Spec
CONSTANTS
  Students = {s1}
  LastLecture = 1
  Assigned = {1}
  Requests = {r1}
  None = None
  MaxActive = 1
  MaxCertificates = 1
INVARIANTS
  ExpiredIsRefused
