SPECIFICATION MCSpec
CONSTANTS
  a1 = a1
  e1 = e1
  p1 = p1
  p2 = p2
  p3 = p3
  s1 = s1
  s2 = s2
  s3 = s3
  x1 = x1
  x2 = x2
  Admins = {a1}
  Employees = {e1}
  Template <- MCTemplate
  NoOne = NoOne
  Idle = Idle
  MaxUpdates = 0
  Photos = {p1, p2, p3}
  Signatures = {s1, s2, s3}
  Sessions = {x1, x2}
  MaxPhotos = 1
  MaxFaults = 1
  NoUpload = NoUpload
  Unlinked = Unlinked
SYMMETRY Symmetry
INVARIANTS UploadsAccounted
PROPERTIES PhotoConfirmAdvances
CHECK_DEADLOCK FALSE
