SPECIFICATION MCSpec
CONSTANTS
  a1 = a1 a2 = a2 e1 = e1 e2 = e2 p1 = p1 p2 = p2 x1 = x1 x2 = x2
  Admins = {a1, a2}
  Employees = {e1, e2, a2}
  Template <- MCTemplate
  NoOne = NoOne
  Idle = Idle
  MaxUpdates = 2
  Photos = {p1, p2}
  Signatures = {}
  Sessions = {x1, x2}
  MaxPhotos = 1
  MaxFaults = 1
  NoUpload = NoUpload
  Unlinked = Unlinked
INVARIANTS LogsTellTheJob
PROPERTIES ImplementsJobLifecycle EventsSettle
CHECK_DEADLOCK FALSE
