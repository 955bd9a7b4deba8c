SPECIFICATION MCSpec
CONSTANTS
  LastDay = 2
  LastHour = 1
  early = early
  late = late
  Offices = {early, late}
  StartHour <- MCStartHour
  MaxEdits = 1
  Requests = {r1, r2}
  MaxPast = 1
SYMMETRY Symmetry
CHECK_DEADLOCK FALSE
INVARIANTS OneActiveLeave OnlyLateCallsDoubleBook WorkNeverLost LeaveToldHolds
PROPERTIES PastSettled PreviewsStayTrue
