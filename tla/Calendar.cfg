SPECIFICATION MCSpec
CONSTANTS
  LastDay = 3
  LastHour = 0
  here = here
  there = there
  Offices = {here, there}
  StartHour <- MCStartHour
  MaxEdits = 4
  Rules = {rule}
  rule = rule
  Pins = {north, south}
  north = north
  south = south
  DaySets = {sundays, fridays, nodays}
  NoDays = nodays
  sundays = sundays
  fridays = fridays
  nodays = nodays
  Keys = {k1, k2, k3}
  k1 = k1
  k2 = k2
  k3 = k3
  Employees = {e1, e2}
  e1 = e1
  e2 = e2
  RateMax = 2
  RateWindow = 2
  RateBlock = 2
  AlertThreshold = 2
  Month = 3
  MaxWait = 1
  LastTick = 3
  Wizards = {w1}
  w1 = w1
  ReaderEdits = 2
SYMMETRY Symmetry
CHECK_DEADLOCK FALSE
INVARIANTS EnableDisableFit OfficesServe PlanKeptAndAnnounced ReadersAgree AttemptsPoliced
