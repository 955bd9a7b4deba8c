SPECIFICATION Spec
CONSTANTS
  p1 = p1 p2 = p2 x = x r1 = r1 r2 = r2 k1 = k1 c1 = c1 c2 = c2
  Phones = {p1, p2}
  Cities = {x}
  None = None
  NoCustomer = NoCustomer
  NoClaim = NoClaim
  NoBatch = NoBatch
  NoAnswer = NoAnswer
  Runs = {r1, r2}
  Keys = {k1}
  Sheets <- MCSheets
  ProgressEvery = 1
  MaxFaults = 1
  Calls = {c1, c2}
  LastYear = 2
  Radix = 3
  Highest = 2
  MaxSends = 4
SYMMETRY Symmetry
CHECK_DEADLOCK FALSE
INVARIANTS RunsExclude RunAccounted CreationsAccounted
