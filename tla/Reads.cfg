SPECIFICATION Spec
CONSTANTS
  admin = admin t1 = t1 t2 = t2 j1 = j1 j2 = j2 w1 = w1 w2 = w2 k1 = k1 k2 = k2 stranger = stranger
  Ids = {1, 2, 3}
  Technicians = {t1, t2}
  Admin = admin
  LastDay = 2
  LastMoment = 2
  Millisecond = 2
  PageSize = 1
  MaxChanges = 1
  NoRow = NoRow
  NoCursor = NoCursor
  NoCount = NoCount
  Customers = {k1, k2}
  CustomerOf <- MCCustomerOf
  Stranger = stranger
  BatchSize = 1
  ProofBatch = 2
  MaxJobs = 2
  AnswerLimit = 2
  MaxProofs = 1
  Jobs = {j1, j2}
  Owners = {t1, t2}
  Device = t1
  Writers = {w1, w2}
  LastTick = 2
  MaxVersion = 3
  Limit = 1
  NoJob = NoJob
  o1 = o1
  o2 = o2
  None = None
  Places = {o1, o2}
  DayRows <- MCDayRows
  Start = 1
  End = 5
  Cutoff = 0
  FullDay = 4
  HalfDay = 2
  WeekLength = 2
  Streak = 2
  MaxDays = 4
  MaxActs = 2
SYMMETRY Symmetry
CHECK_DEADLOCK FALSE
INVARIANTS PagesExact QueriesFitTogether MissedOnlyIfOpen ViewsFollowCells
