SPECIFICATION Spec
CONSTANTS
  n1 = n1 n2 = n2 ann = ann bob = bob t1 = t1 t2 = t2 s1 = s1 s2 = s2 a1 = a1 a2 = a2 a3 = a3
  Notes = {n1, n2}
  People = {ann, bob}
  Tokens = {t1}
  Instances = {s1, s2}
  MaxAge = 0
  LastTick = 1
  BatchSize = 2
  MaxRetries = 1
  MaxFaults = 1
  Nobody = Nobody
  Attempts = {a1, a2, a3}
  Window = 2
  LastHour = 5
  MaxLosses = 1
  NoAnswer = NoAnswer
  Phones = {"p1", "p2"}
  Accounts = {"u1", "u2"}
  Sessions = {"o1"}
  Calls = {"c1", "c2"}
  Reviewers = {"u1", "u2"}
  Emails = {"e1", "e2"}
  MaxAttempts = 2
  NoAccount = NoAccount
  MaxFiled = 2
  Keys <- MCKeys
  Kind <- MCKind
  Requests = {"q1", "q2"}
  Limit = 2
  RateWindow = 2
  MaxTime = 3
  MaxHits = 4
  JobPhotos = {"photo"}
  Viewers = {"technician", "owner"}
  Crew = {"technician"}
  Technician = "technician"
  Staff = {"r1", "r2"}
  MaxStamp = 3
  Data <- MCData
  Original <- MCOriginal
  FirstStaff = {}
  MaxPurges = 1
CHECK_DEADLOCK FALSE
INVARIANTS PushesExplained RepeatsExplained SignInsAccounted LimitsHold HidesAccounted PurgeAccounted
PROPERTIES RequestsSettleInBudget
