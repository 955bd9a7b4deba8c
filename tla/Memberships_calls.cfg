SPECIFICATION MCFairSpec
CONSTANTS
  u1 = u1 u2 = u2 u3 = u3 c1 = c1 c2 = c2 k1 = k1 k2 = k2
  Users = {u1, u2, u3}
  Companies = {c1, c2}
  Calls = {k1, k2}
  FirstStaff = {u1}
  MaxFlags = 1
  MaxLogins = 1
  Nobody = Nobody
  NoFirm = NoFirm
INVARIANTS StrandedOnlyByLateLogin IndexNeverRefuses
PROPERTIES CommitsAsManager RemovedUntilInvited EveryCallEnds
CHECK_DEADLOCK FALSE
