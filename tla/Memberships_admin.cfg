SPECIFICATION MCSpec
CONSTANTS
  u1 = u1 u2 = u2 u3 = u3 c1 = c1 c2 = c2 k1 = k1 k2 = k2
  Users = {u1, u2, u3}
  Companies = {c1}
  Calls = {k1, k2}
  FirstStaff = {u1}
  MaxFlags = 0
  MaxLogins = 1
  Nobody = Nobody
  NoFirm = NoFirm
INVARIANT AdminRemains
CHECK_DEADLOCK FALSE
