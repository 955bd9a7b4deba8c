\* Two server instances overlapping, two requests of one company.
SPECIFICATION Spec
CONSTANTS
  r1 = r1 r2 = r2 t1 = t1 w1 = w1 w2 = w2
  Nobody = Nobody
  Reports = {r1, r2}
  Tenants = {t1}
  TenantOf <- OneTenant
  Workers = {w1, w2}
  MaxInFlight = 1
  Concurrency = 1
  MaxAttempts = 1
  MaxRetries = 1
  MaxFaults = 1
SYMMETRY QueueSymmetry
INVARIANTS ReadyHasFile NoticesTruthful CapHolds
PROPERTIES LeaseExcludes ImplementsLifecycle
