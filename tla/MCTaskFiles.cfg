CONSTANTS
  t1 = t1
  t2 = t2
  c1 = c1
  c2 = c2
  i1 = i1
  i2 = i2
  Tasks = {t1, t2}
  Clients = {c1}
  Identities = {i1, i2}
  Contents <- WorkContents
  Transactional = FALSE
  ArchivedDays = 1
  LeaseTimes = {1}
  MaxRevision = 3
  MaxLeases = 1
  MaxTime = 2
SPECIFICATION FairSpec
INVARIANTS
  OneOpenTaskPerIdentity
PROPERTIES
  ImplementsLifecycle
  ResidueArchived
CHECK_DEADLOCK FALSE
