CONSTANTS
  t1 = t1
  t2 = t2
  c1 = c1
  c2 = c2
  i1 = i1
  i2 = i2
  Tasks = {t1}
  Clients = {c1, c2}
  Identities = {i1}
  Contents <- LeaseContents
  Transactional = TRUE
  ArchivedDays = 1
  LeaseTimes = {1, 2}
  MaxRevision = 4
  MaxLeases = 3
  MaxTime = 5
SPECIFICATION Spec
SYMMETRY Symmetry
INVARIANTS
  TypeOK
  StableUnderLease
PROPERTIES
  ImplementsLifecycle
  NoLostUpdate
CHECK_DEADLOCK FALSE
