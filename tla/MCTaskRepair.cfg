CONSTANTS
  t1 = t1
  t2 = t2
  c1 = c1
  c2 = c2
  i1 = i1
  i2 = i2
  Tasks = {t1}
  Clients = {c1}
  Identities = {i1}
  Contents <- LeaseContents
  Transactional = FALSE
  ArchivedDays = 1
  LeaseTimes = {1}
  MaxRevision = 3
  MaxLeases = 1
  MaxTime = 3
SPECIFICATION Spec
SYMMETRY Symmetry
INVARIANTS
  RepairNeverRefused
CHECK_DEADLOCK FALSE
