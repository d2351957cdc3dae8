CONSTANTS
  r1 = r1
  r2 = r2
  t1 = t1
  c1 = c1
  c2 = c2
  s1 = s1
  s2 = s2
  NoTask = NoTask
  NoServer = NoServer
  Runs = {r1, r2}
  Tasks = {t1}
  Clients = {c1, c2}
  Servers = {s1, s2}
  Calls <- MixedCalls
  Reports = {"succeeded"}
  MaxHeavy = 1
  MaxFaults = 1
SPECIFICATION Spec
SYMMETRY Symmetry
INVARIANTS
  MutationAccountedFor
  SlotsConserved
  NoOwnerlessRun
PROPERTIES
  ImplementsLifecycle
  OnlyOwnRunsReconciled
CHECK_DEADLOCK FALSE
