CONSTANTS
  r1 = r1
  r2 = r2
  r3 = r3
  Free = Free
  Runs = {r1, r2}
  MaxHeavy = 1
  InputBlocks = FALSE
  MaxConcurrency = 1
  MaxFaults = 0
  SharedStore = TRUE
  Submissions <- HeavyMutations
SPECIFICATION Spec
PROPERTIES
  OnlyStaleReconciled
CHECK_DEADLOCK FALSE
