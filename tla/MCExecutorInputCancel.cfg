CONSTANTS
  r1 = r1
  r2 = r2
  r3 = r3
  Free = Free
  Runs = {r1, r2}
  MaxHeavy = 1
  InputBlocks = TRUE
  MaxConcurrency = 1
  MaxFaults = 0
  SharedStore = FALSE
  Submissions <- HeavyMutations
SPECIFICATION Spec
INVARIANTS
  CancelKillsProcess
CHECK_DEADLOCK FALSE
