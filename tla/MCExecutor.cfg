CONSTANTS
  r1 = r1
  r2 = r2
  r3 = r3
  Free = Free
  Runs = {r1, r2}
  MaxHeavy = 1
  InputBlocks = FALSE
  MaxConcurrency = 2
  MaxFaults = 1
  SharedStore = FALSE
  Submissions <- Mutations
SPECIFICATION FairSpec
INVARIANTS
  VerdictIsEvidence
  HeavyBound
  StopSettles
  ActiveCancelInterrupts
  CancelKillsProcess
PROPERTIES
  ImplementsExecutorRuns
  EveryRunSettles
  SlotsComeBack
CHECK_DEADLOCK FALSE
