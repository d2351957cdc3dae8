CONSTANTS
  r1 = r1
  r2 = r2
  r3 = r3
  Free = Free
  Runs = {r1, r2}
  MaxHeavy = 1
  InputBlocks = TRUE
  MaxConcurrency = 2
  MaxFaults = 1
  SharedStore = TRUE
  Submissions <- Mutations
SPECIFICATION Spec
SYMMETRY Symmetry
INVARIANTS
  TypeOK
  SlotsMatchTasks
  PermitsConserved
  NoOwnerlessRun
CHECK_DEADLOCK FALSE
