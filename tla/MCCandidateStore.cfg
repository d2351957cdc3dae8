CONSTANTS
  Ids = {i1}
  Callers = {c1, c2}
  Contents = {a, b}
  TaskIds = {t1, t2}
  MaxRevision = 5
  None = None
SPECIFICATION Spec
SYMMETRY Symmetry
INVARIANTS
  TypeOK
  OccurrenceCountedOnce
  CompletionNeedsApproval
PROPERTIES
  DecisionsAreFinal
  NoLostUpdate
CHECK_DEADLOCK FALSE
