CONSTANTS
  p1 = p1
  p2 = p2
  a = a
  b = b
  old = old
  new = new
  o1 = o1
  o2 = o2
  t1 = t1
  t2 = t2
  open = open
  closed = closed
  Nothing = Nothing
  Unread = Unread
  NoEntry = NoEntry
  Partial = Partial
  Parts = {p1, p2}
  Contents = {a, b}
  Trees = {old, new}
  Original = old
  Operators = {o1, o2}
  Tasks = {t1, t2}
  Records = {open, closed}
  Open = {open}
SPECIFICATION JobsSpec
SYMMETRY Symmetry
INVARIANTS
  TypeOK
  FailedCopyLeavesTargets
PROPERTIES
  InstalledIsTheSource
  AlreadyMigratedIsTrue
  OnlyServicesChangeStores
  ExportIsCurrent
  SwitchReadyIsTrue
CHECK_DEADLOCK FALSE
