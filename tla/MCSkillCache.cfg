CONSTANTS
  f1 = f1
  f2 = f2
  a = a
  b = b
  c1 = c1
  c2 = c2
  Dir = Dir
  Nobody = Nobody
  NoCache = NoCache
  NoAnswer = NoAnswer
  Absent = Absent
  Blank = Blank
  Unseen = Unseen
  Files = {f1, f2}
  Entries = {f2}
  Nested = TRUE
  Contents = {a, b}
  Callers = {c1, c2}
  TTL = 1
  MaxWrites = 2
  MaxTime = 1
SPECIFICATION Spec
SYMMETRY Symmetry
INVARIANTS
  TypeOK
  AnswersAreCurrent
  AnswersExpire
  LockedByARequest
CHECK_DEADLOCK FALSE
