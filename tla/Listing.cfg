\* Three rows, two statuses, three different milliseconds, pages of one or two
CONSTANTS
  t1 = t1
  t2 = t2
  t3 = t3
  a = a
  b = b
  s1 = s1
  s2 = s2
  Absent = Absent
  Rows = {t1, t2, t3}
  Data <- MCData
  Queries <- MCQueries
  Statuses = {s1, s2}
  MaxTime = 2
  Limits = {0, 1, Absent, 3}
  DefaultLimit = 2
  MaxLimit = 2
SPECIFICATION Spec
INVARIANTS
  TypeOK
  NothingMissed
  NothingRepeated
  PageAgreesWithTotal
CHECK_DEADLOCK FALSE
