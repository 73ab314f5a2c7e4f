SPECIFICATION MCSpec
CONSTANTS
  c1 = c1
  f1 = f1
  t1 = t1
  Calls = {c1, c2}
  Files = {f1, f2}
  Ticks = {t1, t2}
  Keys <- MCKeys
  None = None
CHECK_DEADLOCK FALSE
INVARIANTS
  CheckInv
  UnsharedCheckReportsOwnFile
PROPERTIES
  EveryCheckEnds
