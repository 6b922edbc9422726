CONSTANTS
  t1 = t1
  t2 = t2
  m1 = m1
  m2 = m2
  lo = lo
  hi = hi
  Thread = {t1, t2}
  Root = t1
  Space = {m1, m2}
  First = m1
  Data = {1, 2, 3, 4, 5}
  N = 3
  MmapLow = 0
  Cell = {lo, hi}
  Value = {0, 1, 2}
  Zero = 0
  Loaded = 1
  TlbSize = 1
  Ranges <- SomeRanges
  MapFlags <- Anonymous
  Breaks = {2, 3, 4}
  Touched = {0, 1}
  Stored <- LowTwo
  Bounds <- FewCalls
  None = None
SPECIFICATION Spec
INVARIANTS SharedAreCow
CHECK_DEADLOCK FALSE
