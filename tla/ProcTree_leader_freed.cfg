CONSTANTS
  t1 = t1
  t2 = t2
  t3 = t3
  t4 = t4
  t5 = t5
  Task = {t1, t2, t3}
  Init1 = t1
  MaxPid = 3
  CloneKinds = {"fork", "thread"}
  Calls = {"wait"}
  AnyChild = AnyChild
  None = None
SPECIFICATION Spec
INVARIANT ExitingTaskIsAllocated
SYMMETRY Symmetry
CHECK_DEADLOCK FALSE
