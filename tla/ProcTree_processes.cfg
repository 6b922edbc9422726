CONSTANTS
  t1 = t1
  t2 = t2
  t3 = t3
  t4 = t4
  t5 = t5
  Task = {t1, t2, t3, t4}
  Init1 = t1
  MaxPid = 2
  CloneKinds = {"fork", "vfork"}
  Calls = {"exec", "wait", "setsid"}
  AnyChild = AnyChild
  None = None
SPECIFICATION Spec
INVARIANTS ParentsAlive TasksOutliveTheirUse RingsAgree
PROPERTY PidsAreFresh
SYMMETRY Symmetry
CHECK_DEADLOCK FALSE
