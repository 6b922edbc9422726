CONSTANTS
  t1 = t1
  t2 = t2
  t3 = t3
  t4 = t4
  t5 = t5
  Task = {t1, t2, t3}
  Init1 = t1
  MaxPid = 2
  CloneKinds = {"fork", "vfork", "thread", "fault"}
  Calls = {"exec", "wait", "setpgid", "setsid"}
  AnyChild = AnyChild
  None = None
SPECIFICATION Spec
INVARIANTS TypeOK PidTableExact DeathIsReported ZombiesAreDead NoMissedExit
SYMMETRY Symmetry
CHECK_DEADLOCK FALSE
