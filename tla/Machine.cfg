CONSTANTS
  NoThread = NoThread
  Nobody = NoThread
  Waiters = {"w1", "w2"}
  Workers = {"t1", "t2"}
  Eventfds = {"e"}
  HostFiles = {"h"}
  PipeErrors = TRUE
  MaxVal = 3
  MaxBytes = 2
  Tasks = {"a", "b"}
  Ids = {1, 2, 3}
  Values = {0, 1, 3}
  Intervals = {0, 2}
  MaxLag = 3
  MaxEarly = 2
  Threads = {"a", "b", "c"}
  Mems = {"p", "q"}
  MemOf <- SpaceOf
  Words = {0, 1}
  LogThreads = {"p", "q"}
  Cap = 5
  MaxLine = 2
  MaxPiece = 2
  Z = 3
  H = 1
  Operands = {0, 1, 3, 4, 7}
  Counts = {0, 1, 2, 3, 4, 6, 7, 12}
  Sizes = {"full", "half", "byte"}
  MaxOps = 2
  Depths = {1, 3, 8}
  Roundings = {0, 3}
  S = 3
  E = 3
  Exps = {0, 1, 3, 6, 7}
  Modes = {"nearest", "chop"}
SPECIFICATION MachineSpec
INVARIANTS
  PollsSound TimersFire FutexesSound LogSound  InstructionsExact
PROPERTIES
  LockIsGivenBack
