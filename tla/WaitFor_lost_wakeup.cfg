CONSTANTS
  t1 = t1
  t2 = t2
  t3 = t3
  tty = tty
  pids = pids
  None = None
  Thread = {t1, t2}
  Lock = {tty, pids}
  PidsLock = pids
  MaxItems = 1
  MaxOps = 3
  Ops = {"consume", "kill"}
  Interrupted = TRUE
  TimedOut = FALSE
SPECIFICATION Spec
INVARIANT SignalStopsWaiting
CHECK_DEADLOCK FALSE
