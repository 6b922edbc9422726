CONSTANTS
  t1 = t1
  t2 = t2
  t3 = t3
  tty = tty
  pids = pids
  None = None
  Thread = {t1, t2, t3}
  Lock = {tty, pids}
  PidsLock = pids
  MaxItems = 2
  MaxOps = 4
  Ops = {"consume", "produce", "kill", "ioctl"}
  Interrupted = TRUE
  TimedOut = TRUE
SPECIFICATION FairSpec
INVARIANTS TypeOK LocksHeld NoLostNotify SignalWakes
PROPERTY KillReturns
CHECK_DEADLOCK FALSE
