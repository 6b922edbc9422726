CONSTANTS
  t1 = t1
  t2 = t2
  t3 = t3
  Task = {t1, t2, t3}
  Root = t1
  None = None
  Sig <- JustKill
  Kill <- SIGKILL
  Unblockable <- JustKill
  Synchronous <- NoSignals
  DefaultIgnored <- NoSignals
  Masks <- NoMasks
  Dispositions = {"dfl"}
  Waits = {"heeding"}
  MaxFrames = 0
SPECIFICATION Spec
INVARIANT KillsEveryoneElse
CHECK_DEADLOCK FALSE
