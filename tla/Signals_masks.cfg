CONSTANTS
  t1 = t1
  t2 = t2
  t3 = t3
  Task = {t1}
  Root = t1
  None = None
  Sig <- KillSegv
  Kill <- SIGKILL
  Unblockable <- JustKill
  Synchronous <- JustSegv
  DefaultIgnored <- NoSignals
  Masks <- AllMasks
  Dispositions = {"dfl", "ign", "call"}
  Waits = {}
  MaxFrames = 2
SPECIFICATION Spec
INVARIANTS TypeOK QueuedAreBlocked PendingAreDeliverable
PROPERTIES SignalsConserved
CHECK_DEADLOCK FALSE
