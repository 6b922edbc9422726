CONSTANTS
  s = s
  t = t
  None = None
  NoTask = NoTask
  t1 = t1
  t2 = t2
  i1 = i1
  i2 = i2
  x = x
  y = y
  Slots = 2
  Tasks = {s, t}
  Tables = {t1, t2}
  FsInfos = {i1, i2}
  Fds = {x, y}
  r = r
  m1 = m1
  m2 = m2
  Callers = {s, t}
  Mounts = {r, m1, m2}
  RootMount = r
  Points <- MountPoints
  Paths <- Looked
  MaxOpens = 3
  W = 8
  MaxLen = 3
  MaxPos = 5
  f1 = f1
  f2 = f2
  f3 = f3
  d1 = d1
  Users = {s, t}
  Tree <- FakeNames
  FileIds <- ThreeFiles
  DirIds <- OneDirectory
  Nobody = Nobody
  Inos = {1, 2, 3}
  MaxCalls = 3
  MaxCrashes = 1
  MaxCopies = 1
  MaxEntries = 3
  Names = {"a", "b", "l"}
  MaxPath = 11
  MaxParts = 3
  MaxDepth = 4
  Readers = {"p", "q"}
  Size = 2
  Mins = {1, 2}
  Threads = {"p", "q"}
  NoThread = NoThread
  MaxArgs = 2
  Page = 4
  MaxBytes = 9
  MaxPid = 3
  Buffers = {26, 50}
  Sizes = {3, 4}
  Reads = {2, 4}
  MaxOffset = 6
SPECIFICATION FilesSpec
INVARIANTS
  DescriptorsSound MountsSound CallsAnswer MetadataSurvives ExecSound NoTtyLockCycle
PROPERTIES
  NoOverwriteWithinLimit LinesAndFilesKept
