SPECIFICATION FilesSpec
CONSTANTS
  a = a
  b = b
  h1 = h1
  h2 = h2
  s1 = s1
  s2 = s2
  s3 = s3
  Processes = {a, b}
  Series = {s1, s2, s3}
  Hosts = {h1, h2}
  HostOf <- HostOfSeries
  Scope <- ScopeOfProcess
  Inodes = {1, 2, 3}
  None = None
  MaxCount = 2
  MaxScrapes = 4
  MaxFaults = 2
  core0 = core0
  core1 = core1
  Captured = {core0, core1}
  EntityOf <- HostCpu
  Window = 2
  MaxTime = 3
  MaxStarts = 2
INVARIANT NeverOverstated
INVARIANT OnlyOverlapTears
INVARIANT OneIntervalEach
 
SYMMETRY Interchangeable
CHECK_DEADLOCK FALSE
