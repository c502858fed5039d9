SPECIFICATION ReadingSpec
CONSTANTS
  Names = {"total", "drops"}
  Counters = {"total"}
  EntityLabels = {"stack"}
  MeasurementLabels = {"io_type"}
  OtherLabels = {"queue"}
  ValuesOf <- OfLabel
  default = default
  ops = ops
  rx = rx
  tx = tx
  q0 = q0
  q1 = q1
  MaxTrained = 1
  MaxNew = 0
  Clusters = {"cluster"}
  Hosts = {"esx1", "esx2"}
  Drives = {"drive1", "drive2"}
  Devices = {"vmhba0", "vmhba1"}
  Luns = {"lun0"}
  ClusterOf <- OneCluster
  HostOf <- OwnHost
  LunOf <- OneLun
  VMList <- TwoMachines
  VMIds = {"id1", "id2"}
  Paths = {"path"}
  Slashed <- WithSlash
  Parts = {"part"}
  Identifiers <- FourTypes
  Suffix <- KindSuffix
  MaxFailed = 1
  MaxAnswers = 2
  Metrics <- Named
  Models <- Pairs
  Qualifiers = {"avg", "actual"}
  TrailingOnly = {"read"}
  Expansion <- ByToken
  Curated <- Drops
  NameHas <- Holding
  NameEnds <- Ending
  UnitOverride <- InMilliseconds
  AmbiguousUnit <- MemPct
  ChartUnits = {"short", "percent", "microseconds"}
  MaxSourced = 1
  MaxEdits = 0
INVARIANT OwnVersion
SYMMETRY Interchangeable
CHECK_DEADLOCK FALSE
