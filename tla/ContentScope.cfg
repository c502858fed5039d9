SPECIFICATION ShippingSpec
CONSTANTS
  Entities = {"client", "remote", "cpu"}
  Metrics = {"iops", "iopsActual", "loss"}
  Actual <- ActualOf
  LiveKind <- Live
  ExtraKind <- Extra
  Served <- Clusters
  Schema <- Advertised
  Excluded = {"VsanHostCpu"}
  Whole = {"VsanComputecluster"}
  Titles = {clusters, A, B}
  Selector = clusters
  clusters = clusters
  A = A
  B = B
  D = D
  E = E
  Dashboards = {D, E}
  ColumnSets = {{"iops", "loss"}, {"iopsActual"}}
  MaxEdits = 2
  first = first
  second = second
  third = third
  Runs <- AllRuns
  OnBranch <- Reviewed
  MaxBuilds = 3
  view = view
  dashboard = dashboard
  Views = {view}
  Unbound = Unbound
  MaxIdents = 2
  Versions = {1, 2}
  MaxPaks = 3
  MaxBundles = 2
  MaxFailures = 2
INVARIANT OnlyScopedCollected
SYMMETRY Interchangeable
CHECK_DEADLOCK FALSE
