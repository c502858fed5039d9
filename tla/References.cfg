SPECIFICATION ReferencesSpec
CONSTANTS
  k1 = k1
  h1 = h1
  h2 = h2
  v1 = v1
  v2 = v2
  d1 = d1
  x1 = x1
  ax = ax
  ay = ay
  a = a
  Clusters = {k1}
  Hosts = {h1, h2}
  Vms = {v1, v2}
  Disks = {d1}
  Vdisks = {x1}
  HostNames = {ax, ay, a}
  Short <- ShortNames
  None = None
  MaxFaults = 2
  MaxMoves = 1
  tmpl = tmpl
  VMs = {v1, v2, tmpl}
  Templates = {tmpl}
  Nowhere = Nowhere
  Absent = Absent
  MaxStrays = 3
  MaxChecks = 2
  c1 = c1
  c2 = c2
  DiagnosedClusters = {c1, c2}
  MaxChanges = 1
  MaxRuns = 2
  MaxKills = 1
  kindA = kindA
  kindB = kindB
  metricA = metricA
  metricB = metricB
  pinned = pinned
  Kinds = {kindA, kindB}
  Metrics = {metricA, metricB}
  HostSystem = HostSystem
  Objects = {pinned}
  Numbered = {"text", "heatmap", "pinned", "receiver", "clone"}
  AllShapes = {"text", "heatmap", "scoreboard", "kind scoped", "relationship", "host provider", "pinned", "receiver", "clone"}
  MaxWidgets = 3
  MaxDocs = 2
  MaxPanels = 2
  MaxEdits = 2
  MaxRebuilds = 2
INVARIANT ParentsAreRight
INVARIANT OrphansExplained
 
 
INVARIANT LayoutIsRight
INVARIANT OneOfAName
PROPERTY AlarmIsTrue
SYMMETRY Symmetry
CHECK_DEADLOCK FALSE
