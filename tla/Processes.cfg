SPECIFICATION FairProcessesSpec
CONSTANTS
  k1 = k1
  k2 = k2
  e1 = e1
  e2 = e2
  Clusters = {k1, k2}
  Entities = {e1, e2}
  NoCluster = NoCluster
  MaxFaults = 2
  r1 = r1
  r2 = r2
  r3 = r3
  r4 = r4
  r5 = r5
  Resources = {r1, r2, r3, r4, r5}
  Identity <- Identifiers
  Absent = Absent
  PageSize = 2
  MaxRaised = 1
  MaxChanges = 2
  success = success
  failure = failure
  Codes = {success, failure}
  Signalled = Signalled
  Running = Running
  Room = 2
  MaxOutput = 4
  p1 = p1
  p2 = p2
  i1 = i1
  i2 = i2
  Probes = {p1, p2}
  Images = {i1, i2}
  NoImage = NoImage
  MaxProbeFaults = 2
INVARIANT SessionsAccounted
INVARIANT NothingSilentlyMissing
INVARIANT LossBounded
INVARIANT StatusIsTheBuilds
INVARIANT ProbesAreTheirOwn
PROPERTY CollectsAgain
PROPERTY ProcessesEnd
CHECK_DEADLOCK FALSE
