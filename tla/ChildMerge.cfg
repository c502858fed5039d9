SPECIFICATION FairSpec
CONSTANTS
  i1 = i1
  i2 = i2
  p1 = p1
  p2 = p2
  c1 = c1
  c2 = c2
  o1 = o1
  o2 = o2
  Instances = {i1, i2}
  Parents = {p1, p2}
  Foreign = {c1}
  Own = {o1}
  Nowhere = Nowhere
  Overlap = TRUE
  SilentErrors = TRUE
  MaxFaults = 1
  MaxMoves = 1
PROPERTY OursStayAttached
PROPERTY OnlyRacesDisturb
INVARIANT TypeOK
INVARIANT ReadAccounted
PROPERTY SwitchStopsWrites
