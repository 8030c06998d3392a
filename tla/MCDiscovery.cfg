SPECIFICATION GraphSpec
CONSTANTS
  a = a  b = b  r1 = r1  r2 = r2  r3 = r3
  Ids = {a, b}
  Colls = {r1, r2, r3}
  NodeTypes = {"web", "node"}
  NoStats = NoStats
  Reports <- MCReports
  HeartbeatTTL = 2
  MaxCollections = 2
  MaxTime = 5
SYMMETRY Symmetry
INVARIANTS
  RoomsMatchMetadata
  GraphIsCurrent
PROPERTIES
  SweepKeepsFollowers
