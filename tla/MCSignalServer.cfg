SPECIFICATION FairSpec
CONSTANTS
  c1 = c1  c2 = c2  m1 = m1  t1 = t1  t2 = t2
  a = a  b = b  r = r
  Ids = {a, b}
  Colls = {r}
  NodeTypes = {"node"}
  NoStats = NoStats
  Reports <- MCReports
  HeartbeatTTL = 1
  MaxCollections = 1
  MaxTime = 1
  Conns = {c1, c2}
  Tokens = {t1, t2}
  Whitelist = {t1}
  Signals = {m1}
  Inputs <- MCInputs
  MaxQueued = 1
  Nil = Nil
INVARIANTS
  TableIsSound
  AtMostOnce
  ReplacedIsClosed
PROPERTIES
  OldCleanupIsHarmless
  BrokenIsRemoved
