CONSTANTS
  Reqs = {r1, r2}
  Clients = {c}
  BanOn = TRUE
  BanMax = 1
  Bodies = {"stream", "bad"}
  Overs = {"none", "v4", "junk"}
  SetModes = {"auto"}
  MaxDays = 1
SPECIFICATION MCSpec
SYMMETRY Symmetry
INVARIANTS
  CountersAddUp
PROPERTIES
  RealErrorPassedOn
CHECK_DEADLOCK FALSE
