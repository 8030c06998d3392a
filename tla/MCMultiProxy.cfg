CONSTANTS
  Reqs = {r1, r2}
  Clients = {host}
  Host = host
  BanOn = TRUE
  BanMax = 1
  Bodies = {"stream", "bad"}
  Overs = {"none"}
  SetModes = {"v4"}
  MaxDays = 1
  NSources = 2
  Elsewhere = {"5xx"}
SPECIFICATION MSpec
SYMMETRY Symmetry
INVARIANTS
  HealthyServes
  BanStartsAfresh
CHECK_DEADLOCK FALSE
