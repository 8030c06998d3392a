SPECIFICATION LSpec
CONSTANTS
  c1 = c1  c2 = c2
  e1 = e1  e2 = e2
  Clients = {c1, c2}
  Keys = {"k"}
  Entries = {e1, e2}
  Docs <- MCDocs
  Updates = {"set"}
  Shallow <- MCMerge
  Deep <- MCMerge
  Nil = Nil
  TTL = TRUE
  MaxCalls = 4
SYMMETRY Symmetry
INVARIANTS
  Linearizable
CHECK_DEADLOCK FALSE
