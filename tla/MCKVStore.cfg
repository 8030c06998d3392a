SPECIFICATION FairSpec
CONSTANTS
  c1 = c1  c2 = c2  c3 = c3
  e1 = e1  e2 = e2  e3 = e3  e4 = e4  e5 = e5
  Clients = {c1, c2}
  Keys = {"k"}
  Entries = {e1, e2}
  Docs <- MCDocs1
  Updates = {"set", "shallow", "deep"}
  Shallow <- MCMerge
  Deep <- MCMerge
  Nil = Nil
  TTL = TRUE
INVARIANTS
  TypeOK
  NoLostWakeup
  WokenEmptyMeansGone
  DeleteNeverPanics
PROPERTIES
  FreshEntrySurvives
  GetReturns
