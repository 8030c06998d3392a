CONSTANTS
  Inbound = {"b1", "b2"}
  Outbound = {"o"}
  Children = {"k"}
  Parent <- MCParent
  Remotes = {"r1", "r2"}
  Remote <- MCRemote
  MaxMsgs = 1
  Nil = Nil
  MaxConns = 1
  MaxFaults <- MCMaxFaults
  Casts <- MCCasts
SPECIFICATION FairSpec
INVARIANTS
  TypeOK
  AcceptedWithinLimit
PROPERTIES
  HandlerReturns
  GoroutinesEnd
  ClosedAreForgotten
  GatheredStayClosed
  StrangersLeave
CHECK_DEADLOCK FALSE
