CONSTANTS
  Cap = 1
  PreWait = 1
  Gap = 1
  ToolGap = 2
  MaxEvents = 2
SPECIFICATION Spec
INVARIANTS
  BilledOnce
PROPERTIES
  KeepsPromise
  ReaderEnds
CHECK_DEADLOCK FALSE
