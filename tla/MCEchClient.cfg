SPECIFICATION FairSpec
CONSTANTS
  c1 = c1  c2 = c2
  Callers = {c1, c2}
  Inits = {1, 2}
  Refresh = Refresh
  Handles = {1}
  Urls = {"mirror"}
  Default = "default"
  None = None
  MaxKey = 2
  MaxFails = 1
INVARIANTS
  OneInit
  ReadyHasClient
  CloseIsFinal
PROPERTIES
  KeyHeals
