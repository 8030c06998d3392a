SPECIFICATION MCSpec
CONSTANTS
  r1 = r1  r2 = r2  a1 = a1  a2 = a2  a3 = a3
  Handlers = {r1, r2}
  Hosts = {"wild", "h", "fixed"}
  Outlet <- MCOutlet
  IPs = {a1, a2, a3}
  Cloudflare = {a1}
  Lists <- MCLists
  Asked <- MCAsked
  Values = {"v0", "v1", "v2"}
  Fixed <- MCFixed
  Browser = "own"
  None = None
  MaxPool = 1
  MaxRewrite = 1
  Config <- MCConfig
  NoRule = NoRule
  BlockedHosts <- MCBlocked
  Pieces <- MCPieces
  Frames <- MCFrames
  Names <- MCNames
  Served <- MCServed
  Ports <- MCPorts
INVARIANTS
  LinksLeadBack
  WholeBody
PROPERTIES
  CarriesLatest
  OutletHeals
