\* Two sub-apps, two requests in flight, log_context blocks two deep.
CONSTANTS
  r1 = r1
  r2 = r2
  None = None
  Requests = {r1, r2}
  SUB_APPS <- TwoSubApps
  Paths <- SomePaths
  StartsWith <- Prefixes
  Mounted <- Routes
  Keys <- SomeKeys
  Contexts <- SomeContexts
  MaxDepth = 2
SPECIFICATION GatewaySpec
INVARIANTS GatewayTypeOK LinesAreTagged BlocksNeverMislead ServedWhenUp UpIsStopped
SYMMETRY Interchangeable
