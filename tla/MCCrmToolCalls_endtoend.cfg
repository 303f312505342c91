\* One call that opens a case, two admin requests, one POST at a time.
CONSTANTS
  t1 = t1
  c1 = c1
  a1 = a1
  a2 = a2
  s1 = s1
  s2 = s2
  v1 = v1
  v2 = v2
  g1 = g1
  NoRow = NoRow
  NoEntry = NoEntry
  None = None
  Tenants = {t1}
  Requests = {a1, a2}
  Calls = {c1}
  Servers = {s1, s2}
  Vaults = {v1, v2}
  Accounts = {g1}
  TTL = 1
  MaxGen = 1
  SecretColumn = "secret"
  Columns <- MCColumns
  Values <- MCValues
  Bodies <- MCBodies
  Registrations <- MCRegistrations
  CaseColumns <- MCCaseColumns
  FieldMaps <- MCFieldMaps
  Posts <- MCPosts
SPECIFICATION SerialCrmSpec
INVARIANT OneConfigurationPerCall
PROPERTY ImplementsToolCalls
SYMMETRY Exchange
