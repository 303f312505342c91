\* POSTs of one tenant do not overlap; every other step may.
CONSTANTS
  t1 = t1
  t2 = t2
  a1 = a1
  a2 = a2
  a3 = a3
  NoRow = NoRow
  Requests = {a1, a2, a3}
  SecretColumn = "secret"
  Tenants <- MCTenants
  Columns <- MCColumns
  Values <- MCValues
  Bodies <- MCBodies
SPECIFICATION SerialSpec
INVARIANTS TypeOK RowIsAPostedBody NoStaleCopy
PROPERTY ImplementsDirectory
CHECK_DEADLOCK FALSE
