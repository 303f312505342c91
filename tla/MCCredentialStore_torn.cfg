\* Overlapping POSTs of one tenant.
CONSTANTS
  t1 = t1
  t2 = t2
  a1 = a1
  a2 = a2
  a3 = a3
  NoRow = NoRow
  Requests = {a1, a2, a3}
  SecretColumn = "secret"
  Tenants <- MCTenants
  Columns <- MCColumns
  Values <- MCValues
  Bodies <- MCBodies
SPECIFICATION Spec
INVARIANT RowIsAPostedBody
CHECK_DEADLOCK FALSE
