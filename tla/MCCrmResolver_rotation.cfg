\* A rotation is answered while an older fetch is in flight.
CONSTANTS
  t1 = t1
  t2 = t2
  v1 = v1
  v2 = v2
  v3 = v3
  NoRow = NoRow
  NoEntry = NoEntry
  Tenants = {t1}
  Requests = {a1, a2}
  Calls = {c1, c2}
  Vaults = {v1, v2}
  TTL = 1
  MaxGen = 1
  SecretColumn = "secret"
  Columns <- MCColumns
  Values <- MCValues
  Bodies <- MCBodies
  Registrations <- MCRegistrations
  a1 = a1
  a2 = a2
  c1 = c1
  c2 = c2
SPECIFICATION ResolverSpec
INVARIANT RotationTakesEffectNow
SYMMETRY Slots
