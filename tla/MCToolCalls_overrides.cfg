\* Calls of a tenant whose field_map has the documented key "title".
CONSTANTS
  c1 = c1
  c2 = c2
  s1 = s1
  s2 = s2
  g1 = g1
  g2 = g2
  t1 = t1
  None = None
  Tenants = {t1}
  Calls = {c1, c2}
  Servers = {s1, s2}
  Accounts = {g1, g2}
  FieldMaps <- DocumentedMaps
  Columns <- SomeColumns
SPECIFICATION Spec
INVARIANT OverridesApply
SYMMETRY Interchangeable
