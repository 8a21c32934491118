CONSTANTS
  a = a
  b = b
  d = d
  r = r
  k = k
  k2 = k2
  c1 = c1
  c2 = c2
  None = None
  Sessions = {a, b, d, r}
  Keys = {k, k2}
  KeyOf <- MCKeyOf
  Restored = {r}
  Containers = {c1, c2}
  ConfiguredPerKey = 2
  ConfiguredTotal = 2
SPECIFICATION Spec
SYMMETRY Symmetry
INVARIANTS TypeOK HeldOnce
PROPERTY LeaseSpec
CHECK_DEADLOCK FALSE
