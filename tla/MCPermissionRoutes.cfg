CONSTANTS
  hook = hook
  sdk = sdk
  u = u
  b = b
  None = None
  Sessions = {hook, sdk}
  InProcess = {sdk}
  Clients = {u, b}
  Bound <- MCBound
  Requests = {r1, r2, r3}
SPECIFICATION Spec
SYMMETRY Symmetry
INVARIANTS TypeOK RoutesMatchRequests 
PROPERTY DeskSpec
