SPECIFICATION Spec
CONSTANTS
  c1 = c1
  c2 = c2
  hosted = hosted
  proxy = proxy
  Registry = {hosted}
  Port = {1}
  Caller = {c1, c2}
  MaxListeners = 2
  Timeouts = TRUE
  ServerErrors = TRUE
SYMMETRY AnyCaller
INVARIANTS
  KeysHaveHolders
