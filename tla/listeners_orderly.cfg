SPECIFICATION FairSpec
CONSTANTS
  c1 = c1
  c2 = c2
  hosted = hosted
  proxy = proxy
  Registry = {hosted, proxy}
  Port = {1, 2}
  Caller = {c1, c2}
  MaxListeners = 2
  Timeouts = FALSE
  ServerErrors = FALSE
INVARIANTS
  TypeOK
  ListeningIsRegistered
PROPERTIES
  UnregisterReturns
  RegistriesComeFree
