SPECIFICATION Spec
CONSTANTS
  ann = ann
  bob = bob
  rob = rob
  p1 = p1
  p2 = p2
  User = {ann, bob, rob}
  Name <- Names
  NameOf <- Namesakes
  AdminName <- Admin
  Request = {p1, p2}
  MaxFailedLoginAttempts = 5
  FailedBound = 7
  PrefixBound = 1
INVARIANTS
  TypeOK
  FailedLoginsCounted
  SetupStillPossible
  InvitedHasRole
PROPERTIES
  LockedCountersFrozen
  AccountsSpec
  StartUnlocksAdmin
CONSTRAINTS
  SteadyAdmin
  FailuresApart
CHECK_DEADLOCK FALSE
