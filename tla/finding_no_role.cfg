SPECIFICATION Spec
CONSTANTS
  ann = ann
  bob = bob
  rob = rob
  p1 = p1
  p2 = p2
  User = {ann, bob}
  Name <- Names
  NameOf <- Namesakes
  AdminName <- Admin
  Request = {p1}
  MaxFailedLoginAttempts = 5
  FailedBound = 1
  PrefixBound = 1
INVARIANTS
  UserHasRole
CHECK_DEADLOCK FALSE
