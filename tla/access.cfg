SPECIFICATION Spec
CONSTANTS
  ann = ann
  bob = bob
  cid = cid
  n1 = n1
  r1 = r1
  User = {ann, bob, cid}
  Name <- Names
  NameOf <- OneAdmin
  AdminName <- Admin
  Namespace = {n1}
  Repository = {r1}
  ParentOf <- InN1
INVARIANTS
  TypeOK
  GrantWithinRole
PROPERTIES
  DisabledNamespaceFrozen
  RepositoryAges
  GrantsAreFresh
  RepositoryGrantsAdd
  
CONSTRAINTS
  OneDeletable
  FewPublic
CHECK_DEADLOCK FALSE
