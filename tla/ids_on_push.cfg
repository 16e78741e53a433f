SPECIFICATION Spec
CONSTANTS
  MaxIds = 3
  CreateNamespaceOnPush = TRUE
  CreateRepositoryOnPush = TRUE
INVARIANTS
  TypeOK
  MapsAgree
