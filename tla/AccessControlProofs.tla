------------------------ MODULE AccessControlProofs ------------------------
(***************************************************************************)
(* Proofs about AccessControl, for any number of users, namespaces and     *)
(* repositories.                                                           *)
(***************************************************************************)
EXTENDS AccessControl, TLAPS

(* What the access manager grants is a level, and one the role allows.     *)
LEMMA LevelsOfRoles ==
  ASSUME NEW r \in Role \cup {"none"}
  PROVE  /\ accessLevelsByRole(r) \subseteq Level
         /\ r \in getRolesSatisfyingAccessLevel("Maintainer")
              => "Maintainer" \in accessLevelsByRole(r)
BY DEF Role, Level, accessLevelsByRole, getRolesSatisfyingAccessLevel

(* A promotion takes no level away, and no role allows nothing.            *)
LEMMA PromotionKeepsLevels ==
  ASSUME NEW r \in Role \cup {"none"}, NEW new \in Role,
         isRolePromotion(r, new) \/ r = "none",
         new # "Admin"
  PROVE  accessLevelsByRole(r) \subseteq accessLevelsByRole(new)
BY DEF Role, isRolePromotion, accessLevelsByRole

(* A demotion is never accepted: its query filters on a field the listing  *)
(* does not allow.                                                         *)
LEMMA OnlyPromotions ==
  ASSUME NEW u, NEW r, RoleChangeAccepted(u, r)
  PROVE  isRolePromotion(role[u], r) \/ role[u] = "none"
BY DEF RoleChangeAccepted, UserAccessFilters, AllowedFilterFields

-----------------------------------------------------------------------------
(* Type correctness *)

(* The initial state is well typed.                                        *)
LEMMA InitType == Init => TypeOK
BY DEF Init, TypeOK, Acc!Init, Acc!TypeOK, Row, Resource, State, Level

(* Every step leads from well-typed states to well-typed states.           *)
LEMMA TypeStep == TypeOK /\ [Next]_vars => TypeOK'
<1> SUFFICES ASSUME TypeOK, [Next]_vars PROVE TypeOK'
  OBVIOUS
<1>0. asker' \in SUBSET User
  BY DEF Next, Caller, AccessRequest, GrantRepositoryAccess, RevokeRepositoryAccess, TypeOK, vars
<1> USE <1>0
<1>1. CASE NamespaceRequest
  <2>1. ASSUME NEW n \in Namespace, NEW ms \in SUBSET User, NEW distinct \in BOOLEAN,
               NEW public \in BOOLEAN, CreateNamespace(n, ms, distinct, public)
        PROVE  TypeOK'
    BY <2>1 DEF TypeOK, Acc!TypeOK, CreateNamespace, Row, Resource, State, Level
  <2>2. ASSUME NEW n \in Namespace, DeleteNamespace(n) PROVE TypeOK'
    BY <2>2 DEF TypeOK, Acc!TypeOK, DeleteNamespace, Row, Resource, State
  <2>3. ASSUME NEW n \in Namespace, NEW s \in State, ChangeNamespaceState(n, s) PROVE TypeOK'
    BY <2>3 DEF TypeOK, Acc!TypeOK, ChangeNamespaceState, Resource
  <2>4. ASSUME NEW n \in Namespace, ChangeNamespaceVisibility(n) PROVE TypeOK'
    BY ZenonT(40), <2>4 DEF TypeOK, Acc!TypeOK, ChangeNamespaceVisibility, Resource
  <2>5. ASSUME NEW n \in Namespace, NEW a \in User, NEW u \in User, NEW l \in Level,
               GrantNamespaceAccess(a, u, l, n)
        PROVE  TypeOK'
    BY <2>5 DEF TypeOK, Acc!TypeOK, GrantNamespaceAccess, GrantAccess, Resource
  <2>6. ASSUME NEW n \in Namespace, NEW u \in User, RevokeNamespaceAccess(u, n) PROVE TypeOK'
    BY <2>6 DEF TypeOK, Acc!TypeOK, RevokeNamespaceAccess, Resource
  <2> QED
    BY Zenon, <1>1, <2>1, <2>2, <2>3, <2>4, <2>5, <2>6 DEF NamespaceRequest
<1>2. CASE RepositoryRequest
  <2>1. ASSUME NEW r \in Repository, NEW public \in BOOLEAN, CreateRepository(r, public)
        PROVE  TypeOK'
    BY <2>1 DEF TypeOK, Acc!TypeOK, CreateRepository, Row, Resource, State
  <2>2. ASSUME NEW r \in Repository, DeleteRepository(r) PROVE TypeOK'
    BY <2>2 DEF TypeOK, Acc!TypeOK, DeleteRepository, Row, Resource, State
  <2>3. ASSUME NEW r \in Repository, NEW s \in State, ChangeRepositoryState(r, s) PROVE TypeOK'
    BY <2>3 DEF TypeOK, Acc!TypeOK, ChangeRepositoryState, Resource
  <2>4. ASSUME NEW r \in Repository, ChangeRepositoryVisibility(r) PROVE TypeOK'
    BY ZenonT(40), <2>4 DEF TypeOK, Acc!TypeOK, ChangeRepositoryVisibility, Resource
  <2> QED
    BY Zenon, <1>2, <2>1, <2>2, <2>3, <2>4 DEF RepositoryRequest
<1>6. CASE \E c \in Caller : AccessRequest(c)
  <2>1. ASSUME NEW c, NEW r \in Repository, NEW g \in User, NEW u \in User, NEW l \in Level,
               GrantRepositoryAccess(c, g, u, l, r)
        PROVE  TypeOK'
    BY <2>1 DEF TypeOK, Acc!TypeOK, GrantRepositoryAccess, GrantAccess, Resource
  <2>2. ASSUME NEW c, NEW r \in Repository, NEW v \in User, NEW u \in User,
               RevokeRepositoryAccess(c, v, u, r)
        PROVE  TypeOK'
    BY <2>2 DEF TypeOK, Acc!TypeOK, RevokeRepositoryAccess, Resource
  <2> QED
    BY Zenon, <1>6, <2>1, <2>2 DEF AccessRequest
<1>3. CASE \E u \in User, r \in Role :
             CreateAccount(u) \/ DeleteAccount(u) \/ ChangeRole(u, r)
               \/ AssignRole(u, r) \/ InitializeAdmin(u)
  BY ZenonT(40), <1>3 DEF TypeOK, Acc!TypeOK, CreateAccount, DeleteAccount, ChangeRole, AssignRole, InitializeAdmin,
              Acc!CreateAccount, Acc!DeleteAccount, Acc!ChangeRole, Acc!AssignRole,
              Acc!InitializeAdmin, Role, Acc!Role
<1>4. CASE UNCHANGED vars
  BY <1>4 DEF TypeOK, Acc!TypeOK, vars
<1>5. Role # {}
  BY DEF Role
<1> QED
  BY <1>1, <1>2, <1>3, <1>4, <1>5, <1>6 DEF Next, UserRequest

(* Every reachable state is well typed.                                    *)
THEOREM TypeCorrect == Spec => []TypeOK
BY InitType, TypeStep, PTL DEF Spec
-----------------------------------------------------------------------------
(* Global roles cap what is granted *)

(* The steps that write an access row or a role, and all the others.       *)
LEMMA StepKinds ==
  ASSUME TypeOK, [Next]_vars
  PROVE  \/ \E n \in Namespace, ms \in SUBSET User, distinct \in BOOLEAN, public \in BOOLEAN :
              CreateNamespace(n, ms, distinct, public)
         \/ \E g \in User, u \in User, l \in Level, x \in Resource : GrantAccess(g, u, l, x)
         \/ \E g \in User, u \in User, x \in Resource :
              /\ verifyInitiatorAuthority(g, access[x][u], x)
              /\ access' = [access EXCEPT ![x][u] = "none"]
              /\ UNCHANGED <<account, role, resource>>
         \/ /\ \A x \in Resource : resource'[x].status = "unborn" => resource[x].status = "unborn"
            /\ UNCHANGED <<account, role, access>>
         \/ \E u \in User, r \in Role : AssignRole(u, r) \/ ChangeRole(u, r)
         \/ \E u \in User : CreateAccount(u) \/ DeleteAccount(u) \/ InitializeAdmin(u)
<1> DEFINE ResourceOnly ==
             /\ \A x \in Resource : resource'[x].status = "unborn" => resource[x].status = "unborn"
             /\ UNCHANGED <<account, role, access>>
           Revocation ==
             \E g \in User, u \in User, x \in Resource :
               /\ verifyInitiatorAuthority(g, access[x][u], x)
               /\ access' = [access EXCEPT ![x][u] = "none"]
               /\ UNCHANGED <<account, role, resource>>
<1>1. ASSUME NEW n \in Namespace,
             \/ DeleteNamespace(n)
             \/ \E s \in State : ChangeNamespaceState(n, s)
             \/ ChangeNamespaceVisibility(n)
      PROVE  ResourceOnly
  BY <1>1 DEF TypeOK, Resource, DeleteNamespace, ChangeNamespaceState,
              ChangeNamespaceVisibility, Live, Row
<1>2. ASSUME NEW r \in Repository,
             \/ \E public \in BOOLEAN : CreateRepository(r, public)
             \/ DeleteRepository(r)
             \/ \E s \in State : ChangeRepositoryState(r, s)
             \/ ChangeRepositoryVisibility(r)
      PROVE  ResourceOnly
  BY <1>2 DEF TypeOK, Resource, CreateRepository, DeleteRepository, ChangeRepositoryState,
              ChangeRepositoryVisibility, Live, Row
<1>3. ASSUME NEW n \in Namespace, NEW u \in User, RevokeNamespaceAccess(u, n)
      PROVE  Revocation
  BY <1>3 DEF RevokeNamespaceAccess, IsAdminAccount, verifyInitiatorAuthority, Resource
<1>4. ASSUME NEW c, NEW r \in Repository, NEW v \in User, NEW u \in User,
             RevokeRepositoryAccess(c, v, u, r)
      PROVE  Revocation
  BY <1>4 DEF RevokeRepositoryAccess, Resource
<1>5. ASSUME UNCHANGED vars PROVE ResourceOnly
  BY <1>5 DEF vars
<1>6. ASSUME NEW x \in Resource, NEW g \in User, NEW u \in User, NEW l \in Level,
             GrantNamespaceAccess(g, u, l, x)
      PROVE  GrantAccess(g, u, l, x)
  BY <1>6 DEF GrantNamespaceAccess
<1>7. Namespace \subseteq Resource /\ Repository \subseteq Resource
  BY DEF Resource
<1>8. CASE NamespaceRequest
  BY ZenonT(40), <1>1, <1>3, <1>6, <1>7, <1>8 DEF NamespaceRequest
<1>9. CASE RepositoryRequest
  BY ZenonT(40), <1>2, <1>9 DEF RepositoryRequest
<1>10. CASE \E c \in Caller : AccessRequest(c)
  <2>1. PICK c \in Caller, r \in Repository, g \in User, u \in User :
          \/ \E l \in Level : GrantRepositoryAccess(c, g, u, l, r)
          \/ RevokeRepositoryAccess(c, g, u, r)
    BY Zenon, <1>10 DEF AccessRequest
  <2>2. CASE \E l \in Level : GrantRepositoryAccess(c, g, u, l, r)
    <3>1. PICK l \in Level : GrantAccess(g, u, l, r)
      BY <2>2 DEF GrantRepositoryAccess
    <3> QED
      BY <1>7, <3>1
  <2>3. CASE RevokeRepositoryAccess(c, g, u, r)
    BY Zenon, <1>4, <2>3
  <2> QED
    BY Zenon, <2>1, <2>2, <2>3
<1> HIDE DEF ResourceOnly, Revocation
<1> QED
  BY ZenonT(40), <1>5, <1>8, <1>9, <1>10 DEF Next, UserRequest, ResourceOnly, Revocation

(* The invariant holds initially.                                          *)
LEMMA InitInv == Init => IInv
<1> SUFFICES ASSUME Init PROVE IInv
  OBVIOUS
<1>1. \A x \in Resource, u \in User : access[x][u] = "none"
  BY DEF Init
<1>2. Repository \subseteq Resource
  BY DEF Resource
<1> QED
  BY <1>1, <1>2, InitType DEF IInv, NoAccessBeforeBirth, NoMaintainerOnRepository, GrantWithinRole

(* ... and every step preserves it: grants look at the role, promotions    *)
(* keep every level allowed, and a demotion is never accepted.             *)
LEMMA InvStep == IInv /\ [Next]_vars => IInv'
<1> SUFFICES ASSUME IInv, [Next]_vars PROVE IInv'
  OBVIOUS
<1> USE DEF IInv
<1>1. TypeOK'
  BY TypeStep
<1>2. access \in [Resource -> [User -> Level \cup {"none"}]] /\ role \in [User -> Role \cup {"none"}]
  BY DEF TypeOK, Acc!TypeOK, Role, Acc!Role
<1>3. Namespace \cap Repository = {} /\ Namespace \subseteq Resource /\ Repository \subseteq Resource
  BY ResourceType DEF Resource
<1>4. ASSUME NEW n \in Namespace, NEW ms \in SUBSET User, NEW distinct \in BOOLEAN,
             NEW public \in BOOLEAN, CreateNamespace(n, ms, distinct, public)
      PROVE  IInv'
  <2>1. UNCHANGED role /\ resource' = [resource EXCEPT ![n] = Row("live", public)]
    BY <1>4 DEF CreateNamespace
  <2>2. ASSUME NEW x \in Resource, NEW u \in User, access'[x][u] # access[x][u]
        PROVE  /\ x = n /\ access'[x][u] = "Maintainer"
               /\ role[u] \in getRolesSatisfyingAccessLevel("Maintainer")
    BY <1>2, <1>3, <1>4, <2>2 DEF CreateNamespace, BulkGrantable
  <2>3. NoAccessBeforeBirth'
    BY <1>2, <1>3, <2>1, <2>2 DEF NoAccessBeforeBirth, Row, TypeOK
  <2>4. NoMaintainerOnRepository'
    BY <1>3, <2>2 DEF NoMaintainerOnRepository
  <2>5. GrantWithinRole'
    BY <1>2, <2>1, <2>2, LevelsOfRoles DEF GrantWithinRole
  <2> QED
    BY <1>1, <2>3, <2>4, <2>5
<1>5. ASSUME NEW g \in User, NEW u \in User, NEW l \in Level, NEW x \in Resource,
             GrantAccess(g, u, l, x)
      PROVE  IInv'
  <2>1. /\ UNCHANGED <<role, resource>> /\ access' = [access EXCEPT ![x][u] = l]
        /\ resource[x].status # "unborn"
        /\ l \in accessLevelsByRole(role[u])
        /\ x \in Repository => l # "Maintainer"
    BY <1>3, <1>5 DEF GrantAccess, verifyResource, verifyGrantee, Live, accessLevelsByType
  <2> QED
    BY <1>1, <1>2, <1>3, <2>1 DEF NoAccessBeforeBirth, NoMaintainerOnRepository, GrantWithinRole
<1>6. ASSUME NEW u \in User, NEW x \in Resource, access' = [access EXCEPT ![x][u] = "none"],
             UNCHANGED <<account, role, resource>>
      PROVE  IInv'
  BY <1>1, <1>2, <1>3, <1>6 DEF NoAccessBeforeBirth, NoMaintainerOnRepository, GrantWithinRole
<1>7. ASSUME \A x \in Resource : resource'[x].status = "unborn" => resource[x].status = "unborn",
             UNCHANGED <<account, role, access>>
      PROVE  IInv'
  BY <1>1, <1>7 DEF NoAccessBeforeBirth, NoMaintainerOnRepository, GrantWithinRole
<1>8. ASSUME NEW u \in User, NEW r \in Role, AssignRole(u, r) \/ ChangeRole(u, r)
      PROVE  IInv'
  <2>1. UNCHANGED <<resource, access>> /\ role' = [role EXCEPT ![u] = r]
    BY <1>8 DEF AssignRole, ChangeRole, Acc!AssignRole, Acc!ChangeRole
  <2>2. isRolePromotion(role[u], r) \/ role[u] = "none"
    BY <1>8, OnlyPromotions DEF AssignRole, ChangeRole, Acc!AssignRole
  <2>3. r # "Admin" => accessLevelsByRole(role[u]) \subseteq accessLevelsByRole(r)
    BY <1>2, <2>2, PromotionKeepsLevels
  <2>4. role[u] # "Admin"
    BY <1>2, <1>8, <2>2 DEF isRolePromotion
  <2> QED
    BY <1>1, <1>2, <2>1, <2>3, <2>4
       DEF NoAccessBeforeBirth, NoMaintainerOnRepository, GrantWithinRole
<1>9. ASSUME NEW u \in User, CreateAccount(u) \/ DeleteAccount(u) \/ InitializeAdmin(u)
      PROVE  IInv'
  <2>1. UNCHANGED <<resource, access>> /\ (role' = role \/ role' = [role EXCEPT ![u] = "Admin"])
    BY <1>9 DEF CreateAccount, DeleteAccount, InitializeAdmin, Acc!CreateAccount,
                Acc!DeleteAccount, Acc!InitializeAdmin
  <2> QED
    BY <1>1, <1>2, <2>1 DEF NoAccessBeforeBirth, NoMaintainerOnRepository, GrantWithinRole
<1> QED
  BY Zenon, <1>4, <1>5, <1>6, <1>7, <1>8, <1>9, StepKinds

(* The inductive invariant holds in every reachable state.                 *)
THEOREM Invariance == Spec => []IInv
BY InitInv, InvStep, PTL DEF Spec

(* No account other than an Admin ever holds a level above its role.       *)
THEOREM RolesCapGrants == Spec => []GrantWithinRole
<1>1. IInv => GrantWithinRole
  BY DEF IInv
<1> QED
  BY <1>1, Invariance, PTL
-----------------------------------------------------------------------------
(* Who changes access rows, and how *)

(* The three ways a row changes: a namespace is born with its maintainers, *)
(* one row is granted, one row is revoked.                                 *)
LEMMA RowChanges ==
  ASSUME IInv, [Next]_vars, NEW x \in Resource, NEW u \in User, access'[x][u] # access[x][u]
  PROVE  \/ /\ x \in Namespace /\ resource[x].status = "unborn" /\ Live(x)'
            /\ access'[x][u] = "Maintainer" /\ access[x][u] = "none"
            /\ Present(u) /\ role[u] \in getRolesSatisfyingAccessLevel("Maintainer")
            /\ \E a \in User : Present(a) /\ role[a] = "Admin"
         \/ /\ UNCHANGED resource
            /\ \E g \in User : GrantAccess(g, u, access'[x][u], x)
         \/ /\ access'[x][u] = "none"
            /\ \E g \in User : verifyInitiatorAuthority(g, access[x][u], x)
<1>1. access \in [Resource -> [User -> Level \cup {"none"}]]
  BY DEF IInv, TypeOK
<1>2. ASSUME NEW n \in Namespace, NEW ms \in SUBSET User, NEW distinct \in BOOLEAN,
             NEW public \in BOOLEAN, CreateNamespace(n, ms, distinct, public)
      PROVE  /\ x \in Namespace /\ resource[x].status = "unborn" /\ Live(x)'
             /\ access'[x][u] = "Maintainer" /\ access[x][u] = "none"
             /\ Present(u) /\ role[u] \in getRolesSatisfyingAccessLevel("Maintainer")
             /\ \E a \in User : Present(a) /\ role[a] = "Admin"
  <2>1. /\ resource[n].status = "unborn" /\ resource' = [resource EXCEPT ![n] = Row("live", public)]
        /\ BulkGrantable(ms, distinct)
        /\ access' = [access EXCEPT ![n] = [v \in User |->
                                              IF v \in ms THEN "Maintainer" ELSE @[v]]]
    BY <1>2 DEF CreateNamespace
  <2>2. x = n /\ u \in ms /\ access'[x][u] = "Maintainer"
    BY <1>1, <2>1, Zenon
  <2>3. access[x][u] = "none"
    BY <2>1, <2>2 DEF IInv, NoAccessBeforeBirth
  <2>4. Live(x)'
    BY <2>1, <2>2 DEF Live, Row, IInv, TypeOK
  <2> QED
    BY <2>1, <2>2, <2>3, <2>4 DEF BulkGrantable, IsAdminAccount
<1>3. ASSUME NEW g \in User, NEW v \in User, NEW l \in Level, NEW y \in Resource,
             GrantAccess(g, v, l, y)
      PROVE  UNCHANGED resource /\ \E h \in User : GrantAccess(h, u, access'[x][u], x)
  <2>1. x = y /\ u = v /\ access'[x][u] = l /\ UNCHANGED resource
    BY <1>1, <1>3 DEF GrantAccess
  <2> QED
    BY <1>3, <2>1
<1>4. ASSUME NEW g \in User, NEW v \in User, NEW y \in Resource,
             verifyInitiatorAuthority(g, access[y][v], y),
             access' = [access EXCEPT ![y][v] = "none"]
      PROVE  access'[x][u] = "none" /\ \E h \in User : verifyInitiatorAuthority(h, access[x][u], x)
  <2>1. x = y /\ u = v /\ access'[x][u] = "none"
    BY <1>1, <1>4
  <2> QED
    BY <1>4, <2>1
<1>5. ASSUME NEW v \in User, NEW r \in Role,
             \/ AssignRole(v, r) \/ ChangeRole(v, r)
             \/ CreateAccount(v) \/ DeleteAccount(v) \/ InitializeAdmin(v)
      PROVE  UNCHANGED access
  BY <1>5 DEF AssignRole, ChangeRole, CreateAccount, DeleteAccount, InitializeAdmin
<1>6. Role # {} /\ TypeOK
  BY DEF Role, IInv
<1> QED
  BY Zenon, <1>2, <1>3, <1>4, <1>5, <1>6, StepKinds

(* A grant is never an update, and goes to a present account on a live     *)
(* resource at a level its role allows.                                    *)
THEOREM GrantsNeverUpdate == Spec => GrantsAreFresh
<1>1. IInv /\ [Next]_vars => [FreshGrants]_vars
  <2> SUFFICES ASSUME IInv, [Next]_vars, NEW x \in Resource, NEW u \in User,
                      access'[x][u] \notin {access[x][u], "none"}
               PROVE  /\ access[x][u] = "none" /\ Present(u) /\ Live(x)'
                      /\ access'[x][u] \in accessLevelsByRole(role[u])
    BY DEF FreshGrants
  <2>1. role[u] \in Role \cup {"none"}
    BY DEF IInv, TypeOK, Acc!TypeOK, Role, Acc!Role
  <2>2. CASE UNCHANGED resource /\ \E g \in User : GrantAccess(g, u, access'[x][u], x)
    BY <2>2 DEF GrantAccess, verifyGrantee, verifyResource, Live
  <2>3. CASE /\ Live(x)' /\ access'[x][u] = "Maintainer" /\ access[x][u] = "none"
             /\ Present(u) /\ role[u] \in getRolesSatisfyingAccessLevel("Maintainer")
    BY <2>1, <2>3 DEF getRolesSatisfyingAccessLevel, accessLevelsByRole
  <2> QED
    BY <2>2, <2>3, RowChanges
<1> QED
  BY <1>1, Invariance, PTL DEF Spec, GrantsAreFresh

(* A repository grant is made only where the access on the namespace is    *)
(* weaker.                                                                 *)
THEOREM RepositoryGrantsAddAccess == Spec => RepositoryGrantsAdd
<1>1. IInv /\ [Next]_vars => [AddingGrants]_vars
  <2> SUFFICES ASSUME IInv, [Next]_vars, NEW r \in Repository, NEW u \in User,
                      access[r][u] = "none", access'[r][u] # "none"
               PROVE  \/ access[ParentOf[r]][u] = "none"
                      \/ access[ParentOf[r]][u] = "Guest" /\ access'[r][u] = "Developer"
    BY DEF AddingGrants
  <2>1. r \in Resource /\ r \notin Namespace /\ ParentOf[r] \in Resource
    BY ResourceType DEF Resource
  <2>2. PICK g \in User : GrantAccess(g, u, access'[r][u], r)
    BY <2>1, RowChanges
  <2>3. access'[r][u] \in {"Developer", "Guest"} /\ ~isRedundantAccess(r, access'[r][u], u)
    BY <2>1, <2>2 DEF GrantAccess, accessLevelsByType
  <2>4. access[ParentOf[r]][u] \in Level \cup {"none"}
    BY <2>1 DEF IInv, TypeOK
  <2> QED
    BY <2>3, <2>4 DEF isRedundantAccess, Level
<1> QED
  BY <1>1, Invariance, PTL DEF Spec, RepositoryGrantsAdd

(* Only the two access handlers of repositories change who has access to   *)
(* one, and they write down their caller.                                  *)
LEMMA AccessRequests ==
  ASSUME TypeOK, [Next]_vars, NEW r \in Repository, access'[r] # access[r]
  PROVE  \E c \in asker', g \in User, u \in User :
           \/ \E l \in Level : GrantRepositoryAccess(c, g, u, l, r)
           \/ RevokeRepositoryAccess(c, g, u, r)
<1>1. r \in Resource /\ r \notin Namespace /\ access \in [Resource -> [User -> Level \cup {"none"}]]
  BY ResourceType DEF Resource, TypeOK
<1>2. ASSUME NEW n \in Namespace,
             \/ \E ms \in SUBSET User, distinct \in BOOLEAN, public \in BOOLEAN :
                  CreateNamespace(n, ms, distinct, public)
             \/ DeleteNamespace(n)
             \/ \E s \in State : ChangeNamespaceState(n, s)
             \/ ChangeNamespaceVisibility(n)
             \/ \E a \in User, u \in User, l \in Level : GrantNamespaceAccess(a, u, l, n)
             \/ \E u \in User : RevokeNamespaceAccess(u, n)
      PROVE  FALSE
  BY <1>1, <1>2 DEF CreateNamespace, DeleteNamespace, ChangeNamespaceState,
       ChangeNamespaceVisibility, GrantNamespaceAccess, GrantAccess, RevokeNamespaceAccess
<1>3. ~NamespaceRequest
  BY Zenon, <1>2 DEF NamespaceRequest
<1>4. ~RepositoryRequest
  BY DEF RepositoryRequest, CreateRepository, DeleteRepository, ChangeRepositoryState,
         ChangeRepositoryVisibility
<1>5. ASSUME NEW u \in User, NEW s \in Role,
             \/ AssignRole(u, s) \/ ChangeRole(u, s)
             \/ CreateAccount(u) \/ DeleteAccount(u) \/ InitializeAdmin(u)
      PROVE  FALSE
  BY <1>5 DEF AssignRole, ChangeRole, CreateAccount, DeleteAccount, InitializeAdmin
<1>6. Role # {} /\ ~UNCHANGED vars
  BY DEF Role, vars
<1>7. PICK c \in Caller : AccessRequest(c)
  BY Zenon, <1>3, <1>4, <1>5, <1>6 DEF Next, UserRequest
<1>8. PICK q \in Repository, g \in User, u \in User :
        \/ \E l \in Level : GrantRepositoryAccess(c, g, u, l, q)
        \/ RevokeRepositoryAccess(c, g, u, q)
  BY Zenon, <1>7 DEF AccessRequest
<1>9. q = r /\ c \in asker'
  BY <1>1, <1>8 DEF GrantRepositoryAccess, GrantAccess, RevokeRepositoryAccess
<1> QED
  BY Zenon, <1>8, <1>9

(* Access to repositories is decided by those who call as an Admin, and    *)
(* never about themselves: no Maintainer has the authority, since none     *)
(* holds Maintainer on a repository.                                       *)
THEOREM AdminsDecideOnRepositories == Spec => RepositoryAccessByAdmins
<1>1. IInv /\ [Next]_vars => [DecidedByAdmin]_vars
  <2> SUFFICES ASSUME IInv, [Next]_vars, NEW r \in Repository, access'[r] # access[r]
               PROVE  \E g \in User, c \in asker' :
                        /\ NameOf[g] = NameOf[c] /\ Present(g) /\ role[g] = "Admin"
                        /\ access'[r][g] = access[r][g]
    BY DEF DecidedByAdmin
  <2>1. r \in Resource /\ r \notin Namespace /\ access \in [Resource -> [User -> Level \cup {"none"}]]
    BY ResourceType DEF Resource, IInv, TypeOK
  <2>2. PICK c \in asker', g \in User, u \in User :
          \/ \E l \in Level : GrantRepositoryAccess(c, g, u, l, r)
          \/ RevokeRepositoryAccess(c, g, u, r)
    BY AccessRequests DEF IInv
  <2>3. ASSUME NEW l, verifyInitiatorAuthority(g, l, r)
        PROVE  Present(g) /\ role[g] = "Admin"
    BY <2>3 DEF verifyInitiatorAuthority, IInv, NoMaintainerOnRepository
  <2>4. CASE \E l \in Level : GrantRepositoryAccess(c, g, u, l, r)
    <3>1. PICK l \in Level : GrantRepositoryAccess(c, g, u, l, r)
      BY <2>4
    <3>2. /\ NameOf[g] = NameOf[c] /\ Present(g) /\ role[g] = "Admin"
          /\ access' = [access EXCEPT ![r][u] = l]
      BY <2>3, <3>1 DEF GrantRepositoryAccess, GrantAccess
    <3>3. role[u] # "Admin"
      BY <2>1, <3>1 DEF GrantRepositoryAccess, GrantAccess, verifyGrantee
    <3> QED
      BY <2>1, <3>2, <3>3
  <2>5. CASE RevokeRepositoryAccess(c, g, u, r)
    <3>1. /\ NameOf[g] = NameOf[c] /\ Present(g) /\ role[g] = "Admin" /\ u # g
          /\ access' = [access EXCEPT ![r][u] = "none"]
      BY <2>3, <2>5 DEF RevokeRepositoryAccess
    <3> QED
      BY <2>1, <3>1
  <2> QED
    BY <2>2, <2>4, <2>5
<1> QED
  BY <1>1, Invariance, PTL DEF Spec, RepositoryAccessByAdmins

-----------------------------------------------------------------------------
(* States of repositories *)

(* Only the four repository handlers change a repository's row.            *)
LEMMA RepositoryChanges ==
  ASSUME TypeOK, [Next]_vars, NEW r \in Repository, resource'[r] # resource[r]
  PROVE  /\ UNCHANGED access
         /\ \/ \E public \in BOOLEAN : CreateRepository(r, public)
            \/ DeleteRepository(r)
            \/ \E s \in State : ChangeRepositoryState(r, s)
            \/ ChangeRepositoryVisibility(r)
<1>1. r \in Resource /\ r \notin Namespace
  BY ResourceType DEF Resource
<1>2. resource \in [Resource -> [status : {"unborn", "live", "deleted"}, state : State,
                                 public : BOOLEAN]]
  BY DEF TypeOK
<1>3. ASSUME NEW n \in Namespace,
             \/ \E ms \in SUBSET User, distinct \in BOOLEAN, public \in BOOLEAN :
                  CreateNamespace(n, ms, distinct, public)
             \/ DeleteNamespace(n)
             \/ \E s \in State : ChangeNamespaceState(n, s)
             \/ ChangeNamespaceVisibility(n)
             \/ \E a \in User, u \in User, l \in Level : GrantNamespaceAccess(a, u, l, n)
             \/ \E u \in User : RevokeNamespaceAccess(u, n)
      PROVE  FALSE
  BY <1>1, <1>2, <1>3 DEF CreateNamespace, DeleteNamespace, ChangeNamespaceState,
       ChangeNamespaceVisibility, GrantNamespaceAccess, GrantAccess, RevokeNamespaceAccess
<1>4. ~NamespaceRequest
  BY Zenon, <1>3 DEF NamespaceRequest
<1>5. ASSUME NEW q \in Repository,
             \/ \E public \in BOOLEAN : CreateRepository(q, public)
             \/ DeleteRepository(q)
             \/ \E s \in State : ChangeRepositoryState(q, s)
             \/ ChangeRepositoryVisibility(q)
      PROVE  q = r /\ UNCHANGED access
  BY <1>1, <1>2, <1>5 DEF CreateRepository, DeleteRepository, ChangeRepositoryState,
       ChangeRepositoryVisibility
<1>6. ~\E c \in Caller : AccessRequest(c)
  BY DEF AccessRequest, GrantRepositoryAccess, GrantAccess, RevokeRepositoryAccess
<1>8. CASE RepositoryRequest
  BY Zenon, <1>5, <1>8 DEF RepositoryRequest
<1>9. CASE \/ UNCHANGED vars
           \/ \E u \in User, s \in Role :
                \/ AssignRole(u, s) \/ ChangeRole(u, s)
                \/ CreateAccount(u) \/ DeleteAccount(u) \/ InitializeAdmin(u)
  BY <1>9 DEF vars, AssignRole, ChangeRole, CreateAccount, DeleteAccount, InitializeAdmin
<1>10. Role # {}
  BY DEF Role
<1> QED
  BY Zenon, <1>4, <1>6, <1>8, <1>9, <1>10 DEF Next, UserRequest

(* The state of a live repository only advances, one step at a time, under *)
(* a namespace that is there and not disabled.                             *)
THEOREM RepositoriesAge == Spec => RepositoryAges
<1>1. IInv /\ [Next]_vars => [AgingStep]_vars
  <2> SUFFICES ASSUME IInv, [Next]_vars, NEW r \in Repository,
                      Live(r), Live(r)', resource'[r].state # resource[r].state
               PROVE  /\ resource'[r].state = IF resource[r].state = "Active" THEN "Deprecated"
                                                                             ELSE "Disabled"
                      /\ ~Disabled(r)
                      /\ Live(ParentOf[r]) /\ ~Disabled(ParentOf[r])
    BY DEF AgingStep
  <2>1. r \in Resource /\ TypeOK
    BY DEF Resource, IInv
  <2>2. ~(\E public \in BOOLEAN : CreateRepository(r, public)) /\ ~DeleteRepository(r)
    BY <2>1 DEF TypeOK, CreateRepository, DeleteRepository, Live, Row
  <2>3. ~ChangeRepositoryVisibility(r)
    BY <2>1 DEF TypeOK, ChangeRepositoryVisibility
  <2>4. PICK s \in State : ChangeRepositoryState(r, s)
    BY <2>1, <2>2, <2>3, RepositoryChanges
  <2> QED
    BY <2>1, <2>4 DEF TypeOK, ChangeRepositoryState, Disabled
<1> QED
  BY <1>1, Invariance, PTL DEF Spec, RepositoryAges

(* A disabled namespace freezes itself and its repositories.               *)
THEOREM DisablingFreezes == Spec => DisabledNamespaceFrozen
<1>1. IInv /\ [Next]_vars => [FrozenUnderDisabled]_vars
  <2> SUFFICES ASSUME IInv, [Next]_vars, NEW n \in Namespace, Live(n), Disabled(n),
                      NEW x \in {n} \cup {r \in Repository : ParentOf[r] = n}
               PROVE  /\ \A u \in User : access'[x][u] \in {access[x][u], "none"}
                      /\ x # n => resource'[x] = resource[x] \/ resource'[x].status = "deleted"
    BY DEF FrozenUnderDisabled
  <2>1. /\ x \in Resource /\ TypeOK
        /\ x = n \/ (x \in Repository /\ x \notin Namespace /\ ParentOf[x] = n)
    BY ResourceType DEF Resource, IInv
  <2>2. ASSUME NEW u \in User, access'[x][u] # access[x][u] PROVE access'[x][u] = "none"
    <3>1. ~verifyResource(x)
      BY <2>1 DEF verifyResource
    <3>2. x \in Namespace => resource[x].status # "unborn"
      BY <2>1 DEF Live
    <3> QED
      BY <2>1, <2>2, <3>1, <3>2, RowChanges DEF GrantAccess
  <2>3. ASSUME x # n, resource'[x] # resource[x] PROVE resource'[x].status = "deleted"
    <3>1. x \in Repository /\ ParentOf[x] = n
      BY <2>1, <2>3
    <3>2. /\ ~\E public \in BOOLEAN : CreateRepository(x, public)
          /\ ~\E s \in State : ChangeRepositoryState(x, s)
          /\ ~ChangeRepositoryVisibility(x)
      BY <3>1 DEF CreateRepository, ChangeRepositoryState, ChangeRepositoryVisibility, Disabled
    <3>3. DeleteRepository(x)
      BY <2>1, <2>3, <3>1, <3>2, RepositoryChanges
    <3> QED
      BY <2>1, <3>3 DEF TypeOK, DeleteRepository, Row
  <2> QED
    BY <2>2, <2>3
<1> QED
  BY <1>1, Invariance, PTL DEF Spec, DisabledNamespaceFrozen
=============================================================================
