---------------------------- MODULE AccessControl ----------------------------
(***************************************************************************)
(* Namespaces, repositories and the access users hold on them: the service *)
(* and handler code of resource/namespace, resource/repository and         *)
(* resource/access, with the part of user/service.go that decides roles.   *)
(*                                                                         *)
(* Each of these handlers runs in one serializable SQLite transaction, so  *)
(* an action is a handler that commits; a refused or failed request leaves *)
(* the state alone.  Creating an account is the exception (its statements  *)
(* commit one by one) and takes two actions.  Ids are random and never     *)
(* reused, so what is fixed at creation (the name of an account, the       *)
(* namespace of a repository) is a constant function of the id.  Names of  *)
(* namespaces and repositories, descriptions and purposes are left out.    *)
(***************************************************************************)
CONSTANTS User, Name, NameOf, AdminName,
          Namespace, Repository,
          ParentOf     \* the namespace each repository id is created in

ASSUME NameOfType == NameOf \in [User -> Name] /\ AdminName \in Name

ASSUME ResourceType == /\ Namespace \cap Repository = {}
                       /\ ParentOf \in [Repository -> Namespace]

VARIABLES account, role,   \* as in Accounts
          resource,        \* REGISTRY_NAMESPACE and REGISTRY_REPOSITORY
          access,          \* RESOURCE_ACCESS, "none" when there is no row
          asker            \* history: whose request, if it was one, just
                           \* changed who has access to a repository

vars == <<account, role, resource, access, asker>>

Acc == INSTANCE Accounts

Resource == Namespace \cup Repository
Role     == {"Admin", "Maintainer", "Developer", "Guest"}
Level    == {"Maintainer", "Developer", "Guest"}
State    == {"Active", "Deprecated", "Disabled"}

TypeOK ==
  /\ Acc!TypeOK
  /\ resource \in [Resource -> [status : {"unborn", "live", "deleted"},
                                state  : State,
                                public : BOOLEAN]]
  /\ access \in [Resource -> [User -> Level \cup {"none"}]]
  /\ asker \in SUBSET User

Row(status, public) == [status |-> status, state |-> "Active", public |-> public]

Init == /\ Acc!Init
        /\ resource = [x \in Resource |-> Row("unborn", FALSE)]
        /\ access = [x \in Resource |-> [u \in User |-> "none"]]
        /\ asker = {}

-----------------------------------------------------------------------------
(* Lookups and checks of the access manager *)

Present(u)  == account[u] = "present"
Live(x)     == resource[x].status = "live"
Disabled(x) == resource[x].state = "Disabled"

(* Requests come with a token, which an account with a role was given; the *)
(* account may be deleted while its request is under way.                  *)
Caller == {u \in User : account[u] # "absent" /\ role[u] # "none"}

IsAdminAccount(u) == Present(u) /\ NameOf[u] = AdminName

accessLevelsByRole(r) ==
  CASE r = "Admin"      -> {"Maintainer"}
    [] r = "Maintainer" -> {"Maintainer", "Developer", "Guest"}
    [] r = "Developer"  -> {"Developer", "Guest"}
    [] r = "Guest"      -> {"Guest"}
    [] OTHER            -> {}

getRolesSatisfyingAccessLevel(l) ==
  CASE l = "Maintainer" -> {"Maintainer", "Admin"}
    [] l = "Developer"  -> {"Developer", "Maintainer"}
    [] OTHER            -> {"Guest", "Developer", "Maintainer"}

accessLevelsByType(x) == IF x \in Namespace THEN Level ELSE {"Developer", "Guest"}

(* A Maintainer must hold Maintainer access on the very resource, which a  *)
(* repository never offers.                                                *)
verifyInitiatorAuthority(g, l, x) ==
  /\ Present(g)
  /\ \/ role[g] = "Admin"
     \/ /\ role[g] = "Maintainer"
        /\ l \in {"Developer", "Guest"}
        /\ x \in Repository => Live(x)
        /\ access[x][g] = "Maintainer"

verifyResource_OwnState(x) ==   \* mutant: the namespace's state is not looked at
  Live(x) /\ ~Disabled(x)

verifyResource(x) ==
  /\ Live(x) /\ ~Disabled(x)
  /\ x \in Repository => Live(ParentOf[x]) /\ ~Disabled(ParentOf[x])

verifyGrantee_AnyId(u, l, x) ==   \* mutant: deleted accounts pass
  /\ l \in accessLevelsByRole(role[u])
  /\ role[u] = "Admin" => x \in Namespace

verifyGrantee(u, l, x) ==
  /\ Present(u)
  /\ l \in accessLevelsByRole(role[u])
  /\ role[u] = "Admin" => x \in Namespace

isRedundantAccess_SameLevel(x, l, u) ==   \* mutant: only the same level is redundant
  access[ParentOf[x]][u] = l

isRedundantAccess(x, l, u) ==
  LET held == access[ParentOf[x]][u]
  IN  \/ held \in {l, "Maintainer"}
      \/ held = "Developer" /\ l = "Guest"

GrantAccess(g, u, l, x) ==
  /\ l \in accessLevelsByType(x)
  /\ verifyInitiatorAuthority(g, l, x)
  /\ verifyResource(x)
  /\ verifyGrantee(u, l, x)
  /\ access[x][u] = "none"
  /\ x \in Repository => ~isRedundantAccess(x, l, u)
  /\ access' = [access EXCEPT ![x][u] = l]
  /\ UNCHANGED <<account, role, resource>>

-----------------------------------------------------------------------------
(* Namespaces *)

(* GrantAccessBulk, at Maintainer level, on a namespace just inserted: a   *)
(* list naming someone twice counts fewer matching users than names.       *)
BulkGrantable(ms, distinct) ==
  /\ \E a \in User : IsAdminAccount(a) /\ role[a] = "Admin"
  /\ distinct
  /\ \A u \in ms : Present(u) /\ role[u] \in getRolesSatisfyingAccessLevel("Maintainer")

(* The namespace is committed whether or not its maintainers were granted. *)
CreateNamespace(n, ms, distinct, public) ==
  /\ resource[n].status = "unborn"
  /\ \E a \in User : IsAdminAccount(a)
  /\ resource' = [resource EXCEPT ![n] = Row("live", public)]
  /\ access' = IF BulkGrantable(ms, distinct)
               THEN [access EXCEPT ![n] = [u \in User |->
                                             IF u \in ms THEN "Maintainer" ELSE @[u]]]
               ELSE access
  /\ UNCHANGED <<account, role>>

(* Repositories and access rows of the namespace stay: the database is     *)
(* opened without foreign keys.                                            *)
DeleteNamespace(n) ==
  /\ Live(n)
  /\ resource' = [resource EXCEPT ![n] = Row("deleted", FALSE)]
  /\ UNCHANGED <<account, role, access>>

ChangeNamespaceState(n, s) ==
  /\ Live(n)
  /\ resource[n].state # s
  /\ ~(resource[n].state = "Active" /\ s = "Disabled")
  /\ resource' = [resource EXCEPT ![n].state = s]
  /\ UNCHANGED <<account, role, access>>

ChangeNamespaceVisibility(n) ==
  /\ Live(n)
  /\ ~Disabled(n)
  /\ resource' = [resource EXCEPT ![n].public = ~@]
  /\ UNCHANGED <<account, role, access>>

(* The handler grants as the account named admin, whoever asks.            *)
GrantNamespaceAccess(a, u, l, n) ==
  /\ IsAdminAccount(a)
  /\ GrantAccess(a, u, l, n)

(* The revoker is the username, not an id, so it matches no access row and *)
(* no grantee: only the role Admin helps.                                  *)
RevokeNamespaceAccess_Marked(u, n) ==   \* mutant: the row is marked instead of deleted
  /\ access[n][u] # "none"
  /\ \E a \in User : IsAdminAccount(a) /\ role[a] = "Admin"
  /\ access' = [access EXCEPT ![n][u] = "revoked"]
  /\ UNCHANGED <<account, role, resource>>

RevokeNamespaceAccess(u, n) ==
  /\ access[n][u] # "none"
  /\ \E a \in User : IsAdminAccount(a) /\ role[a] = "Admin"
  /\ access' = [access EXCEPT ![n][u] = "none"]
  /\ UNCHANGED <<account, role, resource>>

-----------------------------------------------------------------------------
(* Repositories *)

CreateRepository(r, public) ==
  /\ resource[r].status = "unborn"
  /\ \E creator \in User : Present(creator)
  /\ Live(ParentOf[r])
  /\ public => resource[ParentOf[r]].public
  /\ resource[ParentOf[r]].state = "Active"
  /\ resource' = [resource EXCEPT ![r] = Row("live", public)]
  /\ UNCHANGED <<account, role, access>>

DeleteRepository(r) ==
  /\ Live(r)
  /\ resource' = [resource EXCEPT ![r] = Row("deleted", FALSE)]
  /\ UNCHANGED <<account, role, access>>

ChangeRepositoryState_NotDisabled(r, s) ==   \* mutant: only Disabled is final
  /\ Live(r) /\ ~Disabled(r)
  /\ Live(ParentOf[r]) /\ ~Disabled(ParentOf[r])
  /\ resource' = [resource EXCEPT ![r].state = s]
  /\ UNCHANGED <<account, role, access>>

ChangeRepositoryState(r, s) ==
  /\ Live(r)
  /\ <<resource[r].state, s>> \in {<<"Active", "Deprecated">>, <<"Deprecated", "Disabled">>}
  /\ Live(ParentOf[r]) /\ ~Disabled(ParentOf[r])
  /\ resource' = [resource EXCEPT ![r].state = s]
  /\ UNCHANGED <<account, role, access>>

ChangeRepositoryVisibility(r) ==
  /\ Live(r) /\ ~Disabled(r)
  /\ Live(ParentOf[r]) /\ ~Disabled(ParentOf[r])
  /\ ~resource[r].public => resource[ParentOf[r]].public
  /\ resource' = [resource EXCEPT ![r].public = ~@]
  /\ UNCHANGED <<account, role, access>>

(* The granter named in the request must be the caller; it is looked up by *)
(* that name, as the revoker is.                                           *)
GrantRepositoryAccess_AnyGranter(c, g, u, l, r) ==   \* mutant: names not compared
  /\ GrantAccess(g, u, l, r)
  /\ asker' = {c}

GrantRepositoryAccess(c, g, u, l, r) ==
  /\ NameOf[g] = NameOf[c]
  /\ GrantAccess(g, u, l, r)
  /\ asker' = {c}

RevokeRepositoryAccess(c, v, u, r) ==
  /\ NameOf[v] = NameOf[c]
  /\ asker' = {c}
  /\ u # v
  /\ access[r][u] # "none"
  /\ verifyInitiatorAuthority(v, access[r][u], r)
  /\ access' = [access EXCEPT ![r][u] = "none"]
  /\ UNCHANGED <<account, role, resource>>

-----------------------------------------------------------------------------
(* Accounts and roles *)

CreateAccount(u) == Acc!CreateAccount(u) /\ UNCHANGED <<resource, access>>

(* The second statement of an account creation; the account may have been  *)
(* deleted since the first.                                                *)
AssignRole(u, r) == Acc!AssignRole(u, r) /\ UNCHANGED <<resource, access>>

InitializeAdmin(u) == Acc!InitializeAdmin(u) /\ UNCHANGED <<resource, access>>

(* Access rows and role stay.                                              *)
DeleteAccount(u) == Acc!DeleteAccount(u) /\ UNCHANGED <<resource, access>>

isRolePromotion(current, new) ==
  \/ current = "Guest" /\ new \in {"Developer", "Maintainer", "Admin"}
  \/ current = "Developer" /\ new \in {"Maintainer", "Admin"}
  \/ current = "Maintainer" /\ new = "Admin"

(* The access listing rejects filters on other fields than these.          *)
AllowedFilterFields == {"access_level", "resource_type", "resource_id"}
UserAccessFilters   == {"user_id", "access_level"}

ExceedsRole(u, r) == \E x \in Resource :
                       access[x][u] \notin accessLevelsByRole(r) \cup {"none"}

(* changeRole goes through: a promotion, a first role, or a demotion whose *)
(* query for exceeding grants succeeds and finds none.                     *)
RoleChangeAccepted_Always(u, r) == TRUE   \* mutant: grants not looked at

RoleChangeAccepted(u, r) ==
  \/ isRolePromotion(role[u], r)
  \/ role[u] = "none"
  \/ UserAccessFilters \subseteq AllowedFilterFields /\ ~ExceedsRole(u, r)

ChangeRole(u, r) ==
  /\ RoleChangeAccepted(u, r)
  /\ Acc!ChangeRole(u, r)
  /\ UNCHANGED <<resource, access>>

-----------------------------------------------------------------------------
NamespaceRequest ==
  \E n \in Namespace :
    \/ \E ms \in (SUBSET User) \ {{}}, distinct, public \in BOOLEAN :
         CreateNamespace(n, ms, distinct, public)
    \/ DeleteNamespace(n)
    \/ \E s \in State : ChangeNamespaceState(n, s)
    \/ ChangeNamespaceVisibility(n)
    \/ \E a, u \in User, l \in Level : GrantNamespaceAccess(a, u, l, n)
    \/ \E u \in User : RevokeNamespaceAccess(u, n)

RepositoryRequest ==
  \E r \in Repository :
    \/ \E public \in BOOLEAN : CreateRepository(r, public)
    \/ DeleteRepository(r)
    \/ \E s \in State : ChangeRepositoryState(r, s)
    \/ ChangeRepositoryVisibility(r)

AccessRequest(c) ==
  \E r \in Repository, g, u \in User :
    \/ \E l \in Level : GrantRepositoryAccess(c, g, u, l, r)
    \/ RevokeRepositoryAccess(c, g, u, r)

UserRequest ==
  \E u \in User :
    \/ CreateAccount(u)
    \/ DeleteAccount(u)
    \/ \E r \in Role : ChangeRole(u, r)

Next ==
  \/ \E c \in Caller : AccessRequest(c)
  \/ /\ \/ Caller # {} /\ (NamespaceRequest \/ RepositoryRequest \/ UserRequest)
        \/ \E u \in User, r \in Role : AssignRole(u, r)
        \/ \E u \in User : InitializeAdmin(u)
     /\ asker' = {}

Spec == Init /\ [][Next]_vars

-----------------------------------------------------------------------------
(* Properties *)

(* Global roles cap what is granted: no account other than an Admin holds  *)
(* a level its role does not allow, whatever the order of grants, role     *)
(* changes, deletions and half-finished account creations.                 *)
GrantWithinRole ==
  \A x \in Resource, u \in User :
    access[x][u] # "none" /\ role[u] # "Admin"
      => access[x][u] \in accessLevelsByRole(role[u])

(* An id has no access rows before its resource is created.                *)
NoAccessBeforeBirth ==
  \A x \in Resource, u \in User :
    resource[x].status = "unborn" => access[x][u] = "none"

(* Nobody holds Maintainer on a repository.                                *)
NoMaintainerOnRepository ==
  \A r \in Repository, u \in User : access[r][u] # "Maintainer"

(* The inductive invariant of the proofs in AccessControlProofs.           *)
IInv == /\ TypeOK
        /\ NoAccessBeforeBirth
        /\ NoMaintainerOnRepository
        /\ GrantWithinRole

FrozenUnderDisabled ==
  \A n \in Namespace : Live(n) /\ Disabled(n) =>
    \A x \in {n} \cup {r \in Repository : ParentOf[r] = n} :
      /\ \A u \in User : access'[x][u] \in {access[x][u], "none"}
      /\ x # n => \/ resource'[x] = resource[x]
                  \/ resource'[x].status = "deleted"

(* While a namespace is disabled, nobody gains access to it or to any of   *)
(* its repositories, and none of those repositories is created or changes  *)
(* state or visibility; rows may only be removed.                          *)
DisabledNamespaceFrozen == [][FrozenUnderDisabled]_vars

AgingStep ==
  \A r \in Repository :
    Live(r) /\ Live(r)' /\ resource'[r].state # resource[r].state
      => /\ resource'[r].state = IF resource[r].state = "Active" THEN "Deprecated"
                                                                ELSE "Disabled"
         /\ ~Disabled(r)
         /\ Live(ParentOf[r]) /\ ~Disabled(ParentOf[r])

(* A repository that is there only ever ages (Active, Deprecated, Disabled),*)
(* one step at a time, and only under a namespace that is there and not    *)
(* disabled.                                                               *)
RepositoryAges == [][AgingStep]_vars

FreshGrants ==
  \A x \in Resource, u \in User :
    access'[x][u] \notin {access[x][u], "none"}
      => /\ access[x][u] = "none"
         /\ Present(u) /\ Live(x)'
         /\ access'[x][u] \in accessLevelsByRole(role[u])

(* Access is never raised or lowered in place: a level changes only by a   *)
(* revocation and a new grant, and the grant goes to a present account on  *)
(* a live resource at a level its role allows at that moment.              *)
GrantsAreFresh == [][FreshGrants]_vars

AddingGrants ==
  \A r \in Repository, u \in User :
    access[r][u] = "none" /\ access'[r][u] # "none"
      => \/ access[ParentOf[r]][u] = "none"
         \/ access[ParentOf[r]][u] = "Guest" /\ access'[r][u] = "Developer"

(* A repository grant always adds something: at the moment it is made the  *)
(* user's access on the namespace is weaker.                               *)
RepositoryGrantsAdd == [][AddingGrants]_vars

DecidedByAdmin ==
  \A r \in Repository :
    access'[r] # access[r]
      => \E g \in User, c \in asker' :
           /\ NameOf[g] = NameOf[c] /\ Present(g) /\ role[g] = "Admin"
           /\ access'[r][g] = access[r][g]

(* Who has access to a repository changes only by a request whose caller's *)
(* name is that of a present account with the role Admin, and never for    *)
(* that account itself (promoted, it may still hold what it was granted):  *)
(* Maintainers pass verifyInitiatorAuthority only with an access no        *)
(* repository offers.  Namespaces have no such property: their handlers    *)
(* grant and revoke as the account named admin, whoever calls.             *)
RepositoryAccessByAdmins == [][DecidedByAdmin]_vars
=============================================================================
