---------------------------- MODULE WebContracts ----------------------------
(***************************************************************************)
(* The JSON bodies between the web console and the server, by the names of *)
(* their fields: what the generated types declare, what the types of the   *)
(* old client declare, what the server's structures read and write, and    *)
(* what the pages put in and sort by.  No compiler compares these.         *)
(***************************************************************************)
EXTENDS Shell

\* A body the types declare: the fields it always has and those it may have.
Declared(required, optional) == [required |-> required, optional |-> optional]

Fields(declared) == declared.required \cup declared.optional

--------------------------------------------------------------------------
(* The generated types.                                                    *)

SharedBodies ==
  [PaginatedBase |-> Declared({"total", "page", "limit"}, {}),
   ErrorResponse |-> Declared({"error_code", "error_message"}, {})]

UserBodies ==
  [CreateUserAccountRequest |->
     Declared({"username", "email", "role"}, {"display_name"}),
   CreateUserAccountResponse |-> Declared({"username", "user_id"}, {}),
   UpdateUserAccountRequest  |-> Declared({"display_name"}, {}),
   UpdateUserEmailRequest    |-> Declared({"email"}, {}),
   ChangeUserRoleRequest     |-> Declared({"role"}, {}),
   PasswordChangeRequest     |->
     Declared({"user_id", "password"}, {"recovery_id", "old_password"}),
   ChangePasswordResponse    |-> Declared({"status", "message"}, {}),
   UsernameEmailValidationRequest  |-> Declared({}, {"username", "email"}),
   UsernameEmailValidationResponse |->
     Declared({"username_available", "email_available"}, {})]

UserViews ==
  [GetUserResponse |->
     Declared({"id", "username", "email", "role", "created_at"},
              {"display_name", "locked", "locked_reason", "failed_attempts",
               "updated_at", "locked_at"}),
   UserAccountViewDto |->
     Declared({"id", "username", "email", "locked", "failed_attempts",
               "created_at", "role"},
              {"display_name", "locked_reason", "locked_at",
               "password_recovery_id", "password_recovery_reason",
               "password_recovery_at", "last_loggedin_at", "updated_at"})]

SetupBodies ==
  [UserAccountSetupInfoResponse |->
     Declared({"error_message", "username", "user_id", "display_name", "email",
               "role"}, {}),
   AccountSetupCompleteRequest |->
     Declared({"user_id", "username", "password", "uuid"}, {"display_name"})]

AccessBodies ==
  [ResourceAccessViewDto |->
     Declared({"id", "resource_type", "resource_name", "resource_id",
               "access_level", "user_id", "username", "granted_user",
               "granted_by", "granted_at"}, {})]

NamespaceBodies ==
  [NamespaceViewDto |->
     Declared({"registry_id", "id", "name", "state", "is_public", "purpose",
               "created_at"},
              {"description", "updated_at", "developers", "maintainers"}),
   CreateNamespaceRequest |->
     Declared({"name", "purpose", "maintainers"}, {"description", "is_public"}),
   CreateNamespaceResponse |-> Declared({"id"}, {}),
   UpdateNamespaceRequest  |-> Declared({"description", "purpose"}, {}),
   NamespaceResponse |->
     Declared({"id", "registry_id", "name", "is_public", "state", "created_at"},
              {"description", "purpose", "updated_at"})]

GrantBodies ==
  [AccessGrantRequest |->
     Declared({"user_id", "resource_id", "resource_type", "access_level",
               "granted_by"}, {}),
   UserProfileInfo |-> Declared({"user_id", "username", "role"}, {})]

\* The login's body has no type of its own.
LoginBodies ==
  [AuthLoginRequest |-> Declared({"username", "password"}, {})]

GeneratedBodies ==
  LoginBodies @@ SharedBodies @@ UserBodies @@ UserViews @@ SetupBodies
    @@ AccessBodies @@ NamespaceBodies @@ GrantBodies

--------------------------------------------------------------------------
(* The types of the old client.                                            *)

OldUpstreamBodies ==
  [ListUpstreamRegistriesResponse |->
     Declared({"total", "page", "limit", "registeries"}, {}),
   PostUpstreamRequestBody |->
     Declared({"name", "port", "upstream_url", "auth_config", "access_config",
               "storage_config", "cache_config"}, {}),
   PostUpstreamResponseBody |-> Declared({}, {"reg_id", "reg_name"})]

\* An "error" is the client's own, made from the status.
OldUserBodies ==
  [AuthLoginResponse |->
     Declared({"success", "error_message", "session_id", "authorized_scopes",
               "expires_at", "user"}, {}),
   CreateUserAccountRequest |->
     Declared({"username", "email", "display_name", "role"}, {}),
   CreateUserAccountResponse |-> Declared({"username", "user_id"}, {}),
   UsernameEmailValidationRequest |-> Declared({"username", "email"}, {}),
   UsernameEmailValidationResponse |->
     Declared({"username_available", "email_available"}, {}),
   ListUsersResponse |-> Declared({"total", "page", "limit", "users"}, {}),
   UpdateUserAccountRequest |-> Declared({"email", "role", "display_name"}, {})]

OldSetupBodies ==
  [UserAccountSetupInfoResponse |->
     Declared({"error_message", "username", "user_id", "display_name", "email",
               "role"}, {}),
   AccountSetupCompleteRequest |->
     Declared({"user_id", "username", "display_name", "password", "uuid"}, {}),
   CreateNamespaceRequest |->
     Declared({"name", "description", "is_public", "purpose", "maintainers"}, {}),
   CreateNamespaceResponse |-> Declared({"id"}, {})]

OldBodies == OldUpstreamBodies @@ OldUserBodies @@ OldSetupBodies

--------------------------------------------------------------------------
(* The server's structures, under the names of the types they answer to.   *)

ServerUserBodies ==
  [UserAccountViewDto |->
     {"id", "username", "email", "display_name", "locked", "locked_reason",
      "locked_at", "failed_attempts", "password_recovery_id",
      "password_recovery_reason", "password_recovery_at", "last_loggedin_at",
      "created_at", "updated_at", "role"},
   CreateUserAccountRequest  |-> {"username", "email", "display_name", "role"},
   CreateUserAccountResponse |-> {"username", "user_id"},
   UpdateUserAccountRequest  |-> {"display_name"},
   ChangeUserRoleRequest     |-> {"role"},
   PasswordChangeRequest     |->
     {"user_id", "recovery_id", "password", "old_password"},
   ChangePasswordResponse    |-> {"status", "message"},
   UpdateUserEmailRequest    |-> {"user_id", "email"},
   UsernameEmailValidationRequest  |-> {"username", "email"},
   UsernameEmailValidationResponse |-> {"username_available", "email_available"},
   UserAccountSetupInfoResponse    |->
     {"error_message", "username", "user_id", "display_name", "email", "role"},
   AccountSetupCompleteRequest     |->
     {"user_id", "username", "display_name", "password", "uuid"},
   GetUserResponse |->
     {"id", "username", "email", "display_name", "locked", "locked_reason",
      "failed_attempts", "role", "created_at", "updated_at", "locked_at"}]

ServerNamespaceBodies ==
  [CreateNamespaceRequest |->
     {"name", "description", "is_public", "purpose", "maintainers"},
   CreateNamespaceResponse |-> {"id"},
   NamespaceResponse |->
     {"id", "registry_id", "name", "description", "purpose", "is_public", "state",
      "created_by", "created_at", "updated_at"},
   UpdateNamespaceRequest |-> {"id", "description", "purpose"},
   NamespaceViewDto |->
     {"registry_id", "id", "name", "description", "state", "is_public", "purpose",
      "created_at", "updated_at", "developers", "maintainers"}]

ServerAccessBodies ==
  [AccessGrantRequest |->
     {"user_id", "access_level", "resource_type", "resource_id", "granted_by"},
   ResourceAccessViewDto |->
     {"id", "resource_type", "resource_name", "resource_id", "access_level",
      "user_id", "username", "granted_user", "granted_by", "granted_at"}]

ServerSessionBodies ==
  [UserProfileInfo   |-> {"user_id", "username", "role"},
   AuthLoginRequest  |-> {"username", "password", "scopes"},
   AuthLoginResponse |-> {"user"}]

ServerListBodies ==
  [PaginatedBase     |-> {"total", "page", "limit", "entities"},
   ListUsersResponse |-> {"total", "page", "limit", "entities"}]

ServerErrorBodies == [ErrorResponse |-> {"error_message", "error_code"}]

ServerUpstreamBodies ==
  [ListUpstreamRegistriesResponse |-> {"total", "page", "limit", "registries"},
   PostUpstreamRequestBody |->
     {"name", "port", "status", "upstream_url", "auth_config", "access_config",
      "storage_config", "cache_config"},
   PostUpstreamResponseBody |-> {"reg_id", "reg_name"}]

ServerBodies ==
  ServerUserBodies @@ ServerNamespaceBodies @@ ServerAccessBodies
    @@ ServerSessionBodies @@ ServerListBodies @@ ServerErrorBodies
    @@ ServerUpstreamBodies

\* Every field a generated type declares, sent or received, is a field of the
\* server's structure.
ASSUME GeneratedBodiesAgree ==
  \A body \in DOMAIN GeneratedBodies :
    /\ body \in DOMAIN ServerBodies
    /\ Fields(GeneratedBodies[body]) \subseteq ServerBodies[body]

\* The fields of the old types the server knows nothing of.
ASSUME OldBodiesDiffer ==
  [body \in {b \in DOMAIN OldBodies :
               ~(Fields(OldBodies[b]) \subseteq ServerBodies[b])} |->
     Fields(OldBodies[body]) \ ServerBodies[body]]
  = [AuthLoginResponse |->
       {"success", "error_message", "session_id", "authorized_scopes",
        "expires_at"},
     ListUpstreamRegistriesResponse |-> {"registeries"},
     ListUsersResponse              |-> {"users"},
     UpdateUserAccountRequest       |-> {"email", "role"}]

--------------------------------------------------------------------------
(* What the pages' handlers send.                                          *)

LoginBody == [of |-> "AuthLoginRequest", fields |-> {"username", "password"}]

SetupBody ==
  [of |-> "AccountSetupCompleteRequest",
   fields |-> {"user_id", "username", "display_name", "password", "uuid"}]

ValidationBody ==
  [of |-> "UsernameEmailValidationRequest", fields |-> {"username", "email"}]

InvitationBody ==
  [of |-> "CreateUserAccountRequest",
   fields |-> {"username", "email", "role", "display_name"}]

NamespaceBody ==
  [of |-> "CreateNamespaceRequest",
   fields |-> {"name", "description", "is_public", "purpose", "maintainers"}]

RowUpdateBody ==
  [of |-> "UpdateUserAccountRequest",
   fields |-> {"email", "display_name", "role"}]

SentBodies ==
  [handleLogin                  |-> LoginBody,
   handleUserAccountComplete    |-> SetupBody,
   validateUsernameEmailAPICall |-> ValidationBody,
   createUserAccountAPICall     |-> InvitationBody,
   saveNamespace                |-> NamespaceBody]

\* The handlers of operations that take a body send one, and in it all that is
\* required and nothing that is not declared.
ASSUME PagesSendWhatIsRead ==
  /\ DOMAIN SentBodies = {call \in DOMAIN Awaits : Types[Awaits[call]].body}
  /\ \A call \in DOMAIN SentBodies :
       LET declared == GeneratedBodies[SentBodies[call].of]
       IN /\ declared.required \subseteq SentBodies[call].fields
          /\ SentBodies[call].fields \subseteq Fields(declared)

\* The account dialog's update: of what it lets the user change and reports as
\* updated, the server reads the display name only.
ASSUME RowUpdateMostlyDropped ==
  RowUpdateBody.fields \ ServerBodies[RowUpdateBody.of] = {"email", "role"}

--------------------------------------------------------------------------
(* What the tables may be sorted and filtered by.                          *)

UserColumns ==
  {"username", "email", "role", "display_name", "last_loggedin_at"}

AllowedUserSortFields ==
  {"username", "email", "role", "display_name", "last_loggedin_at"}
AllowedUserFilterFields == {"role", "locked"}

AllowedNamespaceSortFields   == {"name", "created_at"}
AllowedNamespaceFilterFields == {"purpose", "state", "is_public"}

\* A column the server does not sort by would turn the page's every request
\* away; so would a filter it does not know.  (display_name is let through here
\* and fails in the store.)
ASSUME ColumnsAreSortable ==
  /\ UserColumns \subseteq AllowedUserSortFields
  /\ Types["getUsers"].query \ Paging = AllowedUserFilterFields
  /\ Types["getResourceNamespaces"].query \ Paging = AllowedNamespaceFilterFields
  /\ "name" \in AllowedNamespaceSortFields
=============================================================================
