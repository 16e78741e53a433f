------------------------------- MODULE WebApi -------------------------------
(***************************************************************************)
(* The web console's two HTTP clients: the generated one (src/api) with    *)
(* the 28 operations of the API document, and the hand-written HttpClient  *)
(* (src/client).  An operation is a row of two tables, what the generated  *)
(* SDK sends and what the generated types declare of its answer; a         *)
(* response is reduced to what the calling page can tell apart.            *)
(***************************************************************************)
EXTENDS Naturals, Sequences, TLC

--------------------------------------------------------------------------
(* What each operation sends: method, path and whether the server's        *)
(* session middleware guards it.                                           *)

Open(method, path) == [method |-> method, path |-> path, secured |-> FALSE]
Secured(method, path) == [method |-> method, path |-> path, secured |-> TRUE]

AuthOps ==
  [postAuthLogin  |-> Open("POST", <<"auth", "login">>),
   postAuthLogout |-> Secured("POST", <<"auth", "logout">>)]

OnboardingOps ==
  [getOnboardingByUuid |-> Open("GET", <<"onboarding", "{uuid}">>),
   postOnboardingByUuidComplete |->
     Open("POST", <<"onboarding", "{uuid}", "complete">>)]

UserOps ==
  [getUsers          |-> Secured("GET", <<"users">>),
   postUsers         |-> Secured("POST", <<"users">>),
   getUsersMe        |-> Secured("GET", <<"users", "me">>),
   putUsersMe        |-> Secured("PUT", <<"users", "me">>),
   postUsersValidate |-> Secured("POST", <<"users", "validate">>),
   deleteUsersById   |-> Secured("DELETE", <<"users", "{id}">>),
   getUsersById      |-> Secured("GET", <<"users", "{id}">>),
   putUsersById      |-> Secured("PUT", <<"users", "{id}">>)]

UserChangeOps ==
  [putUsersByIdEmail    |-> Secured("PUT", <<"users", "{id}", "email">>),
   putUsersByIdRole     |-> Secured("PUT", <<"users", "{id}", "role">>),
   putUsersByIdPassword |-> Secured("PUT", <<"users", "{id}", "password">>),
   putUsersByIdLock     |-> Secured("PUT", <<"users", "{id}", "lock">>),
   putUsersByIdUnlock   |-> Secured("PUT", <<"users", "{id}", "unlock">>)]

Namespace(rest) == <<"resource", "namespaces">> \o rest

NamespaceOps ==
  [getResourceNamespaces        |-> Secured("GET", Namespace(<<>>)),
   postResourceNamespaces       |-> Secured("POST", Namespace(<<>>)),
   deleteResourceNamespacesById |-> Secured("DELETE", Namespace(<<"{id}">>)),
   getResourceNamespacesById    |-> Secured("GET", Namespace(<<"{id}">>)),
   headResourceNamespacesById   |-> Secured("HEAD", Namespace(<<"{id}">>)),
   putResourceNamespacesById    |-> Secured("PUT", Namespace(<<"{id}">>))]

\* The check of a name states no security; the server guards it all the same.
NamespaceAccessOps ==
  [patchResourceNamespacesByIdVisibility |->
     Secured("PATCH", Namespace(<<"{id}", "visibility">>)),
   patchResourceNamespacesByIdState |->
     Secured("PATCH", Namespace(<<"{id}", "state">>)),
   getResourceNamespacesByIdUsers |->
     Secured("GET", Namespace(<<"{id}", "users">>)),
   postResourceNamespacesByIdUsers |->
     Secured("POST", Namespace(<<"{id}", "users">>)),
   deleteResourceNamespacesByIdUsersByUserId |->
     Secured("DELETE", Namespace(<<"{id}", "users", "{userID}">>)),
   getResourceNamespacesCheckName |->
     Open("GET", Namespace(<<"check-name">>))]

\* The methods the client has a function for.
Methods == {"CONNECT", "DELETE", "GET", "HEAD", "OPTIONS", "PATCH", "POST", "PUT",
            "TRACE"}

Operations == AuthOps @@ OnboardingOps @@ UserOps @@ UserChangeOps
                @@ NamespaceOps @@ NamespaceAccessOps

--------------------------------------------------------------------------
(* What the generated types declare: whether a body is sent, the names of  *)
(* the query and of the path, the good statuses and the bad ones.          *)

Declares(body, query, path, ok, errors) ==
  [body |-> body, query |-> query, path |-> path, ok |-> ok, errors |-> errors]

AuthTypes ==
  [postAuthLogin  |-> Declares(TRUE, {}, {}, {200}, {401}),
   postAuthLogout |-> Declares(FALSE, {}, {}, {200}, {401})]

OnboardingTypes ==
  [getOnboardingByUuid |->
     Declares(FALSE, {}, {"{uuid}"}, {200}, {404, 500}),
   postOnboardingByUuidComplete |->
     Declares(TRUE, {}, {"{uuid}"}, {200}, {400, 500})]

Paging == {"page", "limit", "order", "search", "sort_by"}

UserTypes ==
  [getUsers   |-> Declares(FALSE, Paging \cup {"role", "locked"}, {}, {200},
                           {400, 401, 500}),
   postUsers  |-> Declares(TRUE, {}, {}, {201}, {400, 401, 409, 500}),
   getUsersMe |-> Declares(FALSE, {}, {}, {200}, {401, 500}),
   putUsersMe |-> Declares(TRUE, {}, {}, {200}, {400, 401, 500})]

UserCheckTypes ==
  [postUsersValidate |-> Declares(TRUE, {}, {}, {200}, {400, 401, 500})]

UserByIdTypes ==
  [deleteUsersById |-> Declares(FALSE, {}, {"{id}"}, {200}, {401, 500}),
   getUsersById    |-> Declares(FALSE, {}, {"{id}"}, {200}, {401, 404, 500}),
   putUsersById    |-> Declares(TRUE, {}, {"{id}"}, {200}, {400, 401, 500})]

UserChangeTypes ==
  [putUsersByIdEmail    |-> Declares(TRUE, {}, {"{id}"}, {200}, {400, 401, 500}),
   putUsersByIdRole     |-> Declares(TRUE, {}, {"{id}"}, {200},
                                     {400, 401, 403, 500}),
   putUsersByIdPassword |-> Declares(TRUE, {}, {"{id}"}, {200}, {400, 401, 500})]

UserLockTypes ==
  [putUsersByIdLock   |-> Declares(FALSE, {}, {"{id}"}, {200}, {401, 409, 500}),
   putUsersByIdUnlock |-> Declares(FALSE, {}, {"{id}"}, {200}, {401, 409, 500})]

NamespaceTypes ==
  [getResourceNamespaces |->
     Declares(FALSE, Paging \cup {"state", "purpose", "is_public"}, {}, {200},
              {400, 401, 500}),
   postResourceNamespaces |->
     Declares(TRUE, {}, {}, {201}, {400, 401, 403, 404, 409, 500})]

NamespaceByIdTypes ==
  [deleteResourceNamespacesById |-> Declares(FALSE, {}, {"{id}"}, {200}, {}),
   getResourceNamespacesById    |-> Declares(FALSE, {}, {"{id}"}, {200}, {404}),
   headResourceNamespacesById   |-> Declares(FALSE, {}, {"{id}"}, {200}, {404}),
   putResourceNamespacesById    |-> Declares(TRUE, {}, {"{id}"}, {200}, {})]

NamespaceChangeTypes ==
  [patchResourceNamespacesByIdVisibility |->
     Declares(FALSE, {"public"}, {"{id}"}, {200}, {400, 401, 404, 422, 500}),
   patchResourceNamespacesByIdState |->
     Declares(FALSE, {"state"}, {"{id}"}, {200}, {400, 401, 404, 422, 500})]

NamespaceAccessTypes ==
  [getResourceNamespacesByIdUsers |->
     Declares(FALSE, Paging \cup {"access_level"}, {"{id}"}, {200},
              {400, 401, 404, 500}),
   postResourceNamespacesByIdUsers |->
     Declares(TRUE, {}, {"{id}"}, {200}, {400, 401, 403, 404, 409, 500})]

NamespaceRevokeTypes ==
  [deleteResourceNamespacesByIdUsersByUserId |->
     Declares(FALSE, {}, {"{id}", "{userID}"}, {200}, {400, 401, 404, 500})]

CheckNameTypes ==
  [getResourceNamespacesCheckName |-> Declares(FALSE, {"name"}, {}, {200},
                                               {400, 500})]

Types == AuthTypes @@ OnboardingTypes @@ UserTypes @@ UserCheckTypes
           @@ UserByIdTypes @@ UserChangeTypes @@ UserLockTypes
           @@ NamespaceTypes @@ NamespaceByIdTypes @@ NamespaceChangeTypes
           @@ NamespaceAccessTypes @@ NamespaceRevokeTypes @@ CheckNameTypes

--------------------------------------------------------------------------
(* From a call's options to the request.                                   *)

\* A query value is the set of the strings it is sent as; {} is undefined,
\* null or an empty array, whose names are left out.  FALSE is a value.
QuerySerialized(query) ==
  [name \in {n \in DOMAIN query : query[n] # {}} |-> query[name]]

\* A placeholder whose value is undefined stays in the path as it is.
PathSerialized(path, values) ==
  [k \in DOMAIN path |->
     IF path[k] \in DOMAIN values THEN values[path[k]] ELSE path[k]]

\* Headers merge: a later layer's value replaces an earlier one, the value
\* "null" removes the header.
HeadersMerged(earlier, later) ==
  LET merged == later @@ earlier
  IN [h \in {n \in DOMAIN merged : merged[n] # "null"} |-> merged[h]]

\* The token of an operation's cookie is appended as a header when the client
\* has one to append and the caller gave none.  The console configures no
\* token: its session is the cookie the browser keeps.
AuthParams(operation, token, headers) ==
  IF ~operation.secured \/ token = "" \/ "auth_token" \in DOMAIN headers
  THEN headers
  ELSE ("Cookie" :> token) @@ headers

ClientHeaders == ("Content-Type" :> "application/json")

\* A request: a call without a body sends no content type.
Request(name, query, values) ==
  LET headers == AuthParams(Operations[name], "",
                            HeadersMerged(ClientHeaders, <<>>))
  IN [method  |-> Operations[name].method,
      path    |-> PathSerialized(Operations[name].path, values),
      query   |-> QuerySerialized(query),
      body    |-> Types[name].body,
      headers |-> IF Types[name].body THEN headers
                  ELSE [h \in DOMAIN headers \ {"Content-Type"} |-> headers[h]]]

\* The server's routes.  "*" stands for any one segment.
Routes ==
  {<<"GET", <<"onboarding", "*">>>>, <<"POST", <<"onboarding", "*", "complete">>>>,
   <<"POST", <<"auth", "login">>>>, <<"POST", <<"auth", "logout">>>>}

UserRoutes ==
  {<<"GET", <<"users", "me">>>>, <<"PUT", <<"users", "me">>>>,
   <<"POST", <<"users", "validate">>>>,
   <<"POST", <<"users">>>>, <<"GET", <<"users">>>>}
  \cup {<<m, <<"users", "*">>>> : m \in {"GET", "PUT", "DELETE"}}
  \cup {<<"PUT", <<"users", "*", what>>>> :
          what \in {"email", "role", "password", "lock", "unlock"}}

NamespaceRoutes ==
  {<<m, Namespace(<<>>)>> : m \in {"GET", "POST"}}
  \cup {<<"GET", Namespace(<<"check-name">>)>>}
  \cup {<<m, Namespace(<<"*">>)>> : m \in {"GET", "HEAD", "PUT", "DELETE"}}
  \cup {<<"PATCH", Namespace(<<"*", what>>)>> : what \in {"state", "visibility"}}
  \cup {<<m, Namespace(<<"*", "users">>)>> : m \in {"GET", "POST"}}
  \cup {<<"GET", Namespace(<<"*", "repositories">>)>>,
        <<"DELETE", Namespace(<<"*", "users", "*">>)>>}

Routed(method, path) ==
  \E route \in Routes \cup UserRoutes \cup NamespaceRoutes :
    /\ route[1] = method
    /\ Len(route[2]) = Len(path)
    /\ \A k \in DOMAIN path : route[2][k] \in {path[k], "*"}

\* Each operation the SDK offers declares the path names it fills in and,
\* filled in, reaches a route.
ASSUME OperationsRouted ==
  /\ DOMAIN Operations = DOMAIN Types
  /\ \A name \in DOMAIN Operations :
       LET values  == [p \in Types[name].path |-> "some-id"]
           request == Request(name, <<>>, values)
       IN /\ request.method \in Methods
          /\ \A k \in DOMAIN request.path :
               request.path[k] \notin {"{id}", "{uuid}", "{userID}"}
          /\ Routed(request.method, request.path)
          /\ request.body <=> "Content-Type" \in DOMAIN request.headers

--------------------------------------------------------------------------
(* From the response to what the caller gets.                              *)

\* fetch itself fails: no connection, or the connection is cut short.
NoResponse == [status |-> 0, type |-> "none", body |-> "none", message |-> FALSE]

\* A good answer that is neither declared nor JSON: the login and the two
\* namespace handlers write the status before the content type, so that Go
\* names the body text/plain.
TextAnswers ==
  {"postAuthLogin", "postResourceNamespaces", "getResourceNamespacesCheckName"}

\* Good answers the types declare unknown: the handlers write a status only.
EmptyAnswers ==
  {"postAuthLogout", "postOnboardingByUuidComplete", "putUsersMe",
   "deleteUsersById", "putUsersById", "putUsersByIdEmail", "putUsersByIdRole",
   "putUsersByIdLock", "putUsersByIdUnlock", "headResourceNamespacesById",
   "deleteResourceNamespacesById", "putResourceNamespacesById",
   "patchResourceNamespacesByIdVisibility", "patchResourceNamespacesByIdState",
   "postResourceNamespacesByIdUsers",
   "deleteResourceNamespacesByIdUsersByUserId"}

GoodResponse(name, status, body) ==
  [status |-> status, message |-> FALSE,
   type   |-> IF name \in TextAnswers THEN "text"
              ELSE IF name \in EmptyAnswers THEN "none" ELSE "json",
   body   |-> IF name \in EmptyAnswers THEN "empty" ELSE body]

\* Bad answers without a body, and those whose message is empty.
BodilessAnswers == {<<"postUsers", 409>>, <<"headResourceNamespacesById", 404>>}
MutedAnswers    == {<<"postUsers", 500>>, <<"postUsersValidate", 500>>}

BadResponse(name, status, body) ==
  [status |-> status, type |-> "json",
   body |-> IF <<name, status>> \in BodilessAnswers THEN "empty" ELSE body,
   message |-> <<name, status>> \notin MutedAnswers]

\* The session middleware may answer 401 to any guarded operation.
Responses(name) ==
  LET guarded == Operations[name].secured
                   \/ name = "getResourceNamespacesCheckName"
      bad     == Types[name].errors \cup (IF guarded THEN {401} ELSE {})
  IN {NoResponse}
     \cup {GoodResponse(name, status, body) :
             status \in Types[name].ok, body \in {"whole", "broken"}}
     \cup {BadResponse(name, status, body) :
             status \in bad, body \in {"whole", "broken"}}

Good(response) == response.status \in 200..299

\* How a good body is read, by its content type; "stream" hands the body over
\* unread.
ParseAs(type) ==
  CASE type = "json" -> "json"
    [] type = "text" -> "text"
    [] OTHER         -> "stream"

ReadGood(response) ==
  LET parsed == ParseAs(response.type)
  IN CASE response.body = "empty" \/ parsed = "stream"    -> "nothing"
       [] response.body = "broken" /\ parsed # "stream"   -> "rejected"
       [] response.body = "whole" /\ parsed = "text"      -> "string"
       [] response.body = "whole" /\ parsed = "json"      -> "data"

\* An error is the parsed body, its text, or {}: its error_message is a
\* message only in the first case.
ReadBad(response) ==
  CASE response.body = "broken"                          -> "rejected"
    [] response.body = "whole" /\ response.message       -> "message"
    [] OTHER                                             -> "bare"

\* What the awaited call of the generated client comes to.  A fetch that
\* throws is returned as an error that has no error_message.
Settled(response) ==
  CASE response = NoResponse -> "bare"
    [] Good(response)        -> ReadGood(response)
    [] OTHER                 -> ReadBad(response)

\* The outcomes of a call, with what the interceptors of the response see.
OutcomesOf(name) ==
  {[kind |-> Settled(response), unauthorized |-> response.status = 401] :
     response \in Responses(name)}

Outcomes == [name \in DOMAIN Operations |-> OutcomesOf(name)]

Failed(outcome) == outcome.kind \in {"message", "bare"}

--------------------------------------------------------------------------
(* The hand-written client: what it sends, and which statuses it passes    *)
(* on, each caught failure and each other status being an error of its own *)
(* words.  It has no interceptors, and its promises never reject.          *)

Passes(method, path, statuses) ==
  [method |-> method, path |-> path, passes |-> statuses]

HttpClientLogin ==
  [login |-> Passes("POST", <<"auth", "login">>, {200, 403, 500})]

HttpClientSessions ==
  [getAccountSetupInfo |->
     Passes("GET", <<"users", "account-setup", "uuid">>, {200, 404}),
   completeAccountSetup |->
     Passes("POST", <<"users", "account-setup", "uuid", "complete">>, {200})]

HttpClientUpstreams ==
  [createUpstream         |-> Passes("POST", <<"upstreams">>, {201}),
   getUpstreamRegisteries |-> Passes("GET", <<"upstreams">>, 200..299)]

HttpClientUsers ==
  [createUserAccount |-> Passes("POST", <<"users">>, {201}),
   valiateUser       |-> Passes("POST", <<"users", "validate">>, {200}),
   updateUserAccount |-> Passes("PUT", <<"users", "some-id">>, {200})]

HttpClientLists ==
  [getUsersList |-> Passes("GET", <<"users">>, {200}),
   deleteUser   |-> Passes("DELETE", <<"users", "some-id">>, {200})]

HttpClientNamespaces ==
  [createNamesapce |->
     Passes("POST", <<"access", "registry", "namespaces">>, {201}),
   namesapceAvailable |->
     Passes("HEAD", <<"access", "registry", "namespaces", "name">>, {200})]

HttpClientCalls == HttpClientLogin @@ HttpClientSessions @@ HttpClientUpstreams
                     @@ HttpClientUsers @@ HttpClientLists
                     @@ HttpClientNamespaces

\* Calls that look at the status only, never at the body.
StatusOnly == {"updateUserAccount", "deleteUser", "completeAccountSetup",
               "namesapceAvailable"}

HttpClientSettled(call, response) ==
  IF /\ response.status \in HttpClientCalls[call].passes
     /\ call \in StatusOnly \/ (response.body = "whole" /\ response.type = "json")
  THEN "done" ELSE "error"

\* The operation of the SDK a call of the old client corresponds to.
SameOperation ==
  [valiateUser       |-> "postUsersValidate",
   updateUserAccount |-> "putUsersById",
   deleteUser        |-> "deleteUsersById"]

HttpClientOutcomes ==
  [call \in DOMAIN SameOperation |->
     {HttpClientSettled(call, response) :
        response \in Responses(SameOperation[call])}]

\* Half of the old client's calls have kept paths no route serves.
ASSUME UnroutedCalls ==
  {call \in DOMAIN HttpClientCalls :
     ~Routed(HttpClientCalls[call].method, HttpClientCalls[call].path)}
  = DOMAIN HttpClientUpstreams \cup DOMAIN HttpClientNamespaces
      \cup {"getAccountSetupInfo", "completeAccountSetup"}
=============================================================================
