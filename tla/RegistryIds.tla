----------------------------- MODULE RegistryIds -----------------------------
(***************************************************************************)
(* How the hosted registry finds the namespace and the repository of a     *)
(* path: registry/service.go keeps the ids it has looked up in two maps,   *)
(* also the empty id of what it has not found, until the server stops.     *)
(* One path, one registry.  A look-up and what is stored in the maps after *)
(* it happen inside one transaction, which keeps the tables from changing  *)
(* meanwhile, so a request is one action; its writes may be rolled back,   *)
(* the maps are not.                                                       *)
(***************************************************************************)
EXTENDS Integers

CONSTANTS MaxIds,                  \* bound: ids of either kind
          CreateNamespaceOnPush, CreateRepositoryOnPush

ASSUME IdsType == /\ MaxIds \in Nat
                  /\ CreateNamespaceOnPush \in BOOLEAN /\ CreateRepositoryOnPush \in BOOLEAN

VARIABLES namespace,        \* the id of the row of this name, or NoId
          parent,           \* of every repository id: its NAMESPACE_ID, or Unborn or Gone
          nextNamespace,    \* the ids given so far
          namespaceIdMap, repositoryIdMap    \* ids, NoId for "", or Unknown

vars == <<namespace, parent, nextNamespace, namespaceIdMap, repositoryIdMap>>

NoId    == 0
Unknown == -1   \* in the maps: not looked up yet
Unborn  == -2   \* in parent: an id not given yet
Gone    == -3   \* in parent: an id whose row is deleted
Id == 1..MaxIds

TypeOK == /\ namespace \in {NoId} \cup Id
          /\ parent \in [Id -> {NoId, Unborn, Gone} \cup Id]
          /\ nextNamespace \in 1 .. MaxIds + 1
          /\ namespaceIdMap \in {Unknown, NoId} \cup Id
          /\ repositoryIdMap \in {Unknown, NoId} \cup Id

Init == /\ namespace = NoId
        /\ parent = [r \in Id |-> Unborn]
        /\ nextNamespace = 1
        /\ namespaceIdMap = Unknown /\ repositoryIdMap = Unknown

-----------------------------------------------------------------------------
(* GetID of the two stores: "" when there is no such row.                  *)
RowOf(n) == {r \in Id : parent[r] = n}
RepositoryID(n) == IF RowOf(n) = {} THEN NoId ELSE CHOOSE r \in RowOf(n) : TRUE

getNamespaceID_MapOnly == namespaceIdMap   \* mutant: what is not in the map is not looked up

getNamespaceID == IF namespaceIdMap = Unknown THEN namespace ELSE namespaceIdMap

getRepositoryID_Current ==   \* mutant: under the namespace as it is now
  IF repositoryIdMap = Unknown THEN RepositoryID(namespace) ELSE repositoryIdMap

getRepositoryID ==
  IF repositoryIdMap = Unknown THEN RepositoryID(getNamespaceID) ELSE repositoryIdMap

(* A repository found in the map does without the namespace.               *)
Remember == /\ repositoryIdMap' = getRepositoryID
            /\ namespaceIdMap' = IF repositoryIdMap = Unknown THEN getNamespaceID
                                                              ELSE namespaceIdMap

(* Whoever asks whether a blob is there, or for a blob or a manifest.      *)
LookUp == /\ Remember
          /\ UNCHANGED <<namespace, parent, nextNamespace>>

InsertNamespace == /\ namespace = NoId /\ nextNamespace \in Id
                   /\ namespace' = nextNamespace
                   /\ nextNamespace' = nextNamespace + 1

(* UNIQUE(REGISTRY_ID, NAMESPACE_ID, NAME); foreign keys are off.          *)
InsertRepository(n) == /\ RowOf(n) = {}
                       /\ \E r \in Id : /\ parent[r] = Unborn
                                        /\ \A q \in 1 .. r-1 : parent[q] # Unborn
                                        /\ parent' = [parent EXCEPT ![r] = n]

(* initiateBlobUpload: what is missing according to the maps is created,   *)
(* in the maps it stays missing.                                           *)
InitiateBlobUpload ==
  /\ namespaceIdMap' = getNamespaceID
  /\ repositoryIdMap' = getRepositoryID
  /\ LET newNamespace  == getNamespaceID = NoId /\ CreateNamespaceOnPush
         newRepository == getRepositoryID = NoId /\ CreateRepositoryOnPush
         id            == IF newNamespace THEN nextNamespace ELSE getNamespaceID
     IN  /\ IF newNamespace THEN InsertNamespace ELSE UNCHANGED <<namespace, nextNamespace>>
         /\ IF newRepository THEN InsertRepository(id) ELSE UNCHANGED parent

(* It is refused by the database; the look-ups remain.                     *)
InitiateFails ==
  /\ namespaceIdMap' = getNamespaceID
  /\ repositoryIdMap' \in {repositoryIdMap, getRepositoryID}
  /\ UNCHANGED <<namespace, parent, nextNamespace>>

-----------------------------------------------------------------------------
(* Management: resource/namespace and resource/repository.                 *)
CreateNamespace == /\ InsertNamespace
                   /\ UNCHANGED <<parent, namespaceIdMap, repositoryIdMap>>

DeleteNamespace == /\ namespace # NoId
                   /\ namespace' = NoId
                   /\ UNCHANGED <<parent, nextNamespace, namespaceIdMap, repositoryIdMap>>

CreateRepository == /\ namespace # NoId
                    /\ InsertRepository(namespace)
                    /\ UNCHANGED <<namespace, nextNamespace, namespaceIdMap, repositoryIdMap>>

DeleteRepository(r) ==
  /\ parent[r] \notin {Unborn, Gone}
  /\ parent' = [parent EXCEPT ![r] = Gone]
  /\ UNCHANGED <<namespace, nextNamespace, namespaceIdMap, repositoryIdMap>>

Restart == /\ namespaceIdMap' = Unknown /\ repositoryIdMap' = Unknown
           /\ UNCHANGED <<namespace, parent, nextNamespace>>

Next == \/ LookUp \/ InitiateBlobUpload \/ InitiateFails
        \/ CreateNamespace \/ DeleteNamespace
        \/ CreateRepository \/ \E r \in Id : DeleteRepository(r)
        \/ Restart

Spec == Init /\ [][Next]_vars

-----------------------------------------------------------------------------
(* Properties *)

(* The two maps belong together: a repository the registry works with is,  *)
(* or was until its deletion, one of the namespace it works with, however  *)
(* both were deleted and made again since.                                 *)
MapsAgree ==
  repositoryIdMap \in Id => parent[repositoryIdMap] \in {namespaceIdMap, Gone}
=============================================================================
