-------------------------- MODULE RegistryIdsProofs --------------------------
(***************************************************************************)
(* The types of RegistryIds and the agreement of its two maps, for any     *)
(* number of ids.  TypeOK and MapsAgree together are inductive: a          *)
(* repository's NAMESPACE_ID is an id or empty, never Unknown, so MapsAgree*)
(* alone says that the namespace map was filled before the other.          *)
(***************************************************************************)
EXTENDS RegistryIds, TLAPS

USE DEF NoId, Unknown, Unborn, Gone

(* What a request finds is a type-correct id.                              *)
LEMMA FoundIds ==
  ASSUME TypeOK
  PROVE  /\ getNamespaceID \in {NoId} \cup Id
         /\ \A n : RepositoryID(n) \in {NoId} \cup RowOf(n)
         /\ getRepositoryID \in {NoId} \cup Id
<1>1. getNamespaceID \in {NoId} \cup Id
  BY DEF TypeOK, getNamespaceID, Id
<1>2. \A n : RepositoryID(n) \in {NoId} \cup RowOf(n)
  BY Zenon DEF RepositoryID
<1>3. \A n : RowOf(n) \subseteq Id
  BY DEF RowOf
<1>4. getRepositoryID \in {NoId} \cup Id
  BY <1>2, <1>3 DEF TypeOK, getRepositoryID, Id
<1> QED
  BY <1>1, <1>2, <1>4

(* A new repository row changes no row that is there.                      *)
LEMMA NewRepository ==
  ASSUME TypeOK, NEW n \in {NoId} \cup Id, InsertRepository(n)
  PROVE  /\ parent' \in [Id -> {NoId, Unborn, Gone} \cup Id]
         /\ \A r \in Id : parent[r] # Unborn => parent'[r] = parent[r]
  BY DEF TypeOK, InsertRepository

(* The maps after a look-up agree if they did before: a repository that    *)
(* was not in the map is one of the namespace just found.                  *)
LEMMA MapsFilled ==
  ASSUME TypeOK, MapsAgree
  PROVE  /\ getRepositoryID \in Id => parent[getRepositoryID] \in {getNamespaceID, Gone}
         /\ repositoryIdMap \in Id => parent[repositoryIdMap] \in {getNamespaceID, Gone}
<1>1. repositoryIdMap \in Id => parent[repositoryIdMap] \in {getNamespaceID, Gone}
  BY DEF TypeOK, MapsAgree, getNamespaceID, Id
<1>2. CASE repositoryIdMap = Unknown
  <2>1. getRepositoryID \in {NoId} \cup RowOf(getNamespaceID)
    BY <1>2, FoundIds DEF getRepositoryID
  <2> QED
    BY <2>1, <1>1 DEF RowOf, Id
<1>3. CASE repositoryIdMap # Unknown
  BY <1>1, <1>3 DEF getRepositoryID
<1> QED
  BY <1>2, <1>3

(* Types and agreement hold at the start.                                  *)
LEMMA InitInv == Init => TypeOK /\ MapsAgree
<1> SUFFICES ASSUME Init PROVE TypeOK /\ MapsAgree
  OBVIOUS
<1>1. /\ namespace \in {NoId} \cup Id
      /\ parent \in [Id -> {NoId, Unborn, Gone} \cup Id]
  BY DEF Init
<1>2. /\ nextNamespace \in 1 .. MaxIds + 1
      /\ namespaceIdMap \in {Unknown, NoId} \cup Id
      /\ repositoryIdMap \in {Unknown, NoId} \cup Id
  BY IdsType DEF Init
<1>3. MapsAgree
  BY IdsType DEF Init, MapsAgree, Id
<1> QED
  BY <1>1, <1>2, <1>3 DEF TypeOK

(* ... and no step breaks them.                                            *)
LEMMA InvStep == TypeOK /\ MapsAgree /\ [Next]_vars => TypeOK' /\ MapsAgree'
<1> SUFFICES ASSUME TypeOK, MapsAgree, [Next]_vars PROVE TypeOK' /\ MapsAgree'
  OBVIOUS
<1> USE IdsType
<1>1. CASE LookUp
  <2>1. TypeOK'
    BY <1>1, FoundIds DEF LookUp, Remember, TypeOK
  <2>2. MapsAgree'
    <3>1. CASE repositoryIdMap = Unknown
      BY <1>1, <3>1, MapsFilled DEF LookUp, Remember, MapsAgree
    <3>2. CASE repositoryIdMap # Unknown
      BY <1>1, <3>2 DEF LookUp, Remember, MapsAgree, getRepositoryID
    <3> QED BY <3>1, <3>2
  <2> QED BY <2>1, <2>2
<1>2. CASE InitiateBlobUpload
  <2> DEFINE newNamespace == getNamespaceID = NoId /\ CreateNamespaceOnPush
             newRepository == getRepositoryID = NoId /\ CreateRepositoryOnPush
             id == IF newNamespace THEN nextNamespace ELSE getNamespaceID
  <2>1. /\ namespaceIdMap' = getNamespaceID /\ repositoryIdMap' = getRepositoryID
        /\ IF newNamespace THEN InsertNamespace ELSE UNCHANGED <<namespace, nextNamespace>>
        /\ IF newRepository THEN InsertRepository(id) ELSE UNCHANGED parent
    BY <1>2 DEF InitiateBlobUpload
  <2>2. /\ namespace' \in {NoId} \cup Id /\ nextNamespace' \in 1 .. MaxIds + 1
        /\ id \in {NoId} \cup Id
    BY <2>1, FoundIds DEF InsertNamespace, TypeOK, Id
  <2> HIDE DEF id
  <2>3. /\ parent' \in [Id -> {NoId, Unborn, Gone} \cup Id]
        /\ \A r \in Id : parent[r] # Unborn => parent'[r] = parent[r]
    BY <2>1, <2>2, NewRepository DEF TypeOK
  <2>4. TypeOK'
    BY <2>1, <2>2, <2>3, FoundIds DEF TypeOK
  <2>5. getRepositoryID \in Id => parent[getRepositoryID] # Unborn
    BY MapsFilled, FoundIds DEF Id
  <2>6. MapsAgree'
    BY <2>1, <2>3, <2>5, MapsFilled DEF MapsAgree
  <2> QED BY <2>4, <2>6
<1>3. CASE InitiateFails
  <2>1. TypeOK'
    BY <1>3, FoundIds DEF InitiateFails, TypeOK
  <2>2. MapsAgree'
    BY <1>3, MapsFilled DEF InitiateFails, MapsAgree
  <2> QED BY <2>1, <2>2
<1>4. CASE CreateNamespace
  BY <1>4 DEF CreateNamespace, InsertNamespace, TypeOK, MapsAgree, Id
<1>5. CASE DeleteNamespace
  BY <1>5 DEF DeleteNamespace, TypeOK, MapsAgree
<1>6. CASE CreateRepository
  <2>1. namespace \in {NoId} \cup Id /\ InsertRepository(namespace)
    BY <1>6 DEF CreateRepository, TypeOK
  <2>2. /\ parent' \in [Id -> {NoId, Unborn, Gone} \cup Id]
        /\ \A r \in Id : parent[r] # Unborn => parent'[r] = parent[r]
    BY <2>1, NewRepository
  <2>3. TypeOK'
    BY <1>6, <2>2 DEF CreateRepository, TypeOK
  <2>4. repositoryIdMap \in Id => parent[repositoryIdMap] # Unborn
    BY DEF MapsAgree, TypeOK, Id
  <2>5. MapsAgree'
    BY <1>6, <2>2, <2>4 DEF CreateRepository, MapsAgree
  <2> QED BY <2>3, <2>5
<1>7. ASSUME NEW r \in Id, DeleteRepository(r) PROVE TypeOK' /\ MapsAgree'
  BY <1>7 DEF DeleteRepository, TypeOK, MapsAgree
<1>8. CASE Restart
  <2>1. TypeOK'
    BY <1>8 DEF Restart, TypeOK
  <2>2. MapsAgree'
    BY <1>8 DEF Restart, MapsAgree, Id
  <2> QED BY <2>1, <2>2
<1>9. CASE UNCHANGED vars
  BY <1>9 DEF vars, TypeOK, MapsAgree
<1> QED
  BY <1>1, <1>2, <1>3, <1>4, <1>5, <1>6, <1>7, <1>8, <1>9 DEF Next

-----------------------------------------------------------------------------
(* The state of the look-ups is always type-correct.                       *)
THEOREM TypeCorrect == Spec => []TypeOK
<1>1. Init => TypeOK /\ MapsAgree
  BY InitInv
<1>2. TypeOK /\ MapsAgree /\ [Next]_vars => (TypeOK /\ MapsAgree)'
  BY InvStep
<1> QED
  BY <1>1, <1>2, PTL DEF Spec

(* Whatever is created and deleted meanwhile, the registry never works     *)
(* with a repository of another namespace than the one it works with.      *)
THEOREM Agreement == Spec => []MapsAgree
<1>1. Init => TypeOK /\ MapsAgree
  BY InitInv
<1>2. TypeOK /\ MapsAgree /\ [Next]_vars => (TypeOK /\ MapsAgree)'
  BY InvStep
<1> QED
  BY <1>1, <1>2, PTL DEF Spec
=============================================================================
