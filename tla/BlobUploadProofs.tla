-------------------------- MODULE BlobUploadProofs --------------------------
(***************************************************************************)
(* Proofs about BlobUpload, for any sessions, digests, sizes and requests. *)
(* The counts of received and acknowledged chunks are proved correct for   *)
(* every client; that listed blobs have their files needs that no digest   *)
(* is uploaded both in chunks and whole, and that they are whole needs     *)
(* that no client hangs up.                                                *)
(***************************************************************************)
EXTENDS BlobUpload, TLAPS

Chunked == Session \ Monolithic
Final(s) == SizeOf[DigestOf[s]]

(* No digest is uploaded in chunks by one client and whole by another.     *)
SeparateDigests ==
  \A s \in Chunked, t \in Monolithic : DigestOf[s] # DigestOf[t]

-----------------------------------------------------------------------------
(* The inductive invariant for every client: what the steps of a request   *)
(* rely on.  While the transaction of a request is open nobody else writes *)
(* the count of its session, so that a failed commit costs one chunk.      *)

CountsBounded ==
  \A s \in Chunked : /\ acked[s] <= Final(s) /\ received[s] <= Final(s)
                     /\ received[s] # None => acked[s] <= received[s] + 1

NewSession(q) ==
  LET s == req[q].session IN
    /\ acked[s] = None /\ received[s] = None
    /\ \A p \in Request \ {q} : req[p] # Idle => req[p].session # s

RequestsFollowProtocol ==
  \A q \in Request :
    /\ req[q].kind = "initiate" => req[q].step = "insert" /\ NewSession(q)
    /\ req[q].kind = "chunk" => /\ req[q].session \in Chunked
                                /\ req[q].offset < Final(req[q].session)
    /\ req[q].kind = "last"  => /\ req[q].session \in Chunked
                                /\ acked[req[q].session] = Final(req[q].session)
    /\ req[q].kind = "whole" => req[q].session \in Monolithic

OpenRequestsKnowCount ==
  \A q \in open :
    LET r == req[q] IN
      /\ r.kind = "chunk" /\ r.step \in {"put", "update"} => received[r.session] = r.offset
      /\ r.kind = "last" /\ r.step \in {"size", "rename", "row", "create", "drop"}
           => received[r.session] = r.offset

CInv == /\ TypeOK
        /\ AcknowledgedCounted
        /\ CountsBounded
        /\ RequestsFollowProtocol
        /\ OpenRequestsKnowCount

-----------------------------------------------------------------------------
(* What a request under way is.                                            *)
UnderWay == [kind : {"initiate", "chunk", "last", "whole"},
             step : {"insert", "read", "put", "update", "discard", "size", "rename",
                     "row", "create", "drop"},
             session : Session, offset : Nat]

(* The initial state is well typed, and no request is under way.           *)
LEMMA InitType == Init => TypeOK
BY DEF Init, TypeOK, Size, None

(* A request has the fields of one, or is idle.                            *)
LEMMA RequestFields ==
  ASSUME TypeOK, NEW q \in Request
  PROVE  /\ req[q] = Idle <=> req[q].step = "idle"
         /\ req[q] = Idle <=> req[q].kind = "none"
         /\ req[q] # Idle => /\ req[q] \in UnderWay
                             /\ req[q].session \in Session /\ req[q].offset \in Nat
                             /\ DigestOf[req[q].session] \in Digest
                             /\ Final(req[q].session) \in Nat \ {0}
BY UploadType DEF TypeOK, Idle, Final, UnderWay

(* What GoTo and Return do to the requests.                                *)
LEMMA GoToType ==
  ASSUME TypeOK, NEW q \in Request, req[q] # Idle,
         NEW step \in {"update", "size", "rename", "row", "create", "drop"},
         req' = [req EXCEPT ![q].step = step]
  PROVE  /\ req' \in [Request -> {Idle} \cup UnderWay]
         /\ req'[q].kind = req[q].kind /\ req'[q].step = step
         /\ req'[q].session = req[q].session /\ req'[q].offset = req[q].offset
         /\ \A p \in Request \ {q} : req'[p] = req[p]
<1>1. req \in [Request -> {Idle} \cup UnderWay] /\ req[q] \in UnderWay
  BY DEF TypeOK, UnderWay
<1>2. [req[q] EXCEPT !.step = step] \in UnderWay
  BY <1>1 DEF UnderWay
<1>3. req' = [req EXCEPT ![q] = [req[q] EXCEPT !.step = step]]
  BY <1>1
<1> QED
  BY <1>1, <1>2, <1>3

(* What ReadSession makes of a request.                                    *)
LEMMA AfterReadType ==
  ASSUME NEW r \in UnderWay, NEW n \in Nat
  PROVE  /\ AfterRead(r, n) \in UnderWay
         /\ AfterRead(r, n).kind = r.kind /\ AfterRead(r, n).session = r.session
         /\ AfterRead(r, n).step \in {"put", "discard", "size"}
         /\ r.kind # "last" => AfterRead(r, n).offset = r.offset
         /\ r.kind = "last" => AfterRead(r, n).offset = n
         /\ r.kind = "chunk" /\ AfterRead(r, n).step = "put" => n = r.offset
<1> DEFINE step == CASE r.kind = "last" -> "size"
                     [] r.kind = "whole" -> "put"
                     [] OTHER -> IF n = r.offset THEN "put" ELSE "discard"
           offset == IF r.kind = "last" THEN n ELSE r.offset
<1>1. step \in {"put", "discard", "size"} /\ offset \in Nat
  BY DEF UnderWay
<1>2. r.kind = "chunk" /\ step = "put" => n = r.offset
  OBVIOUS
<1>3. AfterRead(r, n) = [r EXCEPT !.step = step, !.offset = offset]
  BY DEF AfterRead
<1>4. /\ r.kind # "last" => offset = r.offset
      /\ r.kind = "last" => offset = n
  OBVIOUS
<1> HIDE DEF step, offset
<1>5. /\ AfterRead(r, n) \in UnderWay
      /\ AfterRead(r, n).kind = r.kind /\ AfterRead(r, n).session = r.session
      /\ AfterRead(r, n).step = step /\ AfterRead(r, n).offset = offset
  BY <1>1, <1>3 DEF UnderWay
<1> QED
  BY <1>1, <1>2, <1>4, <1>5

(* A request that reads its session finds none, or a count.                *)
LEMMA ReadOutcomes ==
  ASSUME TypeOK, NEW q \in Request, ReadSession(q)
  PROVE  /\ req[q] # Idle /\ UNCHANGED <<received, meta, upload, blob, acked, lost>>
         /\ \/ Return(q)
            \/ \E n \in Nat :
                 /\ n = received[req[q].session] /\ req[q] \in UnderWay
                 /\ req'[q] = AfterRead(req[q], n)
                 /\ \A p \in Request \ {q} : req'[p] = req[p]
                 /\ req' \in [Request -> {Idle} \cup UnderWay]
                 /\ open' = open \cup {q} /\ writer' = writer
<1>1. /\ req[q] # Idle /\ req[q].session \in Session /\ req[q] \in UnderWay
      /\ UNCHANGED <<received, meta, upload, blob, acked, lost>>
  BY RequestFields DEF ReadSession
<1>2. CASE received[req[q].session] = None
  BY <1>1, <1>2 DEF ReadSession
<1>3. CASE received[req[q].session] # None
  <2> DEFINE n == received[req[q].session]
  <2>1. n \in Nat
    BY <1>1, <1>3 DEF TypeOK
  <2>2. /\ req' = [req EXCEPT ![q] = AfterRead(req[q], n)]
        /\ open' = open \cup {q} /\ writer' = writer
    BY <1>3 DEF ReadSession
  <2>3. req \in [Request -> {Idle} \cup UnderWay]
    BY DEF TypeOK, UnderWay
  <2>4. AfterRead(req[q], n) \in UnderWay
    BY <1>1, <2>1, AfterReadType
  <2> HIDE DEF n
  <2>5. /\ req'[q] = AfterRead(req[q], n)
        /\ \A p \in Request \ {q} : req'[p] = req[p]
        /\ req' \in [Request -> {Idle} \cup UnderWay]
    BY <2>2, <2>3, <2>4
  <2> QED
    BY <1>1, <2>1, <2>2, <2>5 DEF n
<1> QED
  BY <1>2, <1>3

(* Every step leads from well-typed states to well-typed states.           *)
LEMMA TypeStep == TypeOK /\ [Next]_vars => TypeOK'
<1> SUFFICES ASSUME TypeOK, [Next]_vars PROVE TypeOK'
  OBVIOUS
<1> USE UploadType
<1>1. ASSUME NEW q \in Request, CreateUploadSession(q) PROVE TypeOK'
  <2>1. req[q].session \in Session
    BY <1>1, RequestFields DEF CreateUploadSession, At
  <2>2. received' \in [Session -> {None} \cup Nat] /\ acked' \in [Session -> {None} \cup Nat]
    BY <1>1, <2>1 DEF CreateUploadSession, TypeOK
  <2> QED
    BY <1>1, <2>2 DEF CreateUploadSession, Return, TypeOK
<1>2. ASSUME NEW s \in Session, NEW q \in Request,
             initiateBlobUpload(q, s) \/ handleBlobChunk(q, s)
               \/ handleLastBlobChunk(q, s) \/ handleBlob(q, s)
      PROVE  TypeOK'
  <2>1. PICK kind \in {"initiate", "chunk", "last", "whole"}, step \in {"insert", "read"},
             n \in Nat : Send(q, kind, step, s, n)
    BY <1>2 DEF initiateBlobUpload, handleBlobChunk, handleLastBlobChunk, handleBlob,
       Final, TypeOK
  <2> QED
    BY <2>1 DEF TypeOK, Send
<1>3. ASSUME NEW q \in Request, ReadSession(q) PROVE TypeOK'
  <2>1. UNCHANGED <<received, meta, upload, blob, acked, lost>>
    BY <1>3, ReadOutcomes
  <2>2. CASE Return(q)
    BY <2>1, <2>2 DEF Return, TypeOK
  <2>3. CASE /\ req' \in [Request -> {Idle} \cup UnderWay]
             /\ open' = open \cup {q} /\ writer' = writer
    BY <2>1, <2>3 DEF UnderWay, TypeOK
  <2> QED
    BY <1>3, <2>2, <2>3, ReadOutcomes
<1>4. ASSUME NEW q \in Request, PutFileChunk(q) PROVE TypeOK'
  <2>1. req[q] # Idle /\ req[q].session \in Session /\ req[q].offset \in Nat
    BY <1>4, RequestFields DEF PutFileChunk, At
  <2>2. CASE GoTo(q, "update")
    <3>1. upload' \in [Session -> Size]
      BY <1>4, <2>1 DEF PutFileChunk, TypeOK, Size, None, Torn
    <3> QED
      BY <1>4, <2>1, <2>2, <3>1, GoToType DEF UnderWay, PutFileChunk, GoTo, TypeOK
  <2>3. CASE Return(q)
    BY <1>4, <2>1, <2>3 DEF PutFileChunk, Return, TypeOK, Size, None, Torn
  <2> QED
    BY <1>4, <2>2, <2>3 DEF PutFileChunk
<1>5. ASSUME NEW q \in Request, UpdateUploadSession(q) PROVE TypeOK'
  <2>1. req[q] # Idle /\ req[q].session \in Session /\ req[q].offset \in Nat
    BY <1>5, RequestFields DEF UpdateUploadSession, At
  <2>2. /\ received' \in [Session -> {None} \cup Nat] /\ acked' \in [Session -> {None} \cup Nat]
        /\ lost' \subseteq Session
    BY <1>5, <2>1 DEF UpdateUploadSession, TypeOK
  <2> QED
    BY <1>5, <2>2 DEF UpdateUploadSession, Return, TypeOK
<1>6. ASSUME NEW q \in Request, DiscardFile(q) PROVE TypeOK'
  <2>1. req[q] # Idle
    BY <1>6, RequestFields DEF DiscardFile, At
  <2> QED
    BY <1>6, <2>1, GoToType DEF UnderWay, DiscardFile, GoTo, TypeOK, Size
<1>7. ASSUME NEW q \in Request, CheckSize(q) PROVE TypeOK'
  <2>1. req[q] # Idle
    BY <1>7, RequestFields DEF CheckSize, At
  <2> QED
    BY <1>7, <2>1, GoToType DEF UnderWay, CheckSize, GoTo, Return, TypeOK
<1>8. ASSUME NEW q \in Request, RenameFile(q) PROVE TypeOK'
  <2>1. req[q] # Idle /\ req[q].session \in Session
    BY <1>8, RequestFields DEF RenameFile, At
  <2> QED
    BY <1>8, <2>1, GoToType DEF UnderWay, RenameFile, GoTo, TypeOK, Size
<1>9. ASSUME NEW q \in Request, CreateBlobMeta(q) \/ WaitToCreate(q) PROVE TypeOK'
  <2>1. req[q] # Idle /\ req[q].session \in Session /\ req[q].offset \in Nat
    BY <1>9, RequestFields DEF CreateBlobMeta, WaitToCreate, At
  <2>2. meta' \in [Digest -> {None} \cup Nat]
    BY <1>9, <2>1 DEF CreateBlobMeta, WaitToCreate, TypeOK
  <2> QED
    BY <1>9, <2>1, <2>2, GoToType DEF UnderWay, CreateBlobMeta, WaitToCreate, GoTo, TypeOK
<1>10. ASSUME NEW q \in Request, PutFile(q) PROVE TypeOK'
  <2>1. req[q] # Idle /\ req[q].session \in Session
    BY <1>10, RequestFields DEF PutFile, At
  <2>2. blob' \in [Digest -> Size]
    BY <1>10, <2>1 DEF PutFile, TypeOK, Size
  <2>3. CASE GoTo(q, "drop")
    BY <1>10, <2>1, <2>2, <2>3, GoToType DEF UnderWay, PutFile, GoTo, TypeOK
  <2>4. CASE Return(q)
    BY <1>10, <2>2, <2>4 DEF PutFile, Return, TypeOK
  <2> QED
    BY <1>10, <2>3, <2>4 DEF PutFile
<1>11. ASSUME NEW q \in Request, DeleteUploadSession(q) PROVE TypeOK'
  BY <1>11 DEF DeleteUploadSession, Return, TypeOK
<1>12. ASSUME NEW q \in Request, Stuck(q) \/ Fail(q) PROVE TypeOK'
  BY <1>12 DEF Stuck, Fail, Return, TypeOK
<1>13. ASSUME NEW q \in Request, Hangup(q) PROVE TypeOK'
  BY <1>13 DEF Hangup, TypeOK
<1>15. ASSUME NEW q \in Request, WaitForReaders(q) PROVE TypeOK'
  BY <1>15 DEF WaitForReaders, TypeOK
<1>14. CASE Crash \/ UNCHANGED vars
  BY <1>14 DEF Crash, vars, TypeOK
<1> QED
  BY Zenon, <1>1, <1>2, <1>3, <1>4, <1>5, <1>6, <1>7, <1>8, <1>9, <1>10, <1>11, <1>12, <1>13, <1>14,
     <1>15 DEF Next, Step
-----------------------------------------------------------------------------
(* The counts of a session *)

(* A step that writes no count keeps CInv, when the requests it moves on   *)
(* know what they have to know.                                            *)
LEMMA CountsUntouched ==
  ASSUME CInv, UNCHANGED <<received, acked, lost>>,
         \A p \in Request : \/ req'[p] = Idle
                            \/ /\ req'[p].kind = req[p].kind
                               /\ req'[p].session = req[p].session
                               /\ req[p] # Idle
                               /\ req[p].kind = "chunk" => req'[p].offset = req[p].offset
                               /\ req[p].kind = "initiate" => req'[p].step = req[p].step,
         \A p \in open' :
            \/ p \in open /\ req'[p] = req[p]
            \/ req'[p] = Idle
            \/ req'[p].kind = "chunk" /\ req'[p].step \notin {"put", "update"}
            \/ req'[p].kind = "chunk" /\ received[req'[p].session] = req'[p].offset
            \/ req'[p].kind = "last" /\ received[req'[p].session] = req'[p].offset
            \/ req'[p].kind \in {"initiate", "whole"}
  PROVE  AcknowledgedCounted' /\ CountsBounded' /\ RequestsFollowProtocol'
           /\ OpenRequestsKnowCount'
<1>1. AcknowledgedCounted' /\ CountsBounded'
  BY DEF CInv, AcknowledgedCounted, CountsBounded
<1>2. RequestsFollowProtocol'
  <2>1. \A q \in Request :
          /\ req'[q].kind = "chunk" => /\ req'[q].session \in Chunked
                                       /\ req'[q].offset < Final(req'[q].session)
          /\ req'[q].kind = "last" => /\ req'[q].session \in Chunked
                                      /\ acked'[req'[q].session] = Final(req'[q].session)
          /\ req'[q].kind = "whole" => req'[q].session \in Monolithic
    BY DEF CInv, RequestsFollowProtocol, Idle
  <2>2. ASSUME NEW q \in Request, req'[q].kind = "initiate"
        PROVE  req'[q].step = "insert" /\ NewSession(q)'
    <3>1. /\ req'[q].kind = req[q].kind /\ req'[q].session = req[q].session
          /\ req'[q].step = req[q].step /\ req[q].step = "insert" /\ NewSession(q)
      BY <2>2 DEF CInv, RequestsFollowProtocol, Idle
    <3> QED
      BY <3>1 DEF NewSession
  <2> QED
    BY <2>1, <2>2 DEF RequestsFollowProtocol, Final
<1>3. OpenRequestsKnowCount'
  BY DEF CInv, OpenRequestsKnowCount, Idle
<1> QED
  BY <1>1, <1>2, <1>3

(* The answer ends a request, and the others do not notice.                *)
LEMMA CountsOnReturn ==
  ASSUME CInv, NEW q \in Request, Return(q), UNCHANGED <<received, acked, lost>>
  PROVE  AcknowledgedCounted' /\ CountsBounded' /\ RequestsFollowProtocol'
           /\ OpenRequestsKnowCount'
<1>1. \A p \in Request : req'[p] = IF p = q THEN Idle ELSE req[p]
  BY DEF CInv, TypeOK, Return
<1>2. open' = open \ {q} /\ open \subseteq Request
  BY DEF CInv, TypeOK, Return
<1> QED
  BY <1>1, <1>2, CountsUntouched

(* A request that moves on knows the count of its session as before.       *)
LEMMA CountsOnGoTo ==
  ASSUME CInv, NEW q \in Request, UNCHANGED <<received, acked, lost>>,
         NEW step \in {"update", "size", "rename", "row", "create", "drop"}, GoTo(q, step),
         \/ req[q].kind = "chunk" /\ step = "update" /\ req[q].step = "put"
         \/ req[q].kind = "chunk" /\ step # "update"
         \/ req[q].kind = "last" /\ req[q].step \in {"size", "rename", "row", "create"}
         \/ req[q].kind = "whole"
  PROVE  AcknowledgedCounted' /\ CountsBounded' /\ RequestsFollowProtocol'
           /\ OpenRequestsKnowCount'
<1>1. req[q] # Idle
  BY RequestFields DEF CInv, Idle
<1>2. /\ req'[q].kind = req[q].kind /\ req'[q].step = step
      /\ req'[q].session = req[q].session /\ req'[q].offset = req[q].offset
      /\ \A p \in Request \ {q} : req'[p] = req[p]
  BY <1>1, GoToType DEF CInv, GoTo
<1>3. open' = open /\ open \subseteq Request
  BY DEF CInv, TypeOK, GoTo
<1>4. q \in open => \/ req[q].kind = "chunk" /\ step # "update"
                    \/ req[q].kind = "chunk" /\ received[req[q].session] = req[q].offset
                    \/ req[q].kind = "last" /\ received[req[q].session] = req[q].offset
                    \/ req[q].kind = "whole"
  BY DEF CInv, OpenRequestsKnowCount
<1> QED
  BY <1>1, <1>2, <1>3, <1>4, CountsUntouched

(* CInv is inductive.                                                      *)
LEMMA CInvStep == CInv /\ [Next]_vars => CInv'
<1> SUFFICES ASSUME CInv, [Next]_vars PROVE CInv'
  OBVIOUS
<1> DEFINE Goal == AcknowledgedCounted' /\ CountsBounded' /\ RequestsFollowProtocol'
                    /\ OpenRequestsKnowCount'
<1>t. TypeOK /\ TypeOK'
  BY TypeStep DEF CInv
<1>i. /\ AcknowledgedCounted /\ CountsBounded /\ RequestsFollowProtocol /\ OpenRequestsKnowCount
  BY DEF CInv
<1>o. open \subseteq Request
  BY <1>t DEF TypeOK
<1>1. ASSUME NEW q \in Request, CreateUploadSession(q) PROVE Goal
  <2> DEFINE s == req[q].session
  <2>1. req[q].kind = "initiate" /\ open \subseteq {q}
    BY <1>1 DEF CreateUploadSession, At, MayWrite
  <2>2. /\ s \in Session /\ acked[s] = None /\ received[s] = None
        /\ \A p \in Request \ {q} : req[p] # Idle => req[p].session # s
    BY <1>t, <1>i, <2>1, RequestFields DEF RequestsFollowProtocol, NewSession, Idle
  <2>3. /\ received' = received \/ received' = [received EXCEPT ![s] = 0]
        /\ acked' = acked \/ acked' = [acked EXCEPT ![s] = 0]
        /\ open' = {} /\ req' = [req EXCEPT ![q] = Idle] /\ lost' = lost
    BY <1>1, <2>1 DEF CreateUploadSession, Return
  <2>4. /\ received'[s] \in {None, 0} /\ \A x \in Session \ {s} : received'[x] = received[x]
        /\ acked'[s] \in {None, 0} /\ \A x \in Session \ {s} : acked'[x] = acked[x]
    BY <1>t, <2>2, <2>3 DEF TypeOK
  <2>5. /\ req'[q] = Idle /\ \A p \in Request \ {q} : req'[p] = req[p]
    BY <1>t, <2>3 DEF TypeOK
  <2>6. AcknowledgedCounted'
    BY <1>i, <2>2, <2>3, <2>4 DEF AcknowledgedCounted, None
  <2>7. CountsBounded'
    BY <1>i, <2>2, <2>4, UploadType DEF CountsBounded, Chunked, Final, None
  <2>8. RequestsFollowProtocol'
    <3> SUFFICES ASSUME NEW p \in Request, req'[p] # Idle
                 PROVE  /\ req[p].kind = "initiate" => req[p].step = "insert" /\ NewSession(p)'
                        /\ req[p].kind = "chunk" => /\ req[p].session \in Chunked
                                                    /\ req[p].offset < Final(req[p].session)
                        /\ req[p].kind = "last" => /\ req[p].session \in Chunked
                                                   /\ acked'[req[p].session] = Final(req[p].session)
                        /\ req[p].kind = "whole" => req[p].session \in Monolithic
      BY <2>5 DEF RequestsFollowProtocol, Idle, Final
    <3>1. p # q /\ req'[p] = req[p] /\ req[p].session \in Session \ {s}
      BY <1>t, <2>2, <2>5, RequestFields
    <3>2. NewSession(p) => NewSession(p)'
      BY <2>4, <2>5, <3>1 DEF NewSession
    <3> QED
      BY <1>i, <2>4, <3>1, <3>2 DEF RequestsFollowProtocol
  <2> QED
    BY <2>3, <2>6, <2>7, <2>8 DEF OpenRequestsKnowCount
<1>2. ASSUME NEW s \in Session, NEW q \in Request,
             initiateBlobUpload(q, s) \/ handleBlobChunk(q, s)
               \/ handleLastBlobChunk(q, s) \/ handleBlob(q, s)
      PROVE  Goal
  <2>1. PICK kind \in {"initiate", "chunk", "last", "whole"}, step \in {"insert", "read"},
             n \in Nat :
          /\ Send(q, kind, step, s, n)
          /\ kind = "initiate" => /\ step = "insert" /\ acked[s] = None /\ received[s] = None
                                  /\ \A p \in Request : req[p] # Idle => req[p].session # s
          /\ kind # "initiate" => step = "read" /\ acked[s] # None
          /\ kind = "chunk" => s \in Chunked /\ n < Final(s)
          /\ kind = "last" => s \in Chunked /\ acked[s] = Final(s)
          /\ kind = "whole" => s \in Monolithic
    BY <1>2, <1>t, UploadType
       DEF initiateBlobUpload, handleBlobChunk, handleLastBlobChunk, handleBlob, Final,
           Chunked, TypeOK, None
  <2>2. UNCHANGED <<received, acked, lost, open>> /\ req[q] = Idle
    BY <2>1 DEF Send
  <2>3. /\ req'[q] = [kind |-> kind, step |-> step, session |-> s, offset |-> n]
        /\ \A p \in Request \ {q} : req'[p] = req[p]
    BY <2>1, <1>t DEF Send, TypeOK
  <2>4. AcknowledgedCounted' /\ CountsBounded'
    BY <2>2, <1>i DEF AcknowledgedCounted, CountsBounded
  <2>5. RequestsFollowProtocol'
    <3>1. ASSUME NEW p \in Request, req'[p].kind = "initiate"
          PROVE  req'[p].step = "insert" /\ NewSession(p)'
      <4>1. CASE p = q
        BY <2>1, <2>2, <2>3, <3>1, <4>1 DEF NewSession
      <4>2. CASE p # q
        <5>1. req'[p] = req[p] /\ req[p].step = "insert" /\ NewSession(p) /\ req[p] # Idle
          BY <2>3, <3>1, <4>2, <1>i DEF RequestsFollowProtocol, Idle
        <5>2. req[p].session # s
          BY <2>1, <5>1 DEF NewSession
        <5> QED
          BY <2>2, <2>3, <5>1, <5>2 DEF NewSession
      <4> QED
        BY <4>1, <4>2
    <3>2. \A p \in Request :
            /\ req'[p].kind = "chunk" => /\ req'[p].session \in Chunked
                                         /\ req'[p].offset < Final(req'[p].session)
            /\ req'[p].kind = "last" => /\ req'[p].session \in Chunked
                                        /\ acked'[req'[p].session] = Final(req'[p].session)
            /\ req'[p].kind = "whole" => req'[p].session \in Monolithic
      BY <2>1, <2>2, <2>3, <1>i DEF RequestsFollowProtocol
    <3> QED
      BY <3>1, <3>2 DEF RequestsFollowProtocol, Final
  <2>6. OpenRequestsKnowCount'
    BY <2>1, <2>2, <2>3, <1>i, <1>o DEF OpenRequestsKnowCount
  <2> QED
    BY <2>4, <2>5, <2>6
<1>3. ASSUME NEW q \in Request, ReadSession(q) PROVE Goal
  <2>1. req[q] # Idle /\ UNCHANGED <<received, acked, lost>>
    BY <1>3, <1>t, ReadOutcomes
  <2>2. CASE Return(q)
    BY <2>1, <2>2, CountsOnReturn
  <2>3. CASE \E n \in Nat :
               /\ n = received[req[q].session] /\ req[q] \in UnderWay
               /\ req'[q] = AfterRead(req[q], n)
               /\ \A p \in Request \ {q} : req'[p] = req[p]
               /\ open' = open \cup {q}
    <3>1. PICK n \in Nat :
            /\ n = received[req[q].session] /\ req[q] \in UnderWay
            /\ req'[q] = AfterRead(req[q], n)
            /\ \A p \in Request \ {q} : req'[p] = req[p]
            /\ open' = open \cup {q}
      BY <2>3
    <3>2. /\ req'[q].kind = req[q].kind /\ req'[q].session = req[q].session
          /\ req'[q].step \in {"put", "discard", "size"}
          /\ req[q].kind # "last" => req'[q].offset = req[q].offset
          /\ req[q].kind = "last" => req'[q].offset = n
          /\ req[q].kind = "chunk" /\ req'[q].step = "put" => n = req[q].offset
      BY <3>1, AfterReadType
    <3>3. req[q].kind \in {"initiate", "chunk", "last", "whole"}
      BY <3>1 DEF UnderWay
    <3>4. req[q].kind # "initiate"
      BY <1>3, <1>i DEF RequestsFollowProtocol, ReadSession
    <3>5. \/ req'[q].kind = "chunk" /\ req'[q].step \notin {"put", "update"}
          \/ req'[q].kind = "chunk" /\ received[req'[q].session] = req'[q].offset
          \/ req'[q].kind = "last" /\ received[req'[q].session] = req'[q].offset
          \/ req'[q].kind = "whole"
      BY <3>1, <3>2, <3>3, <3>4
    <3> QED
      BY <1>o, <2>1, <3>1, <3>2, <3>4, <3>5, CountsUntouched
  <2> QED
    BY <1>3, <1>t, <2>2, <2>3, ReadOutcomes
<1>4. ASSUME NEW q \in Request, PutFileChunk(q) PROVE Goal
  BY <1>4, CountsOnReturn, CountsOnGoTo DEF PutFileChunk, At
<1>5. ASSUME NEW q \in Request, UpdateUploadSession(q) PROVE Goal
  <2> DEFINE s == req[q].session
             n == req[q].offset + 1
  <2>1. req[q].kind = "chunk" /\ req[q].step = "update" /\ open = {q}
    BY <1>5 DEF UpdateUploadSession, At, MayWrite
  <2>2. s \in Chunked /\ s \in Session /\ req[q].offset \in Nat /\ Final(s) \in Nat
          /\ req[q].offset < Final(s) /\ req[q] # Idle
    BY <1>t, <1>i, <2>1, RequestFields DEF RequestsFollowProtocol, Idle
  <2>3. received[s] = req[q].offset /\ received[s] # None
    BY <1>i, <2>1, <2>2 DEF OpenRequestsKnowCount, None
  <2>4. /\ \/ received' = [received EXCEPT ![s] = n] /\ lost' = lost
           \/ received' = received /\ lost' = lost \cup {s}
        /\ acked' = acked \/ acked' = [acked EXCEPT ![s] = IF @ < n THEN n ELSE @]
        /\ open' = {} /\ req' = [req EXCEPT ![q] = Idle]
    BY <1>5, <2>1 DEF UpdateUploadSession, Return
  <2>5. acked[s] <= n /\ acked[s] \in Int
    BY <1>t, <1>i, <2>2, <2>3 DEF CountsBounded, TypeOK, None
  <2>6. /\ acked'[s] \in {acked[s], n} /\ \A t \in Session \ {s} : acked'[t] = acked[t]
        /\ received'[s] = n \/ (received'[s] = received[s] /\ s \in lost')
        /\ \A t \in Session \ {s} : received'[t] = received[t]
        /\ lost \subseteq lost'
    BY <1>t, <2>2, <2>4 DEF TypeOK
  <2>7. AcknowledgedCounted'
    <3> SUFFICES ASSUME NEW x \in Session, x \notin lost', received'[x] # None
                 PROVE  acked'[x] <= received'[x]
      BY DEF AcknowledgedCounted
    <3>1. CASE x = s
      BY <2>2, <2>5, <2>6, <3>1
    <3>2. CASE x # s
      BY <1>i, <2>6, <3>2 DEF AcknowledgedCounted
    <3> QED
      BY <3>1, <3>2
  <2>8. CountsBounded'
    <3> SUFFICES ASSUME NEW x \in Chunked
                 PROVE  /\ acked'[x] <= Final(x) /\ received'[x] <= Final(x)
                        /\ received'[x] # None => acked'[x] <= received'[x] + 1
      BY DEF CountsBounded, Final
    <3>1. CASE x = s
      BY <1>i, <2>2, <2>3, <2>5, <2>6, <3>1 DEF CountsBounded
    <3>2. CASE x # s
      BY <1>i, <2>6, <3>2 DEF CountsBounded, Chunked
    <3> QED
      BY <3>1, <3>2
  <2>9. \A t \in Chunked : acked[t] = Final(t) => acked'[t] = Final(t)
    BY <2>2, <2>3, <2>5, <2>6 DEF Chunked
  <2>10. RequestsFollowProtocol'
    <3>1. req'[q] = Idle /\ \A p \in Request \ {q} : req'[p] = req[p]
      BY <1>t, <2>4 DEF TypeOK
    <3>2. ASSUME NEW p \in Request, req'[p].kind = "initiate"
          PROVE  req'[p].step = "insert" /\ NewSession(p)'
      <4>1. p # q /\ req'[p] = req[p] /\ req[p].kind = "initiate" /\ req[p] # Idle
        BY <3>1, <3>2 DEF Idle
      <4>2. req[p].step = "insert" /\ NewSession(p) /\ req[p].session \in Session
        BY <1>t, <1>i, <4>1, RequestFields DEF RequestsFollowProtocol
      <4>3. req[p].session # s
        BY <2>2, <4>1, <4>2 DEF NewSession
      <4> QED
        BY <2>6, <3>1, <4>1, <4>2, <4>3 DEF NewSession
    <3> QED
      BY <1>i, <2>9, <3>1, <3>2 DEF RequestsFollowProtocol, Idle, Final
  <2> QED
    BY <2>4, <2>7, <2>8, <2>10 DEF OpenRequestsKnowCount
<1>6. ASSUME NEW q \in Request, DiscardFile(q) PROVE Goal
  BY <1>6, CountsOnGoTo DEF DiscardFile, At
<1>7. ASSUME NEW q \in Request, CheckSize(q) PROVE Goal
  BY <1>7, CountsOnReturn, CountsOnGoTo DEF CheckSize, At
<1>8. ASSUME NEW q \in Request, RenameFile(q) PROVE Goal
  BY <1>8, CountsOnGoTo DEF RenameFile, At
<1>9. ASSUME NEW q \in Request, CreateBlobMeta(q) \/ WaitToCreate(q) PROVE Goal
  BY <1>9, CountsOnGoTo DEF CreateBlobMeta, WaitToCreate, At
<1>10. ASSUME NEW q \in Request, PutFile(q) PROVE Goal
  BY <1>10, CountsOnReturn, CountsOnGoTo DEF PutFile, At
<1>11. ASSUME NEW q \in Request, DeleteUploadSession(q) PROVE Goal
  <2>1. req[q].session \in Session
    BY <1>11, <1>t, RequestFields DEF DeleteUploadSession
  <2>2. /\ received' = received \/ received' = [received EXCEPT ![req[q].session] = None]
        /\ acked' = acked /\ lost' = lost
        /\ open' = {} /\ req' = [req EXCEPT ![q] = Idle]
    BY <1>11 DEF DeleteUploadSession, Return, MayWrite
  <2>3. \A t \in Session : received'[t] \in {None, received[t]}
    BY <1>t, <2>1, <2>2 DEF TypeOK
  <2>4. AcknowledgedCounted'
    BY <1>i, <2>2, <2>3 DEF AcknowledgedCounted
  <2>5. CountsBounded'
    BY <1>i, <2>2, <2>3, UploadType DEF CountsBounded, Chunked, Final, None
  <2>6. RequestsFollowProtocol'
    <3>1. req'[q] = Idle /\ \A p \in Request \ {q} : req'[p] = req[p]
      BY <1>t, <2>2 DEF TypeOK
    <3>2. ASSUME NEW p \in Request, req'[p].kind = "initiate"
          PROVE  req'[p].step = "insert" /\ NewSession(p)'
      <4>1. /\ req'[p] = req[p] /\ req[p].step = "insert" /\ NewSession(p)
            /\ req[p].session \in Session
        BY <1>t, <1>i, <3>1, <3>2, RequestFields DEF RequestsFollowProtocol, Idle
      <4> QED
        BY <2>2, <2>3, <3>1, <4>1 DEF NewSession
    <3> QED
      BY <1>i, <2>2, <3>1, <3>2 DEF RequestsFollowProtocol, Idle, Final
  <2> QED
    BY <2>2, <2>4, <2>5, <2>6 DEF OpenRequestsKnowCount
<1>12. ASSUME NEW q \in Request, Stuck(q) \/ Fail(q) PROVE Goal
  BY <1>12, CountsOnReturn DEF Stuck, Fail
<1>13. ASSUME NEW q \in Request, Hangup(q) PROVE Goal
  <2>1. UNCHANGED <<received, acked, lost>> /\ req' = req /\ open' \subseteq open
    BY <1>13 DEF Hangup
  <2> QED
    BY <2>1, CountsUntouched
<1>17. ASSUME NEW q \in Request, WaitForReaders(q) PROVE Goal
  <2>1. UNCHANGED <<received, acked, lost>> /\ req' = req /\ open' = open
    BY <1>17 DEF WaitForReaders
  <2> QED
    BY <2>1, CountsUntouched
<1>14. ASSUME Crash PROVE Goal
  <2>1. UNCHANGED <<received, acked, lost>> /\ open' = {} /\ \A p \in Request : req'[p] = Idle
    BY <1>14 DEF Crash
  <2> QED
    BY <2>1, CountsUntouched
<1>15. ASSUME UNCHANGED vars PROVE Goal
  <2>1. UNCHANGED <<received, acked, lost>> /\ req' = req /\ open' = open
    BY <1>15 DEF vars
  <2> QED
    BY <2>1, CountsUntouched
<1>16. Goal
  BY Zenon, <1>1, <1>2, <1>3, <1>4, <1>5, <1>6, <1>7, <1>8, <1>9, <1>10, <1>11, <1>12, <1>13,
     <1>14, <1>15, <1>17 DEF Next, Step
<1> QED
  BY <1>t, <1>16 DEF CInv

(* CInv holds of every reachable state.                                    *)
THEOREM CountsInvariant == Spec => []CInv
<1>1. Init => CInv
  BY InitType, UploadType DEF Init, CInv, AcknowledgedCounted, CountsBounded,
     RequestsFollowProtocol, OpenRequestsKnowCount, Idle, Chunked, Final, None
<1> QED
  BY <1>1, CInvStep, PTL DEF Spec

(* Every reachable state is well typed.                                    *)
THEOREM TypeCorrect == Spec => []TypeOK
<1>1. CInv => TypeOK
  BY DEF CInv
<1> QED
  BY <1>1, CountsInvariant, PTL

(* What a client was told is received stays received as long as its        *)
(* session, with clients that hang up at any time and in any mixture of    *)
(* uploads, unless a commit failed for it: the transaction of              *)
(* uploadBlobChunk makes it so.                                            *)
THEOREM AcknowledgedStaysCounted == Spec => []AcknowledgedCounted
<1>1. CInv => AcknowledgedCounted
  BY DEF CInv
<1> QED
  BY <1>1, CountsInvariant, PTL
-----------------------------------------------------------------------------
(* Listed blobs have their files *)

(* Only the last request of an upload in chunks lists a blob, and it does  *)
(* so after its file took the blob's name.                                 *)
RowRequestsHaveFiles ==
  \A q \in Request : At(q, "last", "row") \/ At(q, "last", "create")
                     => blob[DigestOf[req[q].session]] # None

ListedInChunks == \A d \in Digest : meta[d] # None => \E s \in Chunked : DigestOf[s] = d

RowsInv == RowRequestsHaveFiles /\ ListedInChunks /\ RowsHaveFiles

(* What GoTo and Return do to the requests, without the fields.            *)
LEMMA OnlyOneMoves ==
  ASSUME TypeOK, NEW q \in Request
  PROVE  /\ Return(q) => \A p \in Request : req'[p] = IF p = q THEN Idle ELSE req[p]
         /\ \A step : GoTo(q, step) => \A p \in Request \ {q} : req'[p] = req[p]
BY DEF TypeOK, Return, GoTo

(* A step lists a blob, names or writes a blob's file, or does neither and *)
(* begins neither.                                                         *)
LEMMA StepKinds ==
  ASSUME TypeOK, [Next]_vars
  PROVE  \/ \E q \in Request : \/ RenameFile(q) \/ CreateBlobMeta(q) \/ PutFile(q)
                              \/ WaitToCreate(q)
         \/ /\ UNCHANGED <<meta, blob>>
            /\ \A p \in Request : req'[p] = req[p] \/ req'[p].step \notin {"row", "create"}
<1> DEFINE Quiet ==
      /\ UNCHANGED <<meta, blob>>
      /\ \A p \in Request : req'[p] = req[p] \/ req'[p].step \notin {"row", "create"}
<1>2. ASSUME NEW s \in Session, NEW q \in Request,
             initiateBlobUpload(q, s) \/ handleBlobChunk(q, s)
               \/ handleLastBlobChunk(q, s) \/ handleBlob(q, s)
      PROVE  Quiet
  BY <1>2 DEF initiateBlobUpload, handleBlobChunk, handleLastBlobChunk, handleBlob, Send, TypeOK
<1>3. ASSUME NEW q \in Request, Return(q), UNCHANGED <<meta, blob>> PROVE Quiet
  BY <1>3, OnlyOneMoves DEF Idle
<1>1. ASSUME NEW q \in Request, CreateUploadSession(q) PROVE Quiet
  BY <1>1, <1>3 DEF CreateUploadSession
<1>4. ASSUME NEW q \in Request, NEW step \in {"update", "drop", "rename"}, req[q] # Idle,
             GoTo(q, step), UNCHANGED <<meta, blob>>
      PROVE  Quiet
  BY <1>4, OnlyOneMoves, GoToType DEF GoTo
<1>5. ASSUME NEW q \in Request, ReadSession(q) PROVE Quiet
  <2>1. UNCHANGED <<meta, blob>>
    BY <1>5, ReadOutcomes
  <2>2. CASE Return(q)
    BY <1>3, <2>1, <2>2
  <2>3. CASE \E n \in Nat : /\ req[q] \in UnderWay /\ req'[q] = AfterRead(req[q], n)
                            /\ \A p \in Request \ {q} : req'[p] = req[p]
    BY <2>1, <2>3, AfterReadType
  <2> QED
    BY <1>5, <2>2, <2>3, ReadOutcomes
<1>6. ASSUME NEW q \in Request, PutFileChunk(q) PROVE Quiet
  BY <1>3, <1>4, <1>6, RequestFields DEF PutFileChunk, At
<1>7. ASSUME NEW q \in Request, UpdateUploadSession(q) \/ DeleteUploadSession(q) PROVE Quiet
  BY <1>3, <1>7 DEF UpdateUploadSession, DeleteUploadSession
<1>8. ASSUME NEW q \in Request, DiscardFile(q) \/ CheckSize(q) PROVE Quiet
  BY <1>3, <1>4, <1>8, RequestFields DEF DiscardFile, CheckSize, At
<1>9. ASSUME NEW q \in Request, Stuck(q) \/ Fail(q) PROVE Quiet
  BY <1>3, <1>9 DEF Stuck, Fail
<1>10. ASSUME NEW q \in Request, Hangup(q) \/ WaitForReaders(q) PROVE Quiet
  BY <1>10 DEF Hangup, WaitForReaders
<1>11. ASSUME Crash PROVE Quiet
  BY <1>11 DEF Crash, Idle
<1>12. ASSUME UNCHANGED vars PROVE Quiet
  BY <1>12 DEF vars
<1> HIDE DEF Quiet
<1>13. Quiet \/ \E q \in Request : \/ RenameFile(q) \/ CreateBlobMeta(q) \/ PutFile(q)
                                  \/ WaitToCreate(q)
  BY Zenon, <1>1, <1>2, <1>5, <1>6, <1>7, <1>8, <1>9, <1>10, <1>11, <1>12 DEF Next, Step
<1> QED
  BY <1>13 DEF Quiet

(* RowsInv is inductive, given CInv.                                       *)
LEMMA RowsInvStep ==
  ASSUME SeparateDigests, CInv, RowsInv, [Next]_vars
  PROVE  RowsInv'
<1>t. TypeOK /\ TypeOK' /\ RequestsFollowProtocol
  BY TypeStep DEF CInv
<1> USE UploadType
<1>1. ASSUME NEW q \in Request, RenameFile(q) PROVE RowsInv'
  <2> DEFINE s == req[q].session
  <2>1. s \in Session /\ DigestOf[s] \in Digest /\ req[q] # Idle
    BY <1>1, <1>t, RequestFields DEF RenameFile, At
  <2>2. /\ blob' = [blob EXCEPT ![DigestOf[s]] = upload[s]] /\ upload[s] # None
        /\ GoTo(q, "row") /\ UNCHANGED meta
    BY <1>1 DEF RenameFile
  <2>3. /\ req'[q].session = s
        /\ \A p \in Request \ {q} : req'[p] = req[p]
    BY <1>t, <2>1, <2>2, GoToType DEF GoTo
  <2>4. blob'[DigestOf[s]] # None /\ \A d \in Digest : blob'[d] = blob[d] \/ blob'[d] # None
    BY <1>t, <2>1, <2>2 DEF TypeOK
  <2>5. RowRequestsHaveFiles'
    BY <2>3, <2>4, <1>t, RequestFields DEF RowsInv, RowRequestsHaveFiles, At
  <2>6. ListedInChunks' /\ RowsHaveFiles'
    BY <2>2, <2>4 DEF RowsInv, ListedInChunks, RowsHaveFiles
  <2> QED
    BY <2>5, <2>6 DEF RowsInv
<1>2. ASSUME NEW q \in Request, CreateBlobMeta(q) PROVE RowsInv'
  <2> DEFINE s == req[q].session
  <2>1. s \in Session /\ s \in Chunked /\ DigestOf[s] \in Digest /\ req[q] # Idle
    BY <1>2, <1>t, RequestFields DEF CreateBlobMeta, At, RequestsFollowProtocol
  <2>2. /\ meta' = [meta EXCEPT ![DigestOf[s]] = req[q].offset]
        /\ GoTo(q, "drop") /\ UNCHANGED blob /\ blob[DigestOf[s]] # None
    BY <1>2 DEF CreateBlobMeta, RowsInv, RowRequestsHaveFiles
  <2>3. req'[q].step = "drop" /\ \A p \in Request \ {q} : req'[p] = req[p]
    BY <1>t, <2>1, <2>2, GoToType DEF GoTo
  <2>4. \A d \in Digest : d = DigestOf[s] \/ meta'[d] = meta[d]
    BY <1>t, <2>1, <2>2 DEF TypeOK
  <2>5. RowRequestsHaveFiles'
    BY <2>2, <2>3 DEF RowsInv, RowRequestsHaveFiles, At
  <2>6. ListedInChunks' /\ RowsHaveFiles'
    BY <2>1, <2>2, <2>4 DEF RowsInv, ListedInChunks, RowsHaveFiles
  <2> QED
    BY <2>5, <2>6 DEF RowsInv
<1>3. ASSUME NEW q \in Request, PutFile(q) PROVE RowsInv'
  <2> DEFINE t == req[q].session
  <2>1. t \in Monolithic /\ t \in Session /\ DigestOf[t] \in Digest /\ req[q] # Idle
    BY <1>3, <1>t, RequestFields DEF PutFile, At, RequestsFollowProtocol
  <2>2. \A d \in Digest : d = DigestOf[t] \/ blob'[d] = blob[d]
    BY <1>3, <1>t, <2>1 DEF PutFile, TypeOK
  <2>3. \A d \in Digest : (\E s \in Chunked : DigestOf[s] = d) => blob'[d] = blob[d]
    BY <2>1, <2>2 DEF SeparateDigests, Chunked
  <2>4. \A p \in Request : req'[p] = req[p] \/ req'[p].step \notin {"row", "create"}
    <3>1. CASE Return(q)
      BY <1>t, <3>1, OnlyOneMoves DEF Idle
    <3>2. CASE GoTo(q, "drop")
      BY <1>t, <2>1, <3>2, GoToType DEF GoTo
    <3> QED
      BY <1>3, <3>1, <3>2 DEF PutFile
  <2>5. RowRequestsHaveFiles'
    <3> SUFFICES ASSUME NEW p \in Request, req'[p].kind = "last",
                        req'[p].step \in {"row", "create"}
                 PROVE  blob'[DigestOf[req'[p].session]] # None
      BY DEF RowRequestsHaveFiles, At
    <3>1. req'[p] = req[p]
      BY <2>4
    <3>2. blob[DigestOf[req[p].session]] # None
      BY <3>1 DEF RowsInv, RowRequestsHaveFiles, At
    <3>3. req[p].session \in Chunked /\ DigestOf[req[p].session] \in Digest
      BY <1>t, <3>1 DEF RequestsFollowProtocol, Chunked
    <3> QED
      BY <2>3, <3>1, <3>2, <3>3
  <2>6. ListedInChunks' /\ RowsHaveFiles'
    BY <1>3, <2>3 DEF PutFile, RowsInv, ListedInChunks, RowsHaveFiles
  <2> QED
    BY <2>5, <2>6 DEF RowsInv
<1>4. ASSUME UNCHANGED <<meta, blob>>,
             \A p \in Request : req'[p] = req[p] \/ req'[p].step \notin {"row", "create"}
      PROVE  RowsInv'
  BY <1>4 DEF RowsInv, RowRequestsHaveFiles, ListedInChunks, RowsHaveFiles, At
<1>5. ASSUME NEW q \in Request, WaitToCreate(q) PROVE RowsInv'
  <2>1. /\ req[q] # Idle /\ At(q, "last", "row") /\ GoTo(q, "create")
        /\ UNCHANGED <<meta, blob>>
    BY <1>5, <1>t, RequestFields DEF WaitToCreate, At
  <2>2. req'[q].session = req[q].session /\ \A p \in Request \ {q} : req'[p] = req[p]
    BY <1>t, <2>1, GoToType DEF GoTo
  <2> QED
    BY <2>1, <2>2 DEF RowsInv, RowRequestsHaveFiles, ListedInChunks, RowsHaveFiles, At
<1> QED
  BY <1>t, <1>1, <1>2, <1>3, <1>4, <1>5, StepKinds

(* Nothing is listed and no request is under way at the beginning.         *)
LEMMA RowsInvInit == Init => RowsInv
BY UploadType DEF Init, RowsInv, RowRequestsHaveFiles, ListedInChunks, RowsHaveFiles, At, Idle

(* RowsInv holds of every reachable state.                                 *)
THEOREM RowsInvariant == ASSUME SeparateDigests PROVE Spec => []RowsInv
BY RowsInvInit, RowsInvStep, CountsInvariant, PTL DEF Spec

(* A blob that the registry lists has its file, whatever fails, hangs up   *)
(* or crashes on the way.                                                  *)
THEOREM ListedHaveFiles == ASSUME SeparateDigests PROVE Spec => []RowsHaveFiles
<1>1. RowsInv => RowsHaveFiles
  BY DEF RowsInv
<1> QED
  BY <1>1, RowsInvariant, PTL
-----------------------------------------------------------------------------
(* Listed blobs are whole, as long as no client hangs up *)

(* The handlers then run inside of their transactions, so that between the *)
(* check of the size and the renaming no other request gets to write.      *)
HandlersInTransaction ==
  \A q \in Request : req[q].step \notin {"idle", "insert", "read"} => q \in open

(* A chunk whose count is lost leaves a file that the count does not fit:  *)
(* it has been written, and nobody makes it shorter without removing it.   *)
ChunksWrittenFirst ==
  \A q \in open : At(q, "chunk", "update") => upload[req[q].session] # req[q].offset

LostChunksShow ==
  \A s \in Chunked : received[s] # None /\ acked[s] > received[s] => upload[s] # received[s]

CheckedUploadsWhole ==
  \A q \in Request :
    /\ At(q, "last", "rename") => upload[req[q].session] \in {None, Final(req[q].session)}
    /\ req[q].kind = "last" /\ req[q].step \in {"rename", "row", "create"}
         => req[q].offset = Final(req[q].session)

ChunkedBlobsWhole ==
  /\ \A s \in Chunked : blob[DigestOf[s]] \in {None, Final(s)}
  /\ \A d \in Digest : meta[d] # None => meta[d] = SizeOf[d]

WholeInv == /\ HandlersInTransaction
            /\ ChunksWrittenFirst /\ LostChunksShow
            /\ CheckedUploadsWhole /\ ChunkedBlobsWhole

(* No step leaves its transaction behind.                                  *)
LEMMA HandlersInTransactionStep ==
  ASSUME Hangups = {}, TypeOK, HandlersInTransaction, [Next]_vars
  PROVE  HandlersInTransaction'
<1> USE DEF HandlersInTransaction
<1>2. ASSUME NEW s \in Session, NEW q \in Request,
             initiateBlobUpload(q, s) \/ handleBlobChunk(q, s)
               \/ handleLastBlobChunk(q, s) \/ handleBlob(q, s)
      PROVE  HandlersInTransaction'
  BY <1>2 DEF initiateBlobUpload, handleBlobChunk, handleLastBlobChunk, handleBlob, Send, TypeOK
<1>3. ASSUME NEW q \in Request, Return(q) PROVE HandlersInTransaction'
  <2>1. \A p \in Request : req'[p] = IF p = q THEN Idle ELSE req[p]
    BY <1>3, OnlyOneMoves
  <2> QED
    BY <1>3, <2>1 DEF Return, Idle
<1>1. ASSUME NEW q \in Request, CreateUploadSession(q) PROVE HandlersInTransaction'
  BY <1>1, <1>3 DEF CreateUploadSession
<1>4. ASSUME NEW q \in Request, NEW step, GoTo(q, step),
             req[q].step \notin {"idle", "insert", "read"}
      PROVE  HandlersInTransaction'
  <2>1. \A p \in Request \ {q} : req'[p] = req[p]
    BY <1>4, OnlyOneMoves
  <2> QED
    BY <1>4, <2>1 DEF GoTo
<1>5. ASSUME NEW q \in Request, ReadSession(q) PROVE HandlersInTransaction'
  <2>1. CASE Return(q)
    BY <1>3, <2>1
  <2>2. CASE open' = open \cup {q} /\ \A p \in Request \ {q} : req'[p] = req[p]
    BY <2>2
  <2> QED
    BY <1>5, <2>1, <2>2, ReadOutcomes
<1>6. ASSUME NEW q \in Request, PutFileChunk(q) \/ PutFile(q) PROVE HandlersInTransaction'
  BY <1>3, <1>4, <1>6 DEF PutFileChunk, PutFile, At
<1>7. ASSUME NEW q \in Request, UpdateUploadSession(q) \/ DeleteUploadSession(q)
      PROVE  HandlersInTransaction'
  BY <1>3, <1>7 DEF UpdateUploadSession, DeleteUploadSession
<1>8. ASSUME NEW q \in Request,
             \/ DiscardFile(q) \/ CheckSize(q) \/ RenameFile(q)
             \/ CreateBlobMeta(q) \/ WaitToCreate(q)
      PROVE  HandlersInTransaction'
  BY <1>3, <1>4, <1>8 DEF DiscardFile, CheckSize, RenameFile, CreateBlobMeta, WaitToCreate, At
<1>9. ASSUME NEW q \in Request, Stuck(q) \/ Fail(q) PROVE HandlersInTransaction'
  BY <1>3, <1>9 DEF Stuck, Fail
<1>10. ASSUME NEW q \in Request, Hangup(q) \/ WaitForReaders(q) PROVE HandlersInTransaction'
  BY <1>10 DEF Hangup, WaitForReaders
<1>11. ASSUME Crash PROVE HandlersInTransaction'
  BY <1>11 DEF Crash, Idle
<1>12. ASSUME UNCHANGED vars PROVE HandlersInTransaction'
  BY <1>12 DEF vars
<1> QED
  BY Zenon, <1>1, <1>2, <1>5, <1>6, <1>7, <1>8, <1>9, <1>10, <1>11, <1>12 DEF Next, Step

(* The file of a session is ahead of its count, once a commit has failed:  *)
(* every chunk is written before it is counted, and none is written twice. *)
LEMMA ChunksAheadStep ==
  ASSUME Hangups = {}, CInv, HandlersInTransaction, ChunksWrittenFirst, LostChunksShow,
         [Next]_vars
  PROVE  ChunksWrittenFirst' /\ LostChunksShow'
<1> DEFINE Goal == ChunksWrittenFirst' /\ LostChunksShow'
<1>t. /\ TypeOK /\ TypeOK' /\ OpenRequestsKnowCount /\ RequestsFollowProtocol /\ CountsBounded
      /\ open \subseteq Request /\ open' \subseteq Request
  BY TypeStep DEF CInv, TypeOK
<1>s. Chunked \subseteq Session
  BY DEF Chunked
(* Steps that count no chunk, and write none.                              *)
<1>a. ASSUME UNCHANGED <<received, acked>>,
             \A p \in Request : req'[p] = req[p] \/ req'[p].step # "update",
             \A s \in Session : upload'[s] \in {None, Torn, upload[s]}
      PROVE  Goal
  <2>1. ASSUME NEW p \in open', At(p, "chunk", "update")'
        PROVE  upload'[req'[p].session] # req'[p].offset
    <3>1. p \in Request /\ req'[p] = req[p] /\ At(p, "chunk", "update")
      BY <1>t, <1>a, <2>1 DEF At
    <3>2. p \in open /\ req[p].session \in Session /\ req[p].offset \in Nat
      BY <1>t, <3>1, RequestFields DEF HandlersInTransaction, At
    <3>3. upload[req[p].session] # req[p].offset
      BY <3>1, <3>2 DEF ChunksWrittenFirst
    <3> QED
      BY <1>a, <3>1, <3>2, <3>3 DEF None, Torn
  <2>2. ASSUME NEW s \in Chunked, received'[s] # None, acked'[s] > received'[s]
        PROVE  upload'[s] # received'[s]
    <3>1. upload[s] # received[s] /\ received[s] \in Nat /\ received'[s] = received[s]
      BY <1>t, <1>s, <1>a, <2>2 DEF LostChunksShow, TypeOK
    <3> QED
      BY <1>a, <1>s, <3>1 DEF None, Torn
  <2> QED
    BY <2>1, <2>2 DEF ChunksWrittenFirst, LostChunksShow
(* Steps that leave no transaction open.                                   *)
<1>b. ASSUME NEW s \in Session, open' = {}, UNCHANGED upload,
             \A x \in Session \ {s} : acked'[x] = acked[x] /\ received'[x] = received[x],
             s \in Chunked /\ received'[s] # None /\ acked'[s] > received'[s]
               => upload[s] # received'[s]
      PROVE  Goal
  <2>1. ChunksWrittenFirst'
    BY <1>b DEF ChunksWrittenFirst
  <2>2. LostChunksShow'
    BY <1>b, <1>s DEF LostChunksShow
  <2> QED
    BY <2>1, <2>2
<1>1. ASSUME NEW q \in Request, CreateUploadSession(q) PROVE Goal
  <2> DEFINE s == req[q].session
  <2>1. s \in Session /\ acked[s] = None /\ received[s] = None
    BY <1>1, <1>t, RequestFields
       DEF CreateUploadSession, At, RequestsFollowProtocol, NewSession
  <2>2. /\ received' = received \/ received' = [received EXCEPT ![s] = 0]
        /\ acked' = acked \/ acked' = [acked EXCEPT ![s] = 0]
        /\ open' = {} /\ UNCHANGED upload
    BY <1>1 DEF CreateUploadSession, Return, MayWrite
  <2>3. /\ received'[s] \in {None, 0} /\ acked'[s] \in {None, 0}
        /\ \A x \in Session \ {s} : acked'[x] = acked[x] /\ received'[x] = received[x]
    BY <1>t, <2>1, <2>2 DEF TypeOK
  <2>4. ~(received'[s] # None /\ acked'[s] > received'[s])
    BY <2>3 DEF None
  <2> QED
    BY <1>b, <2>1, <2>2, <2>3, <2>4
<1>2. ASSUME NEW s \in Session, NEW q \in Request,
             initiateBlobUpload(q, s) \/ handleBlobChunk(q, s)
               \/ handleLastBlobChunk(q, s) \/ handleBlob(q, s)
      PROVE  Goal
  BY <1>t, <1>2, <1>a
     DEF initiateBlobUpload, handleBlobChunk, handleLastBlobChunk, handleBlob, Send, TypeOK
<1>3. ASSUME NEW q \in Request, Return(q), UNCHANGED <<received, acked>>,
             \A s \in Session : upload'[s] \in {None, Torn, upload[s]}
      PROVE  Goal
  BY <1>t, <1>3, <1>a, OnlyOneMoves DEF Idle
<1>4. ASSUME NEW q \in Request, NEW step \in {"rename", "row", "create", "drop"},
             req[q] # Idle, GoTo(q, step), UNCHANGED <<received, acked>>,
             \A s \in Session : upload'[s] \in {None, Torn, upload[s]}
      PROVE  Goal
  BY <1>t, <1>4, <1>a, OnlyOneMoves, GoToType DEF GoTo
<1>5. ASSUME NEW q \in Request, ReadSession(q) PROVE Goal
  <2>1. UNCHANGED <<received, acked, upload>>
    BY <1>t, <1>5, ReadOutcomes
  <2>2. CASE Return(q)
    BY <1>3, <2>1, <2>2
  <2>3. CASE \E n \in Nat : /\ req[q] \in UnderWay /\ req'[q] = AfterRead(req[q], n)
                            /\ \A p \in Request \ {q} : req'[p] = req[p]
    BY <1>a, <2>1, <2>3, AfterReadType
  <2> QED
    BY <1>t, <1>5, <2>2, <2>3, ReadOutcomes
<1>6. ASSUME NEW q \in Request, PutFileChunk(q) PROVE Goal
  <2> DEFINE s == req[q].session
             n == req[q].offset
  <2>1. /\ req[q] # Idle /\ s \in Session /\ n \in Nat
        /\ req[q].kind = "chunk" /\ req[q].step = "put"
        /\ UNCHANGED <<received, acked>>
    BY <1>t, <1>6, RequestFields DEF PutFileChunk, At
  <2>2. q \in open /\ received[s] = n
    BY <1>t, <2>1 DEF HandlersInTransaction, OpenRequestsKnowCount
  <2>3. CASE upload' = [upload EXCEPT ![s] = n + 1] /\ GoTo(q, "update")
    <3>1. upload'[s] = n + 1 /\ \A x \in Session \ {s} : upload'[x] = upload[x]
      BY <1>t, <2>1, <2>3 DEF TypeOK
    <3>2. /\ req'[q].session = s /\ req'[q].offset = n
          /\ \A p \in Request \ {q} : req'[p] = req[p]
      BY <1>t, <2>1, <2>3, GoToType DEF GoTo
    <3>3. open' = open
      BY <2>3 DEF GoTo
    <3>4. ASSUME NEW p \in open', At(p, "chunk", "update")'
          PROVE  upload'[req'[p].session] # req'[p].offset
      <4>1. CASE p = q
        BY <2>1, <3>1, <3>2, <4>1
      <4>2. CASE p # q
        <5>1. /\ req'[p] = req[p] /\ p \in open /\ At(p, "chunk", "update")
              /\ req[p].session \in Session
          BY <1>t, <3>2, <3>3, <3>4, <4>2, RequestFields DEF At
        <5>2. upload[req[p].session] # req[p].offset /\ received[req[p].session] = req[p].offset
          BY <1>t, <5>1 DEF ChunksWrittenFirst, OpenRequestsKnowCount, At
        <5> QED
          BY <2>1, <2>2, <3>1, <5>1, <5>2
      <4> QED
        BY <4>1, <4>2
    <3>5. LostChunksShow'
      BY <1>s, <2>1, <2>2, <3>1 DEF LostChunksShow
    <3> QED
      BY <3>4, <3>5 DEF ChunksWrittenFirst
  <2>4. CASE Return(q) /\ upload' \in {[upload EXCEPT ![s] = Torn], [upload EXCEPT ![s] = None]}
    BY <1>t, <1>3, <2>1, <2>4 DEF TypeOK
  <2> QED
    BY <1>6, <2>3, <2>4 DEF PutFileChunk
<1>7. ASSUME NEW q \in Request, UpdateUploadSession(q) PROVE Goal
  <2> DEFINE s == req[q].session
             n == req[q].offset + 1
  <2>1. /\ At(q, "chunk", "update") /\ q \in open /\ open' = {} /\ UNCHANGED upload
        /\ s \in Session /\ s \in Chunked /\ req[q].offset \in Nat
    BY <1>t, <1>7, RequestFields
       DEF UpdateUploadSession, MayWrite, Return, At, RequestsFollowProtocol
  <2>2. received[s] = req[q].offset /\ upload[s] # req[q].offset /\ acked[s] <= n
          /\ acked[s] \in Int
    BY <1>t, <2>1 DEF OpenRequestsKnowCount, ChunksWrittenFirst, CountsBounded, At, TypeOK, None
  <2>3. /\ received' = [received EXCEPT ![s] = n] \/ received' = received
        /\ acked' = acked \/ acked' = [acked EXCEPT ![s] = IF @ < n THEN n ELSE @]
    BY <1>7 DEF UpdateUploadSession
  <2>4. /\ received'[s] \in {n, received[s]} /\ acked'[s] \in {n, acked[s]}
        /\ \A x \in Session \ {s} : acked'[x] = acked[x] /\ received'[x] = received[x]
    BY <1>t, <2>1, <2>3 DEF TypeOK
  <2>5. received'[s] = n => ~(acked'[s] > received'[s])
    BY <2>1, <2>2, <2>4
  <2> QED
    BY <1>b, <2>1, <2>2, <2>4, <2>5
<1>8. ASSUME NEW q \in Request, DeleteUploadSession(q) PROVE Goal
  <2>1. /\ req[q].session \in Session /\ open' = {} /\ UNCHANGED <<upload, acked>>
    BY <1>t, <1>8, RequestFields DEF DeleteUploadSession, MayWrite, Return
  <2>2. /\ received'[req[q].session] \in {None, received[req[q].session]}
        /\ \A x \in Session \ {req[q].session} : received'[x] = received[x]
    BY <1>t, <1>8, <2>1 DEF DeleteUploadSession, TypeOK
  <2> QED
    BY <1>b, <2>1, <2>2 DEF LostChunksShow
<1>9. ASSUME NEW q \in Request, DiscardFile(q) \/ RenameFile(q) PROVE Goal
  BY <1>t, <1>4, <1>9, RequestFields DEF DiscardFile, RenameFile, At, TypeOK
<1>10. ASSUME NEW q \in Request,
              CheckSize(q) \/ CreateBlobMeta(q) \/ WaitToCreate(q) \/ PutFile(q)
       PROVE  Goal
  BY <1>t, <1>3, <1>4, <1>10, RequestFields DEF CheckSize, CreateBlobMeta, WaitToCreate, PutFile, At
<1>11. ASSUME NEW q \in Request, Stuck(q) \/ Fail(q) PROVE Goal
  BY <1>3, <1>11 DEF Stuck, Fail
<1>12. ASSUME NEW q \in Request, Hangup(q) \/ WaitForReaders(q) PROVE Goal
  BY <1>12, <1>a DEF Hangup, WaitForReaders
<1>13. ASSUME Crash PROVE Goal
  BY <1>13, <1>a DEF Crash, Idle
<1>14. ASSUME UNCHANGED vars PROVE Goal
  BY <1>14, <1>a DEF vars
<1> QED
  BY Zenon, <1>1, <1>2, <1>5, <1>6, <1>7, <1>8, <1>9, <1>10, <1>11, <1>12, <1>13, <1>14
     DEF Next, Step

(* A checked upload stays whole: no chunk is written to it meanwhile.      *)
LEMMA CheckedUploadsStep ==
  ASSUME Hangups = {}, CInv, HandlersInTransaction, LostChunksShow, CheckedUploadsWhole,
         [Next]_vars
  PROVE  CheckedUploadsWhole'
<1>t. TypeOK /\ OpenRequestsKnowCount /\ RequestsFollowProtocol /\ CountsBounded
  BY DEF CInv
<1> USE UploadType
<1> DEFINE Checked == {"rename", "row", "create"}
(* Steps after which the checked requests were checked before, and those   *)
(* at the renaming found their uploads as they are or removed.             *)
<1>a. ASSUME \A p \in Request : \/ req'[p] = req[p]
                                \/ req'[p].step \notin Checked
                                \/ /\ req'[p].step # "rename" /\ req[p].step \in Checked
                                   /\ req'[p].kind = req[p].kind
                                   /\ req'[p].session = req[p].session
                                   /\ req'[p].offset = req[p].offset,
             \A p \in Request : At(p, "last", "rename") =>
                upload'[req[p].session] \in {None, upload[req[p].session]}
      PROVE  CheckedUploadsWhole'
  BY <1>a DEF CheckedUploadsWhole, At, Final
<1>2. ASSUME NEW s \in Session, NEW q \in Request,
             initiateBlobUpload(q, s) \/ handleBlobChunk(q, s)
               \/ handleLastBlobChunk(q, s) \/ handleBlob(q, s)
      PROVE  CheckedUploadsWhole'
  BY <1>t, <1>2, <1>a
     DEF initiateBlobUpload, handleBlobChunk, handleLastBlobChunk, handleBlob, Send, TypeOK
<1>3. ASSUME NEW q \in Request, Return(q), UNCHANGED upload PROVE CheckedUploadsWhole'
  BY <1>t, <1>3, <1>a, OnlyOneMoves DEF Idle
<1>1. ASSUME NEW q \in Request, CreateUploadSession(q) PROVE CheckedUploadsWhole'
  BY <1>1, <1>3 DEF CreateUploadSession
<1>4. ASSUME NEW q \in Request, NEW step \in {"update", "create", "drop"}, req[q] # Idle,
             step = "create" => req[q].step \in Checked,
             GoTo(q, step), UNCHANGED upload
      PROVE  CheckedUploadsWhole'
  BY <1>t, <1>4, <1>a, OnlyOneMoves, GoToType DEF GoTo
<1>5. ASSUME NEW q \in Request, ReadSession(q) PROVE CheckedUploadsWhole'
  <2>1. UNCHANGED upload
    BY <1>t, <1>5, ReadOutcomes
  <2>2. CASE Return(q)
    BY <1>3, <2>1, <2>2
  <2>3. CASE \E n \in Nat : /\ req[q] \in UnderWay /\ req'[q] = AfterRead(req[q], n)
                            /\ \A p \in Request \ {q} : req'[p] = req[p]
    BY <1>a, <2>1, <2>3, AfterReadType
  <2> QED
    BY <1>t, <1>5, <2>2, <2>3, ReadOutcomes
<1>6. ASSUME NEW q \in Request, PutFileChunk(q) PROVE CheckedUploadsWhole'
  <2>1. /\ req[q] # Idle /\ req[q].session \in Session
        /\ req[q].kind = "chunk" /\ req[q].step = "put"
    BY <1>t, <1>6, RequestFields DEF PutFileChunk, At
  <2>2. received[req[q].session] = req[q].offset /\ req[q].offset < Final(req[q].session)
    BY <1>t, <2>1 DEF HandlersInTransaction, OpenRequestsKnowCount, RequestsFollowProtocol
  <2>3. \A p \in Request : At(p, "last", "rename") => req[p].session # req[q].session
    <3> SUFFICES ASSUME NEW p \in Request, At(p, "last", "rename"),
                        req[p].session = req[q].session
                 PROVE  FALSE
      OBVIOUS
    <3>1. received[req[p].session] = Final(req[p].session)
      BY <1>t DEF HandlersInTransaction, OpenRequestsKnowCount, CheckedUploadsWhole, At
    <3>2. req[q].offset \in Int /\ Final(req[q].session) \in Int
      BY <1>t, <2>1, RequestFields
    <3> QED
      BY <2>2, <3>1, <3>2
  <2>4. \A t \in Session \ {req[q].session} : upload'[t] = upload[t]
    BY <1>t, <1>6 DEF PutFileChunk, TypeOK
  <2>5. \A p \in Request : req'[p] = req[p] \/ req'[p].step \notin Checked
    BY <1>t, <1>6, <2>1, OnlyOneMoves, GoToType DEF PutFileChunk, GoTo, Idle
  <2>6. \A p \in Request : At(p, "last", "rename") => req[p].session \in Session
    BY <1>t, RequestFields DEF At
  <2> QED
    BY <1>a, <2>3, <2>4, <2>5, <2>6
<1>7. ASSUME NEW q \in Request, UpdateUploadSession(q) \/ DeleteUploadSession(q)
      PROVE  CheckedUploadsWhole'
  BY <1>3, <1>7 DEF UpdateUploadSession, DeleteUploadSession
<1>8. ASSUME NEW q \in Request, DiscardFile(q) \/ RenameFile(q) PROVE CheckedUploadsWhole'
  <2>1. req[q] # Idle /\ \A t \in Session : upload'[t] \in {None, upload[t]}
    BY <1>t, <1>8, RequestFields DEF DiscardFile, RenameFile, At, TypeOK
  <2>2. \A p \in Request \ {q} : req'[p] = req[p]
    BY <1>t, <1>8, OnlyOneMoves DEF DiscardFile, RenameFile
  <2>3. CASE DiscardFile(q)
    <3>1. req'[q].step = "drop"
      BY <1>t, <2>1, <2>3, GoToType DEF DiscardFile, GoTo
    <3>2. \A p \in Request : At(p, "last", "rename") => req[p].session \in Session
      BY <1>t, RequestFields DEF At
    <3> QED
      BY <1>a, <2>1, <2>2, <3>1, <3>2
  <2>4. CASE RenameFile(q)
    <3>1. /\ req'[q].step = "row" /\ req[q].step = "rename" /\ req'[q].kind = req[q].kind
          /\ req'[q].session = req[q].session /\ req'[q].offset = req[q].offset
      BY <1>t, <2>1, <2>4, GoToType DEF RenameFile, GoTo, At
    <3>2. \A p \in Request : At(p, "last", "rename") => req[p].session \in Session
      BY <1>t, RequestFields DEF At
    <3> QED
      BY <1>a, <2>1, <2>2, <3>1, <3>2
  <2> QED
    BY <1>8, <2>3, <2>4
<1>9. ASSUME NEW q \in Request, CheckSize(q) PROVE CheckedUploadsWhole'
  <2> DEFINE s == req[q].session
  <2>1. /\ req[q] # Idle /\ UNCHANGED upload /\ s \in Session
        /\ req[q].kind = "last" /\ req[q].step = "size"
    BY <1>t, <1>9, RequestFields DEF CheckSize, At
  <2>2. CASE Return(q)
    BY <1>3, <2>1, <2>2
  <2>3. CASE GoTo(q, "rename") /\ upload[s] = req[q].offset
    <3>1. received[s] = req[q].offset /\ req[q].offset \in Nat
      BY <1>t, <2>1, RequestFields DEF HandlersInTransaction, OpenRequestsKnowCount
    <3>2. s \in Chunked /\ acked[s] = Final(s) /\ Final(s) \in Nat /\ received[s] <= Final(s)
      BY <1>t, <2>1, RequestFields DEF RequestsFollowProtocol, CountsBounded
    <3>3. ~(acked[s] > received[s])
      BY <2>3, <3>1, <3>2 DEF LostChunksShow, None
    <3>4. req[q].offset = Final(s)
      BY <3>1, <3>2, <3>3
    <3>5. /\ req'[q].session = s /\ req'[q].offset = req[q].offset
          /\ \A p \in Request \ {q} : req'[p] = req[p]
      BY <1>t, <2>1, <2>3, GoToType DEF GoTo
    <3> QED
      BY <2>1, <2>3, <3>4, <3>5 DEF CheckedUploadsWhole, At, Final
  <2> QED
    BY <1>9, <2>2, <2>3 DEF CheckSize
<1>10. ASSUME NEW q \in Request, CreateBlobMeta(q) \/ WaitToCreate(q) \/ PutFile(q)
       PROVE  CheckedUploadsWhole'
  BY <1>t, <1>3, <1>4, <1>10, RequestFields DEF CreateBlobMeta, WaitToCreate, PutFile, At
<1>11. ASSUME NEW q \in Request, Stuck(q) \/ Fail(q) PROVE CheckedUploadsWhole'
  BY <1>3, <1>11 DEF Stuck, Fail
<1>12. ASSUME NEW q \in Request, Hangup(q) \/ WaitForReaders(q) PROVE CheckedUploadsWhole'
  BY <1>12, <1>a DEF Hangup, WaitForReaders
<1>13. ASSUME Crash PROVE CheckedUploadsWhole'
  BY <1>13, <1>a DEF Crash, Idle
<1>14. ASSUME UNCHANGED vars PROVE CheckedUploadsWhole'
  BY <1>14, <1>a DEF vars
<1> QED
  BY Zenon, <1>1, <1>2, <1>5, <1>6, <1>7, <1>8, <1>9, <1>10, <1>11, <1>12, <1>13, <1>14
     DEF Next, Step

(* Whole uploads make whole blobs, and the row holds the session's count.  *)
LEMMA ChunkedBlobsStep ==
  ASSUME SeparateDigests, Hangups = {}, CInv, WholeInv, [Next]_vars
  PROVE  ChunkedBlobsWhole'
<1>t. TypeOK /\ OpenRequestsKnowCount /\ RequestsFollowProtocol
  BY DEF CInv
<1> USE UploadType
<1>1. ASSUME NEW q \in Request, RenameFile(q) PROVE ChunkedBlobsWhole'
  <2> DEFINE s == req[q].session
  <2>1. s \in Session /\ DigestOf[s] \in Digest
    BY <1>1, <1>t, RequestFields DEF RenameFile, At
  <2>2. blob' = [blob EXCEPT ![DigestOf[s]] = upload[s]] /\ UNCHANGED meta
    BY <1>1 DEF RenameFile
  <2>3. upload[s] \in {None, Final(s)}
    BY <1>1 DEF RenameFile, WholeInv, CheckedUploadsWhole
  <2>4. \A d \in Digest : blob'[d] = IF d = DigestOf[s] THEN upload[s] ELSE blob[d]
    BY <1>t, <2>1, <2>2 DEF TypeOK
  <2> QED
    BY <2>2, <2>3, <2>4 DEF WholeInv, ChunkedBlobsWhole, Chunked, Final
<1>2. ASSUME NEW q \in Request, CreateBlobMeta(q) PROVE ChunkedBlobsWhole'
  <2> DEFINE s == req[q].session
  <2>1. s \in Session /\ DigestOf[s] \in Digest
    BY <1>2, <1>t, RequestFields DEF CreateBlobMeta, At
  <2>2. meta' = [meta EXCEPT ![DigestOf[s]] = req[q].offset] /\ UNCHANGED blob
    BY <1>2 DEF CreateBlobMeta
  <2>3. req[q].offset = Final(s)
    BY <1>2 DEF CreateBlobMeta, At, WholeInv, CheckedUploadsWhole
  <2>4. \A d \in Digest : meta'[d] = IF d = DigestOf[s] THEN SizeOf[d] ELSE meta[d]
    BY <1>t, <2>1, <2>2, <2>3 DEF TypeOK, Final
  <2> QED
    BY <2>2, <2>4 DEF WholeInv, ChunkedBlobsWhole
<1>3. ASSUME NEW q \in Request, PutFile(q) PROVE ChunkedBlobsWhole'
  <2> DEFINE t == req[q].session
  <2>1. t \in Monolithic /\ DigestOf[t] \in Digest
    BY <1>3, <1>t, RequestFields DEF PutFile, At, RequestsFollowProtocol
  <2>2. UNCHANGED meta /\ \A d \in Digest : d = DigestOf[t] \/ blob'[d] = blob[d]
    BY <1>3, <1>t, <2>1 DEF PutFile, TypeOK
  <2>3. \A s \in Chunked : blob'[DigestOf[s]] = blob[DigestOf[s]]
    BY <2>1, <2>2 DEF SeparateDigests, Chunked
  <2> QED
    BY <2>2, <2>3 DEF WholeInv, ChunkedBlobsWhole
<1>4. ASSUME UNCHANGED <<meta, blob>> PROVE ChunkedBlobsWhole'
  BY <1>4 DEF WholeInv, ChunkedBlobsWhole
<1>5. ASSUME NEW q \in Request, WaitToCreate(q) PROVE ChunkedBlobsWhole'
  BY <1>4, <1>5 DEF WaitToCreate
<1> QED
  BY <1>t, <1>1, <1>2, <1>3, <1>4, <1>5, StepKinds

(* WholeInv holds of every reachable state.                                *)
THEOREM WholeInvariant ==
  ASSUME SeparateDigests, Hangups = {}
  PROVE  Spec => []WholeInv
<1>1. Init => WholeInv
  BY UploadType DEF Init, WholeInv, HandlersInTransaction, CheckedUploadsWhole,
     ChunkedBlobsWhole, ChunksWrittenFirst, LostChunksShow, At, Idle, Chunked
<1>2. CInv /\ WholeInv /\ [Next]_vars => WholeInv'
  BY HandlersInTransactionStep, ChunksAheadStep, CheckedUploadsStep, ChunkedBlobsStep
     DEF CInv, WholeInv
<1> QED
  BY <1>1, <1>2, CountsInvariant, PTL DEF Spec

(* A listed blob is whole, with any number of requests at work on its      *)
(* session, or on other sessions of the same digest, with failing writes,  *)
(* commits that fail unnoticed and crashes, as long as no client hangs up. *)
THEOREM ListedAreWhole ==
  ASSUME SeparateDigests, Hangups = {}
  PROVE  Spec => []ListedBlobsWhole
<1>1. RowsInv /\ WholeInv => ListedBlobsWhole
  BY DEF RowsInv, ListedInChunks, RowsHaveFiles, WholeInv, ChunkedBlobsWhole,
         ListedBlobsWhole, Final
<1> QED
  BY <1>1, RowsInvariant, WholeInvariant, PTL
=============================================================================
