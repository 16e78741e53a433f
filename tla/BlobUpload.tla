------------------------------ MODULE BlobUpload -----------------------------
(***************************************************************************)
(* Pushing the blobs of an image to the hosted registry: the upload part   *)
(* of registry/service.go and registry/handler.go, with its sessions and   *)
(* blobs in the database and its files in the storage.                     *)
(*                                                                         *)
(* A request opens a database transaction, reads its session, works on     *)
(* files, writes to the database and commits.  SQLite's shared cache lets  *)
(* transactions read side by side and keeps what one has read from being   *)
(* written by another, so a writer waits until it is alone.  While it      *)
(* waits no other connection writes, and no transaction begins.  A commit  *)
(* may fail, and the request is answered as if it had not.  The files are  *)
(* in no transaction: a request that fails leaves them as they are.  A     *)
(* storage call is one step here; FileStorage shows why it may be.         *)
(*                                                                         *)
(* Clients follow the protocol: a digest stands for one content, chunks    *)
(* come in order, each after the one before was acknowledged, and again if *)
(* no answer came.  All chunks have the same length, the unit of sizes.    *)
(* The namespace and the repository are there and known to the server.     *)
(***************************************************************************)
EXTENDS Integers

CONSTANTS Session, Digest, Request,
          DigestOf,     \* the digest each session uploads
          SizeOf,       \* its size
          Monolithic,   \* the sessions whose clients send the blob whole
          Hangups       \* the requests whose clients may close the connection early

ASSUME UploadType == /\ DigestOf \in [Session -> Digest]
                     /\ SizeOf \in [Digest -> Nat \ {0}]
                     /\ Monolithic \subseteq Session /\ Hangups \subseteq Request

VARIABLES received,   \* IMAGE_BLOB_UPLOAD_SESSION: BYTES_RECEIVED
          meta,       \* IMAGE_BLOB_META: the SIZE of each blob
          upload,     \* the size of the file of each session
          blob,       \* the size of the file of each digest
          acked,      \* what the client knows to be received
          lost,       \* history: sessions told of a chunk whose commit failed
          req,        \* requests under way
          open,       \* those whose transaction has read, and is open
          writer      \* the one whose write waits for the readers

vars == <<received, meta, upload, blob, acked, lost, req, open, writer>>

None == -1    \* no row, no file
Torn == -2    \* a size that is not a whole number of chunks

Idle == [kind |-> "none", step |-> "idle"]
Size == {None, Torn} \cup Nat

TypeOK ==
  /\ received \in [Session -> {None} \cup Nat]
  /\ meta \in [Digest -> {None} \cup Nat]
  /\ upload \in [Session -> Size]
  /\ blob \in [Digest -> Size]
  /\ acked \in [Session -> {None} \cup Nat]
  /\ req \in [Request -> {Idle} \cup
                [kind : {"initiate", "chunk", "last", "whole"},
                 step : {"insert", "read", "put", "update", "discard", "size", "rename",
                         "row", "create", "drop"},
                 session : Session, offset : Nat]]
  /\ lost \subseteq Session
  /\ open \subseteq Request
  /\ writer \subseteq Request

Init == /\ received = [s \in Session |-> None]
        /\ meta = [d \in Digest |-> None]
        /\ upload = [s \in Session |-> None]
        /\ blob = [d \in Digest |-> None]
        /\ acked = [s \in Session |-> None]
        /\ lost = {}
        /\ req = [q \in Request |-> Idle]
        /\ open = {}
        /\ writer = {}

-----------------------------------------------------------------------------
At(q, kind, step) == req[q].kind = kind /\ req[q].step = step
GoTo(q, step) == req' = [req EXCEPT ![q].step = step] /\ UNCHANGED <<open, writer>>

(* The answer, and the deferred commit or rollback.                        *)
Return_Open(q) ==   \* mutant: no rollback after a partial upload
  /\ req' = [req EXCEPT ![q] = Idle]
  /\ open' = IF At(q, "last", "size") THEN open ELSE open \ {q}
  /\ writer' = writer \ {q}

Return(q) == /\ req' = [req EXCEPT ![q] = Idle]
             /\ open' = open \ {q}
             /\ writer' = writer \ {q}

Writes(q) == req[q].step \in {"insert", "update", "drop"}

(* A write in the transaction of q: no other transaction is open.          *)
MayWrite(q) == open \subseteq {q} /\ writer \subseteq {q}

(* No transaction begins while a writer waits for others.                  *)
MayBegin == writer # {} => open \subseteq writer

Send(q, kind, step, s, offset) ==
  /\ req[q] = Idle
  /\ req' = [req EXCEPT ![q] = [kind |-> kind, step |-> step, session |-> s, offset |-> offset]]
  /\ UNCHANGED <<received, meta, upload, blob, acked, lost, open, writer>>

-----------------------------------------------------------------------------
initiateBlobUpload(q, s) ==
  /\ acked[s] = None /\ received[s] = None
  /\ \A p \in Request : req[p] # Idle => req[p].session # s
  /\ Send(q, "initiate", "insert", s, 0)

(* The transaction has read nothing before.  The client may miss the       *)
(* answer, or hear of a session whose commit failed.                       *)
CreateUploadSession(q) ==
  /\ At(q, "initiate", "insert") /\ MayWrite(q)
  /\ LET s == req[q].session
         answered == [acked EXCEPT ![s] = 0]
     IN \/ received' = [received EXCEPT ![s] = 0] /\ acked' \in {acked, answered}
        \/ UNCHANGED received /\ acked' = answered
  /\ Return(q)
  /\ UNCHANGED <<meta, upload, blob, lost>>

handleBlobChunk(q, s) == /\ s \notin Monolithic
                         /\ acked[s] \in 0 .. SizeOf[DigestOf[s]] - 1
                         /\ Send(q, "chunk", "read", s, acked[s])

handleLastBlobChunk(q, s) == /\ s \notin Monolithic
                             /\ acked[s] = SizeOf[DigestOf[s]]
                             /\ Send(q, "last", "read", s, acked[s])

handleBlob(q, s) == /\ s \in Monolithic
                    /\ acked[s] = 0
                    /\ Send(q, "whole", "read", s, 0)

(* verifyNamespaceRepositorySession, and what each kind of request does    *)
(* with the session found, whose count is n.  The offset of a chunk is the *)
(* client's, that of the last request is the count.                        *)
AfterRead(r, n) ==
  [r EXCEPT !.step = CASE r.kind = "last" -> "size"
                       [] r.kind = "whole" -> "put"
                       [] OTHER -> IF n = r.offset THEN "put" ELSE "discard",
            !.offset = IF r.kind = "last" THEN n ELSE @]

ReadSession(q) ==
  /\ req[q].step = "read" /\ MayBegin
  /\ LET n == received[req[q].session] IN
       IF n = None THEN Return(q)
       ELSE /\ req' = [req EXCEPT ![q] = AfterRead(@, n)]
            /\ open' = open \cup {q}
            /\ UNCHANGED writer
  /\ UNCHANGED <<received, meta, upload, blob, acked, lost>>

-----------------------------------------------------------------------------
(* uploadBlobChunk *)

(* PutFileChunk: at the end of the file or, for the first chunk, as a new  *)
(* file.  A file of another size is removed, and the request fails.        *)
PutFileChunk(q) ==
  /\ At(q, "chunk", "put")
  /\ LET s == req[q].session  n == req[q].offset IN
       \/ /\ upload[s] = n \/ (upload[s] = None /\ n = 0)
          /\ \/ upload' = [upload EXCEPT ![s] = n + 1] /\ GoTo(q, "update")
             \/ upload' = [upload EXCEPT ![s] = Torn] /\ Return(q)
       \/ /\ upload[s] \notin {n, None}
          /\ upload' = [upload EXCEPT ![s] = None]
          /\ Return(q)
  /\ UNCHANGED <<received, meta, blob, acked, lost>>

(* The client may miss the answer, or hear of a count whose commit failed. *)
UpdateUploadSession_NoTx(q) ==   \* mutant: outside of the transaction
  /\ At(q, "chunk", "update") /\ q \in open
  /\ LET s == req[q].session  n == req[q].offset + 1 IN
       /\ received' = [received EXCEPT ![s] = IF @ = None THEN None ELSE n]
       /\ acked' \in {acked, [acked EXCEPT ![s] = IF @ < n THEN n ELSE @]}
  /\ Return(q)
  /\ UNCHANGED <<meta, upload, blob, lost>>

UpdateUploadSession(q) ==
  /\ At(q, "chunk", "update") /\ q \in open /\ MayWrite(q)
  /\ LET s == req[q].session  n == req[q].offset + 1
         answered == [acked EXCEPT ![s] = IF @ < n THEN n ELSE @]
     IN \/ /\ received' = [received EXCEPT ![s] = n]
           /\ acked' \in {acked, answered}
           /\ UNCHANGED lost
        \/ /\ UNCHANGED received
           /\ acked' = answered
           /\ lost' = lost \cup {s}
  /\ Return(q)
  /\ UNCHANGED <<meta, upload, blob>>

(* A chunk out of order ends the upload.                                   *)
DiscardFile(q) ==
  /\ At(q, "chunk", "discard")
  /\ upload[req[q].session] # None
  /\ upload' = [upload EXCEPT ![req[q].session] = None]
  /\ GoTo(q, "drop")
  /\ UNCHANGED <<received, meta, blob, acked, lost>>

-----------------------------------------------------------------------------
(* handleLastBlobChunk *)

CheckSize(q) ==
  /\ At(q, "last", "size")
  /\ upload[req[q].session] # None
  /\ IF upload[req[q].session] = req[q].offset THEN GoTo(q, "rename") ELSE Return(q)
  /\ UNCHANGED <<received, meta, upload, blob, acked, lost>>

RenameFile_RowFirst(q) ==   \* mutant: the row comes before the file
  /\ At(q, "last", "rename")
  /\ meta[DigestOf[req[q].session]] = None
  /\ meta' = [meta EXCEPT ![DigestOf[req[q].session]] = req[q].offset]
  /\ GoTo(q, "row")
  /\ UNCHANGED <<received, upload, blob, acked, lost>>

RenameFile(q) ==
  /\ At(q, "last", "rename")
  /\ LET s == req[q].session IN
       /\ upload[s] # None
       /\ blob' = [blob EXCEPT ![DigestOf[s]] = upload[s]]
       /\ upload' = [upload EXCEPT ![s] = None]
  /\ GoTo(q, "row")
  /\ UNCHANGED <<received, meta, acked, lost>>

(* The row is created on a connection of its own, not in the transaction.  *)
(* A waiting writer keeps it from that, the one that waits for this very   *)
(* request too: SQLite does not know that both connections are one's.      *)
WaitToCreate(q) ==
  /\ At(q, "last", "row") /\ q \in open
  /\ writer # {}
  /\ GoTo(q, "create")
  /\ UNCHANGED <<received, meta, upload, blob, acked, lost>>

CreateBlobMeta(q) ==
  /\ \/ At(q, "last", "row") /\ q \in open
     \/ At(q, "last", "create")
  /\ writer = {}
  /\ LET d == DigestOf[req[q].session] IN
       /\ meta[d] = None
       /\ meta' = [meta EXCEPT ![d] = req[q].offset]
  /\ GoTo(q, "drop")
  /\ UNCHANGED <<received, upload, blob, acked, lost>>

-----------------------------------------------------------------------------
(* uploadBlobWhole: under the name of the digest, and without a row.       *)
PutFile_Listed(q) ==   \* mutant: listed, with the size of whatever was written
  /\ At(q, "whole", "put")
  /\ LET d == DigestOf[req[q].session] IN
       \E size \in {SizeOf[d], None, Torn} :
         /\ blob' = [blob EXCEPT ![d] = size]
         /\ meta' = [meta EXCEPT ![d] = size]
  /\ GoTo(q, "drop")
  /\ UNCHANGED <<received, upload, acked, lost>>

PutFile(q) ==
  /\ At(q, "whole", "put")
  /\ LET d == DigestOf[req[q].session] IN
       \/ blob' = [blob EXCEPT ![d] = SizeOf[d]] /\ GoTo(q, "drop")
       \/ blob' \in {[blob EXCEPT ![d] = None], [blob EXCEPT ![d] = Torn]} /\ Return(q)
  /\ UNCHANGED <<received, meta, upload, acked, lost>>

-----------------------------------------------------------------------------
(* The answer does not depend on the commit.                               *)
DeleteUploadSession(q) ==
  /\ req[q].step = "drop" /\ q \in open /\ MayWrite(q)
  /\ received' \in {received, [received EXCEPT ![req[q].session] = None]}
  /\ Return(q)
  /\ UNCHANGED <<meta, upload, blob, acked, lost>>

(* A writer that finds others reading waits for them.                      *)
WaitForReaders(q) ==
  /\ Writes(q) /\ (q \in open \/ At(q, "initiate", "insert"))
  /\ writer = {} /\ open \ {q} # {}
  /\ writer' = {q}
  /\ UNCHANGED <<received, meta, upload, blob, acked, lost, req, open>>

(* Waiting for a lock neither fails nor is cut short.                      *)
Blocked(q) == \/ q \in writer /\ open \ {q} # {}
              \/ At(q, "last", "create") /\ writer # {}

(* An error of the database or the storage.                                *)
Fail(q) ==
  /\ req[q] # Idle /\ ~Blocked(q)
  /\ Return(q)
  /\ UNCHANGED <<received, meta, upload, blob, acked, lost>>

(* What cannot go on fails: a file that is not there, a row that is, a     *)
(* transaction that is closed, and of writers waiting for each other one,  *)
(* as SQLite finds the deadlock.                                           *)
Stuck(q) ==
  /\ \/ At(q, "chunk", "put") /\ upload[req[q].session] = None /\ req[q].offset # 0
     \/ req[q].step \in {"discard", "size", "rename"} /\ upload[req[q].session] = None
     \/ /\ req[q].step \in {"row", "create"}
        /\ writer = {} /\ meta[DigestOf[req[q].session]] # None
     \/ req[q].step \in {"row", "update", "drop"} /\ q \notin open
     \/ /\ q \in open /\ writer # {} /\ open \cup writer # {q}
        /\ \A p \in open : Writes(p)
  /\ Return(q)
  /\ UNCHANGED <<received, meta, upload, blob, acked, lost>>

(* The context of a request whose client is gone is cancelled, and with it *)
(* the transaction is rolled back, while the handler runs on.              *)
Hangup(q) ==
  /\ q \in Hangups
  /\ q \in open /\ q \notin writer
  /\ open' = open \ {q}
  /\ UNCHANGED <<received, meta, upload, blob, acked, lost, req, writer>>

Crash ==
  /\ req' = [q \in Request |-> Idle]
  /\ open' = {} /\ writer' = {}
  /\ UNCHANGED <<received, meta, upload, blob, acked, lost>>

-----------------------------------------------------------------------------
Step(q) == \/ CreateUploadSession(q) \/ ReadSession(q)
           \/ PutFileChunk(q) \/ UpdateUploadSession(q) \/ DiscardFile(q)
           \/ CheckSize(q) \/ RenameFile(q) \/ WaitToCreate(q) \/ CreateBlobMeta(q)
           \/ PutFile(q)
           \/ DeleteUploadSession(q)
           \/ WaitForReaders(q)
           \/ Stuck(q)

Next ==
  \/ \E s \in Session, q \in Request : \/ initiateBlobUpload(q, s)
                                       \/ handleBlobChunk(q, s)
                                       \/ handleLastBlobChunk(q, s)
                                       \/ handleBlob(q, s)
  \/ \E q \in Request : Step(q) \/ Fail(q) \/ Hangup(q)
  \/ Crash

Spec == Init /\ [][Next]_vars

(* Waiting for a lock, whose end SQLite notifies of.                       *)
Locks(q) == \/ CreateUploadSession(q) \/ ReadSession(q) \/ UpdateUploadSession(q)
            \/ CreateBlobMeta(q) \/ DeleteUploadSession(q)

(* The server goes on with what it has begun, and who waits for a lock     *)
(* that is free again and again gets its turn.                             *)
FairSpec == Spec /\ \A q \in Request : WF_vars(Step(q)) /\ SF_vars(Locks(q))

-----------------------------------------------------------------------------
(* Properties *)

(* A blob that the registry lists has its file, whatever failed on the     *)
(* way: the row is the last thing made.                                    *)
RowsHaveFiles == \A d \in Digest : meta[d] # None => blob[d] # None

(* What a client was told is received stays received as long as its        *)
(* session: no request that began earlier turns the count back.  A commit  *)
(* that fails unnoticed is the only way to lose a chunk that was answered. *)
AcknowledgedCounted ==
  \A s \in Session \ lost : received[s] # None => acked[s] <= received[s]

(* A listed blob is whole, although between the check of the size and the  *)
(* renaming other requests of the same session may be at work on the file, *)
(* and although the session may count less than its client was told.       *)
ListedBlobsWhole ==
  \A d \in Digest : meta[d] # None => meta[d] = SizeOf[d] /\ blob[d] = SizeOf[d]

(* A writer waits for the transaction of a request, and the same request   *)
(* waits for the writer to create its row: nobody finds this circle.       *)
RowBehindWriter == \E p \in writer, q \in open : p # q /\ At(q, "last", "create")

(* Requests wait for each other for ever in that circle only.              *)
RequestsEnd == \A q \in Request : req[q] # Idle ~> req[q] = Idle \/ RowBehindWriter
=============================================================================
