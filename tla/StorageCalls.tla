---------------------------- MODULE StorageCalls ----------------------------
(***************************************************************************)
(* What the interface BlobStorage of storage/storage.go promises those who *)
(* write and delete files, however a call is cut into calls of the         *)
(* operating system: a path has one call at a time, and a call that        *)
(* succeeds has its effect at one moment, on what is under the path then.  *)
(* A call that fails says nothing, but only a PutFile, or a chunk whose    *)
(* offset is not the end of the file, loses what was there.                *)
(***************************************************************************)
EXTENDS Naturals, Sequences

CONSTANTS Path, Process,
          Offset   \* the offsets of chunks

VARIABLES file,   \* what is under each path
          call    \* what each process asks for, and the answer to it

vars == <<file, call>>

NoFile == [exists |-> FALSE, blocks |-> <<>>]
File(s) == [exists |-> TRUE, blocks |-> s]

NoCall == [kind |-> "none"]
Request == [kind : {"put", "chunk", "delete"}, path : Path, offset : Offset, answer : {"pending"}]

Calling == {p \in Process : call[p] # NoCall}

Init == /\ file = [x \in Path |-> NoFile]
        /\ call = [p \in Process |-> NoCall]

Here(p) == file[call[p].path]
AtEnd(p) == Here(p).exists /\ Len(Here(p).blocks) = call[p].offset

Pending(p, kinds) == call[p].kind \in kinds /\ call[p].answer = "pending"
Answer(p, answer) == call' = [call EXCEPT ![p].answer = answer]
Leave(p, f) == file' = [file EXCEPT ![call[p].path] = f]

(* A call for a path that has one already is refused, which is no step.    *)
Begin(p) ==
  /\ call'[p] \in Request
  /\ \A q \in Calling : call[q].path # call'[p].path
  /\ call' = [call EXCEPT ![p] = call'[p]]
  /\ UNCHANGED file

(* Before it writes, a PutFile empties its file, and a first chunk makes   *)
(* one; the readers, and the next start, may find it so.                   *)
Empty(p) ==
  /\ \/ Pending(p, {"put"})
     \/ Pending(p, {"chunk"}) /\ call[p].offset = 0 /\ Here(p) = NoFile
  /\ Leave(p, File(<<>>))
  /\ UNCHANGED call

PutFile(p) == Pending(p, {"put"}) /\ Answer(p, "done") /\ Leave(p, File(<<p>>))

PutFileChunk(p) ==
  /\ Pending(p, {"chunk"}) /\ AtEnd(p)
  /\ Answer(p, "done")
  /\ Leave(p, File(Append(Here(p).blocks, p)))

DeleteFile(p) ==
  /\ Pending(p, {"delete"}) /\ Here(p).exists
  /\ Answer(p, "done")
  /\ Leave(p, NoFile)

(* A file of the wrong size is taken for corrupted.                        *)
RemoveCorrupted(p) ==
  /\ Pending(p, {"chunk"}) /\ Here(p).exists /\ ~AtEnd(p)
  /\ Answer(p, "failed")
  /\ Leave(p, NoFile)

Fail(p) == Pending(p, {"put", "chunk", "delete"}) /\ Answer(p, "failed") /\ UNCHANGED file

(* A write ends half way, behind what is there.                            *)
Tear(p) ==
  /\ \/ Pending(p, {"put"}) /\ Here(p) = File(<<>>)
     \/ Pending(p, {"chunk"}) /\ AtEnd(p)
  /\ Answer(p, "failed")
  /\ Leave(p, File(Append(Here(p).blocks, "torn")))

(* A PutFile that failed removes its file if it can.                       *)
CleanUp(p) ==
  /\ call[p].kind = "put" /\ call[p].answer = "failed"
  /\ Leave(p, NoFile)
  /\ UNCHANGED call

Return(p) ==
  /\ call[p].answer \in {"done", "failed"}
  /\ call' = [call EXCEPT ![p] = NoCall]
  /\ UNCHANGED file

Crash == call' = [p \in Process |-> NoCall] /\ UNCHANGED file

Next ==
  \/ \E p \in Process \ Calling : Begin(p)
  \/ \E p \in Calling :
       \/ Empty(p) \/ PutFile(p) \/ PutFileChunk(p) \/ DeleteFile(p)
       \/ RemoveCorrupted(p) \/ Fail(p) \/ Tear(p) \/ CleanUp(p) \/ Return(p)
  \/ Crash

Spec == Init /\ [][Next]_vars
=============================================================================
