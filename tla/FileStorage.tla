----------------------------- MODULE FileStorage -----------------------------
(***************************************************************************)
(* The local file storage, storage/lfs.go: writers of whole files, writers *)
(* of chunks, renames and deletions, step by step between taking and       *)
(* releasing their keys of the file lock.  Files are inodes under paths,   *)
(* as the operating system keeps them (an open file follows a rename); a   *)
(* file is the sequence of blocks written to it, a block the process that  *)
(* wrote it, or "torn" where a write failed half way.  Directories,        *)
(* permissions and the lock-free readers, which change nothing, are left   *)
(* out.                                                                    *)
(***************************************************************************)
EXTENDS Integers, Sequences, SequencesExt, KeyLock

CONSTANTS Path,       \* numbers in the order of the paths' strings
          Process,    \* goroutines; the data one writes is its name
          Renames,    \* the pairs <<from, to>> that may be renamed
          MaxBlocks,         \* bound: blocks in a file
          MaxRenamedBlocks   \* bound: the same, where files are renamed too

ASSUME StorageType == /\ Path \subseteq Nat /\ IsFiniteSet(Path) /\ IsFiniteSet(Process)
                      /\ Renames \subseteq {r \in Path \X Path : r[1] # r[2]}
                      /\ MaxBlocks \in Nat \ {0} /\ MaxRenamedBlocks \in 0..MaxBlocks

VARIABLES renames, \* those of Renames the server is asked for at all
          locks,   \* the keys of fileLocks
          dir,     \* the inode under each path, 0 for none
          data,    \* the blocks of each inode
          op       \* what each process is doing

vars == <<renames, locks, dir, data, op>>

(* Inodes under no path and open nowhere are used again.                   *)
Inode   == 1 .. Cardinality(Path) + Cardinality(Process)
Content == UNION {[1..n -> Process \cup {"torn"}] : n \in 0..MaxBlocks}

(* keys: paths to unlock at the end, in order from, to; fd: the open inode.*)
Idle == [kind |-> "none", step |-> "idle", keys |-> <<>>, offset |-> 0, fd |-> 0]

TypeOK ==
  /\ renames \subseteq Renames
  /\ locks \subseteq Path
  /\ dir \in [Path -> {0} \cup Inode]
  /\ data \in [Inode -> Content]
  /\ op \in [Process -> {Idle} \cup
               [kind : {"put", "chunk", "rename", "delete"},
                step : {"stat", "open", "write", "remove", "rename", "done", "failed"},
                keys : {<<x>> : x \in Path} \cup Renames,
                offset : 0 .. MaxBlocks - 1, fd : {0} \cup Inode]]

Init == /\ renames \in {{}, Renames}
        /\ locks = {}
        /\ dir = [x \in Path |-> 0]
        /\ data = [i \in Inode |-> <<>>]
        /\ op = [p \in Process |-> Idle]

-----------------------------------------------------------------------------
Keys(p) == ToSet(op[p].keys)
Target(p) == op[p].keys[1]
At(p, step) == op[p].step = step
(* No step leads from the open file but to those that are done with it.    *)
GoTo(p, step) == op' = [op EXCEPT ![p].step = step, ![p].fd = 0]

Task(kind, step, keys, offset) ==
  [kind |-> kind, step |-> step, keys |-> keys, offset |-> offset, fd |-> 0]

Free == {i \in Inode : (\A x \in Path : dir[x] # i) /\ \A p \in Process : op[p].fd # i}

(* The operating system forgets the data of inodes no longer in use.       *)
Discard == data' = [i \in Inode |-> IF i \in Free' THEN <<>> ELSE data[i]]

(* A write at an offset; what lies between the end and the offset is zero. *)
WriteAt(s, offset, block) ==
  [i \in 1 .. (IF Len(s) > offset THEN Len(s) ELSE offset + 1) |->
     IF i = offset + 1 THEN block ELSE IF i <= Len(s) THEN s[i] ELSE "torn"]

-----------------------------------------------------------------------------
(* PutFile, PutFileChunk, DeleteFile and RenameFile take their keys, or    *)
(* refuse.                                                                 *)

Start(p, x, task) ==
  /\ At(p, "idle")
  /\ Lockable(locks, x)
  /\ locks' = LockKey(locks, x)
  /\ op' = [op EXCEPT ![p] = task]
  /\ UNCHANGED <<dir, data>>

PutFile(p, x) == Start(p, x, Task("put", "open", <<x>>, 0))

PutFileChunk_Unlocked(p, x, offset) ==   \* mutant: the result of Lock is not looked at
  /\ At(p, "idle")
  /\ locks' = LockKey(locks, x)
  /\ op' = [op EXCEPT ![p] = Task("chunk", "stat", <<x>>, offset)]
  /\ UNCHANGED <<dir, data>>

PutFileChunk(p, x, offset) == Start(p, x, Task("chunk", "stat", <<x>>, offset))

DeleteFile(p, x) == Start(p, x, Task("delete", "remove", <<x>>, 0))

RenameFile(p, r) ==
  /\ At(p, "idle")
  /\ AtomicallyLockable(locks, ToSet(r))
  /\ locks' = LockKeys(locks, ToSet(r))
  /\ op' = [op EXCEPT ![p] = Task("rename", "rename", r, 0)]
  /\ UNCHANGED <<dir, data>>

-----------------------------------------------------------------------------
(* A chunk goes at the end of the file, or starts it.                      *)
Stat_SizeIgnored(p) ==   \* mutant: the offset is not compared to the size
  /\ At(p, "stat")
  /\ GoTo(p, IF dir[Target(p)] # 0 \/ op[p].offset = 0 THEN "open" ELSE "failed")
  /\ UNCHANGED <<locks, dir, data>>

Stat(p) ==
  /\ At(p, "stat")
  /\ LET x == Target(p) IN
       GoTo(p, IF dir[x] = 0 THEN IF op[p].offset = 0 THEN "open" ELSE "failed"
               ELSE IF Len(data[dir[x]]) # op[p].offset THEN "remove" ELSE "open")
  /\ UNCHANGED <<locks, dir, data>>

(* The file is created if need be; PutFile truncates it.                   *)
Open_Keeps(p) ==   \* mutant: PutFile opens without O_TRUNC
  /\ At(p, "open")
  /\ LET x == Target(p)
         i == IF dir[x] = 0 THEN CHOOSE j \in Free : TRUE ELSE dir[x]
     IN  /\ dir' = [dir EXCEPT ![x] = i]
         /\ data' = IF dir[x] = 0 THEN [data EXCEPT ![i] = <<>>] ELSE data
         /\ op' = [op EXCEPT ![p].step = "write", ![p].fd = i]
  /\ UNCHANGED locks

Open(p) ==
  /\ At(p, "open")
  /\ LET x   == Target(p)
         new == dir[x] = 0
         i   == IF new THEN CHOOSE j \in Free : TRUE ELSE dir[x]
     IN  /\ dir' = [dir EXCEPT ![x] = i]
         /\ data' = IF new \/ op[p].kind = "put" THEN [data EXCEPT ![i] = <<>>] ELSE data
         /\ op' = [op EXCEPT ![p].step = "write", ![p].fd = i]
  /\ UNCHANGED locks

Write_Appends(p) ==   \* mutant: O_APPEND in place of the seek
  /\ At(p, "write")
  /\ data' = [data EXCEPT ![op[p].fd] = Append(@, p)]
  /\ GoTo(p, "done")
  /\ UNCHANGED <<locks, dir>>

Write(p) ==
  /\ At(p, "write")
  /\ data' = [data EXCEPT ![op[p].fd] = WriteAt(@, op[p].offset, p)]
  /\ GoTo(p, "done")
  /\ UNCHANGED <<locks, dir>>

(* PutFile then removes the file; PutFileChunk leaves it as it is, for the *)
(* next chunk to find the wrong size.                                      *)
WriteFails(p) ==
  /\ At(p, "write")
  /\ data' \in {data, [data EXCEPT ![op[p].fd] = WriteAt(@, op[p].offset, "torn")]}
  /\ GoTo(p, IF op[p].kind = "put" THEN "remove" ELSE "failed")
  /\ UNCHANGED <<locks, dir>>

(* What is not there cannot be removed.                                    *)
RemoveFile(p) ==
  /\ At(p, "remove")
  /\ dir[Target(p)] # 0
  /\ dir' = [dir EXCEPT ![Target(p)] = 0]
  /\ GoTo(p, IF op[p].kind = "delete" THEN "done" ELSE "failed")
  /\ Discard
  /\ UNCHANGED locks

Rename(p) ==
  /\ At(p, "rename")
  /\ LET old == op[p].keys[1]  new == op[p].keys[2] IN
       /\ dir[old] # 0
       /\ dir' = [dir EXCEPT ![old] = 0, ![new] = dir[old]]
  /\ GoTo(p, "done")
  /\ Discard
  /\ UNCHANGED locks

(* An error of the operating system.                                       *)
Fail(p) ==
  /\ op[p].step \in {"stat", "open", "remove", "rename"}
  /\ GoTo(p, "failed")
  /\ UNCHANGED <<locks, dir, data>>

(* The deferred unlock and close.                                          *)
Return_Locked(p) ==   \* mutant: a failed operation keeps its keys
  /\ op[p].step \in {"done", "failed"}
  /\ locks' = IF At(p, "done") THEN UnlockKeys(locks, Keys(p)) ELSE locks
  /\ op' = [op EXCEPT ![p] = Idle]
  /\ UNCHANGED dir
  /\ Discard

Return(p) ==
  /\ op[p].step \in {"done", "failed"}
  /\ locks' = UnlockKeys(locks, Keys(p))
  /\ op' = [op EXCEPT ![p] = Idle]
  /\ UNCHANGED dir
  /\ Discard

(* The server stops: locks are memory, files are not.                      *)
Crash ==
  /\ locks' = {}
  /\ op' = [p \in Process |-> Idle]
  /\ UNCHANGED dir
  /\ Discard

-----------------------------------------------------------------------------
Step(p) == \/ Stat(p) \/ Open(p) \/ Write(p) \/ WriteFails(p) \/ RemoveFile(p)
           \/ Rename(p) \/ Fail(p) \/ Return(p)

Blocks == IF renames = {} THEN MaxBlocks ELSE MaxRenamedBlocks

Next ==
  /\ UNCHANGED renames
  /\ \/ \E p \in Process :
          \/ \E x \in Path : \/ PutFile(p, x) \/ DeleteFile(p, x)
                             \/ \E o \in 0 .. Blocks - 1 : PutFileChunk(p, x, o)
          \/ \E r \in renames : RenameFile(p, r)
          \/ Step(p)
     \/ Crash

Spec == Init /\ [][Next]_vars

(* An operation that took its keys runs to its end.                        *)
FairSpec == Spec /\ \A p \in Process : WF_vars(Step(p) /\ UNCHANGED renames)

-----------------------------------------------------------------------------
(* Properties *)

Active(p) == op[p] # Idle

(* No key outlives its operation, whatever failed: a path is never locked  *)
(* for ever.                                                               *)
LocksHaveOwners == \A x \in locks : \E p \in Process : Active(p) /\ x \in Keys(p)

(* A path is in the hands of one operation at a time.                      *)
OneOperationPerPath ==
  \A p, q \in Process : p # q /\ Active(p) /\ Active(q) => Keys(p) \cap Keys(q) = {}

(* The paths that are never renamed: a rename locks its two paths as one,  *)
(* and other operations do not see those keys as theirs.                   *)
Steady == Path \ UNION {{r[1], r[2]} : r \in renames}

(* A path that no rename touches is in the hands of one operation at a     *)
(* time, whatever is renamed beside it.                                    *)
OneOperationPerSteadyPath ==
  \A p, q \in Process :
    p # q /\ Active(p) /\ Active(q) => Keys(p) \cap Keys(q) \cap Steady = {}

(* What is under the steady paths, and the calls for them: a PutFile that  *)
(* removes its file has failed.                                            *)
files == [x \in Path |->
  IF dir[x] # 0 /\ x \in Steady THEN [exists |-> TRUE, blocks |-> data[dir[x]]]
  ELSE [exists |-> FALSE, blocks |-> <<>>]]

Answer(kind, step) ==
  CASE step = "done" -> "done"
    [] step = "failed" -> "failed"
    [] step = "remove" -> IF kind = "put" THEN "failed" ELSE "pending"
    [] OTHER -> "pending"

calls == [p \in Process |->
  IF Active(p) /\ Target(p) \in Steady
    THEN [kind |-> op[p].kind, path |-> Target(p), offset |-> op[p].offset,
          answer |-> Answer(op[p].kind, op[p].step)]
    ELSE [kind |-> "none"]]

Calls == INSTANCE StorageCalls WITH Offset <- 0 .. MaxBlocks - 1, file <- files, call <- calls

(* To its callers each operation on a path that is never renamed is a call *)
(* that has its effect at one moment, or fails; whatever is renamed beside *)
(* it, and wherever the server stops.                                      *)
CallsSpec == Calls!Spec

Completes(p) == ~At(p, "done") /\ op'[p].step = "done" /\ Target(p) \in Steady

WholeWrites ==
  \A p \in Process :
    /\ Completes(p) /\ op[p].kind = "put"
         => dir'[Target(p)] = op[p].fd /\ data'[op[p].fd] = <<p>>
    /\ Completes(p) /\ op[p].kind = "chunk"
         => dir'[Target(p)] = op[p].fd /\ data'[op[p].fd] = Append(data[op[p].fd], p)

(* A write to a path that is never renamed, and that reports success, is   *)
(* there, whole and alone: a file put holds nothing but the data, a chunk  *)
(* ends the file.                                                          *)
WritesLandWhole == [][WholeWrites]_vars

GrowsOnly ==
  \A x \in Steady :
    dir[x] # 0 /\ dir'[x] = dir[x] /\ data'[dir[x]] # data[dir[x]]
      => \/ \E p \in Process : op[p].kind = "put" /\ Target(p) = x
         \/ IsPrefix(data[dir[x]], data'[dir[x]])

(* On a path that is never renamed chunks overwrite nothing: only a PutFile*)
(* on that very path changes blocks already written.                       *)
ChunksAppend == [][GrowsOnly]_vars

(* Every path is unlocked again and again: a client that retries after     *)
(* "concurrent access denied" is not turned away for ever by one holder.   *)
KeysComeFree == \A x \in Path : []<>(x \notin locks)
=============================================================================
