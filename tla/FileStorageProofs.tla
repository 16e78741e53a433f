-------------------------- MODULE FileStorageProofs --------------------------
(***************************************************************************)
(* Proofs about FileStorage, for any paths, any renames, any number of     *)
(* processes and blocks: what the keys protect, that a write to a path     *)
(* that is never renamed lands whole, and that the operations on such a    *)
(* path are the calls of StorageCalls.                                     *)
(***************************************************************************)
EXTENDS FileStorage, FiniteSetTheorems, SequenceTheorems, TLAPS

Block == Process \cup {"torn"}

Steps == {"stat", "open", "write", "remove", "rename", "done", "failed"}

Tasks == [kind : {"put", "chunk", "rename", "delete"}, step : Steps,
          keys : {<<x>> : x \in Path} \cup Renames,
          offset : 0 .. MaxBlocks - 1, fd : {0} \cup Inode]

-----------------------------------------------------------------------------
(* The inductive invariant of the keys *)

(* What each kind of operation has before it, and which of them have a     *)
(* file open.                                                              *)
OpsShaped ==
  \A p \in Process : Active(p) =>
    /\ IF op[p].kind = "rename"
         THEN op[p].keys \in renames /\ op[p].step \in {"rename", "done", "failed"}
         ELSE op[p].keys \in {<<x>> : x \in Path} /\ op[p].step # "rename"
    /\ op[p].kind = "put" => op[p].offset = 0
    /\ op[p].step \in {"open", "write"} => op[p].kind \in {"put", "chunk"}
    /\ op[p].step = "stat" => op[p].kind = "chunk"
    /\ op[p].step = "write" <=> op[p].fd # 0

(* No file is under two paths.                                             *)
OnePathPerFile == \A x, y \in Path : dir[x] # 0 /\ dir[x] = dir[y] => x = y

(* The paths that are never renamed are locked by whoever works on them.   *)
SteadyLocked == \A p \in Process : Active(p) => Keys(p) \cap Steady \subseteq locks

KeysInv == LocksHaveOwners /\ SteadyLocked /\ OneOperationPerSteadyPath

FInv == TypeOK /\ OpsShaped /\ OnePathPerFile /\ KeysInv

-----------------------------------------------------------------------------
(* What a writer can count on *)

(* The file a writer has open is under no steady path but its own.         *)
OpenBelowTarget(p) ==
  At(p, "write") => \A x \in Steady : dir[x] = op[p].fd => x = Target(p)

(* A writer of a steady path has the very file open that is there: empty   *)
(* for PutFile, of the size that PutFileChunk has checked.                 *)
WriterReady(p) ==
  At(p, "write") /\ Target(p) \in Steady =>
    /\ dir[Target(p)] = op[p].fd
    /\ op[p].kind = "put" => data[op[p].fd] = <<>>
    /\ op[p].kind = "chunk" => Len(data[op[p].fd]) = op[p].offset

(* PutFileChunk checked the size, and nobody has changed it since.         *)
SizeStillRight(p) ==
  At(p, "open") /\ op[p].kind = "chunk" /\ Target(p) \in Steady =>
    IF dir[Target(p)] = 0 THEN op[p].offset = 0
    ELSE Len(data[dir[Target(p)]]) = op[p].offset

WritersInv ==
  \A p \in Process : OpenBelowTarget(p) /\ WriterReady(p) /\ SizeStillRight(p)

-----------------------------------------------------------------------------
(* Files, keys, and an inode for every new file *)

(* The content of a file is a sequence of at most MaxBlocks blocks.        *)
LEMMA Contents == Content = {s \in Seq(Block) : Len(s) <= MaxBlocks}
<1>1. ASSUME NEW s \in Content PROVE s \in Seq(Block) /\ Len(s) <= MaxBlocks
  <2>1. PICK n \in 0..MaxBlocks : s \in [1..n -> Block]
    BY DEF Content, Block
  <2> QED
    BY <2>1, StorageType
<1>2. ASSUME NEW s \in Seq(Block), Len(s) <= MaxBlocks PROVE s \in Content
  <2>1. Len(s) \in 0..MaxBlocks /\ s \in [1..Len(s) -> Block]
    BY <1>2, StorageType
  <2> QED
    BY <2>1 DEF Content, Block
<1> QED
  BY <1>1, <1>2

(* A write within the bound gives content again.                           *)
LEMMA WriteAtContent ==
  ASSUME NEW s \in Content, NEW offset \in 0 .. MaxBlocks - 1, NEW block \in Block
  PROVE  WriteAt(s, offset, block) \in Content
<1> DEFINE n == IF Len(s) > offset THEN Len(s) ELSE offset + 1
<1>1. s \in Seq(Block) /\ Len(s) <= MaxBlocks
  BY Contents
<1>2. n \in 0..MaxBlocks
  BY <1>1, StorageType
<1>3. \A i \in 1..n : (IF i = offset + 1 THEN block ELSE IF i <= Len(s) THEN s[i] ELSE "torn") \in Block
  <2> SUFFICES ASSUME NEW i \in 1..n, i <= Len(s) PROVE s[i] \in Block
    BY DEF Block
  <2> QED
    BY <1>1, <1>2
<1>4. WriteAt(s, offset, block) \in [1..n -> Block]
  BY <1>3 DEF WriteAt
<1> QED
  BY <1>2, <1>4 DEF Content, Block

(* A write at the end of the file appends.                                 *)
LEMMA WriteAtEnd ==
  ASSUME NEW s \in Content, NEW block \in Block
  PROVE  WriteAt(s, Len(s), block) = Append(s, block)
<1>1. s \in Seq(Block) /\ Len(s) \in Nat
  BY Contents
<1> DEFINE t == Append(s, block)
<1>2. /\ t \in Seq(Block) /\ Len(t) = Len(s) + 1
      /\ \A i \in 1 .. Len(s) + 1 : t[i] = IF i = Len(s) + 1 THEN block ELSE s[i]
  BY <1>1
<1> HIDE DEF t
<1>3. t \in [1 .. Len(s) + 1 -> Block]
  BY <1>2, LenProperties
<1>4. WriteAt(s, Len(s), block)
        = [i \in 1 .. Len(s) + 1 |->
             IF i = Len(s) + 1 THEN block ELSE IF i <= Len(s) THEN s[i] ELSE "torn"]
  BY <1>1 DEF WriteAt
<1>5. \A i \in 1 .. Len(s) + 1 : i # Len(s) + 1 => i <= Len(s)
  BY <1>1
<1>6. t = [i \in 1 .. Len(s) + 1 |->
             IF i = Len(s) + 1 THEN block ELSE IF i <= Len(s) THEN s[i] ELSE "torn"]
  BY <1>2, <1>3, <1>5
<1> QED
  BY <1>4, <1>6 DEF t

(* Who appends, extends what is there.                                     *)
LEMMA AppendKeepsPrefix ==
  ASSUME NEW s \in Content, NEW block \in Block
  PROVE  IsPrefix(s, Append(s, block))
<1>1. s \in Seq(Block) /\ Len(s) \in Nat
  BY Contents
<1>2. Append(s, block) \in Seq(Block) /\ Len(Append(s, block)) = Len(s) + 1
        /\ \A i \in 1 .. Len(s) : Append(s, block)[i] = s[i]
  BY <1>1
<1>3. SubSeq(s, 1, Len(s)) = SubSeq(Append(s, block), 1, Len(s))
  BY <1>1, <1>2
<1> QED
  BY <1>1, <1>2, <1>3 DEF IsPrefix

(* The keys of an operation: a rename has two, of no steady path, the      *)
(* others have one.                                                        *)
LEMMA KeysOf ==
  ASSUME TypeOK, OpsShaped, NEW p \in Process, Active(p)
  PROVE  /\ Keys(p) \subseteq Path /\ Target(p) \in Path
         /\ IF op[p].kind = "rename" THEN Keys(p) \cap Steady = {} /\ Target(p) \notin Steady
            ELSE Keys(p) = {Target(p)}
<1>1. CASE op[p].kind = "rename"
  <2>1. PICK r \in renames : op[p].keys = r
    BY <1>1 DEF OpsShaped
  <2>2. r \in Path \X Path
    BY <2>1, StorageType DEF TypeOK
  <2>3. PICK x \in Path, y \in Path : r = <<x, y>>
    BY <2>2
  <2>4. r[1] = x /\ r[2] = y /\ ToSet(r) = {x, y}
    BY <2>3 DEF ToSet
  <2>5. {x, y} \cap Steady = {}
    BY <2>1, <2>4 DEF Steady
  <2> QED
    BY <1>1, <2>1, <2>4, <2>5 DEF Keys, Target
<1>2. CASE op[p].kind # "rename"
  <2>1. PICK x \in Path : op[p].keys = <<x>>
    BY <1>2 DEF OpsShaped
  <2>2. ToSet(<<x>>) = {x} /\ <<x>>[1] = x
    BY DEF ToSet
  <2> QED
    BY <1>2, <2>1, <2>2 DEF Keys, Target
<1> QED
  BY <1>1, <1>2

(* There are inodes enough: each path uses one at most, and each process.  *)
LEMMA FreeInode ==
  ASSUME TypeOK, NEW p \in Process, op[p].fd = 0, NEW x \in Path, dir[x] = 0
  PROVE  Free # {}
<1> SUFFICES ASSUME Free = {} PROVE FALSE
  OBVIOUS
<1> DEFINE Named  == {y \in Path : dir[y] # 0}
           Users  == {q \in Process : op[q].fd # 0}
           Below  == {dir[y] : y \in Named}
           Opened == {op[q].fd : q \in Users}
<1>1. /\ IsFiniteSet(Path) /\ IsFiniteSet(Process)
      /\ Cardinality(Path) \in Nat /\ Cardinality(Process) \in Nat
  BY StorageType, FS_CardinalityType
<1>2. /\ IsFiniteSet(Below) /\ Cardinality(Below) <= Cardinality(Path) - 1
      /\ Cardinality(Below) \in Nat
  <2>1. /\ IsFiniteSet(Path \ {x})
        /\ Cardinality(Path \ {x}) = Cardinality(Path) - 1
    BY <1>1, FS_RemoveElement
  <2>2. Named \in SUBSET (Path \ {x})
    OBVIOUS
  <2>3. /\ IsFiniteSet(Named) /\ Cardinality(Named) <= Cardinality(Path) - 1
        /\ Cardinality(Named) \in Nat
    BY <2>1, <2>2, FS_Subset, FS_CardinalityType
  <2>4. [y \in Named |-> dir[y]] \in Surjection(Named, Below)
    BY DEF Surjection
  <2>5. IsFiniteSet(Below) /\ Cardinality(Below) <= Cardinality(Named)
    BY <2>3, <2>4, FS_Surjection
  <2>6. Cardinality(Below) \in Nat
    BY <2>5, FS_CardinalityType
  <2> QED
    BY <1>1, <2>3, <2>5, <2>6
<1>3. /\ IsFiniteSet(Opened) /\ Cardinality(Opened) <= Cardinality(Process) - 1
      /\ Cardinality(Opened) \in Nat
  <2>1. /\ IsFiniteSet(Process \ {p})
        /\ Cardinality(Process \ {p}) = Cardinality(Process) - 1
    BY <1>1, FS_RemoveElement
  <2>2. Users \in SUBSET (Process \ {p})
    OBVIOUS
  <2>3. /\ IsFiniteSet(Users) /\ Cardinality(Users) <= Cardinality(Process) - 1
        /\ Cardinality(Users) \in Nat
    BY <2>1, <2>2, FS_Subset, FS_CardinalityType
  <2>4. [q \in Users |-> op[q].fd] \in Surjection(Users, Opened)
    BY DEF Surjection
  <2>5. IsFiniteSet(Opened) /\ Cardinality(Opened) <= Cardinality(Users)
    BY <2>3, <2>4, FS_Surjection
  <2>6. Cardinality(Opened) \in Nat
    BY <2>5, FS_CardinalityType
  <2> QED
    BY <1>1, <2>3, <2>5, <2>6
<1>4. \A i \in Inode : i # 0
  BY DEF Inode
<1>5. Inode \subseteq Below \cup Opened
  BY <1>4 DEF Free
<1> HIDE DEF Below, Opened
<1>6. /\ IsFiniteSet(Below \cup Opened)
      /\ Cardinality(Below \cup Opened)
           = Cardinality(Below) + Cardinality(Opened) - Cardinality(Below \cap Opened)
  BY <1>2, <1>3, FS_Union
<1>7. Cardinality(Below \cap Opened) \in Nat
  BY <1>2, FS_Intersection, FS_CardinalityType
<1>8. Cardinality(Inode) = Cardinality(Path) + Cardinality(Process)
  BY <1>1, FS_Interval DEF Inode
<1>9. Cardinality(Inode) <= Cardinality(Below \cup Opened)
  BY <1>5, <1>6, FS_Subset
<1> QED
  BY <1>1, <1>2, <1>3, <1>6, <1>7, <1>8, <1>9

(* GoTo, with the file that is open afterwards.                            *)
MovesTo(p, step, fd) == op' = [op EXCEPT ![p].step = step, ![p].fd = fd]

(* A step within an operation moves one process on, and leaves it its      *)
(* keys.                                                                   *)
LEMMA Moves ==
  ASSUME TypeOK, NEW p \in Process, Active(p), NEW step \in Steps, NEW fd \in {0} \cup Inode,
         MovesTo(p, step, fd)
  PROVE  /\ op' \in [Process -> {Idle} \cup Tasks]
         /\ Active(p)' /\ op'[p].step = step /\ op'[p].fd = fd
         /\ op'[p].kind = op[p].kind /\ op'[p].keys = op[p].keys /\ op'[p].offset = op[p].offset
         /\ \A q \in Process \ {p} : op'[q] = op[q]
<1> DEFINE new == [op[p] EXCEPT !.step = step, !.fd = fd]
<1>1. op \in [Process -> {Idle} \cup Tasks] /\ op[p] \in Tasks
  BY DEF TypeOK, Active, Tasks, Steps
<1>2. /\ new \in Tasks /\ new.step = step /\ new.fd = fd
      /\ new.kind = op[p].kind /\ new.keys = op[p].keys /\ new.offset = op[p].offset
  BY <1>1 DEF Tasks
<1>3. op' = [op EXCEPT ![p] = new]
  BY <1>1 DEF Tasks, MovesTo
<1> HIDE DEF new
<1>4. op'[p] = new /\ \A q \in Process \ {p} : op'[q] = op[q]
  BY <1>1, <1>3
<1>5. op' \in [Process -> {Idle} \cup Tasks]
  BY <1>1, <1>2, <1>3
<1>6. new # Idle
  BY <1>2 DEF Tasks, Idle
<1> QED
  BY <1>2, <1>4, <1>5, <1>6 DEF Active

(* Type correctness, by the names of the sets.                             *)
LEMMA Typed ==
  ASSUME TypeOK
  PROVE  /\ dir \in [Path -> {0} \cup Inode] /\ data \in [Inode -> Content]
         /\ op \in [Process -> {Idle} \cup Tasks]
         /\ \A p \in Process : Active(p) <=> op[p].step # "idle"
         /\ \A p \in Process : Active(p) => op[p] \in Tasks
BY DEF TypeOK, Tasks, Steps, Active, Idle

-----------------------------------------------------------------------------
(* Type correctness and the keys *)

(* The empty file is content, and so is everything after Discard.          *)
LEMMA Discarded ==
  ASSUME TypeOK
  PROVE  <<>> \in Content /\ (Discard => data' \in [Inode -> Content])
<1>1. <<>> \in Content
  BY Contents, StorageType
<1> QED
  BY <1>1 DEF Discard, TypeOK

(* An operation starts with its keys, of which no steady one was locked.   *)
LEMMA Started ==
  ASSUME FInv, renames' = renames, NEW p \in Process, At(p, "idle"), NEW task \in Tasks,
         op' = [op EXCEPT ![p] = task], dir' = dir, data' = data,
         task.fd = 0,
         \/ /\ task.keys \in renames /\ task.kind = "rename" /\ task.step = "rename"
         \/ /\ \E x \in Path : task.keys = <<x>>
            /\ \/ task.kind = "put" /\ task.step = "open" /\ task.offset = 0
               \/ task.kind = "chunk" /\ task.step = "stat"
               \/ task.kind = "delete" /\ task.step = "remove",
         locks \subseteq locks', locks' \subseteq locks \cup ToSet(task.keys), locks' \subseteq Path,
         ToSet(task.keys) \cap Steady \subseteq locks' \ locks
  PROVE  FInv'
<1>1. /\ TypeOK /\ OpsShaped /\ OnePathPerFile
      /\ LocksHaveOwners /\ SteadyLocked /\ OneOperationPerSteadyPath
  BY DEF FInv, KeysInv
<1>2. ~Active(p) /\ op'[p] = task /\ task # Idle /\ \A q \in Process \ {p} : op'[q] = op[q]
  BY <1>1, Typed DEF At, Tasks, Idle
<1>3. Active(p)' /\ Keys(p)' = ToSet(task.keys)
  BY <1>2 DEF Active, Keys
<1>4. \A q \in Process \ {p} : (Active(q)' <=> Active(q)) /\ Keys(q)' = Keys(q)
  BY <1>2 DEF Active, Keys
<1>5. Steady' = Steady
  BY DEF Steady
<1>6. TypeOK'
  BY <1>1, Typed DEF TypeOK, Tasks, Steps
<1>7. OpsShaped'
  BY <1>1, <1>2, <1>4 DEF OpsShaped
<1>8. OnePathPerFile'
  BY <1>1 DEF OnePathPerFile
<1>9. LocksHaveOwners'
  BY <1>1, <1>2, <1>3, <1>4 DEF LocksHaveOwners
<1>10. SteadyLocked'
  BY <1>1, <1>3, <1>4, <1>5 DEF SteadyLocked
<1>11. OneOperationPerSteadyPath'
  BY <1>1, <1>3, <1>4, <1>5 DEF OneOperationPerSteadyPath, SteadyLocked
<1> QED
  BY <1>6, <1>7, <1>8, <1>9, <1>10, <1>11 DEF FInv, KeysInv

(* An operation moves on with its keys.                                    *)
LEMMA Advanced ==
  ASSUME FInv, renames' = renames, locks' = locks, NEW p \in Process, Active(p),
         NEW step \in Steps, NEW fd \in {0} \cup Inode,
         MovesTo(p, step, fd),
         dir' \in [Path -> {0} \cup Inode], data' \in [Inode -> Content], OnePathPerFile',

         op[p].kind = "rename" => step \in {"done", "failed"},
         op[p].kind # "rename" => step # "rename",
         step \in {"open", "write"} => op[p].kind \in {"put", "chunk"},
         step # "stat",
         step = "write" <=> fd # 0
  PROVE  FInv'
<1>1. /\ TypeOK /\ OpsShaped
      /\ LocksHaveOwners /\ SteadyLocked /\ OneOperationPerSteadyPath
  BY DEF FInv, KeysInv
<1>2. /\ op' \in [Process -> {Idle} \cup Tasks]
      /\ Active(p)' /\ op'[p].step = step /\ op'[p].fd = fd
      /\ op'[p].kind = op[p].kind /\ op'[p].keys = op[p].keys /\ op'[p].offset = op[p].offset
      /\ \A q \in Process \ {p} : op'[q] = op[q]
  BY <1>1, Moves
<1>3. \A q \in Process : (Active(q)' <=> Active(q)) /\ Keys(q)' = Keys(q)
  BY <1>2 DEF Active, Keys
<1>4. Steady' = Steady
  BY DEF Steady
<1>5. TypeOK'
  BY <1>1, <1>2 DEF TypeOK, Tasks, Steps
<1>6. OpsShaped'
  <2> SUFFICES ASSUME NEW q \in Process, Active(q)'
               PROVE  /\ IF op'[q].kind = "rename"
                           THEN op'[q].keys \in renames' /\ op'[q].step \in {"rename", "done", "failed"}
                           ELSE op'[q].keys \in {<<x>> : x \in Path} /\ op'[q].step # "rename"
                      /\ op'[q].kind = "put" => op'[q].offset = 0
                      /\ op'[q].step \in {"open", "write"} => op'[q].kind \in {"put", "chunk"}
                      /\ op'[q].step = "stat" => op'[q].kind = "chunk"
                      /\ op'[q].step = "write" <=> op'[q].fd # 0
    BY DEF OpsShaped
  <2>1. CASE q = p
    BY <1>1, <1>2, <2>1 DEF OpsShaped
  <2>2. CASE q # p
    BY <1>1, <1>2, <1>3, <2>2 DEF OpsShaped
  <2> QED
    BY <2>1, <2>2
<1>7. LocksHaveOwners'
  BY <1>1, <1>3 DEF LocksHaveOwners
<1>8. SteadyLocked'
  BY <1>1, <1>3, <1>4 DEF SteadyLocked
<1>9. OneOperationPerSteadyPath'
  BY <1>1, <1>3, <1>4 DEF OneOperationPerSteadyPath
<1> QED
  BY <1>5, <1>6, <1>7, <1>8, <1>9 DEF FInv, KeysInv

(* Open, by what it leaves behind: a new file is an inode nobody has.      *)
LEMMA Opened ==
  ASSUME FInv, NEW p \in Process, Open(p)
  PROVE  /\ Active(p) /\ op[p].step = "open" /\ op[p].kind \in {"put", "chunk"}
         /\ Target(p) \in Path /\ locks' = locks
         /\ \E i \in Inode :
              /\ MovesTo(p, "write", i)
              /\ dir' = [dir EXCEPT ![Target(p)] = i]
              /\ IF dir[Target(p)] = 0 THEN i \in Free ELSE i = dir[Target(p)]
              /\ data' = IF dir[Target(p)] = 0 \/ op[p].kind = "put"
                           THEN [data EXCEPT ![i] = <<>>] ELSE data
<1>1. TypeOK /\ OpsShaped
  BY DEF FInv
<1>2. Active(p) /\ op[p].step = "open" /\ op[p].fd = 0 /\ op[p].kind \in {"put", "chunk"}
  BY <1>1, Typed DEF Open, At, OpsShaped
<1>3. Target(p) \in Path
  BY <1>1, <1>2, KeysOf
<1> DEFINE i == IF dir[Target(p)] = 0 THEN CHOOSE j \in Free : TRUE ELSE dir[Target(p)]
<1>4. IF dir[Target(p)] = 0 THEN i \in Free ELSE i = dir[Target(p)]
  BY <1>1, <1>2, <1>3, FreeInode
<1>5. i \in Inode
  BY <1>1, <1>3, <1>4, Typed DEF Free
<1>6. /\ MovesTo(p, "write", i)
      /\ dir' = [dir EXCEPT ![Target(p)] = i]
      /\ data' = IF dir[Target(p)] = 0 \/ op[p].kind = "put"
                   THEN [data EXCEPT ![i] = <<>>] ELSE data
      /\ locks' = locks
  BY DEF Open, MovesTo
<1> HIDE DEF i
<1> QED
  BY <1>2, <1>3, <1>4, <1>5, <1>6

(* Who writes has an open file.                                            *)
LEMMA Writer ==
  ASSUME TypeOK, OpsShaped, NEW p \in Process, At(p, "write")
  PROVE  /\ Active(p) /\ op[p].fd \in Inode /\ op[p].kind \in {"put", "chunk"}
         /\ op[p].offset \in 0 .. MaxBlocks - 1 /\ data[op[p].fd] \in Content
         /\ op[p].kind = "put" => op[p].offset = 0
         /\ Keys(p) = {Target(p)} /\ Target(p) \in Path
<1>1. Active(p) /\ op[p] \in Tasks
  BY Typed DEF At
<1>2. /\ op[p].fd \in Inode /\ op[p].kind \in {"put", "chunk"}
      /\ op[p].kind = "put" => op[p].offset = 0
  BY <1>1 DEF OpsShaped, At, Tasks
<1> QED
  BY <1>1, <1>2, KeysOf, Typed DEF Tasks

(* FInv is inductive.                                                      *)
LEMMA FInvStep == FInv /\ [Next]_vars => FInv'
<1> SUFFICES ASSUME FInv, [Next]_vars PROVE FInv'
  OBVIOUS
<1>t. /\ TypeOK /\ OpsShaped /\ OnePathPerFile
      /\ LocksHaveOwners /\ SteadyLocked /\ OneOperationPerSteadyPath
      /\ dir \in [Path -> {0} \cup Inode] /\ data \in [Inode -> Content]
      /\ op \in [Process -> {Idle} \cup Tasks] /\ locks \subseteq Path
  BY Typed DEF FInv, KeysInv, TypeOK
<1>u. renames' = renames
  BY DEF Next, vars
<1>a. \A p \in Process : Active(p) <=> op[p].step # "idle"
  BY <1>t, Typed
<1>1. ASSUME NEW p \in Process, NEW x \in Path,
             \/ PutFile(p, x) \/ DeleteFile(p, x)
             \/ \E o \in 0 .. Blocks - 1 : PutFileChunk(p, x, o)
      PROVE  FInv'
  <2>1. ASSUME NEW task \in Tasks, Start(p, x, task), task.keys = <<x>>, task.fd = 0,
               \/ task.kind = "put" /\ task.step = "open" /\ task.offset = 0
               \/ task.kind = "chunk" /\ task.step = "stat"
               \/ task.kind = "delete" /\ task.step = "remove"
        PROVE  FInv'
    <3>1. /\ At(p, "idle") /\ x \notin locks /\ locks' = locks \cup {x}
          /\ op' = [op EXCEPT ![p] = task] /\ dir' = dir /\ data' = data
      BY <2>1 DEF Start, Lockable, LockKey
    <3>2. ToSet(task.keys) = {x}
      BY <2>1 DEF ToSet
    <3> QED
      BY <1>t, <1>u, <2>1, <3>1, <3>2, Started
  <2>2. Blocks - 1 <= MaxBlocks - 1 /\ 0 \in 0 .. MaxBlocks - 1
    BY StorageType DEF Blocks
  <2>3. \A o \in 0 .. Blocks - 1 : o \in 0 .. MaxBlocks - 1
    BY <2>2, StorageType DEF Blocks
  <2>4. CASE PutFile(p, x)
    <3>1. PICK task \in Tasks : task = Task("put", "open", <<x>>, 0)
      BY <2>2 DEF Task, Tasks, Steps
    <3> QED
      BY <2>1, <2>4, <3>1 DEF PutFile, Task
  <2>5. CASE DeleteFile(p, x)
    <3>1. PICK task \in Tasks : task = Task("delete", "remove", <<x>>, 0)
      BY <2>2 DEF Task, Tasks, Steps
    <3> QED
      BY <2>1, <2>5, <3>1 DEF DeleteFile, Task
  <2>6. ASSUME NEW o \in 0 .. Blocks - 1, PutFileChunk(p, x, o) PROVE FInv'
    <3>1. PICK task \in Tasks : task = Task("chunk", "stat", <<x>>, o)
      BY <2>3 DEF Task, Tasks, Steps
    <3> QED
      BY <2>1, <2>6, <3>1 DEF PutFileChunk, Task
  <2> QED
    BY <1>1, <2>4, <2>5, <2>6
(* The keys of a rename are no steady paths, whether it got them or not.   *)
<1>2. ASSUME NEW p \in Process, NEW r \in renames, RenameFile(p, r) PROVE FInv'
  <2>1. r \in Renames /\ r \in Path \X Path
    BY <1>t, StorageType DEF TypeOK
  <2>2. PICK task \in Tasks : task = Task("rename", "rename", r, 0)
    <3>1. 0 \in 0 .. MaxBlocks - 1
      BY StorageType
    <3> QED
      BY <2>1, <3>1 DEF Task, Tasks, Steps
  <2>3. task.keys = r /\ task.kind = "rename" /\ task.step = "rename" /\ task.fd = 0
    BY <2>2 DEF Task
  <2>4. ToSet(r) = {r[1], r[2]}
    <3>1. PICK x \in Path, y \in Path : r = <<x, y>>
      BY <2>1
    <3> QED
      BY <3>1 DEF ToSet
  <2>5. ToSet(r) \subseteq Path /\ ToSet(r) \cap Steady = {}
    BY <2>1, <2>4 DEF Steady
  <2>6. /\ At(p, "idle") /\ locks' \in {locks, locks \cup ToSet(r)}
        /\ op' = [op EXCEPT ![p] = task] /\ dir' = dir /\ data' = data
    BY <1>2, <2>2 DEF RenameFile, LockKeys
  <2> QED
    BY <1>t, <1>u, <2>3, <2>5, <2>6, Started
<1>3. ASSUME NEW p \in Process, Stat(p) \/ Fail(p) PROVE FInv'
  <2>1. /\ Active(p) /\ op[p].step \in {"stat", "open", "remove", "rename"}
        /\ locks' = locks /\ dir' = dir /\ data' = data
    BY <1>3, <1>a DEF Stat, Fail, At
  <2>2. PICK step \in {"open", "remove", "failed"} : GoTo(p, step) /\ (step # "failed" => op[p].step = "stat")
    BY <1>3 DEF Stat, Fail, At
  <2>3. /\ MovesTo(p, step, 0) /\ step \in Steps /\ OnePathPerFile'
        /\ step # "failed" => op[p].kind = "chunk"
    BY <1>t, <2>1, <2>2 DEF GoTo, MovesTo, Steps, OnePathPerFile, OpsShaped
  <2> QED
    BY <1>t, <1>u, <2>1, <2>2, <2>3, Advanced
<1>4. ASSUME NEW p \in Process, Open(p) PROVE FInv'
  <2>1. /\ Active(p) /\ op[p].step = "open" /\ op[p].kind \in {"put", "chunk"}
        /\ Target(p) \in Path /\ locks' = locks
    BY <1>4, Opened
  <2>2. PICK i \in Inode :
          /\ MovesTo(p, "write", i)
          /\ dir' = [dir EXCEPT ![Target(p)] = i]
          /\ IF dir[Target(p)] = 0 THEN i \in Free ELSE i = dir[Target(p)]
          /\ data' = IF dir[Target(p)] = 0 \/ op[p].kind = "put"
                       THEN [data EXCEPT ![i] = <<>>] ELSE data
    BY <1>4, Opened
  <2>3. i # 0 /\ "write" \in Steps
    BY DEF Inode, Steps
  <2>4. dir' \in [Path -> {0} \cup Inode] /\ data' \in [Inode -> Content]
    BY <1>t, <2>2, Discarded
  <2>5. OnePathPerFile'
    BY <1>t, <2>1, <2>2 DEF OnePathPerFile, Free
  <2> QED
    BY <1>t, <1>u, <2>1, <2>2, <2>3, <2>4, <2>5, Advanced
<1>5. ASSUME NEW p \in Process, Write(p) \/ WriteFails(p) PROVE FInv'
  <2>1. At(p, "write") /\ locks' = locks /\ dir' = dir
    BY <1>5 DEF Write, WriteFails
  <2>2. /\ Active(p) /\ op[p].fd \in Inode /\ op[p].kind \in {"put", "chunk"}
        /\ op[p].offset \in 0 .. MaxBlocks - 1 /\ data[op[p].fd] \in Content
    BY <1>t, <2>1, Writer
  <2>3. PICK step \in {"done", "remove", "failed"} : GoTo(p, step)
    BY <1>5 DEF Write, WriteFails
  <2>4. data' \in [Inode -> Content]
    <3>1. \A block \in Block : WriteAt(data[op[p].fd], op[p].offset, block) \in Content
      BY <2>2, WriteAtContent
    <3>2. p \in Block /\ "torn" \in Block
      BY DEF Block
    <3> QED
      BY <1>5, <1>t, <2>2, <3>1, <3>2 DEF Write, WriteFails
  <2>5. MovesTo(p, step, 0) /\ step \in Steps /\ OnePathPerFile'
    BY <1>t, <2>1, <2>3 DEF GoTo, MovesTo, Steps, OnePathPerFile
  <2> QED
    BY <1>t, <1>u, <2>1, <2>2, <2>3, <2>4, <2>5, Advanced
<1>6. ASSUME NEW p \in Process, RemoveFile(p) PROVE FInv'
  <2>1. /\ Active(p) /\ op[p].step = "remove" /\ locks' = locks
        /\ dir' = [dir EXCEPT ![Target(p)] = 0] /\ data' \in [Inode -> Content]
    BY <1>6, <1>a, <1>t, Discarded DEF RemoveFile, At
  <2>2. PICK step \in {"done", "failed"} : GoTo(p, step)
    BY <1>6 DEF RemoveFile
  <2>3. MovesTo(p, step, 0) /\ step \in Steps
    BY <2>2 DEF GoTo, MovesTo, Steps
  <2>4. dir' \in [Path -> {0} \cup Inode] /\ OnePathPerFile'
    BY <1>t, <2>1 DEF OnePathPerFile
  <2> QED
    BY <1>t, <1>u, <2>1, <2>2, <2>3, <2>4, Advanced
<1>7. ASSUME NEW p \in Process, Rename(p) PROVE FInv'
  <2> DEFINE old == op[p].keys[1]
             new == op[p].keys[2]
  <2>1. /\ Active(p) /\ op[p].step = "rename" /\ locks' = locks /\ dir[old] # 0
        /\ dir' = [dir EXCEPT ![old] = 0, ![new] = dir[old]] /\ data' \in [Inode -> Content]
        /\ GoTo(p, "done")
    BY <1>7, <1>a, <1>t, Discarded DEF Rename, At
  <2>2. MovesTo(p, "done", 0) /\ "done" \in Steps
    BY <2>1 DEF GoTo, MovesTo, Steps
  <2>3. op[p].keys \in Renames /\ op[p].kind = "rename"
    BY <1>t, <2>1 DEF OpsShaped, TypeOK
  <2>4. old \in Path /\ new \in Path /\ old # new
    BY <2>3, StorageType
  <2>5. \A x \in Path : dir'[x] = IF x = new THEN dir[old] ELSE IF x = old THEN 0 ELSE dir[x]
    BY <1>t, <2>1, <2>4
  <2>6. dir' \in [Path -> {0} \cup Inode] /\ OnePathPerFile'
    BY <1>t, <2>1, <2>4, <2>5 DEF OnePathPerFile
  <2> QED
    BY <1>t, <1>u, <2>1, <2>2, <2>3, <2>6, Advanced
<1>8. ASSUME NEW p \in Process, Return(p) PROVE FInv'
  <2>1. /\ Active(p) /\ locks' = locks \ Keys(p) /\ op' = [op EXCEPT ![p] = Idle] /\ dir' = dir
        /\ data' \in [Inode -> Content]
    BY <1>8, <1>a, <1>t, Discarded DEF Return, UnlockKeys
  <2>2. op'[p] = Idle /\ \A q \in Process \ {p} : op'[q] = op[q]
    BY <1>t, <2>1
  <2>3. /\ ~Active(p)'
        /\ \A q \in Process \ {p} : (Active(q)' <=> Active(q)) /\ Keys(q)' = Keys(q)
    BY <2>2 DEF Active, Keys
  <2>4. Steady' = Steady
    BY <1>u DEF Steady
  <2>5. TypeOK'
    BY <1>t, <1>u, <2>1 DEF TypeOK, Tasks, Steps
  <2>6. OpsShaped' /\ OnePathPerFile'
    BY <1>t, <1>u, <2>1, <2>2, <2>3 DEF OpsShaped, OnePathPerFile
  <2>7. LocksHaveOwners'
    BY <1>t, <2>1, <2>3 DEF LocksHaveOwners
  <2>8. SteadyLocked'
    BY <1>t, <2>1, <2>3, <2>4 DEF SteadyLocked, OneOperationPerSteadyPath
  <2>9. OneOperationPerSteadyPath'
    BY <1>t, <2>3, <2>4 DEF OneOperationPerSteadyPath
  <2> QED
    BY <2>5, <2>6, <2>7, <2>8, <2>9 DEF FInv, KeysInv
<1>9. ASSUME Crash PROVE FInv'
  <2>1. /\ locks' = {} /\ op' = [p \in Process |-> Idle] /\ dir' = dir
        /\ data' \in [Inode -> Content]
    BY <1>9, <1>t, Discarded DEF Crash
  <2>2. \A p \in Process : ~Active(p)'
    BY <2>1 DEF Active
  <2>3. TypeOK'
    BY <1>t, <1>u, <2>1 DEF TypeOK
  <2> QED
    BY <1>t, <2>1, <2>2, <2>3
       DEF FInv, KeysInv, OpsShaped, OnePathPerFile, LocksHaveOwners, SteadyLocked,
           OneOperationPerSteadyPath
<1>10. ASSUME UNCHANGED vars PROVE FInv'
  <2>1. UNCHANGED <<renames, locks, dir, data, op>>
    BY <1>10 DEF vars
  <2> QED
    BY <1>t, <2>1
       DEF FInv, KeysInv, TypeOK, OpsShaped, OnePathPerFile, LocksHaveOwners, SteadyLocked,
           OneOperationPerSteadyPath, Active, Keys, Steady
<1> QED
  BY Zenon, <1>1, <1>2, <1>3, <1>4, <1>5, <1>6, <1>7, <1>8, <1>9, <1>10
     DEF Next, Step

(* FInv holds of every reachable state.                                    *)
THEOREM FilesInvariant == Spec => []FInv
<1>1. Init => FInv
  <2> SUFFICES ASSUME Init PROVE FInv
    OBVIOUS
  <2>1. \A p \in Process : ~Active(p)
    BY DEF Init, Active
  <2>2. <<>> \in Content
    BY Contents, StorageType
  <2>3. TypeOK
    BY <2>2 DEF Init, TypeOK
  <2> QED
    BY <2>1, <2>3
       DEF Init, FInv, KeysInv, OpsShaped, OnePathPerFile, LocksHaveOwners, SteadyLocked,
           OneOperationPerSteadyPath
<1> QED
  BY <1>1, FInvStep, PTL DEF Spec

(* Every reachable state is well typed: no file outgrows its bound, and    *)
(* every new file finds an inode.                                          *)
THEOREM TypeCorrect == Spec => []TypeOK
<1>1. FInv => TypeOK
  BY DEF FInv
<1> QED
  BY <1>1, FilesInvariant, PTL

(* No key of the file lock outlives the operation that took it.            *)
THEOREM LocksKeepOwners == Spec => []LocksHaveOwners
<1>1. FInv => LocksHaveOwners
  BY DEF FInv, KeysInv
<1> QED
  BY <1>1, FilesInvariant, PTL

(* On a path that no rename touches there is one operation at a time: the  *)
(* renames that go on with their keys busy, and unlock what others locked, *)
(* do not reach it.                                                        *)
THEOREM SteadyPathsExclusive == Spec => []OneOperationPerSteadyPath
<1>1. FInv => OneOperationPerSteadyPath
  BY DEF FInv, KeysInv
<1> QED
  BY <1>1, FilesInvariant, PTL

(* Without renames every path is in the hands of one operation at a time:  *)
(* the flaw of LockKeysAtomically, which only RenameFile calls, is all     *)
(* that breaks it.                                                         *)
THEOREM PathsExclusive ==
  ASSUME Renames = {}
  PROVE  Spec => []OneOperationPerPath
<1>1. FInv => OneOperationPerPath
  <2> SUFFICES ASSUME FInv, NEW p \in Process, NEW q \in Process, p # q, Active(p), Active(q)
               PROVE  Keys(p) \cap Keys(q) = {}
    BY DEF OneOperationPerPath
  <2>1. TypeOK /\ OpsShaped /\ OneOperationPerSteadyPath
    BY DEF FInv, KeysInv
  <2>2. Steady = Path
    BY <2>1 DEF TypeOK, Steady
  <2>3. Keys(p) \subseteq Path
    BY <2>1, KeysOf
  <2> QED
    BY <2>1, <2>2, <2>3 DEF OneOperationPerSteadyPath
<1> QED
  BY <1>1, FilesInvariant, PTL

-----------------------------------------------------------------------------
(* The writers *)

(* On a steady path nobody else is at work.                                *)
LEMMA Alone ==
  ASSUME FInv, NEW p \in Process, NEW q \in Process, Active(p), Active(q),
         Target(p) = Target(q), Target(p) \in Steady
  PROVE  p = q
<1>1. TypeOK /\ OpsShaped /\ OneOperationPerSteadyPath
  BY DEF FInv, KeysInv
<1>2. Target(p) \in Keys(p) /\ Target(q) \in Keys(q)
  BY <1>1, KeysOf
<1> QED
  BY <1>1, <1>2 DEF OneOperationPerSteadyPath

(* What is still under a path is not discarded.                            *)
LEMMA NamedIsKept ==
  ASSUME TypeOK, Discard, NEW x \in Path, dir'[x] = dir[x], dir[x] # 0
  PROVE  data'[dir[x]] = data[dir[x]]
<1>1. dir[x] \in Inode
  BY Typed
<1> QED
  BY <1>1 DEF Discard, Free

(* A writer stays ready if the others leave its path and its file alone.   *)
LEMMA StaysReady ==
  ASSUME FInv, WritersInv, renames' = renames, NEW q \in Process, op'[q] = op[q],
         \A x \in Steady : At(q, "write") /\ dir'[x] = op[q].fd => dir[x] = op[q].fd,
         At(q, "write") \/ At(q, "open") =>
           (Target(q) \in Steady =>
              /\ dir'[Target(q)] = dir[Target(q)]
              /\ dir[Target(q)] # 0 => data'[dir[Target(q)]] = data[dir[Target(q)]])
  PROVE  OpenBelowTarget(q)' /\ WriterReady(q)' /\ SizeStillRight(q)'
<1>1. Steady' = Steady /\ (At(q, "write")' <=> At(q, "write")) /\ (At(q, "open")' <=> At(q, "open"))
        /\ Target(q)' = Target(q)
  BY DEF Steady, At, Target
<1>2. OpenBelowTarget(q) /\ WriterReady(q) /\ SizeStillRight(q)
  BY DEF WritersInv
<1>3. At(q, "write") => op[q].fd # 0
  BY Writer DEF FInv, Inode
<1>4. OpenBelowTarget(q)'
  BY <1>1, <1>2 DEF OpenBelowTarget
<1>5. WriterReady(q)'
  BY <1>1, <1>2, <1>3 DEF WriterReady
<1>6. SizeStillRight(q)'
  BY <1>1, <1>2 DEF SizeStillRight
<1> QED
  BY <1>4, <1>5, <1>6

(* WritersInv is inductive, together with FInv.                            *)
LEMMA WritersInvStep == FInv /\ WritersInv /\ [Next]_vars => WritersInv'
<1> SUFFICES ASSUME FInv, WritersInv, [Next]_vars PROVE WritersInv'
  OBVIOUS
<1>t. /\ TypeOK /\ OpsShaped /\ OnePathPerFile /\ OnePathPerFile'
      /\ dir \in [Path -> {0} \cup Inode] /\ op \in [Process -> {Idle} \cup Tasks]
      /\ data \in [Inode -> Content]
  BY FInvStep, Typed DEF FInv
<1>u. renames' = renames /\ Steady' = Steady
  BY DEF Next, vars, Steady
<1>a. \A q \in Process : Active(q) <=> op[q].step # "idle"
  BY <1>t, Typed
<1>b. \A q \in Process : At(q, "write") \/ At(q, "open") => Active(q) /\ Target(q) \in Path
  BY <1>t, <1>a, KeysOf DEF At
<1>f. \A q \in Process : At(q, "write") => op[q].fd \in Inode /\ op[q].fd # 0
  BY <1>t, Writer DEF Inode
(* The process that takes the step is no writer afterwards.                *)
<1>p. ASSUME NEW p \in Process, op'[p].step \notin {"write", "open"},
             \A q \in Process \ {p} : /\ op'[q] = op[q]
                                      /\ OpenBelowTarget(q)' /\ WriterReady(q)' /\ SizeStillRight(q)'
      PROVE  WritersInv'
  <2>1. OpenBelowTarget(p)' /\ WriterReady(p)' /\ SizeStillRight(p)'
    BY <1>p DEF OpenBelowTarget, WriterReady, SizeStillRight, At
  <2> QED
    BY <1>p, <2>1 DEF WritersInv
(* The others keep their files, when none is changed.                      *)
<1>o. ASSUME NEW q \in Process, op'[q] = op[q], dir' = dir, data' = data
      PROVE  OpenBelowTarget(q)' /\ WriterReady(q)' /\ SizeStillRight(q)'
  BY <1>o, <1>u, StaysReady
<1>1. ASSUME NEW p \in Process, NEW x \in Path,
             \/ PutFile(p, x) \/ DeleteFile(p, x)
             \/ \E o \in 0 .. Blocks - 1 : PutFileChunk(p, x, o)
      PROVE  WritersInv'
  <2>1. PICK kind \in {"put", "delete", "chunk"}, step \in {"open", "stat", "remove"}, o \in Nat :
          /\ op' = [op EXCEPT ![p] = Task(kind, step, <<x>>, o)] /\ dir' = dir /\ data' = data
          /\ step = "open" => kind = "put"
    <3>1. 0 \in Nat /\ \A o \in 0 .. Blocks - 1 : o \in Nat
      OBVIOUS
    <3> QED
      BY <1>1, <3>1 DEF PutFile, DeleteFile, PutFileChunk, Start
  <2>2. /\ op'[p].step = step /\ op'[p].kind = kind /\ \A q \in Process \ {p} : op'[q] = op[q]
    BY <1>t, <2>1 DEF Task
  <2>3. OpenBelowTarget(p)' /\ WriterReady(p)' /\ SizeStillRight(p)'
    BY <2>1, <2>2 DEF OpenBelowTarget, WriterReady, SizeStillRight, At
  <2>4. \A q \in Process \ {p} : OpenBelowTarget(q)' /\ WriterReady(q)' /\ SizeStillRight(q)'
    BY <1>o, <2>1, <2>2
  <2> QED
    BY <2>3, <2>4 DEF WritersInv
<1>2. ASSUME NEW p \in Process, NEW r \in renames, RenameFile(p, r) PROVE WritersInv'
  <2>1. op' = [op EXCEPT ![p] = Task("rename", "rename", r, 0)] /\ dir' = dir /\ data' = data
    BY <1>2 DEF RenameFile
  <2>2. /\ op'[p].step = "rename" /\ \A q \in Process \ {p} : op'[q] = op[q]
    BY <1>t, <2>1 DEF Task
  <2> QED
    BY <1>o, <1>p, <2>1, <2>2
<1>3. ASSUME NEW p \in Process, Fail(p) PROVE WritersInv'
  <2>1. Active(p) /\ MovesTo(p, "failed", 0) /\ dir' = dir /\ data' = data /\ "failed" \in Steps
    BY <1>3, <1>a DEF Fail, GoTo, MovesTo, Steps
  <2>2. op'[p].step = "failed" /\ \A q \in Process \ {p} : op'[q] = op[q]
    BY <1>t, <2>1, Moves
  <2> QED
    BY <1>o, <1>p, <2>1, <2>2
<1>4. ASSUME NEW p \in Process, Stat(p) PROVE WritersInv'
  <2>1. Active(p) /\ dir' = dir /\ data' = data
    BY <1>4, <1>a DEF Stat, At
  <2>2. PICK step \in {"open", "remove", "failed"} :
          /\ GoTo(p, step)
          /\ step = "open" => IF dir[Target(p)] = 0 THEN op[p].offset = 0
                              ELSE Len(data[dir[Target(p)]]) = op[p].offset
    BY <1>4 DEF Stat
  <2>3. MovesTo(p, step, 0) /\ step \in Steps
    BY <2>2 DEF GoTo, MovesTo, Steps
  <2>4. /\ op'[p].step = step /\ op'[p].keys = op[p].keys /\ op'[p].offset = op[p].offset
        /\ \A q \in Process \ {p} : op'[q] = op[q]
    BY <1>t, <2>1, <2>3, Moves
  <2>5. OpenBelowTarget(p)' /\ WriterReady(p)' /\ SizeStillRight(p)'
    BY <2>1, <2>2, <2>4 DEF OpenBelowTarget, WriterReady, SizeStillRight, At, Target
  <2>6. \A q \in Process \ {p} : OpenBelowTarget(q)' /\ WriterReady(q)' /\ SizeStillRight(q)'
    BY <1>o, <2>1, <2>4
  <2> QED
    BY <2>5, <2>6 DEF WritersInv
<1>5. ASSUME NEW p \in Process, Open(p) PROVE WritersInv'
  <2>1. /\ Active(p) /\ op[p].step = "open" /\ op[p].kind \in {"put", "chunk"} /\ Target(p) \in Path
    BY <1>5, Opened
  <2>2. PICK i \in Inode :
          /\ MovesTo(p, "write", i)
          /\ dir' = [dir EXCEPT ![Target(p)] = i]
          /\ IF dir[Target(p)] = 0 THEN i \in Free ELSE i = dir[Target(p)]
          /\ data' = IF dir[Target(p)] = 0 \/ op[p].kind = "put"
                       THEN [data EXCEPT ![i] = <<>>] ELSE data
    BY <1>5, Opened
  <2>3. i # 0 /\ "write" \in Steps
    BY DEF Inode, Steps
  <2>4. /\ op'[p].step = "write" /\ op'[p].fd = i /\ op'[p].kind = op[p].kind
        /\ op'[p].keys = op[p].keys /\ op'[p].offset = op[p].offset
        /\ \A q \in Process \ {p} : op'[q] = op[q]
    BY <1>t, <2>1, <2>2, <2>3, Moves
  <2>5. dir'[Target(p)] = i /\ \A x \in Path \ {Target(p)} : dir'[x] = dir[x]
    BY <1>t, <2>1, <2>2
  <2>6. Steady \subseteq Path /\ Target(p)' = Target(p)
    BY <2>4 DEF Steady, Target
  <2>7. OpenBelowTarget(p)'
    BY <1>t, <1>u, <2>1, <2>3, <2>4, <2>5, <2>6 DEF OpenBelowTarget, OnePathPerFile
  <2>8. WriterReady(p)'
    <3> SUFFICES ASSUME Target(p) \in Steady
                 PROVE  /\ op[p].kind = "put" => data'[i] = <<>>
                        /\ op[p].kind = "chunk" => Len(data'[i]) = op[p].offset
      BY <1>u, <2>4, <2>5, <2>6 DEF WriterReady
    <3>1. op[p].kind = "chunk" => IF dir[Target(p)] = 0 THEN op[p].offset = 0
                                  ELSE Len(data[dir[Target(p)]]) = op[p].offset
      BY <2>1 DEF WritersInv, SizeStillRight, At
    <3>2. CASE dir[Target(p)] = 0 \/ op[p].kind = "put"
      <4>1. data'[i] = <<>> /\ Len(<<>>) = 0
        BY <1>t, <2>2, <3>2
      <4> QED
        BY <3>1, <3>2, <4>1
    <3>3. CASE dir[Target(p)] # 0 /\ op[p].kind # "put"
      BY <2>1, <2>2, <3>1, <3>3
    <3> QED
      BY <3>2, <3>3
  <2>9. SizeStillRight(p)'
    BY <2>4 DEF SizeStillRight, At
  <2>10. ASSUME NEW q \in Process \ {p}
         PROVE  OpenBelowTarget(q)' /\ WriterReady(q)' /\ SizeStillRight(q)'
    <3>1. \A x \in Steady : At(q, "write") /\ dir'[x] = op[q].fd => dir[x] = op[q].fd
      BY <2>2, <2>5, <2>6 DEF Free
    <3>2. ASSUME At(q, "write") \/ At(q, "open"), Target(q) \in Steady
          PROVE  /\ dir'[Target(q)] = dir[Target(q)]
                 /\ dir[Target(q)] # 0 => data'[dir[Target(q)]] = data[dir[Target(q)]]
      <4>1. Active(q) /\ Target(q) \in Path
        BY <1>b, <3>2
      <4>2. Target(q) # Target(p)
        BY <2>1, <3>2, <4>1, Alone
      <4>3. dir[Target(q)] # i
        BY <1>t, <2>1, <2>2, <2>3, <4>1, <4>2 DEF Free, OnePathPerFile
      <4> QED
        BY <1>t, <2>2, <2>5, <4>1, <4>2, <4>3
    <3> QED
      BY <1>u, <2>4, <3>1, <3>2, StaysReady
  <2> QED
    BY <2>7, <2>8, <2>9, <2>10 DEF WritersInv
<1>6. ASSUME NEW p \in Process, Write(p) \/ WriteFails(p) PROVE WritersInv'
  <2>1. At(p, "write") /\ dir' = dir
    BY <1>6 DEF Write, WriteFails
  <2>2. Active(p) /\ op[p].fd \in Inode /\ Target(p) \in Path
    BY <1>t, <2>1, Writer
  <2>3. PICK step \in {"done", "remove", "failed"} : GoTo(p, step)
    BY <1>6 DEF Write, WriteFails
  <2>4. MovesTo(p, step, 0) /\ step \in Steps
    BY <2>3 DEF GoTo, MovesTo, Steps
  <2>5. op'[p].step = step /\ \A q \in Process \ {p} : op'[q] = op[q]
    BY <1>t, <2>2, <2>4, Moves
  <2>6. \A i \in Inode \ {op[p].fd} : data'[i] = data[i]
    BY <1>6, <1>t DEF Write, WriteFails
  <2>7. ASSUME NEW q \in Process \ {p}
        PROVE  OpenBelowTarget(q)' /\ WriterReady(q)' /\ SizeStillRight(q)'
    <3>1. ASSUME At(q, "write") \/ At(q, "open"), Target(q) \in Steady, dir[Target(q)] # 0
          PROVE  data'[dir[Target(q)]] = data[dir[Target(q)]]
      <4>1. Active(q) /\ Target(q) \in Path
        BY <1>b, <3>1
      <4>2. dir[Target(q)] = op[p].fd => Target(q) = Target(p)
        BY <2>1, <3>1 DEF WritersInv, OpenBelowTarget
      <4>3. Target(q) # Target(p)
        BY <2>2, <3>1, <4>1, Alone
      <4> QED
        BY <1>t, <2>6, <3>1, <4>1, <4>2, <4>3
    <3> QED
      BY <1>u, <2>1, <2>5, <3>1, StaysReady
  <2> QED
    BY <1>p, <2>5, <2>7
<1>7. ASSUME NEW p \in Process, RemoveFile(p) PROVE WritersInv'
  <2>1. Active(p) /\ dir' = [dir EXCEPT ![Target(p)] = 0] /\ Discard
    BY <1>7, <1>a DEF RemoveFile, At
  <2>2. PICK step \in {"done", "failed"} : GoTo(p, step)
    BY <1>7 DEF RemoveFile
  <2>3. MovesTo(p, step, 0) /\ step \in Steps /\ Target(p) \in Path
    BY <1>t, <2>1, <2>2, KeysOf DEF GoTo, MovesTo, Steps
  <2>4. op'[p].step = step /\ \A q \in Process \ {p} : op'[q] = op[q]
    BY <1>t, <2>1, <2>3, Moves
  <2>5. Steady \subseteq Path
    BY DEF Steady
  <2>6. ASSUME NEW q \in Process \ {p}
        PROVE  OpenBelowTarget(q)' /\ WriterReady(q)' /\ SizeStillRight(q)'
    <3>1. \A x \in Steady : At(q, "write") /\ dir'[x] = op[q].fd => dir[x] = op[q].fd
      BY <1>f, <1>t, <2>1, <2>3, <2>5
    <3>2. ASSUME At(q, "write") \/ At(q, "open"), Target(q) \in Steady
          PROVE  /\ dir'[Target(q)] = dir[Target(q)]
                 /\ dir[Target(q)] # 0 => data'[dir[Target(q)]] = data[dir[Target(q)]]
      <4>1. Active(q) /\ Target(q) \in Path
        BY <1>b, <3>2
      <4>2. Target(q) # Target(p)
        BY <2>1, <3>2, <4>1, Alone
      <4>3. dir'[Target(q)] = dir[Target(q)]
        BY <1>t, <2>1, <4>1, <4>2
      <4> QED
        BY <1>t, <2>1, <4>1, <4>3, NamedIsKept
    <3> QED
      BY <1>u, <2>4, <3>1, <3>2, StaysReady
  <2> QED
    BY <1>p, <2>4, <2>6
<1>8. ASSUME NEW p \in Process, Rename(p) PROVE WritersInv'
  <2> DEFINE old == op[p].keys[1]
             new == op[p].keys[2]
  <2>1. /\ Active(p) /\ op[p].step = "rename" /\ Discard /\ GoTo(p, "done")
        /\ dir' = [dir EXCEPT ![old] = 0, ![new] = dir[old]]
    BY <1>8, <1>a DEF Rename, At
  <2>2. MovesTo(p, "done", 0) /\ "done" \in Steps
    BY <2>1 DEF GoTo, MovesTo, Steps
  <2>3. op'[p].step = "done" /\ \A q \in Process \ {p} : op'[q] = op[q]
    BY <1>t, <2>1, <2>2, Moves
  <2>4. op[p].keys \in renames
    BY <1>t, <2>1 DEF OpsShaped
  <2>5. \A x \in Steady : x \in Path /\ dir'[x] = dir[x]
    BY <1>t, <2>1, <2>4 DEF Steady
  <2>6. ASSUME NEW q \in Process \ {p}
        PROVE  OpenBelowTarget(q)' /\ WriterReady(q)' /\ SizeStillRight(q)'
    <3>1. ASSUME Target(q) \in Steady
          PROVE  /\ dir'[Target(q)] = dir[Target(q)]
                 /\ dir[Target(q)] # 0 => data'[dir[Target(q)]] = data[dir[Target(q)]]
      BY <1>t, <2>1, <2>5, <3>1, NamedIsKept
    <3> QED
      BY <1>u, <2>3, <2>5, <3>1, StaysReady
  <2> QED
    BY <1>p, <2>3, <2>6
<1>9. ASSUME NEW p \in Process, Return(p) PROVE WritersInv'
  <2>1. op' = [op EXCEPT ![p] = Idle] /\ dir' = dir /\ Discard
    BY <1>9 DEF Return
  <2>2. op'[p].step = "idle" /\ \A q \in Process \ {p} : op'[q] = op[q]
    BY <1>t, <2>1 DEF Idle
  <2>3. ASSUME NEW q \in Process \ {p}
        PROVE  OpenBelowTarget(q)' /\ WriterReady(q)' /\ SizeStillRight(q)'
    <3>1. ASSUME Target(q) \in Steady, dir[Target(q)] # 0
          PROVE  data'[dir[Target(q)]] = data[dir[Target(q)]]
      <4>1. Target(q) \in Path
        BY <3>1 DEF Steady
      <4> QED
        BY <1>t, <2>1, <3>1, <4>1, NamedIsKept
    <3> QED
      BY <1>u, <2>1, <2>2, <3>1, StaysReady
  <2> QED
    BY <1>p, <2>2, <2>3
<1>10. ASSUME Crash PROVE WritersInv'
  <2>1. \A q \in Process : op'[q].step = "idle"
    BY <1>10 DEF Crash, Idle
  <2> QED
    BY <2>1 DEF WritersInv, OpenBelowTarget, WriterReady, SizeStillRight, At
<1>11. ASSUME UNCHANGED vars PROVE WritersInv'
  <2>1. UNCHANGED <<renames, locks, dir, data, op>>
    BY <1>11 DEF vars
  <2> QED
    BY <1>o, <2>1 DEF WritersInv
<1> QED
  BY Zenon, <1>1, <1>2, <1>3, <1>4, <1>5, <1>6, <1>7, <1>8, <1>9, <1>10, <1>11
     DEF Next, Step

(* FInv and WritersInv hold of every reachable state.                      *)
THEOREM WritersInvariant == Spec => [](FInv /\ WritersInv)
<1>1. Init => WritersInv
  BY DEF Init, WritersInv, OpenBelowTarget, WriterReady, SizeStillRight, At, Idle
<1>2. FInv /\ WritersInv /\ [Next]_vars => WritersInv'
  BY WritersInvStep
<1> QED
  BY <1>1, <1>2, FilesInvariant, PTL DEF Spec

-----------------------------------------------------------------------------
(* What a write leaves behind *)

(* An operation is done after a write, a removal or a rename, of its own.  *)
LEMMA DoneBy ==
  ASSUME FInv, [Next]_vars, NEW p \in Process, ~At(p, "done"), op'[p].step = "done"
  PROVE  \/ Write(p)
         \/ op[p].kind \in {"delete", "rename"}
<1>t. TypeOK /\ OpsShaped /\ op \in [Process -> {Idle} \cup Tasks]
  BY Typed DEF FInv
<1>a. \A q \in Process : Active(q) <=> op[q].step # "idle"
  BY <1>t, Typed
<1>n. op'[p] # op[p]
  BY DEF At
(* Only p itself changes its operation.                                    *)
<1>m. ASSUME NEW q \in Process, Active(q), NEW step \in Steps, NEW fd \in {0} \cup Inode,
             MovesTo(q, step, fd)
      PROVE  q = p /\ step = "done"
  BY <1>t, <1>m, <1>n, Moves
<1>g. \A q \in Process, step \in Steps : Active(q) /\ GoTo(q, step) => q = p /\ step = "done"
  BY <1>m DEF GoTo, MovesTo
<1>1. ASSUME NEW q \in Process, NEW x \in Path,
             \/ PutFile(q, x) \/ DeleteFile(q, x)
             \/ \E o \in 0 .. Blocks - 1 : PutFileChunk(q, x, o)
      PROVE  FALSE
  <2>1. \E kind \in {"put", "delete", "chunk"}, step \in {"open", "stat", "remove"}, o \in Nat :
          op' = [op EXCEPT ![q] = Task(kind, step, <<x>>, o)]
    <3>1. 0 \in Nat /\ \A o \in 0 .. Blocks - 1 : o \in Nat
      OBVIOUS
    <3> QED
      BY <1>1, <3>1 DEF PutFile, DeleteFile, PutFileChunk, Start
  <2> QED
    BY <1>t, <1>n, <2>1 DEF Task
<1>2. ASSUME NEW q \in Process, NEW r \in renames, RenameFile(q, r) PROVE FALSE
  BY <1>2, <1>t, <1>n DEF RenameFile, Task
<1>3. ASSUME NEW q \in Process, Stat(q) \/ Fail(q) \/ WriteFails(q) PROVE FALSE
  <2>1. Active(q)
    BY <1>3, <1>a DEF Stat, Fail, WriteFails, At
  <2>2. PICK step \in {"open", "remove", "failed"} : GoTo(q, step)
    BY <1>3 DEF Stat, Fail, WriteFails
  <2> QED
    BY <1>g, <2>1, <2>2 DEF Steps
<1>4. ASSUME NEW q \in Process, Open(q) PROVE FALSE
  <2>1. Active(q) /\ \E i \in Inode : MovesTo(q, "write", i)
    BY <1>4, Opened
  <2>2. "write" \in Steps
    BY DEF Steps
  <2> QED
    BY <1>m, <2>1, <2>2
<1>5. ASSUME NEW q \in Process, Write(q) PROVE q = p
  <2>1. Active(q) /\ GoTo(q, "done") /\ "done" \in Steps
    BY <1>5, <1>a DEF Write, At, Steps
  <2> QED
    BY <1>g, <2>1
<1>6. ASSUME NEW q \in Process, RemoveFile(q) PROVE op[p].kind = "delete"
  <2>1. /\ Active(q) /\ GoTo(q, IF op[q].kind = "delete" THEN "done" ELSE "failed")
        /\ {"done", "failed"} \subseteq Steps
    BY <1>6, <1>a DEF RemoveFile, At, Steps
  <2> QED
    BY <1>g, <2>1
<1>7. ASSUME NEW q \in Process, Rename(q) PROVE op[p].kind = "rename"
  <2>1. Active(q) /\ GoTo(q, "done") /\ "done" \in Steps /\ op[q].step = "rename"
    BY <1>7, <1>a DEF Rename, At, Steps
  <2>2. q = p
    BY <1>g, <2>1
  <2> QED
    BY <1>t, <2>1, <2>2 DEF OpsShaped
<1>8. ASSUME NEW q \in Process, Return(q) PROVE FALSE
  BY <1>8, <1>t, <1>n DEF Return, Idle
<1>9. ASSUME Crash PROVE FALSE
  BY <1>9 DEF Crash, Idle
<1>10. ASSUME UNCHANGED vars PROVE FALSE
  BY <1>10, <1>n DEF vars
<1> QED
  BY Zenon, <1>1, <1>2, <1>3, <1>4, <1>5, <1>6, <1>7, <1>8, <1>9, <1>10
     DEF Next, Step

(* A write to a path that is never renamed, and that reports success, is   *)
(* there, whole and alone, whatever is written, deleted or renamed beside  *)
(* it: a file put holds nothing but the data, a chunk ends the file.       *)
THEOREM WritesAreWhole == Spec => WritesLandWhole
<1>1. FInv /\ WritersInv /\ [Next]_vars => WholeWrites
  <2> SUFFICES ASSUME FInv, WritersInv, [Next]_vars, NEW p \in Process, Completes(p),
                      op[p].kind \in {"put", "chunk"}
               PROVE  /\ dir'[Target(p)] = op[p].fd
                      /\ op[p].kind = "put" => data'[op[p].fd] = <<p>>
                      /\ op[p].kind = "chunk" => data'[op[p].fd] = Append(data[op[p].fd], p)
    BY DEF WholeWrites
  <2>1. Write(p)
    BY DoneBy DEF Completes
  <2>2. /\ At(p, "write") /\ dir' = dir
        /\ data' = [data EXCEPT ![op[p].fd] = WriteAt(@, op[p].offset, p)]
    BY <2>1 DEF Write
  <2>3. /\ op[p].fd \in Inode /\ data[op[p].fd] \in Content
        /\ op[p].kind = "put" => op[p].offset = 0
    BY <2>2, Writer DEF FInv
  <2>4. /\ dir[Target(p)] = op[p].fd
        /\ op[p].kind = "put" => data[op[p].fd] = <<>>
        /\ op[p].kind = "chunk" => Len(data[op[p].fd]) = op[p].offset
    BY <2>2 DEF WritersInv, WriterReady, Completes
  <2>5. Len(data[op[p].fd]) = op[p].offset
    <3>1. Len(<<>>) = 0
      OBVIOUS
    <3> QED
      BY <2>3, <2>4, <3>1
  <2>6. data'[op[p].fd] = Append(data[op[p].fd], p)
    <3>1. data'[op[p].fd] = WriteAt(data[op[p].fd], op[p].offset, p)
      BY <2>2, <2>3, Typed DEF FInv
    <3>2. p \in Block
      BY DEF Block
    <3> QED
      BY <2>3, <2>5, <3>1, <3>2, WriteAtEnd
  <2>7. Append(<<>>, p) = <<p>>
    OBVIOUS
  <2> QED
    BY <2>2, <2>4, <2>6, <2>7
<1> QED
  BY <1>1, WritersInvariant, PTL DEF Spec, WritesLandWhole

(* On a path that is never renamed, only a PutFile changes what is written *)
(* already: chunks, whole or torn, extend the file, and nobody else's file *)
(* is taken for it.                                                        *)
THEOREM ChunksOnlyAppend == Spec => ChunksAppend
<1>1. FInv /\ WritersInv /\ [Next]_vars => GrowsOnly
  <2> SUFFICES ASSUME FInv, WritersInv, [Next]_vars, NEW x \in Steady,
                      dir[x] # 0, dir'[x] = dir[x], data'[dir[x]] # data[dir[x]],
                      \A p \in Process : op[p].kind = "put" => Target(p) # x
               PROVE  IsPrefix(data[dir[x]], data'[dir[x]])
    BY DEF GrowsOnly
  <2>t. /\ TypeOK /\ OpsShaped /\ OnePathPerFile
        /\ dir \in [Path -> {0} \cup Inode] /\ data \in [Inode -> Content]
    BY Typed DEF FInv
  <2>x. x \in Path /\ dir[x] \in Inode
    BY <2>t DEF Steady
  <2>d. ~Discard
    BY <2>t, <2>x, NamedIsKept
  <2>u. data' # data
    OBVIOUS
  <2>1. ASSUME NEW p \in Process, Open(p) PROVE FALSE
    <3>1. /\ op[p].kind \in {"put", "chunk"} /\ Target(p) \in Path
      BY <2>1, Opened
    <3>2. PICK i \in Inode :
            /\ IF dir[Target(p)] = 0 THEN i \in Free ELSE i = dir[Target(p)]
            /\ data' = IF dir[Target(p)] = 0 \/ op[p].kind = "put"
                         THEN [data EXCEPT ![i] = <<>>] ELSE data
      BY <2>1, Opened
    <3>3. dir[x] = i
      BY <2>t, <2>x, <3>2
    <3>4. dir[Target(p)] # 0 /\ op[p].kind = "put"
      BY <2>u, <2>x, <3>2, <3>3 DEF Free
    <3> QED
      BY <2>t, <2>x, <3>1, <3>2, <3>3, <3>4 DEF OnePathPerFile
  <2>2. ASSUME NEW p \in Process, Write(p) \/ WriteFails(p)
        PROVE  IsPrefix(data[dir[x]], data'[dir[x]])
    <3>1. At(p, "write")
      BY <2>2 DEF Write, WriteFails
    <3>2. /\ op[p].fd \in Inode /\ op[p].kind \in {"put", "chunk"}
      BY <2>t, <3>1, Writer
    <3>3. PICK block \in Block :
            data' = [data EXCEPT ![op[p].fd] = WriteAt(@, op[p].offset, block)]
      BY <2>2, <2>u DEF Write, WriteFails, Block
    <3>4. dir[x] = op[p].fd
      BY <2>t, <2>x, <3>2, <3>3
    <3>5. Target(p) = x
      BY <3>1, <3>4 DEF WritersInv, OpenBelowTarget
    <3>6. Len(data[op[p].fd]) = op[p].offset
      BY <3>1, <3>2, <3>5 DEF WritersInv, WriterReady
    <3>7. data'[dir[x]] = WriteAt(data[dir[x]], Len(data[dir[x]]), block)
      BY <2>t, <2>x, <3>3, <3>4, <3>6
    <3> QED
      BY <2>t, <2>x, <3>7, WriteAtEnd, AppendKeepsPrefix
  <2>3. ASSUME NEW p \in Process,
               \/ \E y \in Path : \/ PutFile(p, y) \/ DeleteFile(p, y)
                                  \/ \E o \in 0 .. Blocks - 1 : PutFileChunk(p, y, o)
               \/ \E r \in renames : RenameFile(p, r)
               \/ Stat(p) \/ Fail(p)
        PROVE  FALSE
    BY <2>3, <2>u DEF PutFile, DeleteFile, PutFileChunk, RenameFile, Start, Stat, Fail
  <2>4. ASSUME NEW p \in Process PROVE ~RemoveFile(p) /\ ~Rename(p) /\ ~Return(p)
    BY <2>d DEF RemoveFile, Rename, Return
  <2>5. ~Crash
    BY <2>d DEF Crash
  <2>6. ~UNCHANGED vars
    BY <2>u DEF vars
  <2> QED
    BY Zenon, <2>1, <2>2, <2>3, <2>4, <2>5, <2>6 DEF Next, Step
<1> QED
  BY <1>1, WritersInvariant, PTL DEF Spec, ChunksAppend

-----------------------------------------------------------------------------
(* The calls *)

(* A call, by its operation.                                               *)
CallOf(p) == [kind |-> op[p].kind, path |-> Target(p), offset |-> op[p].offset,
              answer |-> Answer(op[p].kind, op[p].step)]

(* What callers see, path by path and process by process.                  *)
LEMMA Seen ==
  /\ files = [x \in Path |-> files[x]] /\ calls = [p \in Process |-> calls[p]]
  /\ \A x \in Path : files[x] = IF dir[x] # 0 /\ x \in Steady THEN Calls!File(data[dir[x]])
                                ELSE Calls!NoFile
  /\ \A p \in Process : calls[p] = IF Active(p) /\ Target(p) \in Steady THEN CallOf(p)
                                   ELSE Calls!NoCall
BY DEF files, calls, CallOf, Calls!File, Calls!NoFile, Calls!NoCall

(* Callers see no change where the files of the steady paths stay.         *)
LEMMA FilesKept ==
  ASSUME renames' = renames,
         \A x \in Steady : dir'[x] = dir[x] /\ (dir[x] # 0 => data'[dir[x]] = data[dir[x]])
  PROVE  files' = files
<1>1. Steady' = Steady
  BY DEF Steady
<1> QED
  BY <1>1 DEF files

(* They see one change at most where those of the others stay.             *)
LEMMA FileLeft ==
  ASSUME renames' = renames, NEW y \in Path,
         \A x \in Steady \ {y} : dir'[x] = dir[x] /\ (dir[x] # 0 => data'[dir[x]] = data[dir[x]])
  PROVE  files' = [files EXCEPT ![y] = files'[y]]
<1>1. Steady' = Steady
  BY DEF Steady
<1>2. \A x \in Path \ {y} : files'[x] = files[x]
  BY <1>1 DEF files
<1>3. files = [x \in Path |-> files[x]] /\ files' = [x \in Path |-> files'[x]]
  BY DEF files
<1> QED
  BY <1>2, <1>3

(* An operation that moves on gives its answer.                            *)
LEMMA CallMoves ==
  ASSUME TypeOK, OpsShaped, renames' = renames, NEW p \in Process, Active(p),
         NEW step \in Steps, NEW fd \in {0} \cup Inode, MovesTo(p, step, fd)
  PROVE  calls' = IF Target(p) \in Steady
                    THEN [calls EXCEPT ![p].answer = Answer(op[p].kind, step)] ELSE calls
<1>1. /\ Active(p)' /\ op'[p].step = step
      /\ op'[p].kind = op[p].kind /\ op'[p].keys = op[p].keys /\ op'[p].offset = op[p].offset
      /\ \A q \in Process \ {p} : op'[q] = op[q]
  BY Moves
<1>2. Steady' = Steady /\ \A q \in Process : Target(q)' = Target(q) /\ (Active(q)' <=> Active(q))
  BY <1>1 DEF Steady, Target, Active
<1>3. \A q \in Process \ {p} : calls'[q] = calls[q]
  BY <1>1, <1>2 DEF calls
<1>4. calls = [q \in Process |-> calls[q]] /\ calls' = [q \in Process |-> calls'[q]]
  BY DEF calls
<1>5. CASE Target(p) \in Steady
  <2>1. calls[p] = CallOf(p) /\ calls'[p] = CallOf(p)'
    BY <1>1, <1>2, <1>5 DEF calls, CallOf
  <2>2. CallOf(p)' = [CallOf(p) EXCEPT !.answer = Answer(op[p].kind, step)]
    BY <1>1, <1>2 DEF CallOf
  <2> HIDE DEF CallOf
  <2>3. calls' = [calls EXCEPT ![p] = calls'[p]]
    BY <1>3, <1>4
  <2> QED
    BY <1>4, <1>5, <2>1, <2>2, <2>3
<1>6. CASE Target(p) \notin Steady
  <2>1. calls'[p] = calls[p]
    BY <1>2, <1>6 DEF calls
  <2> QED
    BY <1>3, <1>4, <1>6, <2>1
<1> QED
  BY <1>5, <1>6

(* One that gives the same answer as before is seen as it was.             *)
LEMMA CallStays ==
  ASSUME TypeOK, OpsShaped, renames' = renames, NEW p \in Process, Active(p),
         NEW step \in Steps, NEW fd \in {0} \cup Inode, MovesTo(p, step, fd),
         Target(p) \notin Steady \/ Answer(op[p].kind, op[p].step) = Answer(op[p].kind, step)
  PROVE  calls' = calls
<1>1. CASE Target(p) \notin Steady
  BY <1>1, CallMoves
<1>2. CASE Target(p) \in Steady
  <2>1. calls[p] = CallOf(p) /\ calls = [q \in Process |-> calls[q]]
    BY <1>2 DEF calls, CallOf
  <2>2. calls' = [calls EXCEPT ![p].answer = Answer(op[p].kind, op[p].step)]
    BY <1>2, CallMoves
  <2>3. [CallOf(p) EXCEPT !.answer = Answer(op[p].kind, op[p].step)] = CallOf(p)
    BY DEF CallOf
  <2> QED
    BY <2>1, <2>2, <2>3
<1> QED
  BY <1>1, <1>2

(* Steps that leave names and inodes as they are, but for what is free.    *)
LEMMA NamesKept ==
  ASSUME TypeOK, renames' = renames, dir' = dir, data' = data \/ Discard
  PROVE  files' = files
<1>1. ASSUME NEW x \in Steady, dir[x] # 0 PROVE data'[dir[x]] = data[dir[x]]
  <2>1. x \in Path
    BY DEF Steady
  <2> QED
    BY <1>1, <2>1, NamedIsKept
<1> QED
  BY <1>1, FilesKept

(* Open leaves an empty file, or the one it finds.                         *)
LEMMA OpenLeaves ==
  ASSUME FInv, renames' = renames, NEW p \in Process, Open(p)
  PROVE  files' = IF Target(p) \in Steady /\ (dir[Target(p)] = 0 \/ op[p].kind = "put")
                    THEN [files EXCEPT ![Target(p)] = Calls!File(<<>>)] ELSE files
<1> DEFINE y == Target(p)
<1>t. /\ TypeOK /\ OpsShaped /\ OnePathPerFile /\ Steady' = Steady
      /\ dir \in [Path -> {0} \cup Inode] /\ data \in [Inode -> Content]
  BY Typed DEF FInv, Steady
<1>1. PICK i \in Inode :
        /\ dir' = [dir EXCEPT ![y] = i]
        /\ IF dir[y] = 0 THEN i \in Free ELSE i = dir[y]
        /\ data' = IF dir[y] = 0 \/ op[p].kind = "put" THEN [data EXCEPT ![i] = <<>>] ELSE data
  BY Opened
<1>2. y \in Path /\ i # 0
  BY Opened DEF Inode
<1> HIDE DEF y
<1>3. dir'[y] = i /\ \A x \in Path \ {y} : dir'[x] = dir[x]
  BY <1>t, <1>1, <1>2
<1>4. ASSUME NEW x \in Steady \ {y}
      PROVE  dir'[x] = dir[x] /\ (dir[x] # 0 => data'[dir[x]] = data[dir[x]])
  <2>1. x \in Path \ {y}
    BY DEF Steady
  <2>2. dir[x] # 0 => dir[x] # i
    BY <1>t, <1>1, <1>2, <2>1 DEF Free, OnePathPerFile
  <2> QED
    BY <1>t, <1>1, <1>3, <2>1, <2>2
<1>5. files' = [files EXCEPT ![y] = files'[y]]
  BY <1>2, <1>4, FileLeft
<1>6. /\ files = [x \in Path |-> files[x]]
      /\ files'[y] = IF y \in Steady THEN Calls!File(data'[i]) ELSE Calls!NoFile
  BY <1>t, <1>2, <1>3 DEF files, Calls!File, Calls!NoFile
<1>7. CASE y \in Steady /\ (dir[y] = 0 \/ op[p].kind = "put")
  <2>1. data'[i] = <<>>
    BY <1>t, <1>1, <1>7
  <2> QED
    BY <1>5, <1>6, <1>7, <2>1 DEF y
<1>8. CASE y \in Steady /\ dir[y] # 0 /\ op[p].kind # "put"
  <2>1. files'[y] = files[y]
    BY <1>1, <1>2, <1>6, <1>8 DEF files, Calls!File
  <2> QED
    BY <1>5, <1>6, <1>8, <2>1 DEF y
<1>9. CASE y \notin Steady
  <2>1. files'[y] = files[y]
    BY <1>2, <1>6, <1>9 DEF files, Calls!NoFile
  <2> QED
    BY <1>5, <1>6, <1>9, <2>1 DEF y
<1> QED
  BY <1>7, <1>8, <1>9

(* A write at the end of the file its writer finds under its path.         *)
LEMMA WriteLeaves ==
  ASSUME FInv, WritersInv, renames' = renames, NEW p \in Process, At(p, "write"), dir' = dir,
         NEW block \in Block,
         data' = [data EXCEPT ![op[p].fd] = WriteAt(@, op[p].offset, block)]
  PROVE  IF Target(p) \in Steady
           THEN /\ files[Target(p)] = Calls!File(data[op[p].fd])
                /\ Len(data[op[p].fd]) = op[p].offset
                /\ op[p].kind = "put" => data[op[p].fd] = <<>>
                /\ files' = [files EXCEPT ![Target(p)] = Calls!File(Append(data[op[p].fd], block))]
           ELSE files' = files
<1> DEFINE y == Target(p)
           i == op[p].fd
<1>t. /\ TypeOK /\ OpsShaped /\ Steady' = Steady
      /\ dir \in [Path -> {0} \cup Inode] /\ data \in [Inode -> Content]
  BY Typed DEF FInv, Steady
<1>1. /\ i \in Inode /\ i # 0 /\ data[i] \in Content /\ op[p].kind \in {"put", "chunk"}
      /\ op[p].kind = "put" => op[p].offset = 0
      /\ y \in Path
  BY <1>t, Writer DEF Inode
<1>2. \A x \in Steady : dir[x] = i => x = y
  BY DEF WritersInv, OpenBelowTarget
<1>3. \A x \in Steady \ {y} : dir'[x] = dir[x] /\ (dir[x] # 0 => data'[dir[x]] = data[dir[x]])
  <2> SUFFICES ASSUME NEW x \in Steady \ {y}, dir[x] # 0 PROVE data'[dir[x]] = data[dir[x]]
    OBVIOUS
  <2>1. dir[x] \in Inode /\ dir[x] # i
    BY <1>t, <1>2 DEF Steady
  <2> QED
    BY <1>t, <2>1
<1>4. CASE y \in Steady
  <2>1. /\ dir[y] = i
        /\ op[p].kind = "put" => data[i] = <<>>
        /\ op[p].kind = "chunk" => Len(data[i]) = op[p].offset
    BY <1>4 DEF WritersInv, WriterReady
  <2>2. Len(data[i]) = op[p].offset
    <3>1. Len(<<>>) = 0
      OBVIOUS
    <3> QED
      BY <1>1, <2>1, <3>1
  <2>3. data'[i] = Append(data[i], block)
    <3>1. data'[i] = WriteAt(data[i], op[p].offset, block)
      BY <1>t, <1>1
    <3> QED
      BY <1>1, <2>2, <3>1, WriteAtEnd
  <2>4. files[y] = Calls!File(data[i]) /\ files'[y] = Calls!File(data'[i])
    BY <1>t, <1>1, <1>4, <2>1 DEF files, Calls!File
  <2>5. files' = [files EXCEPT ![y] = files'[y]]
    BY <1>1, <1>3, FileLeft
  <2> QED
    BY <1>4, <2>1, <2>2, <2>3, <2>4, <2>5
<1>5. CASE y \notin Steady
  BY <1>3, <1>5, FilesKept
<1> QED
  BY <1>4, <1>5

(* RemoveFile leaves no file.                                              *)
LEMMA RemoveLeaves ==
  ASSUME FInv, renames' = renames, NEW p \in Process, RemoveFile(p)
  PROVE  /\ Active(p) /\ Target(p) \in Path
         /\ files' = IF Target(p) \in Steady THEN [files EXCEPT ![Target(p)] = Calls!NoFile]
                     ELSE files
<1> DEFINE y == Target(p)
<1>t. /\ TypeOK /\ OpsShaped /\ Steady' = Steady /\ dir \in [Path -> {0} \cup Inode]
  BY Typed DEF FInv, Steady
<1>1. Active(p) /\ y \in Path /\ dir' = [dir EXCEPT ![y] = 0] /\ Discard
  BY <1>t, Typed, KeysOf DEF RemoveFile, At
<1>2. dir'[y] = 0 /\ \A x \in Path \ {y} : dir'[x] = dir[x]
  BY <1>t, <1>1
<1>3. \A x \in Steady \ {y} : dir'[x] = dir[x] /\ (dir[x] # 0 => data'[dir[x]] = data[dir[x]])
  BY <1>t, <1>1, <1>2, NamedIsKept DEF Steady
<1>4. CASE y \in Steady
  <2>1. files'[y] = Calls!NoFile
    BY <1>1, <1>2 DEF files, Calls!NoFile
  <2> QED
    BY <1>1, <1>3, <1>4, <2>1, FileLeft
<1>5. CASE y \notin Steady
  BY <1>1, <1>3, <1>5, FilesKept
<1> QED
  BY <1>1, <1>4, <1>5

(* Rename leaves the steady paths alone.                                   *)
LEMMA RenameLeaves ==
  ASSUME FInv, renames' = renames, NEW p \in Process, Rename(p)
  PROVE  Active(p) /\ op[p].kind = "rename" /\ Target(p) \notin Steady /\ files' = files
<1>t. TypeOK /\ OpsShaped /\ dir \in [Path -> {0} \cup Inode]
  BY Typed DEF FInv
<1>1. /\ Active(p) /\ op[p].step = "rename" /\ Discard
      /\ dir' = [dir EXCEPT ![op[p].keys[1]] = 0, ![op[p].keys[2]] = dir[op[p].keys[1]]]
  BY <1>t, Typed DEF Rename, At
<1>2. op[p].kind = "rename" /\ op[p].keys \in renames /\ Target(p) \notin Steady
  BY <1>t, <1>1, KeysOf DEF OpsShaped
<1>3. \A x \in Steady : x \in Path /\ dir'[x] = dir[x]
  BY <1>t, <1>1, <1>2 DEF Steady
<1> QED
  BY <1>t, <1>1, <1>2, <1>3, NamedIsKept, FilesKept

(* A chunk that is about to remove its file found it of the wrong size,    *)
(* and so it is still.                                                     *)
SizeStillWrong(p) ==
  At(p, "remove") /\ op[p].kind = "chunk" /\ Target(p) \in Steady =>
    ~(files[Target(p)].exists /\ Len(files[Target(p)].blocks) = op[p].offset)

CorruptedInv == \A p \in Process : SizeStillWrong(p)

(* It is inductive: whoever changes a steady file has its path.            *)
LEMMA CorruptedInvStep == FInv /\ WritersInv /\ CorruptedInv /\ [Next]_vars => CorruptedInv'
<1> SUFFICES ASSUME FInv, WritersInv, CorruptedInv, [Next]_vars PROVE CorruptedInv'
  OBVIOUS
<1>t. /\ TypeOK /\ OpsShaped
      /\ dir \in [Path -> {0} \cup Inode] /\ op \in [Process -> {Idle} \cup Tasks]
      /\ data \in [Inode -> Content]
  BY Typed DEF FInv
<1>u. renames' = renames /\ Steady' = Steady /\ files = [x \in Path |-> files[x]]
  BY DEF Next, vars, Steady, files
<1>a. \A q \in Process : Active(q) <=> op[q].step # "idle"
  BY <1>t, Typed
(* An operation whose file stays the same.                                 *)
<1>o. ASSUME NEW q \in Process, op'[q] = op[q],
             At(q, "remove") /\ Target(q) \in Steady => files'[Target(q)] = files[Target(q)]
      PROVE  SizeStillWrong(q)'
  <2>1. /\ Target(q)' = Target(q) /\ (At(q, "remove")' <=> At(q, "remove"))
        /\ op'[q].kind = op[q].kind /\ op'[q].offset = op[q].offset
    BY <1>o DEF Target, At
  <2>2. SizeStillWrong(q)
    BY DEF CorruptedInv
  <2> QED
    BY <1>o, <1>u, <2>1, <2>2 DEF SizeStillWrong
(* An operation that moves on and may change its own file.                 *)
<1>p. ASSUME NEW p \in Process, Active(p), NEW step \in Steps, NEW fd \in {0} \cup Inode,
             MovesTo(p, step, fd), step # "remove" \/ op[p].kind = "put",
             files' = files \/ \E f : files' = [files EXCEPT ![Target(p)] = f]
      PROVE  CorruptedInv'
  <2>1. /\ op'[p].step = step /\ op'[p].kind = op[p].kind
        /\ \A q \in Process \ {p} : op'[q] = op[q]
    BY <1>t, <1>p, Moves
  <2>2. SizeStillWrong(p)'
    BY <1>p, <2>1 DEF SizeStillWrong, At
  <2>3. ASSUME NEW q \in Process \ {p} PROVE SizeStillWrong(q)'
    <3>1. ASSUME At(q, "remove"), Target(q) \in Steady
          PROVE  files'[Target(q)] = files[Target(q)]
      <4>1. Active(q)
        BY <1>a, <3>1 DEF At
      <4>2. Target(q) # Target(p) /\ Target(q) \in Path
        BY <1>p, <1>t, <3>1, <4>1, Alone, KeysOf
      <4> QED
        BY <1>p, <1>u, <4>2
    <3> QED
      BY <1>o, <2>1, <3>1
  <2> QED
    BY <2>2, <2>3 DEF CorruptedInv
(* What starts or ends is about to remove no file, or has found none       *)
(* wrong.                                                                  *)
<1>s. ASSUME NEW p \in Process, \A q \in Process \ {p} : op'[q] = op[q], files' = files,
             op'[p].step # "remove" \/ op'[p].kind # "chunk"
      PROVE  CorruptedInv'
  <2>1. SizeStillWrong(p)'
    BY <1>s DEF SizeStillWrong, At
  <2> QED
    BY <1>o, <1>s, <2>1 DEF CorruptedInv
<1>1. ASSUME NEW p \in Process, NEW x \in Path,
             \/ PutFile(p, x) \/ DeleteFile(p, x)
             \/ \E o \in 0 .. Blocks - 1 : PutFileChunk(p, x, o)
      PROVE  CorruptedInv'
  <2>1. PICK kind \in {"put", "delete", "chunk"}, step \in {"open", "stat", "remove"}, o \in Nat :
          /\ op' = [op EXCEPT ![p] = Task(kind, step, <<x>>, o)] /\ dir' = dir /\ data' = data
          /\ step = "remove" => kind = "delete"
    <3>1. 0 \in Nat /\ \A o \in 0 .. Blocks - 1 : o \in Nat
      OBVIOUS
    <3> QED
      BY <1>1, <3>1 DEF PutFile, DeleteFile, PutFileChunk, Start
  <2>2. /\ op'[p].step = step /\ op'[p].kind = kind /\ \A q \in Process \ {p} : op'[q] = op[q]
    BY <1>t, <2>1 DEF Task
  <2> QED
    BY <1>s, <1>t, <1>u, <2>1, <2>2, NamesKept
<1>2. ASSUME NEW p \in Process, NEW r \in renames, RenameFile(p, r) PROVE CorruptedInv'
  <2>1. op' = [op EXCEPT ![p] = Task("rename", "rename", r, 0)] /\ dir' = dir /\ data' = data
    BY <1>2 DEF RenameFile
  <2>2. /\ op'[p].step = "rename" /\ \A q \in Process \ {p} : op'[q] = op[q]
    BY <1>t, <2>1 DEF Task
  <2> QED
    BY <1>s, <1>t, <1>u, <2>1, <2>2, NamesKept
<1>3. ASSUME NEW p \in Process, Fail(p) PROVE CorruptedInv'
  <2>1. Active(p) /\ MovesTo(p, "failed", 0) /\ dir' = dir /\ data' = data /\ "failed" \in Steps
    BY <1>3, <1>a DEF Fail, GoTo, MovesTo, Steps
  <2> QED
    BY <1>p, <1>t, <1>u, <2>1, NamesKept
<1>4. ASSUME NEW p \in Process, Stat(p) PROVE CorruptedInv'
  <2>1. Active(p) /\ dir' = dir /\ data' = data /\ files' = files
    BY <1>4, <1>a, <1>t, <1>u, NamesKept DEF Stat, At
  <2>2. PICK step \in {"open", "remove", "failed"} :
          /\ GoTo(p, step)
          /\ step = "remove" => dir[Target(p)] # 0 /\ Len(data[dir[Target(p)]]) # op[p].offset
    BY <1>4 DEF Stat
  <2>3. MovesTo(p, step, 0) /\ step \in Steps
    BY <2>2 DEF GoTo, MovesTo, Steps
  <2>4. CASE step = "remove"
    <3>1. /\ op'[p].keys = op[p].keys /\ op'[p].offset = op[p].offset
          /\ \A q \in Process \ {p} : op'[q] = op[q]
      BY <1>t, <2>1, <2>3, Moves
    <3>2. Target(p) \in Steady => files[Target(p)].blocks = data[dir[Target(p)]]
      BY <2>2, <2>4 DEF files, Steady
    <3>3. SizeStillWrong(p)'
      BY <1>u, <2>1, <2>2, <2>4, <3>1, <3>2 DEF SizeStillWrong, Target
    <3> QED
      BY <1>o, <2>1, <3>1, <3>3 DEF CorruptedInv
  <2>5. CASE step # "remove"
    BY <1>p, <2>1, <2>3, <2>5
  <2> QED
    BY <2>4, <2>5
<1>5. ASSUME NEW p \in Process, Open(p) PROVE CorruptedInv'
  <2>1. PICK i \in Inode : Active(p) /\ MovesTo(p, "write", i)
    BY <1>5, Opened
  <2>2. "write" \in Steps
    BY DEF Steps
  <2>3. files' = files \/ files' = [files EXCEPT ![Target(p)] = Calls!File(<<>>)]
    BY <1>5, <1>u, OpenLeaves
  <2> QED
    BY <1>p, <2>1, <2>2, <2>3
<1>6. ASSUME NEW p \in Process, Write(p) \/ WriteFails(p) PROVE CorruptedInv'
  <2>1. At(p, "write") /\ dir' = dir
    BY <1>6 DEF Write, WriteFails
  <2>2. Active(p)
    BY <1>t, <2>1, Writer
  <2>3. PICK step \in {"done", "remove", "failed"} :
          GoTo(p, step) /\ (step = "remove" => op[p].kind = "put")
    BY <1>6 DEF Write, WriteFails
  <2>4. MovesTo(p, step, 0) /\ step \in Steps
    BY <2>3 DEF GoTo, MovesTo, Steps
  <2>5. CASE data' = data
    BY <1>p, <1>t, <1>u, <2>1, <2>2, <2>3, <2>4, <2>5, NamesKept
  <2>6. CASE data' # data
    <3>1. PICK block \in Block :
            data' = [data EXCEPT ![op[p].fd] = WriteAt(@, op[p].offset, block)]
      BY <1>6, <2>6 DEF Write, WriteFails, Block
    <3>2. files' = files \/ \E f : files' = [files EXCEPT ![Target(p)] = f]
      BY <1>u, <2>1, <3>1, WriteLeaves
    <3> QED
      BY <1>p, <2>2, <2>3, <2>4, <3>2
  <2> QED
    BY <2>5, <2>6
<1>7. ASSUME NEW p \in Process, RemoveFile(p) PROVE CorruptedInv'
  <2>1. PICK step \in {"done", "failed"} : GoTo(p, step)
    BY <1>7 DEF RemoveFile
  <2>2. MovesTo(p, step, 0) /\ step \in Steps
    BY <2>1 DEF GoTo, MovesTo, Steps
  <2>3. Active(p) /\ (files' = files \/ files' = [files EXCEPT ![Target(p)] = Calls!NoFile])
    BY <1>7, <1>u, RemoveLeaves
  <2> QED
    BY <1>p, <2>2, <2>3
<1>8. ASSUME NEW p \in Process, Rename(p) PROVE CorruptedInv'
  <2>1. MovesTo(p, "done", 0) /\ "done" \in Steps
    BY <1>8 DEF Rename, GoTo, MovesTo, Steps
  <2>2. Active(p) /\ files' = files
    BY <1>8, <1>u, RenameLeaves
  <2> QED
    BY <1>p, <2>1, <2>2
<1>9. ASSUME NEW p \in Process, Return(p) PROVE CorruptedInv'
  <2>1. op' = [op EXCEPT ![p] = Idle] /\ dir' = dir /\ Discard
    BY <1>9 DEF Return
  <2>2. op'[p].step # "remove" /\ \A q \in Process \ {p} : op'[q] = op[q]
    BY <1>t, <2>1 DEF Idle
  <2> QED
    BY <1>s, <1>t, <1>u, <2>1, <2>2, NamesKept
<1>10. ASSUME Crash PROVE CorruptedInv'
  <2>1. \A q \in Process : op'[q].step = "idle"
    BY <1>10 DEF Crash, Idle
  <2> QED
    BY <2>1 DEF CorruptedInv, SizeStillWrong, At
<1>11. ASSUME UNCHANGED vars PROVE CorruptedInv'
  <2>1. UNCHANGED <<renames, locks, dir, data, op>>
    BY <1>11 DEF vars
  <2>2. files' = files
    BY <1>t, <2>1, NamesKept
  <2> QED
    BY <1>o, <2>1, <2>2 DEF CorruptedInv
<1> QED
  BY Zenon, <1>1, <1>2, <1>3, <1>4, <1>5, <1>6, <1>7, <1>8, <1>9, <1>10, <1>11
     DEF Next, Step

(* An operation on a steady path is a call for it, and no rename.          *)
LEMMA CallSeen ==
  ASSUME TypeOK, OpsShaped, NEW p \in Process, Active(p), Target(p) \in Steady
  PROVE  /\ p \in Calls!Calling /\ op[p].kind \in {"put", "chunk", "delete"}
         /\ calls[p].kind = op[p].kind /\ calls[p].path = Target(p)
         /\ calls[p].offset = op[p].offset /\ calls[p].answer = Answer(op[p].kind, op[p].step)
<1>1. op[p] \in Tasks /\ op[p].kind # "rename"
  BY Typed, KeysOf
<1>2. calls[p] = CallOf(p)
  BY Seen
<1>3. op[p].kind \in {"put", "chunk", "delete"}
  BY <1>1 DEF Tasks
<1>4. calls[p].kind = op[p].kind
  BY <1>2 DEF CallOf
<1>5. calls[p] # Calls!NoCall
  BY <1>3, <1>4 DEF Calls!NoCall
<1> QED
  BY <1>2, <1>3, <1>5 DEF CallOf, Calls!Calling

(* A step within an operation: its answer stays, or is given.              *)
LEMMA AnswerGiven ==
  ASSUME TypeOK, OpsShaped, renames' = renames, NEW p \in Process, Active(p),
         NEW step \in Steps, GoTo(p, step)
  PROVE  IF Target(p) \in Steady THEN Calls!Answer(p, Answer(op[p].kind, step)) ELSE calls' = calls
<1>1. MovesTo(p, step, 0)
  BY DEF GoTo, MovesTo
<1> QED
  BY <1>1, CallMoves DEF Calls!Answer

(* Callers see nothing of a step that leaves the answer.                   *)
LEMMA AnswerStays ==
  ASSUME TypeOK, OpsShaped, renames' = renames, NEW p \in Process, Active(p),
         NEW step \in Steps, NEW fd \in {0} \cup Inode, MovesTo(p, step, fd),
         Answer(op[p].kind, op[p].step) = Answer(op[p].kind, step)
  PROVE  UNCHANGED calls
BY CallStays

(* The answers of the steps.                                               *)
LEMMA Answers ==
  /\ \A kind : /\ Answer(kind, "done") = "done" /\ Answer(kind, "failed") = "failed"
               /\ \A step \in {"stat", "open", "write", "rename"} : Answer(kind, step) = "pending"
               /\ kind # "put" => Answer(kind, "remove") = "pending"
  /\ Answer("put", "remove") = "failed"
BY DEF Answer

(* An operation that starts is a call that begins, if its path is steady.  *)
LEMMA CallsStart ==
  ASSUME FInv, renames' = renames, NEW p \in Process, NEW x \in Path, NEW task \in Tasks,
         Start(p, x, task), task.keys = <<x>>, task.kind \in {"put", "chunk", "delete"},
         Answer(task.kind, task.step) = "pending"
  PROVE  [Calls!Next]_(Calls!vars)
<1>t. /\ TypeOK /\ OpsShaped /\ SteadyLocked /\ Steady' = Steady
      /\ op \in [Process -> {Idle} \cup Tasks]
  BY Typed DEF FInv, KeysInv, Steady
<1>1. /\ At(p, "idle") /\ x \notin locks /\ op' = [op EXCEPT ![p] = task] /\ dir' = dir /\ data' = data
  BY DEF Start, Lockable
<1>2. /\ ~Active(p) /\ op'[p] = task /\ task # Idle /\ \A q \in Process \ {p} : op'[q] = op[q]
  BY <1>t, <1>1, Typed DEF At, Tasks, Idle
<1>3. /\ Active(p)' /\ Target(p)' = x /\ \A q \in Process \ {p} : calls'[q] = calls[q]
  BY <1>t, <1>2 DEF Active, Target, calls
<1>4. /\ calls = [q \in Process |-> calls[q]] /\ calls' = [q \in Process |-> calls'[q]]
      /\ files' = files /\ calls[p] = Calls!NoCall
  BY <1>t, <1>1, <1>2, NamesKept, Seen DEF calls
<1>5. CASE x \in Steady
  <2>1. calls'[p] = [kind |-> task.kind, path |-> x, offset |-> task.offset, answer |-> "pending"]
    BY <1>t, <1>2, <1>3, <1>5 DEF calls
  <2>2. calls'[p] \in Calls!Request /\ calls'[p].path = x
    BY <2>1 DEF Calls!Request, Tasks
  <2>3. ASSUME NEW q \in Calls!Calling PROVE calls[q].path # x
    <3>1. q \in Process /\ Active(q) /\ Target(q) \in Steady /\ calls[q] = CallOf(q)
      BY <2>3, Seen DEF Calls!Calling
    <3>2. Target(q) \in locks
      BY <1>t, <3>1, KeysOf DEF SteadyLocked
    <3>3. calls[q].path = Target(q)
      BY <3>1 DEF CallOf
    <3> QED
      BY <1>1, <3>2, <3>3
  <2>4. calls' = [calls EXCEPT ![p] = calls'[p]]
    BY <1>3, <1>4
  <2>5. p \in Process \ Calls!Calling
    BY <1>4 DEF Calls!Calling
  <2>6. Calls!Begin(p)
    BY <1>4, <2>2, <2>3, <2>4 DEF Calls!Begin
  <2> QED
    BY <2>5, <2>6 DEF Calls!Next
<1>6. CASE x \notin Steady
  <2>1. calls'[p] = calls[p]
    BY <1>t, <1>3, <1>4, <1>6 DEF calls, Calls!NoCall
  <2> QED
    BY <1>3, <1>4, <2>1 DEF Calls!vars
<1> QED
  BY <1>5, <1>6

(* Every step is a step of the calls, or none.                             *)
LEMMA CallsStep ==
  FInv /\ WritersInv /\ CorruptedInv /\ [Next]_vars => [Calls!Next]_(Calls!vars)
<1> SUFFICES ASSUME FInv, WritersInv, CorruptedInv, [Next]_vars
             PROVE  [Calls!Next]_(Calls!vars)
  OBVIOUS
<1>t. /\ TypeOK /\ OpsShaped /\ Steady \subseteq Path
      /\ dir \in [Path -> {0} \cup Inode] /\ op \in [Process -> {Idle} \cup Tasks]
      /\ data \in [Inode -> Content]
  BY Typed DEF FInv, Steady
<1>u. renames' = renames /\ Steady' = Steady
  BY DEF Next, vars, Steady
<1>a. \A q \in Process : Active(q) <=> op[q].step # "idle"
  BY <1>t, Typed
<1>s. {"open", "write", "remove", "done", "failed"} \subseteq Steps
  BY DEF Steps
(* What nobody sees.                                                       *)
<1>n. calls' = calls /\ files' = files => [Calls!Next]_(Calls!vars)
  BY DEF Calls!vars
(* A step of a call that has begun.                                        *)
<1>c. ASSUME NEW p \in Calls!Calling,
             \/ Calls!Empty(p) \/ Calls!PutFile(p) \/ Calls!PutFileChunk(p) \/ Calls!DeleteFile(p)
             \/ Calls!RemoveCorrupted(p) \/ Calls!Fail(p) \/ Calls!Tear(p) \/ Calls!CleanUp(p)
             \/ Calls!Return(p)
      PROVE  [Calls!Next]_(Calls!vars)
  BY <1>c DEF Calls!Next
(* A call that fails and leaves its file.                                  *)
<1>f. ASSUME NEW p \in Process, Active(p), op[p].step \in {"stat", "open", "write", "rename", "remove"},
             NEW step \in Steps, GoTo(p, step), Answer(op[p].kind, step) = "failed", files' = files
      PROVE  [Calls!Next]_(Calls!vars)
  <2>1. CASE Target(p) \notin Steady
    BY <1>f, <1>n, <1>t, <1>u, <2>1, AnswerGiven
  <2>2. CASE Target(p) \in Steady /\ Answer(op[p].kind, op[p].step) = "failed"
    <3>1. MovesTo(p, step, 0)
      BY <1>f DEF GoTo, MovesTo
    <3>2. calls' = calls
      BY <1>f, <1>t, <1>u, <2>2, <3>1, AnswerStays
    <3> QED
      BY <1>f, <1>n, <3>2
  <2>3. CASE Target(p) \in Steady /\ Answer(op[p].kind, op[p].step) # "failed"
    <3>1. Calls!Answer(p, "failed")
      BY <1>f, <1>t, <1>u, <2>3, AnswerGiven
    <3>2. Answer(op[p].kind, op[p].step) = "pending"
      BY <1>f, <2>3, Answers
    <3>3. p \in Calls!Calling /\ Calls!Fail(p)
      BY <1>f, <1>t, <2>3, <3>1, <3>2, CallSeen DEF Calls!Fail, Calls!Pending
    <3> QED
      BY <1>c, <3>3
  <2> QED
    BY <2>1, <2>2, <2>3
<1>1. ASSUME NEW p \in Process, NEW x \in Path,
             \/ PutFile(p, x) \/ DeleteFile(p, x)
             \/ \E o \in 0 .. Blocks - 1 : PutFileChunk(p, x, o)
      PROVE  [Calls!Next]_(Calls!vars)
  <2>1. /\ 0 \in 0 .. MaxBlocks - 1 /\ \A o \in 0 .. Blocks - 1 : o \in 0 .. MaxBlocks - 1
    BY StorageType DEF Blocks
  <2>2. PICK kind \in {"put", "chunk", "delete"}, step \in {"open", "stat", "remove"},
             o \in 0 .. MaxBlocks - 1 :
          /\ Start(p, x, Task(kind, step, <<x>>, o))
          /\ kind = "put" => step = "open"
    BY <1>1, <2>1 DEF PutFile, DeleteFile, PutFileChunk
  <2>3. PICK task \in Tasks : task = Task(kind, step, <<x>>, o)
    BY DEF Task, Tasks, Steps
  <2>4. task.keys = <<x>> /\ task.kind = kind /\ task.step = step
    BY <2>3 DEF Task
  <2>5. Answer(kind, step) = "pending"
    BY <2>2, Answers
  <2> QED
    BY <1>u, <2>2, <2>3, <2>4, <2>5, CallsStart
<1>2. ASSUME NEW p \in Process, NEW r \in renames, RenameFile(p, r) PROVE [Calls!Next]_(Calls!vars)
  <2>1. At(p, "idle") /\ op' = [op EXCEPT ![p] = Task("rename", "rename", r, 0)] /\ dir' = dir /\ data' = data
    BY <1>2 DEF RenameFile
  <2>2. /\ ~Active(p) /\ op'[p].keys = r /\ \A q \in Process \ {p} : op'[q] = op[q]
    BY <1>a, <1>t, <2>1 DEF Task, At
  <2>3. r[1] \notin Steady
    BY DEF Steady
  <2>4. \A q \in Process : calls'[q] = calls[q]
    BY <1>u, <2>2, <2>3 DEF calls, Active, Target
  <2>5. calls' = calls
    <3>1. calls = [q \in Process |-> calls[q]] /\ calls' = [q \in Process |-> calls'[q]]
      BY DEF calls
    <3> QED
      BY <2>4, <3>1
  <2> QED
    BY <1>n, <1>t, <1>u, <2>1, <2>5, NamesKept
<1>3. ASSUME NEW p \in Process, Fail(p) PROVE [Calls!Next]_(Calls!vars)
  <2>1. /\ Active(p) /\ op[p].step \in {"stat", "open", "write", "rename", "remove"}
        /\ GoTo(p, "failed") /\ files' = files
    BY <1>3, <1>a, <1>t, <1>u, NamesKept DEF Fail
  <2> QED
    BY <1>f, <1>s, <2>1, Answers
<1>4. ASSUME NEW p \in Process, Stat(p) PROVE [Calls!Next]_(Calls!vars)
  <2>1. /\ Active(p) /\ op[p].step = "stat" /\ op[p].kind = "chunk" /\ files' = files
    BY <1>4, <1>a, <1>t, <1>u, NamesKept DEF Stat, At, OpsShaped
  <2>2. PICK step \in {"open", "remove", "failed"} : GoTo(p, step)
    BY <1>4 DEF Stat
  <2>3. CASE step = "failed"
    BY <1>f, <1>s, <2>1, <2>2, <2>3, Answers
  <2>4. CASE step # "failed"
    <3>1. MovesTo(p, step, 0) /\ Answer(op[p].kind, op[p].step) = Answer(op[p].kind, step)
      BY <2>1, <2>2, <2>4, Answers DEF GoTo, MovesTo
    <3>2. calls' = calls
      BY <1>s, <1>t, <1>u, <2>1, <3>1, AnswerStays
    <3> QED
      BY <1>n, <2>1, <3>2
  <2> QED
    BY <2>3, <2>4
<1>5. ASSUME NEW p \in Process, Open(p) PROVE [Calls!Next]_(Calls!vars)
  <2>1. /\ Active(p) /\ op[p].step = "open" /\ op[p].kind \in {"put", "chunk"} /\ Target(p) \in Path
    BY <1>5, Opened
  <2>2. PICK i \in Inode : MovesTo(p, "write", i)
    BY <1>5, Opened
  <2>3. calls' = calls
    <3>1. "write" \in Steps /\ i \in {0} \cup Inode
      BY <1>s
    <3>2. Answer(op[p].kind, op[p].step) = Answer(op[p].kind, "write")
      BY <2>1, Answers
    <3> QED
      BY <1>t, <1>u, <2>1, <2>2, <3>1, <3>2, AnswerStays
  <2>4. CASE Target(p) \in Steady /\ (dir[Target(p)] = 0 \/ op[p].kind = "put")
    <3>1. files' = [files EXCEPT ![Target(p)] = Calls!File(<<>>)]
      BY <1>5, <1>u, <2>4, OpenLeaves
    <3>2. op[p].kind = "chunk" => op[p].offset = 0 /\ files[Target(p)] = Calls!NoFile
      BY <2>1, <2>4, Seen DEF WritersInv, SizeStillRight, At
    <3>3. Calls!Empty(p) /\ p \in Calls!Calling
      BY <1>t, <2>1, <2>3, <2>4, <3>1, <3>2, Answers, CallSeen
         DEF Calls!Empty, Calls!Pending, Calls!Leave, Calls!Here
    <3> QED
      BY <1>c, <3>3
  <2>5. CASE ~(Target(p) \in Steady /\ (dir[Target(p)] = 0 \/ op[p].kind = "put"))
    BY <1>5, <1>n, <1>u, <2>3, <2>5, OpenLeaves
  <2> QED
    BY <2>4, <2>5
<1>6. ASSUME NEW p \in Process, Write(p) \/ (WriteFails(p) /\ data' # data)
      PROVE  [Calls!Next]_(Calls!vars)
  <2>1. At(p, "write") /\ dir' = dir
    BY <1>6 DEF Write, WriteFails
  <2>2. /\ Active(p) /\ op[p].step = "write" /\ op[p].kind \in {"put", "chunk"}
    BY <1>t, <2>1, Writer DEF At
  <2>3. PICK block \in Block, step \in {"done", "remove", "failed"} :
          /\ data' = [data EXCEPT ![op[p].fd] = WriteAt(@, op[p].offset, block)]
          /\ GoTo(p, step)
          /\ IF step = "done" THEN block = p ELSE block = "torn"
          /\ step = "remove" => op[p].kind = "put"
    BY <1>6 DEF Write, WriteFails, Block
  <2>4. step \in Steps
    BY <1>s
  <2>5. CASE Target(p) \in Steady
    <3> DEFINE s == data[op[p].fd]
    <3>1. /\ files[Target(p)] = Calls!File(s) /\ Len(s) = op[p].offset
          /\ op[p].kind = "put" => s = <<>>
          /\ files' = [files EXCEPT ![Target(p)] = Calls!File(Append(s, block))]
      BY <1>u, <2>1, <2>3, <2>5, WriteLeaves
    <3>2. /\ p \in Calls!Calling /\ calls[p].kind = op[p].kind /\ calls[p].path = Target(p)
          /\ calls[p].offset = op[p].offset /\ calls[p].answer = "pending"
      BY <1>t, <2>2, <2>5, Answers, CallSeen
    <3>3. Calls!Answer(p, IF step = "done" THEN "done" ELSE "failed")
      BY <1>t, <1>u, <2>2, <2>3, <2>4, <2>5, Answers, AnswerGiven
    <3> HIDE DEF s
    <3>4. Calls!File(s).exists /\ Calls!File(s).blocks = s
      BY DEF Calls!File
    <3>5. Calls!Here(p) = Calls!File(s) /\ Calls!AtEnd(p)
      BY <3>1, <3>2, <3>4 DEF Calls!Here, Calls!AtEnd
    <3>6. Calls!Leave(p, Calls!File(Append(s, block)))
      BY <3>1, <3>2 DEF Calls!Leave
    <3>7. CASE step = "done" /\ op[p].kind = "put"
      <4>1. Append(s, block) = <<p>>
        BY <2>3, <3>1, <3>7
      <4>2. Calls!PutFile(p)
        BY <3>2, <3>3, <3>6, <3>7, <4>1 DEF Calls!PutFile, Calls!Pending
      <4> QED
        BY <1>c, <3>2, <4>2
    <3>8. CASE step = "done" /\ op[p].kind = "chunk"
      <4>1. Calls!PutFileChunk(p)
        BY <2>3, <3>2, <3>3, <3>4, <3>5, <3>6, <3>8 DEF Calls!PutFileChunk, Calls!Pending
      <4> QED
        BY <1>c, <3>2, <4>1
    <3>9. CASE step # "done"
      <4>1. Calls!Tear(p)
        BY <2>2, <2>3, <3>1, <3>2, <3>3, <3>4, <3>5, <3>6, <3>9 DEF Calls!Tear, Calls!Pending
      <4> QED
        BY <1>c, <3>2, <4>1
    <3> QED
      BY <2>2, <3>7, <3>8, <3>9
  <2>6. CASE Target(p) \notin Steady
    <3>1. files' = files /\ calls' = calls
      BY <1>t, <1>u, <2>1, <2>2, <2>3, <2>4, <2>6, WriteLeaves, AnswerGiven
    <3> QED
      BY <1>n, <3>1
  <2> QED
    BY <2>5, <2>6
<1>7. ASSUME NEW p \in Process, WriteFails(p), data' = data PROVE [Calls!Next]_(Calls!vars)
  <2>1. At(p, "write") /\ dir' = dir
    BY <1>7 DEF WriteFails
  <2>2. Active(p) /\ op[p].step = "write" /\ files' = files
    BY <1>7, <1>t, <1>u, <2>1, Writer, NamesKept DEF At
  <2>3. PICK step \in {"remove", "failed"} : GoTo(p, step) /\ (step = "remove" => op[p].kind = "put")
    BY <1>7 DEF WriteFails
  <2>4. step \in Steps /\ Answer(op[p].kind, step) = "failed"
    BY <1>s, <2>3, Answers
  <2> QED
    BY <1>f, <2>2, <2>3, <2>4
<1>8. ASSUME NEW p \in Process, RemoveFile(p) PROVE [Calls!Next]_(Calls!vars)
  <2>1. /\ Active(p) /\ op[p].step = "remove" /\ dir[Target(p)] # 0
        /\ GoTo(p, IF op[p].kind = "delete" THEN "done" ELSE "failed")
    BY <1>8, <1>a DEF RemoveFile, At
  <2>2. CASE Target(p) \in Steady
    <3>1. /\ p \in Calls!Calling /\ op[p].kind \in {"put", "chunk", "delete"}
          /\ calls[p].kind = op[p].kind /\ calls[p].path = Target(p)
          /\ calls[p].offset = op[p].offset /\ calls[p].answer = Answer(op[p].kind, "remove")
      BY <1>t, <2>1, <2>2, CallSeen
    <3>2. Calls!Leave(p, Calls!NoFile)
      BY <1>8, <1>u, <2>2, <3>1, RemoveLeaves DEF Calls!Leave
    <3>3. Calls!Here(p).exists
      BY <1>t, <2>1, <2>2, <3>1, Seen DEF Calls!Here, Calls!File
    <3>4. CASE op[p].kind = "put"
      <4>1. MovesTo(p, "failed", 0)
        BY <2>1, <3>4 DEF GoTo, MovesTo
      <4>2. calls' = calls
        BY <1>s, <1>t, <1>u, <2>1, <3>4, <4>1, Answers, AnswerStays
      <4>3. Calls!CleanUp(p)
        BY <3>1, <3>2, <3>4, <4>2, Answers DEF Calls!CleanUp
      <4> QED
        BY <1>c, <3>1, <4>3
    <3>5. CASE op[p].kind = "chunk"
      <4>1. Calls!Answer(p, "failed") /\ calls[p].answer = "pending"
        BY <1>s, <1>t, <1>u, <2>1, <2>2, <3>1, <3>5, Answers, AnswerGiven
      <4>2. ~Calls!AtEnd(p)
        BY <2>1, <2>2, <3>1, <3>5 DEF CorruptedInv, SizeStillWrong, At, Calls!AtEnd, Calls!Here, Calls!Calling
      <4>3. Calls!RemoveCorrupted(p)
        BY <3>1, <3>2, <3>3, <3>5, <4>1, <4>2 DEF Calls!RemoveCorrupted, Calls!Pending
      <4> QED
        BY <1>c, <3>1, <4>3
    <3>6. CASE op[p].kind = "delete"
      <4>1. Calls!Answer(p, "done") /\ calls[p].answer = "pending"
        BY <1>s, <1>t, <1>u, <2>1, <2>2, <3>1, <3>6, Answers, AnswerGiven
      <4>2. Calls!DeleteFile(p)
        BY <3>1, <3>2, <3>3, <3>6, <4>1 DEF Calls!DeleteFile, Calls!Pending
      <4> QED
        BY <1>c, <3>1, <4>2
    <3> QED
      BY <3>1, <3>4, <3>5, <3>6
  <2>3. CASE Target(p) \notin Steady
    <3>1. files' = files /\ calls' = calls
      BY <1>8, <1>s, <1>t, <1>u, <2>1, <2>3, RemoveLeaves, AnswerGiven
    <3> QED
      BY <1>n, <3>1
  <2> QED
    BY <2>2, <2>3
<1>9. ASSUME NEW p \in Process, Rename(p) PROVE [Calls!Next]_(Calls!vars)
  <2>1. Active(p) /\ Target(p) \notin Steady /\ files' = files /\ GoTo(p, "done")
    BY <1>9, <1>u, RenameLeaves DEF Rename
  <2> QED
    BY <1>n, <1>s, <1>t, <1>u, <2>1, AnswerGiven
<1>10. ASSUME NEW p \in Process, Return(p) PROVE [Calls!Next]_(Calls!vars)
  <2>1. /\ Active(p) /\ op[p].step \in {"done", "failed"}
        /\ op' = [op EXCEPT ![p] = Idle] /\ files' = files
    BY <1>10, <1>a, <1>t, <1>u, NamesKept DEF Return
  <2>2. ~Active(p)' /\ \A q \in Process \ {p} : op'[q] = op[q]
    BY <1>t, <2>1 DEF Active
  <2>3. /\ calls'[p] = Calls!NoCall /\ \A q \in Process \ {p} : calls'[q] = calls[q]
    BY <1>u, <2>2 DEF calls, Active, Target, Calls!NoCall
  <2>4. calls = [q \in Process |-> calls[q]] /\ calls' = [q \in Process |-> calls'[q]]
    BY DEF calls
  <2>5. calls' = [calls EXCEPT ![p] = Calls!NoCall]
    BY <2>3, <2>4
  <2>6. CASE Target(p) \in Steady
    <3>1. p \in Calls!Calling /\ calls[p].answer \in {"done", "failed"}
      BY <1>t, <2>1, <2>6, Answers, CallSeen
    <3>2. Calls!Return(p)
      BY <2>1, <2>5, <3>1 DEF Calls!Return
    <3> QED
      BY <1>c, <3>1, <3>2
  <2>7. CASE Target(p) \notin Steady
    <3>1. calls[p] = Calls!NoCall
      BY <2>7, Seen
    <3> QED
      BY <1>n, <2>1, <2>3, <2>4, <3>1
  <2> QED
    BY <2>6, <2>7
<1>11. ASSUME Crash PROVE [Calls!Next]_(Calls!vars)
  <2>1. op' = [q \in Process |-> Idle] /\ files' = files
    BY <1>11, <1>t, <1>u, NamesKept DEF Crash
  <2>2. calls' = [q \in Process |-> Calls!NoCall]
    BY <2>1 DEF calls, Active, Calls!NoCall
  <2> QED
    BY <2>1, <2>2 DEF Calls!Crash, Calls!Next
<1>12. ASSUME UNCHANGED vars PROVE [Calls!Next]_(Calls!vars)
  <2>1. files' = files /\ calls' = calls
    BY <1>12, <1>u DEF vars, files, calls, Active, Target
  <2> QED
    BY <1>n, <2>1
<1> QED
  BY Zenon, <1>1, <1>2, <1>3, <1>4, <1>5, <1>6, <1>7, <1>8, <1>9, <1>10, <1>11, <1>12
     DEF Next, Step

(* To its callers each operation on a path that is never renamed is a call *)
(* that has its effect at one moment, or fails, whatever is renamed beside *)
(* it and wherever the server stops (storage/lfs.go under its locks).      *)
THEOREM ImplementsCalls == Spec => CallsSpec
<1>1. Init => Calls!Init /\ CorruptedInv
  <2> SUFFICES ASSUME Init PROVE Calls!Init /\ CorruptedInv
    OBVIOUS
  <2>1. op = [p \in Process |-> Idle] /\ dir = [x \in Path |-> 0]
    BY DEF Init
  <2>2. Calls!Init
    BY <2>1 DEF Calls!Init, files, calls, Active, Calls!NoFile, Calls!NoCall
  <2>3. CorruptedInv
    BY <2>1 DEF CorruptedInv, SizeStillWrong, At, Idle
  <2> QED
    BY <2>2, <2>3
<1>2. FInv /\ WritersInv /\ CorruptedInv /\ [Next]_vars => CorruptedInv'
  BY CorruptedInvStep
<1>3. FInv /\ WritersInv /\ CorruptedInv /\ [Next]_vars => [Calls!Next]_(Calls!vars)
  BY CallsStep
<1> QED
  BY <1>1, <1>2, <1>3, WritersInvariant, PTL DEF Spec, CallsSpec, Calls!Spec
=============================================================================
