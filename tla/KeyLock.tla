------------------------------- MODULE KeyLock -------------------------------
(***************************************************************************)
(* The try-locks of lib/keylock.go, as operators on the set of locked      *)
(* keys.  The map remembers that a key is locked, not by whom, and every   *)
(* operation runs under one mutex, so each is one step of its caller.      *)
(* Keys are numbers, ordered as their strings are.                         *)
(***************************************************************************)
EXTENDS Naturals, FiniteSets

MaxAtomicLockKeys == 5

(* RemoveDuplicateKeys sorts: the first key.                               *)
FirstKey(keys) == CHOOSE k \in keys : \A j \in keys : k <= j

Lockable(locks, key) == key \notin locks

LockKey(locks, key) == locks \cup {key}

(* LockKeysAtomically answers TRUE also when the first key is busy: the    *)
(* index of the last key acquired is then -1, as when nothing went wrong.  *)
AtomicallyLockable(locks, keys) ==
  /\ Cardinality(keys) <= MaxAtomicLockKeys
  /\ keys \cap locks = {} \/ FirstKey(keys) \in locks

LockKeys(locks, keys) == IF keys \cap locks = {} THEN locks \cup keys ELSE locks

(* Unlock and UnlockKeysAtomically delete the keys, whoever locked them.   *)
UnlockKeys(locks, keys) == locks \ keys
=============================================================================
