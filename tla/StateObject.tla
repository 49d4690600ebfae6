---------------------------- MODULE StateObject ----------------------------
(***************************************************************************)
(* The account object of core/state/state_object.go, as operators on a     *)
(* value.  The fields a transaction writes stand at the top of the record; *)
(* "base" groups the ones that only move at a transaction or a block       *)
(* boundary.  A Go map from slots to words is a function with NoEntry for  *)
(* the missing keys.                                                       *)
(*                                                                         *)
(* originStorage is the clean value of every slot as GetCommittedState     *)
(* resolves it: what the reader holds for the object's origin, and zero    *)
(* for an object created in this block (nothing on disk, or destructed).   *)
(* root is the content of the storage trie that data.Root hashes.          *)
(***************************************************************************)
EXTENDS Naturals

CONSTANTS Slot,       \* storage keys
          Word,       \* storage values
          ZeroHash,   \* common.Hash{}, the value of an empty slot
          Code,       \* contract codes
          EmptyCode,  \* the code whose hash is types.EmptyCodeHash
          NoEntry,    \* a key missing from a Go map
          NoObject    \* a nil object or account

Storage == [Slot -> Word \cup {NoEntry}]

NoStorage == [k \in Slot |-> NoEntry]

Zeroes == [k \in Slot |-> ZeroHash]

\* types.StateAccount with the content of the storage trie behind its root.
Account == [balance : Nat, nonce : Nat, code : Code, storage : [Slot -> Word]]

StateObjects ==
  [balance : Nat, nonce : Nat, code : Code,
   selfDestructed : BOOLEAN, newContract : BOOLEAN,
   dirtyStorage : Storage,
   base : [pendingStorage : Storage, uncommittedStorage : Storage,
           originStorage : [Slot -> Word], root : [Slot -> Word],
           origin : Account \cup {NoObject}]]

ASSUME ObjectAssumption ==
  /\ ZeroHash \in Word
  /\ NoEntry \notin Word
  /\ EmptyCode \in Code
  /\ NoObject \notin StateObjects
  /\ NoObject \notin Account

newObject(acct) ==
  LET storage == IF acct = NoObject THEN Zeroes ELSE acct.storage
  IN  [balance        |-> IF acct = NoObject THEN 0 ELSE acct.balance,
       nonce          |-> IF acct = NoObject THEN 0 ELSE acct.nonce,
       code           |-> IF acct = NoObject THEN EmptyCode ELSE acct.code,
       selfDestructed |-> FALSE,
       newContract    |-> FALSE,
       dirtyStorage   |-> NoStorage,
       base           |-> [pendingStorage     |-> NoStorage,
                           uncommittedStorage |-> NoStorage,
                           originStorage      |-> storage,
                           root               |-> storage,
                           origin             |-> acct]]

empty(o) == o.nonce = 0 /\ o.balance = 0 /\ o.code = EmptyCode

GetCommittedState(o, k) ==
  IF o.base.pendingStorage[k] # NoEntry THEN o.base.pendingStorage[k]
                                        ELSE o.base.originStorage[k]

GetState(o, k) ==
  IF o.dirtyStorage[k] # NoEntry THEN o.dirtyStorage[k] ELSE GetCommittedState(o, k)

setState(o, k, value, origin) ==
  [o EXCEPT !.dirtyStorage[k] = IF value = origin THEN NoEntry ELSE value]

\* The uncommitted marker of a slot whose dirty value is moved to pending.
CommitMarker(o, k) ==
  CASE o.base.uncommittedStorage[k] = NoEntry           -> GetCommittedState(o, k)
    [] o.base.uncommittedStorage[k] = o.dirtyStorage[k] -> NoEntry
    [] OTHER                                            -> o.base.uncommittedStorage[k]

finalise(o) ==
  LET Dirty(k) == o.dirtyStorage[k] # NoEntry
  IN  [o EXCEPT
        !.base.uncommittedStorage =
           [k \in Slot |-> IF Dirty(k) THEN CommitMarker(o, k) ELSE @[k]],
        !.base.pendingStorage =
           [k \in Slot |-> IF Dirty(k) THEN o.dirtyStorage[k] ELSE @[k]],
        !.dirtyStorage = NoStorage,
        !.newContract  = FALSE]

\* updateTrie logs an error and skips a marked slot whose pending value is
\* missing or equal to the value the marker remembers.
NoopMarker(o, k) ==
  /\ o.base.uncommittedStorage[k] # NoEntry
  /\ \/ o.base.pendingStorage[k] = NoEntry
     \/ o.base.pendingStorage[k] = o.base.uncommittedStorage[k]

updateRoot(o) ==
  [o EXCEPT
     !.base.root = [k \in Slot |->
        IF o.base.uncommittedStorage[k] # NoEntry /\ ~NoopMarker(o, k)
        THEN o.base.pendingStorage[k] ELSE @[k]],
     !.base.uncommittedStorage = NoStorage]

\* What UpdateAccount writes into the account trie for the object.
TrieAccount(o) ==
  [balance |-> o.balance, nonce |-> o.nonce, code |-> o.code, storage |-> o.base.root]

\* commitStorage: the slots the flat update of the object carries.
FlatStorage(o) ==
  {k \in Slot : /\ o.base.pendingStorage[k] # NoEntry
                /\ o.base.pendingStorage[k] # o.base.originStorage[k]}
=============================================================================
