------------------------------ MODULE StateDB ------------------------------
(***************************************************************************)
(* The state database of core/state: the journaled changes of a            *)
(* transaction, Snapshot and RevertToSnapshot, the transaction boundary    *)
(* (Finalise) and the block boundary (IntermediateRoot and Commit).        *)
(*                                                                         *)
(* world.obj[a] is what getStateObject(a) returns: the live object, or the *)
(* object the reader would load, or NoObject.  Whether an untouched object *)
(* is already cached in stateObjects is not told apart.                    *)
(*                                                                         *)
(* The setters are written as in the code, one function calling another:   *)
(* each maps a record s of world, journal and trail to the record after    *)
(* the call.  trail, saved, expected and lost are history variables: they  *)
(* are never read by the code's own part of an action.                     *)
(***************************************************************************)
EXTENDS Integers, Sequences, FiniteSets, StateObject, AccessList

CONSTANTS Module,      \* hashes of Stylus modules
          AsmMap,      \* the asm maps ActivateWasm is given: sets of targets
          Tx,          \* transaction hashes
          Ripemd,      \* the RIPEMD precompile's address, 0x03
          DeleteEmpty, \* the deleteEmptyObjects argument (EIP-158)
          Calls,       \* the methods the transactions of this instance call
          Amount,      \* amounts transferred, set, minted or burned
          Nonce,       \* nonces SetNonce is called with
          Gas,         \* amounts of refunded gas
          MaxBalance,  \* bound on a balance and on the announced burns and mints
          MaxEntries,  \* bound: no call is made with that many journal entries
          MaxRevisions,\* bound on the snapshots of a transaction
          MaxTxs,      \* bound on transactions in a block
          Genesis      \* accounts (or NoObject) the first block may start from

VARIABLES world,      \* the journaled state
          journal,    \* the journal
          delta,      \* arbExtraData.unexpectedBalanceDelta
          thash,      \* hash of the current transaction
          reverting,  \* index of the revision being restored, 0 if none
          destruct,   \* stateObjectsDestruct: the origin of the first destruction
          mutations,  \* mutations merged at the transaction boundaries
          trie,       \* content of the account trie
          db,         \* content of the state the reader reads
          txs         \* transactions finalised in this block

VARIABLES trail,      \* history: world before each journal entry was made
          saved,      \* history: what was current at each open snapshot
          expected,   \* history: expected burns minus expected mints
          lost        \* history: balance dropped with each destructed account

txVars    == <<world, journal, delta, thash, reverting>>
blockVars == <<destruct, mutations, trie, db, txs>>
histVars  == <<trail, saved, expected, lost>>
vars      == <<txVars, blockVars, histVars>>

AccessLists == [addresses : [Address -> Nat \cup {NoSlots, NotListed}],
                slots     : Seq(SUBSET Slot)]

Worlds == [obj        : [Address -> StateObjects \cup {NoObject}],
           transient  : [Address -> [Slot -> Word]],
           refund     : Nat,
           logs       : [Tx -> Seq(Nat)],
           logSize    : Nat,
           accessList : AccessLists,
           wasms      : [Module -> AsmMap \cup {NoEntry}]]

AddressEntries ==
  [type : {"createObject", "createZombie", "createContract", "selfDestruct", "touch",
           "accessListAddAccount"}, addr : Address]

Entries ==
  AddressEntries
    \cup [type : {"balance", "nonce"}, addr : Address, prev : Nat]
    \cup [type : {"code"}, addr : Address, prev : Code]
    \cup [type : {"storage"}, addr : Address, key : Slot, prev : Word, origin : Word]
    \cup [type : {"transient"}, addr : Address, key : Slot, prev : Word]
    \cup [type : {"accessListAddSlot"}, addr : Address, key : Slot]
    \cup [type : {"refund"}, prev : Nat]
    \cup [type : {"addLog"}, tx : Tx]
    \cup [type : {"wasm"}, module : Module]

Revisions == [id : Nat, journalIndex : Nat, delta : Int]

Journals == [entries        : Seq(Entries),
             dirties        : [Address -> Int],
             zombieEntries  : [Address -> Int],
             validRevisions : Seq(Revisions),
             nextRevisionId : Nat]

Mutations == [typ : {"update", "deletion"}, applied : BOOLEAN]

ASSUME DBAssumption ==
  /\ DeleteEmpty \in BOOLEAN
  /\ Amount \subseteq Nat /\ Nonce \subseteq Nat /\ Gas \subseteq Nat
  /\ NoEntry \notin AsmMap
  /\ NoEntry \notin [origin : Account \cup {NoObject}]
  /\ NoEntry \notin Mutations /\ NoEntry \notin Account /\ NoEntry # NoObject
  /\ \A x \in {NoEntry, NoObject} : x \notin [balance : Nat, nonce : Nat, code : Code]
  /\ Genesis \subseteq Account \cup {NoObject}
  /\ MaxBalance \in Nat /\ MaxEntries \in Nat /\ MaxRevisions \in Nat /\ MaxTxs \in Nat

ASSUME FiniteAddresses == IsFiniteSet(Address)
-----------------------------------------------------------------------------
(* The journal.                                                            *)

newJournal == [entries        |-> <<>>,
               dirties        |-> [a \in Address |-> 0],
               zombieEntries  |-> [a \in Address |-> 0],
               validRevisions |-> <<>>,
               nextRevisionId |-> 0]

\* reset leaves zombieEntries as it is.
reset(j) == [newJournal EXCEPT !.zombieEntries = j.zombieEntries]

\* Mutant of the next definition.
MutStorageNotDirtying == {"createObject", "createZombie", "selfDestruct", "touch",
                          "balance", "nonce", "code"}

\* The entry types whose dirtied() is their account.
DirtyingTypes == {"createObject", "createZombie", "selfDestruct", "touch",
                  "balance", "nonce", "code", "storage"}

Dirtied(e, a) == e.type \in DirtyingTypes /\ e.addr = a

isZombie(e) == e.type = "createZombie"

Increment(f, a) == [f EXCEPT ![a] = @ + 1]
Decrement(f, a) == [f EXCEPT ![a] = @ - 1]

append(j, e) ==
  [j EXCEPT
     !.entries = Append(@, e),
     !.dirties = IF e.type \in DirtyingTypes THEN Increment(@, e.addr) ELSE @,
     !.zombieEntries = IF isZombie(e) THEN Increment(@, e.addr) ELSE @]

\* One iteration of journal.revert: the bookkeeping for the last entry.  The
\* zombie count is only taken back when the dirty count reaches zero.
dropLast(j) ==
  LET e == j.entries[Len(j.entries)]
  IN  [j EXCEPT
         !.entries = SubSeq(@, 1, Len(@) - 1),
         !.dirties = IF e.type \in DirtyingTypes THEN Decrement(@, e.addr) ELSE @,
         !.zombieEntries = IF isZombie(e) /\ j.dirties[e.addr] = 1
                           THEN Decrement(@, e.addr) ELSE @]

\* sort.Search over the revision ids.
Search(revisions, id) ==
  CHOOSE i \in 1 .. Len(revisions) :
    revisions[i].id >= id /\ \A j \in 1 .. i - 1 : revisions[j].id < id

\* The journalEntry.revert methods.  Deleting the live object uncovers what
\* getStateObject finds next: nothing if the account is destructed, else what
\* the reader loads.
Underlying(a) ==
  IF destruct[a] # NoEntry \/ db[a] = NoObject THEN NoObject ELSE newObject(db[a])

WithObj(w, a, o) == [w EXCEPT !.obj[a] = o]

undoLog(w, t) == [w EXCEPT !.logs[t] = SubSeq(@, 1, Len(@) - 1), !.logSize = @ - 1]

Undo(e, w) ==
  CASE e.type \in {"createObject", "createZombie"} ->
         WithObj(w, e.addr, Underlying(e.addr))
    [] e.type = "createContract" ->
         WithObj(w, e.addr, [w.obj[e.addr] EXCEPT !.newContract = FALSE])
    [] e.type = "selfDestruct"   ->
         WithObj(w, e.addr, [w.obj[e.addr] EXCEPT !.selfDestructed = FALSE])
    [] e.type = "touch"          -> w
    [] e.type = "balance"        ->
         WithObj(w, e.addr, [w.obj[e.addr] EXCEPT !.balance = e.prev])
    [] e.type = "nonce"          ->
         WithObj(w, e.addr, [w.obj[e.addr] EXCEPT !.nonce = e.prev])
    [] e.type = "code"           ->
         WithObj(w, e.addr, [w.obj[e.addr] EXCEPT !.code = e.prev])
    [] e.type = "storage"        ->
         WithObj(w, e.addr, setState(w.obj[e.addr], e.key, e.prev, e.origin))
    [] e.type = "transient"      -> [w EXCEPT !.transient[e.addr][e.key] = e.prev]
    [] e.type = "refund"         -> [w EXCEPT !.refund = e.prev]
    [] e.type = "addLog"         -> undoLog(w, e.tx)
    [] e.type = "accessListAddAccount" ->
         [w EXCEPT !.accessList = DeleteAddress(@, e.addr)]
    [] e.type = "accessListAddSlot" ->
         [w EXCEPT !.accessList = DeleteSlot(@, e.addr, e.key)]
    [] e.type = "wasm"           -> [w EXCEPT !.wasms[e.module] = NoEntry]
-----------------------------------------------------------------------------
(* The setters, as functions of s = [world, journal, trail].               *)

\* A journaled change: entry e takes the world to w.
Record(s, e, w) == [world   |-> w,
                    journal |-> append(s.journal, e),
                    trail   |-> Append(s.trail, s.world)]

createObject(s, a) ==
  Record(s, [type |-> "createObject", addr |-> a], WithObj(s.world, a, newObject(NoObject)))

createZombie(s, a) ==
  Record(s, [type |-> "createZombie", addr |-> a], WithObj(s.world, a, newObject(NoObject)))

getOrNewStateObject(s, a) == IF s.world.obj[a] = NoObject THEN createObject(s, a) ELSE s

\* touchChange counts the RIPEMD address twice; undoing it takes back one.
touch(s, a) ==
  LET t == Record(s, [type |-> "touch", addr |-> a], s.world)
  IN  IF a = Ripemd THEN [t EXCEPT !.journal.dirties[a] = @ + 1] ELSE t

setBalance(s, a, amount) ==
  Record(s, [type |-> "balance", addr |-> a, prev |-> s.world.obj[a].balance],
         WithObj(s.world, a, [s.world.obj[a] EXCEPT !.balance = amount]))

setNonce(s, a, nonce) ==
  Record(s, [type |-> "nonce", addr |-> a, prev |-> s.world.obj[a].nonce],
         WithObj(s.world, a, [s.world.obj[a] EXCEPT !.nonce = nonce]))

setCode(s, a, code) ==
  Record(s, [type |-> "code", addr |-> a, prev |-> s.world.obj[a].code],
         WithObj(s.world, a, [s.world.obj[a] EXCEPT !.code = code]))

addBalance(s, a, amount) ==
  IF amount # 0 THEN setBalance(s, a, s.world.obj[a].balance + amount)
  ELSE IF empty(s.world.obj[a]) THEN touch(s, a)
  ELSE s

\* Mutant of the next definition.
MutPrevIsCommitted(s, a, k, value) ==
  LET o      == s.world.obj[a]
      origin == GetCommittedState(o, k)
  IN  IF GetState(o, k) = value THEN s
      ELSE Record(s, [type |-> "storage", addr |-> a, key |-> k,
                      prev |-> origin, origin |-> origin],
                  WithObj(s.world, a, setState(o, k, value, origin)))

setStorage(s, a, k, value) ==
  LET o      == s.world.obj[a]
      prev   == GetState(o, k)
      origin == GetCommittedState(o, k)
  IN  IF prev = value THEN s
      ELSE Record(s, [type |-> "storage", addr |-> a, key |-> k,
                      prev |-> prev, origin |-> origin],
                  WithObj(s.world, a, setState(o, k, value, origin)))

markSelfdestructed(s, a) ==
  IF s.world.obj[a].selfDestructed THEN s
  ELSE Record(s, [type |-> "selfDestruct", addr |-> a],
              WithObj(s.world, a, [s.world.obj[a] EXCEPT !.selfDestructed = TRUE]))

clearBalance(s, a) == IF s.world.obj[a].balance = 0 THEN s ELSE setBalance(s, a, 0)

createContract(s, a) ==
  IF s.world.obj[a].newContract THEN s
  ELSE Record(s, [type |-> "createContract", addr |-> a],
              WithObj(s.world, a, [s.world.obj[a] EXCEPT !.newContract = TRUE]))

\* Mutant of the next definition.
MutPrevIsNewRefund(s, refund) ==
  Record(s, [type |-> "refund", prev |-> refund], [s.world EXCEPT !.refund = refund])

setRefund(s, refund) ==
  Record(s, [type |-> "refund", prev |-> s.world.refund], [s.world EXCEPT !.refund = refund])

setTransient(s, a, k, value) ==
  IF s.world.transient[a][k] = value THEN s
  ELSE Record(s, [type |-> "transient", addr |-> a, key |-> k,
                  prev |-> s.world.transient[a][k]],
              [s.world EXCEPT !.transient[a][k] = value])

addLog(s) ==
  Record(s, [type |-> "addLog", tx |-> thash],
         [s.world EXCEPT !.logs[thash] = Append(@, s.world.logSize), !.logSize = @ + 1])

warmAddress(s, a) ==
  IF ContainsAddress(s.world.accessList, a) THEN s
  ELSE Record(s, [type |-> "accessListAddAccount", addr |-> a],
              [s.world EXCEPT !.accessList = AddAddress(@, a)])

\* Mutant of the next definition.
MutWarmAgain(s, a, k) ==
  Record(s, [type |-> "accessListAddSlot", addr |-> a, key |-> k],
         [s.world EXCEPT !.accessList = AddSlot(@, a, k)])

warmSlot(s, a, k) ==
  IF Contains(s.world.accessList, a, k) THEN s
  ELSE Record(s, [type |-> "accessListAddSlot", addr |-> a, key |-> k],
              [s.world EXCEPT !.accessList = AddSlot(@, a, k)])

\* A target is an architecture and whether it is its cranelift fallback, which
\* stands in for the base target and the other way round.
hasAsmForTarget(asm, target) == \E cranelift \in BOOLEAN : <<target[1], cranelift>> \in asm

\* The one earlier activation the map iteration happens to yield must have as
\* many targets, and the same ones.
Consistent(w, asm) ==
  LET active == {m \in Module : w.wasms[m] # NoEntry}
  IN  \/ active = {}
      \/ \E m \in active : /\ Cardinality(asm) = Cardinality(w.wasms[m])
                           /\ \A target \in w.wasms[m] : hasAsmForTarget(asm, target)

activateWasm(s, m, asm) ==
  IF s.world.wasms[m] # NoEntry THEN s
  ELSE Record(s, [type |-> "wasm", module |-> m], [s.world EXCEPT !.wasms[m] = asm])
-----------------------------------------------------------------------------
(* The calls a transaction makes.                                          *)

DB == [world |-> world, journal |-> journal, trail |-> trail]

Idle == reverting = 0

Calling == Idle /\ txs < MaxTxs /\ Len(journal.entries) < MaxEntries

Install(s) == /\ world' = s.world
              /\ journal' = s.journal
              /\ trail' = s.trail

\* A setter that leaves the balance delta alone.
Set(s) == /\ Calling
          /\ Install(s)
          /\ UNCHANGED <<delta, thash, reverting, blockVars, saved, expected, lost>>

\* A setter that moves the balance delta by d.
SetWithDelta(s, d) == /\ Calling
                      /\ Install(s)
                      /\ delta' = delta + d
                      /\ UNCHANGED <<thash, reverting, blockVars, saved, expected, lost>>

Exist(a)   == world.obj[a] # NoObject
Balance(a) == IF Exist(a) THEN world.obj[a].balance ELSE 0

AddBalance(a, amount) ==
  /\ Balance(a) + amount <= MaxBalance
  /\ SetWithDelta(addBalance(getOrNewStateObject(DB, a), a, amount), amount)

\* Mutant of the next definition.
MutUncheckedSub(a, amount) ==
  LET s == getOrNewStateObject(DB, a)
  IN  SetWithDelta(setBalance(s, a, s.world.obj[a].balance - amount), -amount)

\* The callers check CanTransfer, or the gas purchase, first: the wrap-around of an
\* unchecked subtraction is left to them.
SubBalance(a, amount) ==
  /\ amount <= Balance(a)
  /\ LET s == getOrNewStateObject(DB, a)
     IN  IF amount = 0 THEN Set(s)
         ELSE SetWithDelta(setBalance(s, a, s.world.obj[a].balance - amount), -amount)

SetBalance(a, amount) ==
  LET s == getOrNewStateObject(DB, a)
  IN  SetWithDelta(setBalance(s, a, amount), amount - s.world.obj[a].balance)

ExpectBalanceBurn(amount) ==
  /\ Calling
  /\ expected + amount <= MaxBalance
  /\ delta' = delta + amount
  /\ expected' = expected + amount
  /\ UNCHANGED <<world, journal, thash, reverting, blockVars, trail, saved, lost>>

ExpectBalanceMint(amount) ==
  /\ Calling
  /\ expected - amount >= -MaxBalance
  /\ delta' = delta - amount
  /\ expected' = expected - amount
  /\ UNCHANGED <<world, journal, thash, reverting, blockVars, trail, saved, lost>>

SetNonce(a, nonce) == Set(setNonce(getOrNewStateObject(DB, a), a, nonce))

\* The callers have read the code, so the object holds it when it is replaced.
SetCode(a, code) == Set(setCode(getOrNewStateObject(DB, a), a, code))

SetState(a, k, value) == Set(setStorage(getOrNewStateObject(DB, a), a, k, value))

SetTransientState(a, k, value) == Set(setTransient(DB, a, k, value))

SelfDestruct(a) ==
  /\ Exist(a)
  /\ SetWithDelta(markSelfdestructed(clearBalance(DB, a), a), -Balance(a))

SelfDestruct6780(a) == Exist(a) /\ world.obj[a].newContract /\ SelfDestruct(a)

CreateZombieIfDeleted(a) ==
  /\ ~Exist(a)
  /\ destruct[a] # NoEntry
  /\ Set(createZombie(DB, a))

\* The account part of EVM.create, the one caller of CreateAccount and
\* CreateContract that runs initcode: after its collision check it makes the
\* account if it must, flags it and sets its nonce.
Create(a) ==
  /\ Exist(a) => /\ world.obj[a].nonce = 0
                 /\ world.obj[a].code = EmptyCode
                 /\ world.obj[a].base.root = Zeroes
  /\ Set(setNonce(createContract(getOrNewStateObject(DB, a), a), a, 1))

AddRefund(gas) == Set(setRefund(DB, world.refund + gas))

SubRefund(gas) == gas <= world.refund /\ Set(setRefund(DB, world.refund - gas))

AddLog == Set(addLog(DB))

AddAddressToAccessList(a) == Set(warmAddress(DB, a))

AddSlotToAccessList(a, k) == Set(warmSlot(warmAddress(DB, a), a, k))

ActivateWasm(m, asm) == Consistent(world, asm) /\ Set(activateWasm(DB, m, asm))

\* Prepare replaces the access list and the transient storage without
\* journaling it: no later revert brings the old ones back, which the history
\* variables follow.  "This method must be invoked before state transition": it is
\* assumed to be called with no entry about the two in the journal.  The rules
\* have EIP-2929, without which it keeps the access list.  warm is the set of
\* addresses it adds, list the transaction's own access list (at most one tuple, as
\* a bound).
WarmTypes == {"accessListAddAccount", "accessListAddSlot", "transient"}

startList(warm, list) ==
  LET al == [newAccessList EXCEPT !.addresses =
               [a \in Address |-> IF a \in warm THEN NoSlots ELSE NotListed]]
  IN  IF list = <<>> THEN al ELSE AddSlot(AddAddress(al, list[1]), list[1], list[2])

Prepared(w, warm, list) ==
  [w EXCEPT !.accessList = startList(warm, list), !.transient = [a \in Address |-> Zeroes]]

Prepare(warm, list) ==
  /\ Calling
  /\ \A i \in 1 .. Len(journal.entries) : journal.entries[i].type \notin WarmTypes
  /\ world' = Prepared(world, warm, list)
  /\ trail' = [i \in 1 .. Len(trail) |-> Prepared(trail[i], warm, list)]
  /\ saved' = [i \in 1 .. Len(saved) |->
                 [saved[i] EXCEPT !.world = Prepared(@, warm, list)]]
  /\ UNCHANGED <<journal, delta, thash, reverting, blockVars, expected, lost>>
-----------------------------------------------------------------------------
(* Snapshot and RevertToSnapshot.                                          *)

Snapshot ==
  /\ Idle
  /\ txs < MaxTxs
  /\ journal.nextRevisionId < MaxRevisions
  /\ journal' = [journal EXCEPT
                   !.nextRevisionId = @ + 1,
                   !.validRevisions = Append(@, [id           |-> journal.nextRevisionId,
                                                 journalIndex |-> Len(journal.entries),
                                                 delta        |-> delta])]
  /\ saved' = Append(saved, [world |-> world, delta |-> delta, expected |-> expected])
  /\ UNCHANGED <<world, delta, thash, reverting, blockVars, trail, expected, lost>>

\* Mutant of the next definition.
MutDeltaKept(id) ==
  /\ Idle
  /\ \E i \in 1 .. Len(journal.validRevisions) : journal.validRevisions[i].id = id
  /\ LET idx == Search(journal.validRevisions, id)
     IN  /\ reverting' = idx
         /\ expected' = saved[idx].expected
  /\ UNCHANGED <<world, journal, delta, thash, blockVars, trail, saved, lost>>

\* The revert loop is taken one entry a step; nothing else runs meanwhile.
RevertToSnapshot(id) ==
  /\ Idle
  /\ \E i \in 1 .. Len(journal.validRevisions) : journal.validRevisions[i].id = id
  /\ LET idx == Search(journal.validRevisions, id)
     IN  /\ reverting' = idx
         /\ delta' = journal.validRevisions[idx].delta
         /\ expected' = saved[idx].expected
  /\ UNCHANGED <<world, journal, thash, blockVars, trail, saved, lost>>

RevertEntry ==
  /\ ~Idle
  /\ Len(journal.entries) > journal.validRevisions[reverting].journalIndex
  /\ world' = Undo(journal.entries[Len(journal.entries)], world)
  /\ journal' = dropLast(journal)
  /\ trail' = SubSeq(trail, 1, Len(trail) - 1)
  /\ UNCHANGED <<delta, thash, reverting, blockVars, saved, expected, lost>>

RevertDone ==
  /\ ~Idle
  /\ Len(journal.entries) = journal.validRevisions[reverting].journalIndex
  /\ journal' = [journal EXCEPT !.validRevisions = SubSeq(@, 1, reverting - 1)]
  /\ saved' = SubSeq(saved, 1, reverting - 1)
  /\ reverting' = 0
  /\ UNCHANGED <<world, delta, thash, blockVars, trail, expected, lost>>
-----------------------------------------------------------------------------
(* The transaction boundary.                                               *)

Dirty(a) == journal.dirties[a] # 0 /\ Exist(a)

Removed(a) ==
  /\ Dirty(a)
  /\ \/ world.obj[a].selfDestructed
     \/ /\ DeleteEmpty
        /\ empty(world.obj[a])
        /\ journal.zombieEntries[a] # journal.dirties[a]

finalObj == [a \in Address |-> IF Removed(a) THEN NoObject
                               ELSE IF Dirty(a) THEN finalise(world.obj[a])
                               ELSE world.obj[a]]

\* Mutant of the next definition.
MutLastDestruct == [a \in Address |-> IF Removed(a)
                                      THEN [origin |-> world.obj[a].base.origin]
                                      ELSE destruct[a]]

finalDestruct == [a \in Address |-> IF Removed(a) /\ destruct[a] = NoEntry
                                    THEN [origin |-> world.obj[a].base.origin]
                                    ELSE destruct[a]]

\* Mutant of the next definition.
MutDeleteUnmarked == [a \in Address |->
                        IF Dirty(a) THEN [typ |-> "update", applied |-> FALSE]
                        ELSE mutations[a]]

finalMutations == [a \in Address |->
                     IF Removed(a) THEN [typ |-> "deletion", applied |-> FALSE]
                     ELSE IF Dirty(a) THEN [typ |-> "update", applied |-> FALSE]
                     ELSE mutations[a]]

\* What Finalise does to the variables that IntermediateRoot does not write.
FinaliseRest ==
  /\ journal' = reset(journal)
  /\ destruct' = finalDestruct
  /\ lost' = [a \in Address |-> lost[a] + IF Removed(a) THEN world.obj[a].balance ELSE 0]
  /\ txs' = txs + 1
  /\ trail' = <<>>
  /\ saved' = <<>>
  /\ UNCHANGED <<delta, thash, reverting, db, expected>>

Finalise ==
  /\ Idle
  /\ txs < MaxTxs
  /\ world' = [world EXCEPT !.obj = finalObj, !.refund = 0]
  /\ mutations' = finalMutations
  /\ FinaliseRest
  /\ UNCHANGED trie

SetTxContext(t) ==
  /\ Idle
  /\ journal.entries = <<>>
  /\ thash' = t
  /\ UNCHANGED <<world, journal, delta, reverting, blockVars, histVars>>
-----------------------------------------------------------------------------
(* The block boundary.                                                     *)

Pending(a, typ) == /\ finalMutations[a] # NoEntry
                   /\ ~finalMutations[a].applied
                   /\ finalMutations[a].typ = typ

rootObj == [a \in Address |-> IF Pending(a, "update") THEN updateRoot(finalObj[a])
                                                      ELSE finalObj[a]]

rootTrie == [a \in Address |-> IF Pending(a, "deletion") THEN NoObject
                               ELSE IF Pending(a, "update") THEN TrieAccount(rootObj[a])
                               ELSE trie[a]]

IntermediateRoot ==
  /\ Idle
  /\ txs < MaxTxs
  /\ world' = [world EXCEPT !.obj = rootObj, !.refund = 0]
  /\ mutations' = [a \in Address |-> IF finalMutations[a] = NoEntry THEN NoEntry
                                     ELSE [finalMutations[a] EXCEPT !.applied = TRUE]]
  /\ trie' = rootTrie
  /\ FinaliseRest

\* handleDestruction: the accounts of the parent state that were destructed.
Wiped(a) == finalDestruct[a] # NoEntry /\ finalDestruct[a].origin # NoObject

Updated(a) == finalMutations[a] # NoEntry /\ finalMutations[a].typ = "update"

\* Mutant of the next definition.
MutSlotsLeft(acct) == {}

\* newStateUpdate: deletions first, updates over them.  NoEntry marks what the
\* update does not mention, NoObject a deleted account, ZeroHash a deleted slot.
StoragesOf(acct) == {k \in Slot : acct # NoObject /\ acct.storage[k] # ZeroHash}

newStateUpdate ==
  [accounts |->
     [a \in Address |-> IF Updated(a) THEN [balance |-> rootObj[a].balance,
                                            nonce   |-> rootObj[a].nonce,
                                            code    |-> rootObj[a].code]
                        ELSE IF Wiped(a) THEN NoObject
                        ELSE NoEntry],
   accountsOrigin |->
     [a \in Address |-> IF Wiped(a) THEN finalDestruct[a].origin
                        ELSE IF Updated(a) THEN rootObj[a].base.origin
                        ELSE NoEntry],
   storages |->
     [a \in Address |-> [k \in Slot |->
        IF Updated(a) /\ k \in FlatStorage(rootObj[a]) THEN rootObj[a].base.pendingStorage[k]
        ELSE IF Wiped(a) /\ k \in StoragesOf(finalDestruct[a].origin) THEN ZeroHash
        ELSE NoEntry]],
   storagesOrigin |->
     [a \in Address |-> [k \in Slot |->
        IF Wiped(a) /\ k \in StoragesOf(finalDestruct[a].origin)
        THEN finalDestruct[a].origin.storage[k]
        ELSE IF Updated(a) /\ k \in FlatStorage(rootObj[a])
        THEN rootObj[a].base.originStorage[k]
        ELSE NoEntry]]]

\* The flat state after accounts and storages are written over d.
ApplyDiff(d, accounts, storages) ==
  [a \in Address |->
     LET acct == IF accounts[a] = NoEntry THEN d[a] ELSE accounts[a]
     IN  IF acct = NoObject THEN NoObject
         ELSE [balance |-> acct.balance, nonce |-> acct.nonce, code |-> acct.code,
               storage |-> [k \in Slot |->
                              IF storages[a][k] # NoEntry THEN storages[a][k]
                              ELSE IF d[a] = NoObject THEN ZeroHash
                              ELSE d[a].storage[k]]]]

freshWorld(d) ==
  [obj        |-> [a \in Address |-> IF d[a] = NoObject THEN NoObject ELSE newObject(d[a])],
   transient  |-> [a \in Address |-> Zeroes],
   refund     |-> 0,
   logs       |-> [t \in Tx |-> <<>>],
   logSize    |-> 0,
   accessList |-> newAccessList,
   wasms      |-> [m \in Module |-> NoEntry]]

\* A committed StateDB is not used again: the caller opens a new one at the new
\* root, which is part of the step.  Storage may be wiped: under noStorageWiping
\* a Commit that would delete the slots of an account returns an error instead.
Commit ==
  /\ Idle
  /\ LET update == newStateUpdate
     IN  db' = ApplyDiff(db, update.accounts, update.storages)
  /\ trie' = rootTrie
  /\ world' = freshWorld(db')
  /\ journal' = newJournal
  /\ delta' = 0
  /\ thash' \in Tx
  /\ destruct' = [a \in Address |-> NoEntry]
  /\ mutations' = [a \in Address |-> NoEntry]
  /\ txs' = 0
  /\ trail' = <<>>
  /\ saved' = <<>>
  /\ expected' = 0
  /\ lost' = [a \in Address |-> 0]
  /\ UNCHANGED reverting
-----------------------------------------------------------------------------
Init ==
  /\ db \in [Address -> Genesis]
  /\ trie = db
  /\ world = freshWorld(db)
  /\ journal = newJournal
  /\ delta = 0
  /\ thash \in Tx
  /\ reverting = 0
  /\ destruct = [a \in Address |-> NoEntry]
  /\ mutations = [a \in Address |-> NoEntry]
  /\ txs = 0
  /\ trail = <<>>
  /\ saved = <<>>
  /\ expected = 0
  /\ lost = [a \in Address |-> 0]

\* The calls of the two interfaces a transaction reaches the database through:
\* those that change an account, and those that change the rest.
AccountCall ==
  \/ \E a \in Address, x \in Amount :
        \/ "AddBalance" \in Calls /\ AddBalance(a, x)
        \/ "SubBalance" \in Calls /\ SubBalance(a, x)
        \/ "SetBalance" \in Calls /\ SetBalance(a, x)
  \/ \E a \in Address, n \in Nonce : "SetNonce" \in Calls /\ SetNonce(a, n)
  \/ \E a \in Address, c \in Code : "SetCode" \in Calls /\ SetCode(a, c)
  \/ \E a \in Address, k \in Slot, v \in Word : "SetState" \in Calls /\ SetState(a, k, v)
  \/ \E a \in Address :
        \/ "SelfDestruct" \in Calls /\ SelfDestruct(a)
        \/ "SelfDestruct6780" \in Calls /\ SelfDestruct6780(a)
        \/ "CreateZombieIfDeleted" \in Calls /\ CreateZombieIfDeleted(a)
        \/ "Create" \in Calls /\ Create(a)

OtherCall ==
  \/ \E x \in Amount :
        \/ "ExpectBalanceBurn" \in Calls /\ ExpectBalanceBurn(x)
        \/ "ExpectBalanceMint" \in Calls /\ ExpectBalanceMint(x)
  \/ \E a \in Address, k \in Slot, v \in Word :
        "SetTransientState" \in Calls /\ SetTransientState(a, k, v)
  \/ \E g \in Gas :
        \/ "AddRefund" \in Calls /\ AddRefund(g)
        \/ "SubRefund" \in Calls /\ SubRefund(g)
  \/ "AddLog" \in Calls /\ AddLog
  \/ \E a \in Address : "AddAddressToAccessList" \in Calls /\ AddAddressToAccessList(a)
  \/ \E a \in Address, k \in Slot :
        "AddSlotToAccessList" \in Calls /\ AddSlotToAccessList(a, k)
  \/ \E m \in Module, asm \in AsmMap : "ActivateWasm" \in Calls /\ ActivateWasm(m, asm)
  \/ \E warm \in SUBSET Address, list \in {<<>>} \cup (Address \X Slot) :
        "Prepare" \in Calls /\ Prepare(warm, list)

Next ==
  \/ AccountCall
  \/ OtherCall
  \/ Snapshot
  \/ \E id \in 0 .. journal.nextRevisionId : RevertToSnapshot(id)
  \/ RevertEntry
  \/ RevertDone
  \/ Finalise
  \/ \E t \in Tx : SetTxContext(t)
  \/ "IntermediateRoot" \in Calls /\ IntermediateRoot
  \/ "Commit" \in Calls /\ Commit

Spec == Init /\ [][Next]_vars
=============================================================================
