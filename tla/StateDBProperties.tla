------------------------- MODULE StateDBProperties -------------------------
(***************************************************************************)
(* What is checked of StateDB.                                             *)
(***************************************************************************)
EXTENDS StateDB, Functions

SavedStates == [world : Worlds, delta : Int, expected : Int]

\* Every variable has its type; the history variables run alongside the
\* journal's entries and revisions.
TypeOK ==
  /\ world \in Worlds
  /\ journal \in Journals
  /\ delta \in Int
  /\ thash \in Tx
  /\ reverting \in 0 .. Len(journal.validRevisions)
  /\ destruct \in [Address -> [origin : Account \cup {NoObject}] \cup {NoEntry}]
  /\ mutations \in [Address -> Mutations \cup {NoEntry}]
  /\ trie \in [Address -> Account \cup {NoObject}]
  /\ db \in [Address -> Account \cup {NoObject}]
  /\ txs \in Nat
  /\ trail \in Seq(Worlds) /\ Len(trail) = Len(journal.entries)
  /\ saved \in Seq(SavedStates) /\ Len(saved) = Len(journal.validRevisions)
  /\ expected \in Int
  /\ lost \in [Address -> Nat]

\* "RevertToSnapshot reverts all state changes made since the given revision":
\* when the revert loop ends, the accounts, transient storage, refund, logs,
\* access list, activated modules and balance delta are those of the moment of
\* the snapshot, and the revisions opened since are gone.
RevertRestores ==
  [][reverting # 0 /\ reverting' = 0
       => /\ world' = saved[reverting].world
          /\ delta' = saved[reverting].delta
          /\ Len(journal'.validRevisions) = reverting - 1]_vars

\* The state at the start of the transaction.
StartWorld == IF trail = <<>> THEN world ELSE trail[1]

Ledger(o) == IF o = NoObject THEN NoObject
             ELSE [o EXCEPT !.newContract = FALSE]

\* Finalise only looks at the accounts in dirties: an account that differs from
\* what it was when the transaction started is there, whatever calls, snapshots
\* and reverts led to the difference.
ChangedIsDirty ==
  \A a \in Address :
    Ledger(world.obj[a]) # Ledger(StartWorld.obj[a]) => journal.dirties[a] # 0

\* An address points to each part of the slice.
Packed(al) == \A i \in 1 .. Len(al.slots) : \E a \in Address : al.addresses[a] = i - 1

\* The access list never holds an index into a part of the slice that a revert
\* has cut off, and the slice holds nothing that no address points to.
AccessListSound == WellIndexed(world.accessList) /\ Packed(world.accessList)

\* The sum of a value of each account.
Total(f) == SumFunctionOnSet(f, Address)

Balances(obj) == [a \in Address |-> IF obj[a] = NoObject THEN 0 ELSE obj[a].balance]

Supply      == Total(Balances(world.obj))
BlockSupply == Total(Balances(db))
Lost        == Total(lost)

\* unexpectedBalanceDelta accounts for every change of balance since the block
\* began, net of the announced burns and mints, through every revert; the
\* balances that Finalise drops with self-destructed accounts are left out.
DeltaTracksSupply == Idle => delta - expected = Supply + Lost - BlockSupply

\* "If combined with another non-zombie change the empty account will be cleaned
\* up": an empty account that the finalised transaction changed in any other way
\* than by making it a zombie does not survive Finalise.
ZombiesCleanedUp ==
  [][txs' = txs + 1 /\ DeleteEmpty
       => \A a \in Address :
            /\ Exist(a) /\ empty(world.obj[a])
            /\ \E i \in 1 .. Len(journal.entries) :
                 Dirtied(journal.entries[i], a) /\ ~isZombie(journal.entries[i])
            => world'.obj[a] = NoObject]_vars
-----------------------------------------------------------------------------
(* Why reverting works: an invariant of the journal and the worlds it went   *)
(* through, from which RevertRestores and TypeOK follow.                     *)

\* The world before entry i, or after the last entry.
At(s, i) == IF i <= Len(s.trail) THEN s.trail[i] ELSE s.world

MarkedUpdate(a) == mutations[a] # NoEntry /\ mutations[a].typ = "update"

\* setState deletes a slot that is set back to its committed value.
DirtyDiffers(o) ==
  \A k \in Slot : o.dirtyStorage[k] # NoEntry => o.dirtyStorage[k] # GetCommittedState(o, k)

\* A slot is marked as uncommitted as long as the storage trie has another value
\* for it than the pending one, and the marker is the value in the trie.
MarkersRight(o) ==
  \A k \in Slot :
    IF o.base.uncommittedStorage[k] = NoEntry
    THEN GetCommittedState(o, k) = o.base.root[k]
    ELSE /\ o.base.uncommittedStorage[k] = o.base.root[k]
         /\ o.base.pendingStorage[k] \notin {NoEntry, o.base.root[k]}

\* The account of the parent state under the objects at a; none if it is destructed
\* in this block, d being the entry of a in the destructs.
ParentOf(a, d) == IF d # NoEntry THEN NoObject ELSE db[a]

OnParent(o, parent) ==
  /\ o.base.origin = parent
  /\ o.base.originStorage = IF parent = NoObject THEN Zeroes ELSE parent.storage

Fits(o, parent) == DirtyDiffers(o) /\ MarkersRight(o) /\ OnParent(o, parent)

Layered(a, o) == Fits(o, ParentOf(a, destruct[a]))

\* What the revert methods and the boundaries take for granted of a world: an
\* absent account has nothing underneath it, the storage layers of the others fit
\* together, and so do the indices of the access list.
Sound(w) ==
  /\ \A a \in Address :
       w.obj[a] = NoObject => (destruct[a] # NoEntry \/ db[a] = NoObject) /\ ~MarkedUpdate(a)
  /\ \A a \in Address : w.obj[a] # NoObject => Layered(a, w.obj[a])
  /\ WellIndexed(w.accessList) /\ Packed(w.accessList)

\* Undoing entry i in the world after it gives the world before it.
Undoable(s) ==
  \A i \in 1 .. Len(s.trail) : Undo(s.journal.entries[i], At(s, i + 1)) = At(s, i)

\* Each entry of the journal undoes exactly its own change, from the last back
\* to the first of the transaction, whatever was called, reverted or finalised
\* before; and every world on the way is sound.
JournalUndoable ==
  /\ \A i \in 1 .. Len(trail) + 1 : Sound(At(DB, i))
  /\ Undoable(DB)

\* The revisions that may still be reverted to: those up to the one in progress.
Open == IF Idle THEN Len(saved) ELSE reverting

\* The revisions are ordered by id and by journal length, each open one points
\* to the world saved with it, and each remembers its balance delta.
RevisionsOrdered ==
  LET revs == journal.validRevisions
  IN  /\ \A i, j \in 1 .. Len(revs) :
           i < j => revs[i].id < revs[j].id /\ revs[i].journalIndex <= revs[j].journalIndex
      /\ \A i \in 1 .. Len(revs) :
           revs[i].id < journal.nextRevisionId /\ revs[i].delta = saved[i].delta
      /\ \A i \in 1 .. Open :
           /\ revs[i].journalIndex <= Len(trail)
           /\ saved[i].world = At(DB, revs[i].journalIndex + 1)
      /\ ~Idle => delta = saved[reverting].delta
-----------------------------------------------------------------------------
(* Why Finalise finds every change: an invariant that implies ChangedIsDirty. *)

\* An account that differs in world i was touched by an entry before it; accounts
\* do not vanish within a transaction.
Tracked(s) ==
  \A a \in Address, i \in 1 .. Len(s.trail) + 1 :
    /\ Ledger(At(s, i).obj[a]) # Ledger(At(s, 1).obj[a]) =>
          \E j \in 1 .. i - 1 : Dirtied(s.journal.entries[j], a)
    /\ At(s, i).obj[a] = NoObject => At(s, 1).obj[a] = NoObject

\* The entries that dirty an account.
Touches(j, a) == {i \in 1 .. Len(j.entries) : Dirtied(j.entries[i], a)}

\* dirties counts at least the entries: each has a number of its own up to the count.
\* RIPEMD may be counted more often.
Counted(j) ==
  \A a \in Address :
    j.dirties[a] \in Nat /\ ExistsInjection(Touches(j, a), 1 .. j.dirties[a])

ChangesTracked == Tracked(DB) /\ Counted(journal)
-----------------------------------------------------------------------------
(* The boundaries.                                                         *)

\* commit returns "missing state object", and IntermediateRoot dereferences nil,
\* for an account marked as updated that has no live object.
UpdatedAccountsLive == \A a \in Address : Updated(a) => finalObj[a] # NoObject

Logical(o) ==
  IF o = NoObject THEN NoObject
  ELSE [balance |-> o.balance, nonce |-> o.nonce, code |-> o.code,
        storage |-> [k \in Slot |-> GetState(o, k)]]

\* Between two transactions, the object o of account a agrees with its entries d in
\* the destructs and m in the mutations and with its value t in the account trie.
Settled(a, o, d, m, t) ==
  /\ o # NoObject => o.dirtyStorage = NoStorage
  /\ d # NoEntry => d.origin = db[a] /\ m # NoEntry
  /\ m = NoEntry => Logical(o) = db[a]
  /\ m = NoEntry \/ m.applied => /\ t = Logical(o)
                                 /\ o # NoObject => o.base.uncommittedStorage = NoStorage
  /\ m # NoEntry /\ m.typ = "deletion" => o = NoObject /\ d # NoEntry

\* The objects at the start of a transaction, against what the transactions of the
\* block before it left.
BlockOk ==
  \A a \in Address : Settled(a, At(DB, 1).obj[a], destruct[a], mutations[a], trie[a])

\* What Commit writes is what the transactions saw: the account trie and the
\* flat state both end as the live objects, less the ones Finalise removes.
CommitPersistsView ==
  [][db' # db \/ (txs' = 0 /\ mutations' # mutations)
       => LET view == [a \in Address |-> IF Removed(a) THEN NoObject
                                         ELSE Logical(world.obj[a])]
          IN  db' = view /\ trie' = view]_vars

\* The original values a state update carries undo it: writing them over the
\* committed state gives the parent state back.
UpdateIsReversible ==
  [][db' # db => ApplyDiff(db', newStateUpdate.accountsOrigin,
                                newStateUpdate.storagesOrigin) = db]_vars
-----------------------------------------------------------------------------
(* Why the balance delta survives reverts: an invariant that implies         *)
(* DeltaTracksSupply.                                                        *)

\* The delta and the announced amounts saved with a snapshot account for the
\* balances of its world, and a revert has put both back.
SavedTracks ==
  /\ \A i \in 1 .. Open :
       saved[i].delta - saved[i].expected
         = Total(Balances(saved[i].world.obj)) + Lost - BlockSupply
  /\ ~Idle => expected = saved[reverting].expected

SupplyTracked == DeltaTracksSupply /\ SavedTracks
=============================================================================
