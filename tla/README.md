# A verification of how go-ethereum-arb keeps state and chain

This directory holds TLA+ models of the parts of the node that keep the world
state and the chain through transactions, reorganisations, crashes and power
failures. TLC checks them on small instances. For all instances, TLAPS proves the
safety properties of the journal and of the blocks built with it, and of the path
database: its histories through stops and failures, and what its readers get.

## The system

| Part | State | Operations | Hard about it |
|---|---|---|---|
| Journal (`core/state/journal*.go`) | entries, dirty and zombie counts, revisions | append, snapshot, revert, reset | each entry undoes only its own change; RIPEMD counts twice; the balance delta is not journaled |
| Account object (`state_object.go`) | account, four storage layers, flags | setters, finalise, updateRoot, commit | a slot set back to an older value must leave the layer it was in |
| Access list, transient storage | addresses with an index into a slice of slot sets; a map | add, delete; get, set | delete works in reverse order of add only; `Prepare` replaces both |
| StateDB (`statedb*.go`, `stateupdate.go`) | objects, destructed objects, mutations, refund, logs, wasms, delta | setters, Prepare, Finalise, IntermediateRoot, Commit | destruct and revive in one block; zombies and the balance delta |
| Hash trie database (`triedb/hashdb`) | cached nodes with parent counts, flush list, disk | insert, reference, dereference, Update, Cap, Commit | shared nodes, nodes flushed and back, batches that fail |
| Recording database (`arbitrum/recordingdb.go`, `recreatestate.go`) | mutex, reference count, one request per caller | StateFor, GetOrRecreateState, PrepareRecording, Dereference, WriteStateToDatabase | concurrent requests, reorgs, cancellation, restarts |
| Freezer (`core/rawdb/freezer*.go`) | per table an index, data files and metadata, each as written and as synced | ModifyAncients, TruncateHead, TruncateTail, SyncAncient, Close, repair | a power failure inside any of them, between any two files of any two tables |
| Block chain (`core/blockchain*.go`, `headerchain.go`) | two stores, head markers, tries in memory | production, insertion, reorg, SetHead, SetFinalized, FlushTrieDB, Stop, start | every operation is several batches, and the process may end between any two |
| Chain freezer (`chain_freezer.go`) | the round in progress | one round of the loop | works next to the chain's thread, on the same stores, under another lock |
| Path trie database (`triedb/pathdb`) | diff layers, disk layer with two buffers and a clean cache, histories, journal | Update, Commit, Recover, flush, reads, Journal, start | readers without the database lock; states and histories reach the disk separately |

The EVM and the block processor call `StateDB`. Its `Commit` hands the changes
to a trie database: the hash one, whose tries the block chain keeps and drops,
or the path one. Chain freezer and path database both keep their old data in a
freezer. The recording database executes blocks on a `StateDB` of its own and
holds references to the tries it needs. `PROJECT.json` lists every other part of
the repository under `components`, with the reason why it has no model.

## Modules

**State.** `AccessList` and `StateObject` are operators on records. An absent map
key is `NoEntry`, a missing account `NoObject`. `StateDB` is the state machine:
`world` is everything a snapshot covers; `journal`, `delta`
(`unexpectedBalanceDelta`), `destruct` (`stateObjectsDestruct`), `mutations`,
`trie` (the account trie) and `db` (the flat state on disk) are the rest. One
action is one call of a setter with all it does, journal entry included.
`RevertToSnapshot` is split into its loop iterations (`RevertEntry`,
`RevertDone`), so that the invariants also hold in the middle of a revert; no
call can come in between (`reverting # 0`). `trail`, `saved`, `expected` and
`lost` are history. `StateDBProperties` states what is checked.

**Tries and recording.** `HashDB` is the hash trie database as operators on a
record. A node stands for its hash; `Children` are the hashes inside it,
`StorageRoots` the storage tries of its accounts. `RecordingDatabase` runs the
steps of `PrepareRecording` for each client, with a program counter that follows
the code from one point where others can interfere to the next.
`RecordingProperties` states what is checked.

**Ancient store.** `AncientStore` is what `ethdb.AncientStore` promises: a
sequence of items (`items`), cut at both ends, of which a prefix (`safe`) survives
a power failure. `FreezerTable` has the files of one table as operators, each
operation as the sequence of its stages on disk; `Freezer` composes the tables
and lets a power failure come after any stage, keeping for each file any content
between what was synced and what was written, and garbage beyond. That `Freezer`
implements `AncientStore` is the property `ImplementsStore`; once the operating
system has reported a failed write or fsync (`failed`), nothing is promised.

**Chain.** `ChainDB` has the accessors of both stores, `TrieGC` when tries are
kept, dropped and written out, `BlockChain` the operations, each a sequence
`todo` of the batches it still has to write. `ChainFreezer` adds the background
thread. Both use the ancient store through `AncientStore`'s own actions
(`Ancients!Write`, `Ancients!TruncateHead`, ...), so the chain is checked over
the store that `Freezer` is shown to implement. A start takes over a chain
that is only in the ancient store (`InitDatabaseFromFreezer`), loads the markers and
repairs the head. `torn` and `regained` are history: that a crash left a head
without its number index, and that a chain was taken over. The followers of the
block-change pipeline are a variable: the chain they have built.

**Path database.** `PathDB` names a state by its root and gives every key the
root of the state that wrote it last. The operation that holds the database lock
is `job`; the flush of the frozen buffer, one reader and the start run next to
it. `undone` and `misled` are history: that a power failure undid a flush which
pruning had relied on, and that a journal was loaded although histories below it
had been cut. Its histories are an `AncientStore` too: that `PathDB` uses them only in ways
the store allows is the property `UsesAncientStore` of `PathDBStore`.
`PathDBInvariant` has the inductive invariants its proofs use.

`MCStateDB`, `MCRecording`, `MCFreezer`, `MCChain` and `MCPathDB` give the
constants their values. Definitions whose names start with `Mut` are deliberately
wrong versions of the definition after them: every property fails with one of
them in place.

## Runs

| Run | Checks | States |
|---|---|---|
| `JournalAccounts` | account calls under nested snapshots: `RevertRestores`, `JournalUndoable`, `ChangedIsDirty`, `TypeOK` | 414,926 |
| `JournalEffects` | access list, transient storage, refunds, logs, module activations: `RevertRestores`, `AccessListSound` | 346,561 |
| `Blocks` | transactions and commits that set, destruct and revive, mint and burn: `CommitPersistsView`, `UpdateIsReversible`, `UpdatedAccountsLive`, `DeltaTracksSupply` | 271,719 |
| `Recording` | two clients, a fork, flushes, failed writes, a cancellation, a reorg or a restart: `OpenStateAvailable`, `FoundMeansComplete`, `FlushListIntact`, `ParentsCounted`, `ReferencesCounted`, `RecreatedIsTarget`, `RequestsAdvance` | 422,115 |
| `Freezer` | two tables, files of two cells, failures inside every operation: `ContentCorrect`, `TablesAligned`, `FlushedIsDurable`, `OpensAgain`, `ImplementsStore` | 125,119 |
| `ChainFork` | a fork, freezing, followers and a crash after any batch: `CanonicalChain`, `HeadHasState`, `OpensAgain`, `NoExtraAncients`, `CleanRestart`, `FollowersFollow` | 112,830 |
| `ChainArchive` | a sparse archive node, rewinds below the finalized block, a power failure: `OpensAgain`, `SparseKept`, `ReloadFindsHead`, `EventuallyFrozen` | 80,964 |
| `PathDB` | two branches, background flush, pruned histories, recovery, a stop and a power failure, or a reader: `ReadsRight`, `DiskContent`, `IdsAligned`, `PersistentHasHistory`, `StatesRecoverable`, `OpensAgain`, `UsesAncientStore`, `EverythingEnds` | 264,651 |
| `Zombies`, `FreezerSyncRace`, `ChainReorgReopen`, `PathDBPruned` | what the code does not do as it says, below | |

### Bounds

*Journal.* Three entries and two nested snapshots are enough for a revert across
a snapshot and for a second change of what the first one left behind. `Blocks`
needs three transactions: set, destruct, revive. In `JournalEffects` the constraint
`OneEffect` cuts what the properties do not tell apart: warm entries and counting
entries do not read one another's state, so a transaction journals one kind.
Addresses, slots and modules are symmetric there (`Alike`): no call treats one of
them in its own way, and no definition chooses among them.

*Recording.* Two blocks share a trie node that is not on disk, so a lost
reference shows; one block leaves the state alone, so two requests share a root.
`Shared` names the blocks that two requests ask for at the same time. A behaviour has
one event from outside: a write of a state, a cancellation, a reorganisation or a
restart (`Spend`). A restart also comes in the middle of a `Cap` or a `Commit`, with
any part of their batches written.

*Freezer.* Two versions of an item, two items, files of two cells: an append then
crosses a file, a rewritten item differs from the one cut, and the two tables
change files at different items. One power failure, and one failed write or failed
fsync (`OneError`). Larger instances (both failures, 321,677 states; three items)
were run once and passed.

*Chain.* Trees of five or six blocks with two branches, `TriesInMemory` and the
immutability threshold 2, batches of two: a trie is collected, a flush happens,
blocks are frozen while others are added, and a reorganisation drops a block that is
not yet frozen. Four operations, and one crash or power failure after any batch.
`ChainArchive` lets the gas limit save a state at any block (`SkipByGas`).

*PathDB.* Two diff layers, histories limited to two, five updates (three next to a
reader): with fewer than three committed layers nothing is ever pruned. A behaviour
has one of three budgets (`Budgets`): a stop and a power failure, a reader, or two recoveries. An
instance with a stop, a power failure and a reader together (12.3 million states)
was run once and passed.

Deadlock is checked where a behaviour need not end (`Recording`, `Freezer`); the
other runs end with their bounds.

### What the environment is assumed to do

The runs leave out what the callers or the operating system do not do, by name:

* `Acceptable` (`BlockChain`): the consensus client does not ask for a
  reorganisation below a frozen or finalized block, nor of more than
  `FullImmutabilityThreshold` blocks; finality only advances, and
  (`"rewindFinal"`) in `ChainFork` nobody rewinds below it. `NoExtraAncients`
  needs the last: a rewind below the finalized block keeps its ancients.
* `Undisturbed` (`BlockChain`): `SetFinalized` takes no lock and comes between any
  two batches of another operation, but not for a block which that operation is
  about to undo.
* `RecoverState` takes no lock either; in the model it does not overlap with
  another operation. Its caller does not insert blocks meanwhile.
* `Apart` (`ChainFreezer`): a rewind does not run while a round of the freezer
  does (`"rewindWhileFreezing"`), and a block is not imported again at a height
  being frozen (`"importWhileFreezing"`). The code has no lock for either; in
  practice the threshold keeps the two 90,000 blocks apart.
* A crash between the two batches that end a reorganisation is a step of every
  chain run. `CanonicalChain`, `OpensAgain` and `EventuallyFrozen` say nothing of
  what follows it (`torn`), see `ChainReorgReopen`; the other properties do.
* `NoExtraAncients` says nothing once a chain was taken over from the ancient store
  (`regained`). This happens after a crash inside a rewind to the genesis block:
  the head header is then the last frozen block again, and a later rewind of the
  head leaves ancients above it.
* `RanAhead` (`ChainFreezer`): `HeadHasState` and `CleanRestart` say nothing of a
  node that executed `TriesInMemory` blocks beyond its head without making them
  the head: their collection may release the head's own trie.
* No two blocks have one state root in `ChainDB`, no two states one root in
  `PathDB`.
* A batch of the key-value store is atomic, and a power failure undoes a suffix
  of the batches since the last sync. A rename is atomic with the content.
* In `Freezer`, without `ConcurrentSync` the caller of `SyncAncient` is the one
  that appends, as in the chain freezer's loop. The path database syncs from a
  second goroutine, for which `FreezerSyncRace` shows that a synced prefix may be
  lost: there `ImplementsStore` does not hold, and what is shown of `PathDB` holds
  over a store without that race.
* `Prepare` is called before the transaction's first change of access list or
  transient storage, as its comment asks; a call after such a change would leave
  journal entries that undo on the wrong list. `SubBalance` is called for at most the
  balance: the code's subtraction wraps.
* In `PathDB` nothing is assumed of pruning and of journals. The two cases in which
  the code's own order fails are recorded (`undone`, `misled`) and named in the
  properties they break.

### What the code does not do as it says

* `Zombies`: `journal.reset` keeps `zombieEntries`, so an empty account touched
  in a later transaction may survive, against `journal_arbitrum.go:86`.
* `FreezerSyncRace`: `doSync` takes the index size after its fsync calls, while
  a batch in another goroutine writes without the table lock; the recorded flush
  offset may then cover entries that were not synced, against
  `freezer_meta.go:53`. The path database has such a goroutine: `buffer.flush`.
* `ChainReorgReopen`: after a crash between the batch in which `reorg` deletes
  the indexes and the one in which `writeHeadBlock` writes the new head, with the
  new head the first block not frozen, `Open` reports a gap although no block is
  missing (`database.go:318`, against `database.go:295`). In other cases the node
  starts with a head that has no number index, and adding blocks does not bring the
  index back.
* `PathDBPruned`: histories are cut up to the persistent id as written, not as
  synced. After a power failure that undoes the last flush, the persistent id is
  below the first history, against `disklayer.go:381` ("These measures ensure the
  persisted state ID always remains greater than or equal to the first history ID"),
  and `repairHistory` ends in `log.Crit`. `Recover` does sync before it truncates.
* Without a run: `layertree.go:266` removes "any layer that is stale or links into a
  stale layer" by the roots of the parents. The siblings of the layer that `cap`
  linked to the new disk layer point to the flattened one, which has the same root,
  and stay. A commit through them is refused by the history store (`NextHistory`),
  which is what keeps `IdsAligned`.
* Without a run: `pushBlockChange` puts off a change to a lower head until "there is a
  newer block" (`blockchain.go:3133`). If a rewind or the freezer has removed the
  ancestors of the last pushed block by then, `getCommonAncestor` ends the process
  (`PushFatal`).

Seen while modelling, without a line of the repository that says otherwise:

* `Finalise` drops the balance an account received after `SelfDestruct` without
  a change of `unexpectedBalanceDelta`; `DeltaTracksSupply` says what does hold.
* A request cancelled right after `StateFor` succeeded returns without dropping
  its reference (`recordingdb.go:350`); the trie stays in memory until it is
  flushed. `ReferencesCounted` checks that no other path loses one.
* A journal of the path database is never deleted, and it is loaded whenever its
  root is that of the disk. Stop with transitions in the buffer, start, recover
  a state so that only the buffer changes, crash: the next start loads the old
  journal, whose histories are cut, and `repairHistory` ends in `log.Crit`
  (`misled` in `OpensAgain`).
* When `state.New` fails at the end of `addStateVerify`, the reference taken before
  it is not dropped (`recordingdb.go:291`).
* The `Stat` in `doSync` overwrites the error of the two fsync calls before it
  (`freezer_table.go:1261`), so their failure goes unreported. In `Freezer` a failed
  fsync ends what is promised, reported or not.

### Fairness

That a request of the recording database ends is shown by a measure: every step it
takes lowers the number of blocks and steps it has left, whatever others do between
its steps (`RequestsAdvance`). The rest is the mutex, which Go hands to the longest
waiter; this is not part of the model. `ChainArchive`
asks for weak fairness of the freezer's loop, of the operation under way and of
the restart; `PathDB` of the operation under way, the flush goroutine, the
reader and the restart. These are goroutines that nothing else disables for
good. New operations, crashes and power failures are never forced.

## Proofs

In every proof module Zenon is the default prover of a leaf; a leaf that needs
arithmetic, records or sequences names SMT.

### The journal and the block

`StateDBProofs` proves, for any sets of addresses, slots and values and any
bounds on entries, snapshots and transactions:

* `TypeCorrect`: `Spec => []TypeOK`;
* `UndoCorrect`: `Spec => []JournalUndoable`;
* `RevertCorrect`: `Spec => RevertRestores`;
* `AccessListCorrect`: `Spec => []AccessListSound`;
* `ChangesDirty`: `Spec => []ChangedIsDirty`;
* `UpdatesLive`: `Spec => []UpdatedAccountsLive`;
* `CommitCorrect`: `Spec => CommitPersistsView`;
* `UpdateReversible`: `Spec => UpdateIsReversible`;
* `DeltaCorrect`: `Spec => []DeltaTracksSupply` (in `StateDBSupplyProofs`).

All but the last follow from `Invariant`, `Spec => []IInv`. None of them is
inductive alone.

*Reverts.* That the revert loop ends in the saved world needs that every entry on
the way undoes its own change (`JournalUndoable`) and that each open revision
points at the world saved with it (`RevisionsOrdered`). An entry undoes its change
only in a world that is `Sound`: under an absent account lies nothing, the storage
layers of an object fit together (`Fits`), and the access list has an address for
every part of its slice and a part for every index. The undo of the access list
deletes the last part of the slice; it is the reverse order of the journal that
makes this the part that was added.

*Dirty accounts.* `ChangedIsDirty` speaks of counts that go up and down with the
journal. `ChangesTracked` adds the reason: whatever world of the transaction
differs from the first in an account has an entry for that account before it, and
the count is at least the number of such entries. It may be higher: a touch of
RIPEMD is counted twice and reverted once.

*Commit.* What `Commit` writes is put together from the mutations, the destructed
objects and three layers of storage. `BlockOk` says what these mean at the start of
each transaction of a block: an account without a mutation is the one on disk; one
whose mutation has been applied is in the account trie; a destructed account keeps
the value it had on disk as its origin and has a mutation. `MarkersRight` (in
`Fits`) is the fact on storage: a slot is marked as uncommitted exactly while the
storage trie has another value for it, and the marker is that value. Both lead from
one boundary to the next through the sound worlds between them. `CommitFacts`
draws the conclusion: the diff over the old state is what the transactions saw, and
the origins over the new state are the old one.

*The balance delta.* A revert puts back the delta that was saved with the snapshot,
not the sum of what it undoes, so `SupplyTracked` says the same of every open
snapshot: its delta accounts for the balances of its world (`SavedTracks`). That the
revert ends in that world is `RevertCorrect`'s argument. The supply is a sum over
all accounts, defined by a fold; that a fold over a finite set exists, is additive
and changes with one account by the change of that account (`TotalFunction`,
`TotalAdd`, `TotalChange`) is proved by induction over the number of accounts, from
`WFMin` of `WellFoundedInduction` applied to the counterexamples.

`StateDBCallProofs` shows of each setter that it appends an entry that undoes it, or
changes nothing, and has one lemma per call and one for `Prepare`. `StateDBProofs`
has the other steps: `Snapshot` and the steps of a revert, and those between
transactions (`Finalise`, `SetTxContext`, `IntermediateRoot`, `Commit`), which need
the facts on objects and marks collected in `FinalFacts`, `RootFacts` and
`ChangeFacts`. The only assumptions are the
ASSUMEs on the constants, which every run evaluates. `DBAssumption` asks, among the
types, that the values for a missing account and a missing map entry are none of
the records they stand next to. `FiniteAddresses` says that there are finitely many
accounts.

### The path database

`PathDBProofs` proves, for any tree of states, any keys, any limits on diff layers
and histories and any number of operations, stops and power failures:

* `StartsAgain`: `Spec => []OpensAgain`, a start gives up in two cases only: a power
  failure undid a flush which pruning had relied on (`undone`), or a journal was
  loaded that outlived its histories (`misled`);
* `KeepsHistory`: `Spec => []PersistentHasHistory`, unless `undone`;
* `IdsCount`: `Spec => []IdsAligned`;
* `Recovers`: `Spec => []StatesRecoverable`, unless `misled`;
* `HoldsState`: `Spec => []DiskContent`;
* `ReadsCorrect`: `Spec => []ReadsRight`;
* `AncientStoreUse`: `Spec => UsesAncientStore`, the refinement.

All but two follow from `Invariant`, `Spec => []IInv`. `OpensAgain` is far from
inductive. That a start finds its histories depends on what any power failure
before it may bring back, so `IInv` speaks of all contents the key-value store
may have (`Versions`): the state of each lies on the one line of states that the
histories record (`HistoryIsLine`, `On`), within the synced prefix (`VersionOk`);
the persistent one is at or above the tail, unless a failure undid it (`TailOk`).
Once a journal has misled the start, the histories need not be one line any more and
only their number is known. All this is kept by the order of the code: histories are
appended before their layer is merged (`JobOk`), synced before the buffer is
written (`BuffersOk`), and cut above a recovered state only once no content above
it can come back. The journal stays on the line as long as no history under it is
cut (`JournalOk`). A layer is appended only to its own parent: this is where
`NextHistory` is needed, since siblings of a committed layer can reach `Commit`
with a disk layer that is not theirs. `IdsStored` says that the ids `Recoverable`
looks up are there.

Contents and reads need `CInv` next to it (`Contents`: `Spec => [](IInv /\ CInv)`):

* `BuffersHold` and `JournalHolds`: the frozen buffer over the disk is the state it
  is frozen for, the live buffer over that is the disk layer's, and the buffer in
  the journal fits the state the journal was written for. The clean cache holds
  values of the persistent state only. The flush takes no lock that would keep it
  from writing while a reader carries a value from the disk to the cache; but a
  reader goes to the disk only for a key in neither buffer, and as long as it
  holds the lock of the disk layer no other buffer is frozen, so the flush does
  not write this key.
* `TreeOk`: the layers hold every state down to the disk layer, `descendants` has
  every pair of them, `lookup` lists for each key exactly the layers that changed
  it, each after those it was derived from, and the parent pointers lead along the
  tree. While layers are flattened the tree stands on the old disk layer (`Floor`),
  so that a reader that looks up between two merges still finds its way.
* `ReaderOk`: where a reader takes a value from the disk layer, the state of the disk
  layer and its own agree on the key (`Agree`), at each of its steps. `TipRight` shows
  that the layer found in the indexes is the one that wrote the key last, `PathExists`
  that the walk along the pointers ends. Between the lookup and the lock of the disk
  layer a merge may replace the layer; it then marks it (`MarkReader`), and the
  read fails as stale.

`StateOf`, the content of a state, is defined by the newest state of its line that
wrote a key; `Content` and `Agreement` give the step from a state to its parent and
along a line. What the index lists are after layers are removed (`FilterIs`) is
proved by induction, as above.

`PathDBInvariant` has both invariants and `PathDBLine` the lemmas on lines of states.
`PathDBSteps` shows that every step preserves `IInv`, `PathDBTree` that it preserves
`TreeOk`, `PathDBReads` that it preserves what buffers, cache and journal hold and
what readers know; `PathDBProofs` has the theorems.
Both invariants were also run through TLC on the instance of the run `PathDB`.
Besides the types of the constants, the proofs assume `TreeAssumption`: that the
states form a tree with Genesis at its root, said of the recursive function `Line` (a
state and its ancestors). That such a function exists would need the theorem on
recursive definitions, whose operator parameter the prover cannot instantiate; TLC
evaluates the assumption in the run.

### Only model-checked

* The trie and recording databases, whose operators are recursive (a dereference
  cascades down a trie).
* Freezer and chain, whose operators are folds and searches over sequences, and
  that `Freezer` implements `AncientStore`.
* All liveness, which is out of the prover's reach.

## Not modelled

* *StateDB.* Code is one value per account; its lazy loading is left out, so that
  where `SetCode` journals a code not yet loaded (nil) the model journals the code. The
  rules are those since EIP-2929, where `Prepare` always renews the access list.
  `Commit` of storage deletions that are forbidden (`noStorageWiping`) and reader errors (`dbErr`) are left out, as are `CacheWasm` and
  `EvictWasm` entries, Stylus page counters, recent wasms, preimages, transaction
  filters and `Copy`.
* *Tries.* Storage tries are their content; trie nodes exist in `HashDB` only. Its
  clean cache holds copies of what is on disk, and sizes are replaced by a choice
  of how much `Cap` flushes. `StateFor` is called for a walk without a gas limit,
  as the recording database does.
* *Freezer.* An I/O error of one table inside the loops of `TruncateHead` and
  `TruncateTail`, encoding, compression, read-only mode, legacy metadata and
  `freezer_resettable.go`.
* *Chain.* Snap sync, the path scheme in rewinds, history pruning, the snapshot
  root, timestamps, transaction lookups and events; blocks are valid. Nor are the
  LRU caches of headers, bodies and blocks (`headerchain.go:388`), which `SetHead`
  purges: reads go to the stores.
* *Path database.* `Disable` and `Enable`, snapshot generation, the history
  indexer and its readers, iterators, the encoding of nodes and states.
* *The rest of the repository*, by far the larger part of its lines: pools,
  fetchers, downloader and peer-to-peer stack, RPC, miner, tracers, accounts,
  EVM and trie encoding. Most of it is interpretation of data, encoding, I/O or
  generated code, where a model would be the program again; the pools, the
  fetcher, the snapshot tree and the event feeds have state machines of their own
  and are the ones to take up next. The reasons are under `components`.
