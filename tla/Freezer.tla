------------------------------- MODULE Freezer -------------------------------
(***************************************************************************)
(* The ancient store (core/rawdb/freezer.go): the tables of FreezerTable   *)
(* kept at the same length, under appends, truncations, syncs, failed      *)
(* writes, restarts and power failures.                                    *)
(*                                                                         *)
(* writeLock serialises ModifyAncients, TruncateHead and TruncateTail.     *)
(* SyncAncient only takes the lock of one table at a time, and the batch   *)
(* writes its files without that lock: with ConcurrentSync a sync runs in  *)
(* a goroutine of its own, as the buffer flush of triedb/pathdb does;      *)
(* without it the caller of SyncAncient is the one that appends, as in the *)
(* loop of the chain freezer.                                              *)
(***************************************************************************)
EXTENDS FreezerTable

CONSTANTS
    Tables,         \* the kinds of data
    Prunable,       \* the tables configured as prunable
    Versions,       \* what an item may hold
    Blob,           \* Blob[k][v]: the cells table k stores for version v
    MaxItems,       \* bound on the number of items
    MaxBatch,       \* bound on the items of one ModifyAncients
    MaxCrashes,     \* bound on power failures
    MaxSyncErrors,  \* bound on fsync calls that fail
    MaxWriteErrors, \* bound on index writes that fail
    ConcurrentSync, \* whether SyncAncient has a goroutine of its own
    NoTable         \* not a table

ASSUME FreezerAssumption ==
    /\ Prunable \subseteq Tables
    /\ NoTable \notin Tables
    /\ \A k \in Tables, v \in Versions : Len(Blob[k][v]) <= MaxFileSize
    /\ ConcurrentSync \in BOOLEAN

VARIABLES
    tables,    \* the tables
    opened,    \* the tables the running process has opened
    up,        \* whether NewFreezer has returned
    frozen,    \* Freezer.frozen
    tail,      \* Freezer.tail
    sync,      \* the SyncAncient in progress: tables to do, current table, goal
    ancient,   \* history: the versions of the items appended
    promised,  \* history: items a successful SyncAncient covered
    budget     \* failures still allowed: crashes, sync errors, write errors

vars == <<tables, opened, up, frozen, tail, sync, ancient, promised, budget>>

NoSync == [todo |-> {}, at |-> NoTable, goal |-> 0]

Final(stages) == stages[Len(stages)]

Init ==
    /\ tables = [k \in Tables |-> UnopenedTable(EmptyFiles)]
    /\ opened = {}
    /\ up = FALSE
    /\ frozen = 0
    /\ tail = 0
    /\ sync = NoSync
    /\ ancient = <<>>
    /\ promised = 0
    /\ budget = [crash |-> MaxCrashes, sync |-> MaxSyncErrors, write |-> MaxWriteErrors]

\* No table lock is held and, unless the sync has its own goroutine, none is
\* in progress.
Idle == up /\ sync.at = NoTable /\ (ConcurrentSync \/ sync = NoSync)

-----------------------------------------------------------------------------
(* Appending. *)

Blobs(k, vs) == [i \in 1..Len(vs) |-> Blob[k][vs[i]]]

\* ModifyAncients appending the versions vs to every table; a table being
\* synced may be written but not advanced to a new file.
ModifyAncients(vs) ==
    LET done == [k \in Tables |-> LET tb == AppendItems(tables[k], Blobs(k, vs))
                                  IN Commit(tb.t, tb.b)]
    IN /\ up
       /\ ConcurrentSync \/ sync = NoSync
       /\ frozen + Len(vs) <= MaxItems
       /\ \A k \in Tables : done[k].headId <= MaxFile
       /\ sync.at # NoTable => done[sync.at].headId = tables[sync.at].headId
       /\ tables' = done
       /\ frozen' = frozen + Len(vs)
       /\ ancient' = ancient \o vs
       /\ UNCHANGED <<opened, up, tail, sync, promised, budget>>

\* Mutant ModifyAncients: a failed write is not rolled back.
MutNoRollback(t, n) == t
\* The deferred rollback of ModifyAncients.
Rollback(t, n) == Final(TruncateHeadStages(t, n))

\* ModifyAncients whose write function fails after some of the items of some
\* of the tables were handed to the batch.
ModifyAncientsFails(vs, given) ==
    LET part == [k \in Tables |-> AppendItems(tables[k], Blobs(k, SubSeq(vs, 1, given[k]))).t]
    IN /\ Idle
       /\ frozen + Len(vs) <= MaxItems
       /\ \A k \in Tables : part[k].headId <= MaxFile
       /\ tables' = [k \in Tables |-> Rollback(part[k], frozen)]
       /\ UNCHANGED <<opened, up, frozen, tail, sync, ancient, promised, budget>>

\* ModifyAncients in which writing the index of table bad fails once its data
\* is written; the tables in done were committed before.
ModifyAncientsWriteError(vs, bad, done) ==
    LET res(k) == LET tb == AppendItems(tables[k], Blobs(k, vs))
                  IN IF k \in done THEN Commit(tb.t, tb.b)
                     ELSE IF k = bad THEN WriteData(tb.t, tb.b) ELSE tb.t
    IN /\ Idle
       /\ budget.write > 0
       /\ frozen + Len(vs) <= MaxItems
       /\ \A k \in Tables : res(k).headId <= MaxFile
       /\ tables' = [k \in Tables |-> Rollback(res(k), frozen)]
       /\ budget' = [budget EXCEPT !.write = @ - 1]
       /\ UNCHANGED <<opened, up, frozen, tail, sync, ancient, promised>>

-----------------------------------------------------------------------------
(* Truncation. *)

\* TruncateHead.  Callers do not rewind below the tail.  No table returns an error.
TruncateHead(n) ==
    /\ Idle
    /\ n < frozen
    /\ tables' = [k \in Tables |-> Final(TruncateHeadStages(tables[k], n))]
    /\ frozen' = n
    /\ ancient' = SubSeq(ancient, 1, n)
    /\ promised' = Min({promised, n})
    /\ sync' = [sync EXCEPT !.goal = Min({@, n})]
    /\ UNCHANGED <<opened, up, tail, budget>>

\* Mutant TruncateTail: the tables that are not prunable are cut as well.
MutTruncateAll(n) ==
    /\ Idle
    /\ n > tail
    /\ tables' = [k \in Tables |-> Final(TruncateTailStages(tables[k], n))]
    /\ tail' = n
    /\ UNCHANGED <<opened, up, frozen, sync, ancient, promised, budget>>
\* TruncateTail.  Callers only drop items that were synced before.  No table
\* returns an error.
TruncateTail(n) ==
    /\ Idle
    /\ n > tail
    /\ tables' = [k \in Tables |-> IF k \in Prunable
                                   THEN Final(TruncateTailStages(tables[k], n))
                                   ELSE tables[k]]
    /\ tail' = n
    /\ UNCHANGED <<opened, up, frozen, sync, ancient, promised, budget>>

-----------------------------------------------------------------------------
(* Syncing. *)

SyncAncient ==
    /\ up
    /\ sync = NoSync
    /\ sync' = [todo |-> Tables, at |-> NoTable, goal |-> frozen]
    /\ UNCHANGED <<tables, opened, up, frozen, tail, ancient, promised, budget>>

\* The fsync calls of doSync on table k.
SyncFiles(k) ==
    /\ sync.at = NoTable
    /\ k \in sync.todo
    /\ tables' = [tables EXCEPT ![k] = FsyncFiles(@)]
    /\ sync' = [sync EXCEPT !.at = k]
    /\ UNCHANGED <<opened, up, frozen, tail, ancient, promised, budget>>

\* The fsync calls of doSync fail.  The error is tracked in a variable that
\* the following Stat call overwrites.
SyncFilesFails(k) ==
    /\ sync.at = NoTable
    /\ k \in sync.todo
    /\ budget.sync > 0
    /\ sync' = [sync EXCEPT !.at = k]
    /\ budget' = [budget EXCEPT !.sync = @ - 1]
    /\ UNCHANGED <<tables, opened, up, frozen, tail, ancient, promised>>

\* Stat and setFlushOffset of doSync; after the last table SyncAncient
\* returns nil.
SyncOffset ==
    LET k == sync.at
        left == sync.todo \ {k}
    IN /\ k # NoTable
       /\ tables' = [tables EXCEPT ![k] = RecordOffset(@)]
       /\ sync' = IF left = {} THEN NoSync ELSE [sync EXCEPT !.todo = left, !.at = NoTable]
       /\ promised' = IF left = {} THEN Max({promised, sync.goal}) ELSE promised
       /\ UNCHANGED <<opened, up, frozen, tail, ancient, budget>>

-----------------------------------------------------------------------------
(* Stopping and starting. *)

\* What power failing inside an append finds: the write function has handed
\* some items of every table to the batch, or the tables in done have been
\* committed.
InAppend(vs) ==
    LET batch(k, i) == AppendItems(tables[k], Blobs(k, SubSeq(vs, 1, i)))
        full(k) == batch(k, Len(vs))
    IN {[k \in Tables |-> batch(k, given[k]).t] : given \in [Tables -> 0..Len(vs)]} \cup
       {[k \in Tables |-> IF k \in done THEN Commit(full(k).t, full(k).b) ELSE full(k).t]
          : done \in SUBSET Tables}

\* What power failing inside a loop over the tables finds: one table inside
\* its operation, the others before or after theirs.
InLoop(stages) ==
    UNION {{[k \in Tables |-> IF k = mid THEN t
                              ELSE IF k \in done THEN Final(stages[k]) ELSE tables[k]]
              : t \in ToSet(stages[mid]), done \in SUBSET (Tables \ {mid})}
           : mid \in Tables}

\* A write or an fsync has failed.
Failed == budget.sync < MaxSyncErrors \/ budget.write < MaxWriteErrors

\* Power fails and finds the files of the tables as in one of found.  Power
\* does not fail once a write or an fsync has failed.
PowerFailure(found) ==
    /\ budget.crash > 0
    /\ ~Failed
    /\ budget' = [budget EXCEPT !.crash = @ - 1]
    /\ tables' \in {t \in found : \A k \in Tables : t[k].headId <= MaxFile}
    /\ opened' = {}
    /\ up' = FALSE
    /\ sync' = NoSync
    /\ UNCHANGED <<frozen, tail>>

Crash ==
    /\ up
    /\ PowerFailure({tables})
    /\ UNCHANGED <<ancient, promised>>

CrashInAppend(vs) ==
    /\ Idle
    /\ frozen + Len(vs) <= MaxItems
    /\ PowerFailure(InAppend(vs))
    /\ ancient' = ancient \o vs
    /\ UNCHANGED promised

CrashInTruncateHead(n) ==
    /\ Idle
    /\ n < frozen
    /\ PowerFailure(InLoop([k \in Tables |-> TruncateHeadStages(tables[k], n)]))
    /\ promised' = Min({promised, n})
    /\ UNCHANGED ancient

CrashInTruncateTail(n) ==
    /\ Idle
    /\ n > tail
    /\ PowerFailure(InLoop([k \in Tables |-> IF k \in Prunable
                                             THEN TruncateTailStages(tables[k], n)
                                             ELSE <<tables[k]>>]))
    /\ UNCHANGED <<ancient, promised>>

\* Freezer.Close: every table is synced and closed.
Close ==
    /\ up
    /\ sync = NoSync
    /\ tables' = [k \in Tables |-> DoSync(tables[k])]
    /\ opened' = {}
    /\ up' = FALSE
    /\ promised' = frozen
    /\ UNCHANGED <<frozen, tail, sync, ancient, budget>>

\* newTable of NewFreezer for table k, on what the last run left.
OpenTable(k) ==
    /\ ~up
    /\ k \notin opened
    /\ \E files \in CrashImages(tables[k]) :
          tables' = [tables EXCEPT ![k] = Final(RepairStages(files))]
    /\ opened' = opened \cup {k}
    /\ UNCHANGED <<up, frozen, tail, sync, ancient, promised, budget>>

\* Power fails while newTable repairs table k.
CrashInRepair(k) ==
    /\ ~up
    /\ k \notin opened
    /\ budget.crash > 0
    /\ ~Failed
    /\ \E files \in CrashImages(tables[k]) : \E t \in ToSet(RepairStages(files)) :
          tables' = [tables EXCEPT ![k] = t]
    /\ opened' = {}
    /\ budget' = [budget EXCEPT !.crash = @ - 1]
    /\ UNCHANGED <<up, frozen, tail, sync, ancient, promised>>

CommonHead == Min({tables[k].items : k \in Tables})
CommonTail == Max({tables[k].hidden : k \in Tables})

\* Mutant repair: the heads are left as they are.
MutHeadsKept(k) ==
    IF k \in Prunable THEN Final(TruncateTailStages(tables[k], CommonTail)) ELSE tables[k]
\* What repair does to a table once the common head and tail are known.
RepairTable(k) ==
    LET cut == Final(TruncateHeadStages(tables[k], CommonHead))
    IN IF k \in Prunable THEN Final(TruncateTailStages(cut, CommonTail)) ELSE cut

\* Freezer.repair, once every table is open, when it returns nil.
RepairOk ==
    \A k \in Tables :
       /\ TruncateHeadOk(tables[k], CommonHead)
       /\ k \in Prunable => TruncateTailOk([tables[k] EXCEPT !.items = CommonHead], CommonTail)
       /\ k \notin Prunable => tables[k].hidden = 0

\* NewFreezer returns after repair.
OpenFreezer ==
    /\ ~up
    /\ opened = Tables
    /\ RepairOk
    /\ tables' = [k \in Tables |-> RepairTable(k)]
    /\ up' = TRUE
    /\ frozen' = CommonHead
    /\ tail' = CommonTail
    /\ ancient' = SubSeq(ancient, 1, CommonHead)
    /\ UNCHANGED <<opened, sync, promised, budget>>

-----------------------------------------------------------------------------
Batches == UNION {[1..n -> Versions] : n \in 1..MaxBatch}

Next ==
    \/ \E vs \in Batches :
          \/ ModifyAncients(vs)
          \/ CrashInAppend(vs)
          \/ \E given \in [Tables -> 0..Len(vs)] : ModifyAncientsFails(vs, given)
          \/ \E bad \in Tables : \E done \in SUBSET (Tables \ {bad}) :
                ModifyAncientsWriteError(vs, bad, done)
    \/ \E n \in tail..MaxItems : TruncateHead(n) \/ CrashInTruncateHead(n)
    \/ \E n \in 0..promised : TruncateTail(n) \/ CrashInTruncateTail(n)
    \/ SyncAncient
    \/ \E k \in Tables : SyncFiles(k) \/ SyncFilesFails(k)
    \/ SyncOffset
    \/ Crash
    \/ Close
    \/ \E k \in Tables : OpenTable(k) \/ CrashInRepair(k)
    \/ OpenFreezer

Spec == Init /\ [][Next]_vars

-----------------------------------------------------------------------------
(* Properties. *)

\* Every item of every table that Retrieve gives out holds what was appended
\* under its number, after any truncations, failed appends and power failures.
ContentCorrect ==
    up /\ ~Failed => \A k \in Tables :
             \A n \in tables[k].hidden..(tables[k].items - 1) :
                Retrieve(tables[k], n) = Blob[k][ancient[n + 1]]

\* The tables agree, as validate demands of a store opened read-only: one
\* length, one tail among the prunable tables, no tail among the others.
TablesAligned ==
    up => \A k \in Tables :
             /\ tables[k].items = frozen
             /\ tables[k].hidden = IF k \in Prunable THEN tail ELSE 0

\* The flush offset never covers an index entry, or data it points to, that
\* has not been fsynced.
FlushedIsDurable ==
    ~Failed => \A k \in opened :
       LET t == tables[k]
           n == Min({t.file.flush, t.disk.flush})
       IN /\ Len(t.disk.index) >= n
          /\ SubSeq(t.disk.index, 1, n) = SubSeq(t.file.index, 1, n)
          /\ \A i \in 2..n : LET e == t.disk.index[i] IN
                /\ Len(t.disk.data[e.file]) >= e.off
                /\ SubSeq(t.disk.data[e.file], 1, e.off) = SubSeq(t.file.data[e.file], 1, e.off)

\* Whatever a power failure leaves, once the tables are open the store opens:
\* repair reaches none of its errors and does not panic.
OpensAgain == opened = Tables /\ ~up => RepairOk

-----------------------------------------------------------------------------
(* The tables implement the ancient store. *)

\* The version all tables agree item n holds, or NoTable if they do not.
StoredVersion(n) ==
    LET fits == {v \in Versions : \A k \in Tables :
                    n >= tables[k].hidden => Retrieve(tables[k], n) = Blob[k][v]}
    IN IF fits = {} THEN NoTable ELSE CHOOSE v \in fits : TRUE

Store == INSTANCE AncientStore WITH
    items <- IF up THEN [i \in 1..frozen |-> StoredVersion(i - 1)] ELSE ancient,
    safe  <- promised,
    failed <- Failed

\* Whatever the tables, their files and repair do, a user of the freezer sees
\* an AncientStore: appends are atomic across tables, a prefix once synced is
\* never lost or altered but by TruncateHead, and what is readable again after
\* a power failure was safe.
ImplementsStore == Store!Spec
=============================================================================
