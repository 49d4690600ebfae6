------------------------------- MODULE PathDB -------------------------------
(***************************************************************************)
(* The path-based trie database (triedb/pathdb): diff layers in memory     *)
(* over one disk layer, whose changes are collected in a buffer and        *)
(* flushed by a background thread, a history of reverse changes in an      *)
(* ancient store, a journal written when the node stops, and readers that  *)
(* work without the database lock.                                         *)
(*                                                                         *)
(* A state is named by its root and holds, for every key (an account, a    *)
(* slot or a trie node), the root of the state that wrote it last.         *)
(***************************************************************************)
EXTENDS Integers, Sequences, Functions

CONSTANTS
    Root, Genesis,   \* the state roots, and the one the database starts with
    Parent,          \* the state each root was derived from
    Key,             \* what a state maps to values
    Changed,         \* the keys each state changed
    None,            \* no value, no root, no journal
    MaxDiffLayers, StateHistory,    \* the limits of Config
    Budgets          \* how many operations of each kind may happen: one of these

\* A state and the states it was derived from, the newest first.
Line[r \in Root] == IF r = Genesis THEN <<r>> ELSE <<r>> \o Line[Parent[r]]

ASSUME PathDBAssumption ==
    /\ Genesis \in Root
    /\ Parent \in [Root -> Root]
    /\ Changed \in [Root -> SUBSET Key]
    /\ None \notin Root
    /\ MaxDiffLayers \in Nat \ {0}
    /\ StateHistory \in Nat
    /\ Budgets \subseteq [{"updates", "commits", "recovers", "stops", "crashes", "reads"} -> Nat]

\* The states form a tree with Genesis at its root: what Line gives in one.
ASSUME TreeAssumption ==
    /\ Line \in [Root -> Seq(Root)]
    /\ Line[Genesis] = <<Genesis>>
    /\ \A r \in Root :
          /\ Len(Line[r]) > 0 /\ Line[r][1] = r
          /\ r # Genesis => Len(Line[r]) > 1 /\ Line[r][2] = Parent[r]
          /\ \A i \in 1..Len(Line[r]) : Line[Line[r][i]] = SubSeq(Line[r], i, Len(Line[r]))

VARIABLES
    kv,      \* the key-value store: states, persistent id, stored ids, journal
    older,   \* its contents since the last sync: a power failure may bring one back
    items, tail, safe,   \* the histories, see AncientStore
    up,      \* whether the histories are open
    base,    \* the disk layer: root, id, and the buffer with its number of layers
    frozen,  \* the buffer being flushed
    cache,   \* the clean cache
    layers,  \* the roots of the diff layers of the tree
    ptr,     \* what the parent of a diff layer is: "diff", "disk" or "stale"
    descendants, lookup,   \* the indexes of the layer tree
    job,     \* the operation that holds the database lock
    rd,      \* a reader
    left     \* how many operations of each kind may still happen

\* History variables, which no guard reads.
VARIABLES
    cut,     \* whether histories that the journal builds on were cut
    undone,  \* whether a failure undid the flush that let later histories be pruned
    misled   \* whether a journal was loaded after histories below it were cut

histories == <<items, tail, safe, up>>
tree == <<layers, ptr, descendants, lookup>>
past == <<cut, undone, misled>>
vars == <<kv, older, histories, base, frozen, cache, tree, job, rd, past, left>>

-----------------------------------------------------------------------------
(* The states.                                                             *)

Last(s) == s[Len(s)]

Reverse(s) == [i \in 1..Len(s) |-> s[Len(s) - i + 1]]

\* The id of a state, which counts the transitions that led to it.
Depth == [r \in Root |-> Len(Line[r]) - 1]

Ancestors == [r \in Root |-> Range(Line[r])]

Least(S) == CHOOSE n \in S : \A m \in S : n <= m

Greatest(S) == CHOOSE n \in S : \A m \in S : m <= n

\* The newest state of a line that wrote key k; the oldest wrote every key.
Writer(line, k) == line[Least({n \in 1..Len(line) : n = Len(line) \/ k \in Changed[line[n]]})]

\* The content of a state: for every key the state that wrote it last.
StateOf == [r \in Root |-> [k \in Key |-> Writer(Line[r], k)]]

Nothing == [k \in Key |-> None]

\* buffer.commit, stateSet.merge: the newer value hides the older one.
Merge(buf, r) == [k \in Key |-> IF k \in Changed[r] THEN r ELSE buf[k]]

\* The values a transition replaced, from its history.
Origin(buf, r) == [k \in Key |-> IF k \in Changed[r] THEN StateOf[Parent[r]][k] ELSE buf[k]]

\* A value of the first buffer, or else of the second.
Over(buf, below) == [k \in Key |-> IF buf[k] # None THEN buf[k] ELSE below[k]]

NoJob == [op |-> "none", todo |-> <<>>, top |-> None, pc |-> "", old |-> None, flush |-> FALSE]

NoReader ==
    [pc |-> "idle", root |-> None, entry |-> "", found |-> "", key |-> None, val |-> None]

NotFrozen == [phase |-> "none", buf |-> Nothing, layers |-> 0, id |-> 0, root |-> None]

NoLookup == [k \in Key |-> <<>>]

Init ==
    /\ kv = [data |-> StateOf[Genesis], root |-> Genesis, id |-> 0, ids |-> {}, journal |-> None]
    /\ older = {}
    /\ items = <<>> /\ tail = 0 /\ safe = 0 /\ up = FALSE
    /\ base = [root |-> Genesis, id |-> 0, buf |-> Nothing, layers |-> 0]
    /\ frozen = NotFrozen
    /\ cache = Nothing
    /\ layers = {} /\ ptr = [r \in Root |-> "stale"]
    /\ descendants = {} /\ lookup = NoLookup
    /\ job = NoJob /\ rd = NoReader
    /\ cut = FALSE /\ undone = FALSE /\ misled = FALSE
    /\ left \in Budgets

Spend(what) ==
    /\ left[what] > 0
    /\ left' = [left EXCEPT ![what] = @ - 1]

\* A write to the key-value store, which is not synced.
Put(new) ==
    /\ kv' = new
    /\ older' = IF left.crashes = 0 THEN {} ELSE older \cup {kv}

Running == up /\ job.op # "open"

\* The lock of the disk layer is taken while a bottom layer is committed.
DiskLocked == job.pc \in {"prune", "merge"}

\* A reader holds the lock of the disk layer while it reads the disk.
DiskRead == rd.pc \in {"disk", "fill"}

Flushed == frozen.phase \in {"none", "done"}

-----------------------------------------------------------------------------
(* The layer tree.                                                         *)

\* path is what the parent pointers lead through, up to the disk layer.
IsPath(path) == \A i \in 1..Len(path) : ptr[path[i]] = "diff" <=> i < Len(path)

\* The diff layers met from a diff layer down.
Path(r) == SubSeq(Line[r], 1, CHOOSE n \in 1..Len(Line[r]) : IsPath(SubSeq(Line[r], 1, n)))

\* The layer found in the indexes for key k of the state r (accountTip).
Tip(k, r) ==
    LET list == lookup[k]
        hits == {i \in 1..Len(list) : list[i] = r \/ <<r, list[i]>> \in descendants}
    IN  IF hits # {} THEN list[Greatest(hits)]
        ELSE IF base.root = r \/ <<r, base.root>> \in descendants THEN base.root
        ELSE None

\* The states of a list that are kept, in their order (lookup.removeLayer takes
\* out the others one by one).
Filter(list, kept) ==
    LET from[n \in 0..Len(list)] == IF n = 0 THEN <<>>
                                    ELSE IF list[n] \in kept THEN Append(from[n - 1], list[n])
                                    ELSE from[n - 1]
    IN  from[Len(list)]

\* What cap commits to the disk: the layers below the MaxDiffLayers-th.
Excess(path) ==
    IF Len(path) <= MaxDiffLayers THEN <<>>
    ELSE Reverse(SubSeq(path, MaxDiffLayers + 1, Len(path)))

\* Update: tree.add, and the start of cap.
Update(r) ==
    /\ Running /\ job.op = "none"
    /\ Spend("updates")
    /\ r \notin layers \cup {base.root, Genesis}
    /\ Parent[r] \in layers \cup {base.root}
    /\ layers' = layers \cup {r}
    /\ ptr' = [ptr EXCEPT ![r] = IF Parent[r] \in layers THEN "diff" ELSE "disk"]
    /\ \E n \in 1..Len(Line[r]) :
         LET path == SubSeq(Line[r], 1, n)
         IN  /\ IsPath(path)'
             /\ descendants' = descendants \cup {<<r, Parent[a]>> : a \in Range(path)}
             /\ job' = IF Excess(path) = <<>> THEN NoJob
                       ELSE [NoJob EXCEPT !.op = "cap", !.todo = Excess(path), !.pc = "history",
                                          !.top = path[MaxDiffLayers], !.old = base.root]
    /\ lookup' = [k \in Key |-> IF k \in Changed[r] THEN Append(lookup[k], r) ELSE lookup[k]]
    /\ UNCHANGED <<kv, older, histories, base, frozen, cache, rd, past>>

\* Commit: everything up to r is flattened, each layer with a flush of its own.
Commit(r) ==
    /\ Running /\ job.op = "none"
    /\ Spend("commits")
    /\ r \in layers
    /\ \E n \in 1..Len(Line[r]) :
         LET path == SubSeq(Line[r], 1, n)
         IN  /\ IsPath(path)
             /\ job' = [NoJob EXCEPT !.op = "full", !.todo = Reverse(path), !.pc = "history",
                                     !.old = base.root, !.flush = TRUE]
    /\ UNCHANGED <<kv, older, histories, base, frozen, cache, tree, rd, past>>

Bottom == Head(job.todo)

\* Mutant: any history is taken.
MutAnyHistory == TRUE

\* The ancient store refuses a history that is not the next one.
NextHistory == Depth[Bottom] = Len(items) + 1

\* Mutant: the locks are kept when the history is refused.
MutLocksKept ==
    /\ Running /\ job.pc = "history"
    /\ NextHistory /\ ~DiskRead
    /\ items' = Append(items, Bottom)
    /\ job' = [job EXCEPT !.pc = "prune"]
    /\ UNCHANGED <<kv, older, tail, safe, up, base, frozen, cache, tree, rd, past, left>>

\* diskLayer.commit, first step: the history of the bottom layer is appended.
\* If the store refuses it, the operation fails.
WriteHistory ==
    /\ Running /\ job.pc = "history"
    /\ IF NextHistory
       THEN /\ ~DiskRead
            /\ items' = Append(items, Bottom)
            /\ job' = [job EXCEPT !.pc = "prune"]
       ELSE job' = NoJob /\ UNCHANGED items
    /\ UNCHANGED <<kv, older, tail, safe, up, base, frozen, cache, tree, rd, past, left>>

\* Mutant: the histories are cut without regard to the persistent state.
MutPruneAnyway(first) == FALSE

\* The persistent state is below the first history that would be left.
NeedsFlush(first) == kv.id < first

\* Mutant: no id is stored for the first state.
MutFirstIdMissing == kv.ids \cup {Bottom}

\* WriteStateID for the bottom layer and, once, for the first state.
StoredIds == kv.ids \cup {Bottom} \cup (IF base.id = 0 THEN {base.root} ELSE {})

\* writeStateHistory: the oldest histories beyond the limit are cut, unless
\* the persistent state still needs them; then a flush is due.  The id of the
\* bottom layer is stored under its root.
PruneHistory ==
    /\ Running /\ job.pc = "prune"
    /\ LET id == Depth[Bottom]
           first == id - StateHistory + 1
           due == StateHistory # 0 /\ id - tail > StateHistory
       IN  /\ job' = [job EXCEPT !.pc = "merge", !.flush = @ \/ (due /\ NeedsFlush(first))]
           /\ IF due /\ ~NeedsFlush(first)
              THEN tail' = first - 1
              ELSE UNCHANGED tail
    /\ Put([kv EXCEPT !.ids = StoredIds])
    /\ UNCHANGED <<items, safe, up, base, frozen, cache, tree, rd, past, left>>

\* The layers that had the disk layer as parent now have a stale one, but for
\* the layer that is linked to the new disk layer.
Relink(next) ==
    ptr' = [r \in Root |-> IF r = next THEN "disk" ELSE IF ptr[r] = "disk" THEN "stale" ELSE ptr[r]]

\* Mutant: the old disk layer is not marked as stale.
MutNotStale == UNCHANGED rd

\* The reader keeps the disk layer it began with, or found, as that gets stale.
MarkReader ==
    LET Mark(l) == IF l = "disk" THEN "stale" ELSE l
    IN  rd' = [rd EXCEPT !.entry = Mark(@), !.found = Mark(@)]

\* diskLayer.commit, the rest: the bottom layer is merged into the buffer; a
\* full buffer, or one that has to be flushed, is frozen once the one before
\* it is on disk.
MergeLayer ==
    /\ Running /\ job.pc = "merge"
    /\ \E full \in BOOLEAN :
        LET r == Bottom
            buf == Merge(base.buf, r)
            freeze == full \/ job.flush
        IN  /\ freeze => Flushed
            /\ frozen' = IF freeze THEN [phase |-> "frozen", buf |-> buf, layers |-> base.layers + 1,
                                         id |-> Depth[r], root |-> r]
                         ELSE frozen
            /\ base' = [root |-> r, id |-> Depth[r],
                        buf |-> IF freeze THEN Nothing ELSE buf,
                        layers |-> IF freeze THEN 0 ELSE base.layers + 1]
    /\ Relink(IF Len(job.todo) > 1 THEN job.todo[2] ELSE job.top)
    /\ MarkReader
    /\ job' = [job EXCEPT !.todo = Tail(@),
                          !.pc = IF Len(job.todo) > 1 THEN "history" ELSE "finish",
                          !.flush = job.op = "full"]
    /\ UNCHANGED <<kv, older, histories, cache, layers, descendants, lookup, past, left>>

\* The end of cap: what does not descend from the new disk layer is removed.
FinishCap ==
    /\ Running /\ job.op = "cap" /\ job.pc = "finish"
    /\ LET kept == {r \in layers : r # base.root /\ base.root \in Ancestors[r]}
           gone == (layers \ (kept \cup {base.root})) \cup {job.old}
       IN  /\ layers' = kept
           /\ descendants' = {d \in descendants : d[2] \notin gone}
           /\ lookup' = [k \in Key |-> Filter(lookup[k], kept)]
    /\ job' = NoJob
    /\ UNCHANGED <<kv, older, histories, base, frozen, cache, ptr, rd, past, left>>

EmptyTree == layers' = {} /\ descendants' = {} /\ lookup' = NoLookup

FinishCommit ==
    /\ Running /\ job.op = "full" /\ job.pc = "finish"
    /\ EmptyTree
    /\ job' = NoJob
    /\ UNCHANGED <<kv, older, histories, base, frozen, cache, ptr, rd, past, left>>

-----------------------------------------------------------------------------
(* The background flush of the frozen buffer.                              *)

\* Mutant: the histories are not synced first.
MutNoSync ==
    /\ Running /\ frozen.phase = "frozen"
    /\ frozen' = [frozen EXCEPT !.phase = IF kv.id + frozen.layers # frozen.id THEN "failed" ELSE "synced"]
    /\ UNCHANGED <<kv, older, histories, base, cache, tree, job, rd, past, left>>

\* The frozen buffer has to fit the persistent state; the histories are
\* synced before the states that need them.
FlushSync ==
    /\ Running /\ frozen.phase = "frozen"
    /\ IF kv.id + frozen.layers # frozen.id
       THEN frozen' = [frozen EXCEPT !.phase = "failed"] /\ UNCHANGED safe
       ELSE frozen' = [frozen EXCEPT !.phase = "synced"] /\ safe' = Len(items)
    /\ UNCHANGED <<kv, older, items, tail, up, base, cache, tree, job, rd, past, left>>

\* Mutant: the clean cache keeps what it has.
MutCacheKept ==
    /\ Running /\ frozen.phase = "synced"
    /\ frozen' = [frozen EXCEPT !.phase = "done"]
    /\ Put([kv EXCEPT !.data = Over(frozen.buf, @), !.root = frozen.root, !.id = frozen.id])
    /\ UNCHANGED <<histories, base, cache, tree, job, rd, past, left>>

\* One batch holds the states, their id and their root; what is written also
\* replaces the content of the clean cache, which the frozen buffer hides until the
\* batch is written.
FlushWrite ==
    /\ Running /\ frozen.phase = "synced"
    /\ frozen' = [frozen EXCEPT !.phase = "done"]
    /\ cache' = Over(frozen.buf, cache)
    /\ Put([kv EXCEPT !.data = Over(frozen.buf, @), !.root = frozen.root, !.id = frozen.id])
    /\ UNCHANGED <<histories, base, tree, job, rd, past, left>>

-----------------------------------------------------------------------------
(* Recovery of an older state.                                             *)

\* The histories from the one above r to that of the disk layer are there and
\* lead from r to it.
Recoverable(r) ==
    LET id == Depth[r]
    IN  /\ r \in kv.ids
        /\ id < base.id
        /\ tail <= id /\ base.id <= Len(items)
        /\ \A i \in (id + 1)..base.id :
              Parent[items[i]] = IF i = id + 1 THEN r ELSE items[i - 1]

Recover(r) ==
    /\ Running /\ job.op = "none"
    /\ Spend("recovers")
    /\ Recoverable(r)
    /\ job' = [NoJob EXCEPT !.op = "recover", !.pc = "revert", !.top = r]
    /\ UNCHANGED <<kv, older, histories, base, frozen, cache, tree, rd, past>>

\* diskLayer.revert: the last transition is undone in the buffer or, once that
\* is empty and the frozen one written, on disk.  The tree is left with the
\* new disk layer alone.
Revert ==
    /\ Running /\ job.pc = "revert" /\ base.root # job.top
    /\ ~DiskRead
    /\ IF base.id = 0 \/ items[base.id] # base.root
       THEN job' = NoJob /\ UNCHANGED <<kv, older, base, frozen, cache, tree, rd>>
       ELSE /\ LET to == Parent[base.root]
                   buf == IF base.layers <= 1 THEN Nothing ELSE Origin(base.buf, base.root)
               IN  IF base.layers > 0
                   THEN /\ base' = [root |-> to, id |-> base.id - 1, buf |-> buf,
                                    layers |-> base.layers - 1]
                        /\ UNCHANGED <<kv, older, frozen, cache>>
                   ELSE /\ Flushed
                        /\ frozen' = NotFrozen
                        /\ Put([kv EXCEPT !.data = Origin(@, base.root), !.root = to, !.id = base.id - 1])
                        /\ cache' = Origin(cache, base.root)
                        /\ base' = [base EXCEPT !.root = to, !.id = @ - 1]
            /\ Relink(None)
            /\ EmptyTree
            /\ MarkReader
            /\ UNCHANGED job
    /\ UNCHANGED <<histories, past, left>>

\* The key-value store is synced before the histories are cut.
SyncRecovered ==
    /\ Running /\ job.pc = "revert" /\ base.root = job.top
    /\ older' = {}
    /\ job' = [job EXCEPT !.pc = "cut"]
    /\ UNCHANGED <<kv, histories, base, frozen, cache, tree, rd, past, left>>

\* Histories that the journal builds on may be among those cut.
CutHistory(n) ==
    /\ items' = SubSeq(items, 1, n)
    /\ safe' = IF safe < n THEN safe ELSE n
    /\ cut' = (cut \/ (kv.journal # None /\ n < kv.journal.id))

FinishRecover ==
    /\ Running /\ job.pc = "cut"
    /\ CutHistory(base.id)
    /\ job' = NoJob
    /\ UNCHANGED <<kv, older, tail, up, base, frozen, cache, tree, rd, undone, misled, left>>

-----------------------------------------------------------------------------
(* Readers, which hold a layer and take the locks of the tree and of the   *)
(* disk layer as they go.                                                  *)

\* The diff layers whose locks cap holds until their new parent is linked.
Locked == IF job.todo = <<>> THEN {} ELSE Range(Tail(job.todo)) \cup {job.top}

TreeLocked == job.op \in {"cap", "full"}

OpenReader(r, k, flat) ==
    /\ Running /\ rd.pc = "idle" /\ ~TreeLocked
    /\ Spend("reads")
    /\ r \in layers \cup {base.root}
    /\ rd' = [NoReader EXCEPT !.pc = IF flat THEN "lookup" ELSE "walk", !.root = r, !.key = k,
                              !.entry = IF r \in layers THEN "diff" ELSE "disk"]
    /\ UNCHANGED <<kv, older, histories, base, frozen, cache, tree, job, past>>

Answer(v) == [rd EXCEPT !.pc = "answered", !.val = v]

\* What reading the disk layer gives: a value of its buffers or of the cache,
\* or else the disk has to be read.
ReadDisk ==
    LET v == Over(base.buf, Over(frozen.buf, cache))[rd.key]
    IN  /\ ~DiskLocked
        /\ rd' = IF v # None THEN Answer(v) ELSE [rd EXCEPT !.pc = "disk"]

\* AccountRLP: the layer is taken from the indexes.
LookupLayer ==
    /\ Running /\ rd.pc = "lookup" /\ ~TreeLocked
    /\ LET tip == Tip(rd.key, rd.root)
       IN  rd' = IF tip = None THEN Answer("stale")
                 ELSE IF tip \in layers THEN Answer(tip)
                 ELSE IF tip = base.root THEN [rd EXCEPT !.pc = "base", !.found = "disk"]
                 ELSE Answer("missing")
    /\ UNCHANGED <<kv, older, histories, base, frozen, cache, tree, job, past, left>>

\* The disk layer was found; if it is stale by now the layers are walked.
ReadBase ==
    /\ Running /\ rd.pc = "base"
    /\ IF rd.found = "disk" THEN ReadDisk ELSE rd' = [rd EXCEPT !.pc = "walk"]
    /\ UNCHANGED <<kv, older, histories, base, frozen, cache, tree, job, past, left>>

\* From the layer of the reader down to the first that has the key.
WalkLayers ==
    /\ Running /\ rd.pc = "walk"
    /\ LET path == IF rd.entry = "diff" THEN Path(rd.root) ELSE <<>>
           hits == {i \in 1..Len(path) : rd.key \in Changed[path[i]]}
           seen == IF hits = {} THEN path ELSE SubSeq(path, 1, Least(hits))
           end == IF path = <<>> THEN rd.entry ELSE ptr[Last(path)]
       IN  /\ Range(seen) \cap Locked = {}
           /\ IF hits # {} THEN rd' = Answer(Last(seen))
              ELSE IF end = "stale" THEN rd' = Answer("stale")
              ELSE ReadDisk
    /\ UNCHANGED <<kv, older, histories, base, frozen, cache, tree, job, past, left>>

\* The disk is read, and its value put into the clean cache.
LoadValue ==
    /\ Running /\ rd.pc = "disk"
    /\ rd' = [rd EXCEPT !.pc = "fill", !.val = kv.data[rd.key]]
    /\ UNCHANGED <<kv, older, histories, base, frozen, cache, tree, job, past, left>>

FillCache ==
    /\ Running /\ rd.pc = "fill"
    /\ cache' = [cache EXCEPT ![rd.key] = rd.val]
    /\ rd' = Answer(rd.val)
    /\ UNCHANGED <<kv, older, histories, base, frozen, tree, job, past, left>>

CloseReader ==
    /\ rd.pc = "answered"
    /\ rd' = NoReader
    /\ UNCHANGED <<kv, older, histories, base, frozen, cache, tree, job, past, left>>

-----------------------------------------------------------------------------
(* Stops, failures and starts.                                             *)

Forget ==
    /\ up' = FALSE
    /\ base' = [root |-> Genesis, id |-> 0, buf |-> Nothing, layers |-> 0]
    /\ frozen' = NotFrozen
    /\ cache' = Nothing
    /\ EmptyTree /\ ptr' = [r \in Root |-> "stale"]
    /\ job' = NoJob /\ rd' = NoReader

\* The journal of r and the layers below it.
JournalOf(r) ==
    [disk |-> kv.root, root |-> base.root, id |-> base.id, buf |-> base.buf, head |-> r]

\* Journal, which fails if a layer is stale, and Close.
Stop(r) ==
    LET journaled == r = base.root \/ ptr[Last(Path(r))] = "disk"
    IN  /\ Running /\ job.op = "none" /\ ~DiskRead /\ Flushed
        /\ Spend("stops")
        /\ r \in layers \cup {base.root}
        /\ kv' = IF journaled THEN [kv EXCEPT !.journal = JournalOf(r)] ELSE kv
        /\ cut' = (cut /\ ~journaled)
        /\ older' = {}
        /\ safe' = Len(items)
        /\ Forget
        /\ UNCHANGED <<items, tail, undone, misled>>

\* The process ends or the power fails: the key-value store may lose its last
\* writes, the histories what was not synced.
Crash ==
    /\ up
    /\ Spend("crashes")
    /\ \E v \in older \cup {kv} :
          /\ kv' = v
          /\ undone' = (undone \/ v.id < tail)
    /\ older' = {}
    /\ Forget
    /\ UNCHANGED <<items, tail, safe, cut, misled>>

\* Mutant: the buffer is taken as empty of transitions.
MutLayersLost(j) == [root |-> j.root, id |-> j.id, buf |-> j.buf, layers |-> 0]

\* The disk layer of journal j: its buffer holds the transitions since the
\* persistent state.
LoadDiskLayer(j) == [root |-> j.root, id |-> j.id, buf |-> j.buf, layers |-> j.id - kv.id]

\* The layers of the journal, if it was written for the state on disk, or the
\* disk layer alone; the histories are opened.
Open ==
    /\ ~up
    /\ up' = TRUE
    /\ \E n \in safe..Len(items), m \in 0..tail :
          items' = SubSeq(items, 1, n) /\ tail' = m
    /\ LET j == kv.journal
           load == j # None /\ j.disk = kv.root /\ kv.id <= j.id
           chain == {r \in Ancestors[j.head] : Depth[r] > j.id}
       IN  IF load
           THEN /\ base' = LoadDiskLayer(j)
                /\ layers' = chain
                /\ ptr' = [r \in Root |-> IF r \notin chain THEN "stale"
                                          ELSE IF Parent[r] \in chain THEN "diff" ELSE "disk"]
                /\ descendants' = {d \in chain \X (chain \cup {j.root}) :
                                     d[1] # d[2] /\ d[2] \in Ancestors[d[1]]}
                /\ lookup' = [k \in Key |-> Filter(Reverse(Line[j.head]),
                                                  {r \in chain : k \in Changed[r]})]
                /\ misled' = (misled \/ cut)
           ELSE /\ base' = [root |-> kv.root, id |-> kv.id, buf |-> Nothing, layers |-> 0]
                /\ UNCHANGED <<tree, misled>>
    /\ job' = [NoJob EXCEPT !.op = "open", !.pc = "repair"]
    /\ UNCHANGED <<kv, older, safe, frozen, cache, rd, cut, undone, left>>

\* repairHistory: histories above the disk layer are cut, those of a database
\* without states dropped; a range that does not reach the disk layer is fatal.
Repair ==
    /\ job.pc = "repair"
    /\ IF base.id = 0
       THEN CutHistory(0) /\ tail' = 0 /\ job' = NoJob
       ELSE IF tail <= base.id /\ base.id <= Len(items)
       THEN CutHistory(base.id) /\ job' = NoJob /\ UNCHANGED tail
       ELSE job' = [job EXCEPT !.pc = "crit"] /\ UNCHANGED <<items, tail, safe, cut>>
    /\ UNCHANGED <<kv, older, up, base, frozen, cache, tree, rd, undone, misled, left>>

-----------------------------------------------------------------------------
Operation ==
    \/ \E r \in Root : Update(r) \/ Commit(r) \/ Recover(r) \/ Stop(r)
    \/ \E r \in Root, k \in Key, flat \in BOOLEAN : OpenReader(r, k, flat)

\* What the operation under way, the flush, the reader and the start do next.
OperationStep ==
    WriteHistory \/ PruneHistory \/ MergeLayer \/ FinishCap \/ FinishCommit
    \/ Revert \/ SyncRecovered \/ FinishRecover

FlushStep == FlushSync \/ FlushWrite

ReaderStep ==
    LookupLayer \/ ReadBase \/ WalkLayers \/ LoadValue \/ FillCache \/ CloseReader

StartStep == Open \/ Repair

Next == Operation \/ OperationStep \/ FlushStep \/ ReaderStep \/ StartStep \/ Crash

Spec == Init /\ [][Next]_vars

\* The goroutines run, and the node is started again after it stopped.
FairSpec ==
    /\ Spec
    /\ WF_vars(OperationStep) /\ WF_vars(FlushStep) /\ WF_vars(ReaderStep) /\ WF_vars(StartStep)

-----------------------------------------------------------------------------
(* Properties.                                                             *)

\* A read gives the value of the state it was asked of, or fails as stale,
\* whatever is committed, flushed or recovered while it goes through the layers.
ReadsRight ==
    rd.pc = "answered" => rd.val \in {"stale", StateOf[rd.root][rd.key]}

\* The buffers over the clean cache over the disk are the state of the disk
\* layer, and the disk alone is the state it is said to hold.
DiskContent ==
    /\ kv.data = StateOf[kv.root]
    /\ up => Over(base.buf, Over(frozen.buf, Over(cache, kv.data))) = StateOf[base.root]

\* The ids count transitions: the persistent state, the frozen buffer and the
\* live one add up to the disk layer, so a flush never fails for its id.
IdsAligned ==
    /\ kv.id = Depth[kv.root]
    /\ frozen.phase # "failed"
    /\ up => /\ base.id = Depth[base.root]
             /\ base.id = kv.id + base.layers
                          + IF frozen.phase \in {"frozen", "synced"} THEN frozen.layers ELSE 0

\* writeStateHistory prunes no history above the persistent state, so that a restart
\* finds histories that reach it (the first id is tail + 1; Recover may go down to the
\* state below it), unless a power failure undid the flush that pruning relied on.
PersistentHasHistory == up /\ ~undone => tail <= kv.id

\* "These measures ensure the persisted state ID always remains greater than or
\* equal to the first history ID" (writeStateHistory), which is tail + 1.  This asks
\* one less, what repairHistory needs in order not to give up.
PersistedAboveFirst == up /\ base.id > 0 => tail <= kv.id

\* Between operations every state below the disk layer whose histories were not
\* pruned can be recovered, unless the disk layer came from a journal that builds
\* on histories that are gone.
StatesRecoverable ==
    Running /\ job.op = "none" /\ ~misled =>
        \A r \in Ancestors[base.root] \ {base.root} : tail <= Depth[r] => Recoverable(r)

\* A node starts again after it stopped or failed at any point.  repairHistory gives
\* up in two cases only: a power failure undid a flush after which histories were
\* pruned, or the journal on disk builds on histories that a recovery cut.
OpensAgain == job.pc = "crit" => undone \/ misled

\* Operations, flushes and reads end, or the start of the node fails for good.
EverythingEnds ==
    <>[](Flushed /\ rd.pc = "idle" /\ ((up /\ job.op = "none") \/ job.pc = "crit"))
=============================================================================
