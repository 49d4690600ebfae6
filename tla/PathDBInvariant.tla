-------------------------- MODULE PathDBInvariant ---------------------------
(***************************************************************************)
(* The inductive invariants of the path database.  IInv: the histories     *)
(* are those of one line of states, and everything on disk and in the      *)
(* buffers lies on this line.  CInv, on top of it: buffers, cache and disk *)
(* hold the values of their states, the indexes of the layer tree are in   *)
(* order, and a reader is on its way to the value of its state.            *)
(*                                                                         *)
(* Once a journal was loaded that builds on histories that are gone        *)
(* (misled), the histories are no longer one line: only their number is    *)
(* known to be right.                                                      *)
(***************************************************************************)
EXTENDS PathDB

-----------------------------------------------------------------------------
(* The line of the histories.                                              *)

\* The ancestor of r at depth i.
At(r, i) == Line[r][Len(Line[r]) - i]

\* State a is r or one that r was derived from.
IsAncestor(a, r) == a \in Root /\ Depth[a] \in 0..Depth[r] /\ a = At(r, Depth[a])

\* The last state that has a history.
Newest == IF items = <<>> THEN Genesis ELSE items[Len(items)]

\* State r is reached by the histories.
On(r) == r \in Root /\ Depth[r] <= Len(items) /\ (misled \/ At(Newest, Depth[r]) = r)

\* The histories are those of the states that led to the last one.
IsLine == Depth[Newest] = Len(items) /\ \A i \in 1..Len(items) : items[i] = At(Newest, i)

\* The histories and what is known of their past.
HistoryIsLine ==
    /\ items \in Seq(Root)
    /\ misled \/ IsLine
    /\ safe \in 0..Len(items) /\ tail \in 0..safe
    /\ up \in BOOLEAN /\ cut \in BOOLEAN /\ undone \in BOOLEAN /\ misled \in BOOLEAN

\* All states up to r have their id stored in v.
Stored(v, r) == Depth[r] > 0 => \A i \in 0..Depth[r] : At(r, i) \in v.ids

\* A content of the key-value store: its state is within the safe histories.
VersionOk(v) ==
    /\ v = [data |-> v.data, root |-> v.root, id |-> v.id, ids |-> v.ids, journal |-> v.journal]
    /\ On(v.root) /\ v.id = Depth[v.root] /\ v.id <= safe
    /\ Stored(v, v.root)
    /\ v.journal = kv.journal
    /\ v.journal # None => Stored(v, v.journal.root)

\* The contents the key-value store has or may come back with.
Versions == older \cup {kv}

\* No history above the persistent state was pruned, unless that was undone.
TailOk == undone \/ tail <= kv.id

\* The journal continues the histories unless some of these were cut.
JournalOk ==
    LET j == kv.journal
    IN  j # None =>
          /\ j.root \in Root /\ j.id = Depth[j.root]
          /\ j.head \in Root /\ j.id <= Depth[j.head] /\ At(j.head, j.id) = j.root
          /\ IsAncestor(j.disk, j.root)
          /\ ~cut => On(j.root) /\ j.id <= safe

\* The transitions in the buffers lie between the persistent state and the disk
\* layer, on the line that leads to it.
Buffered == frozen.phase \in {"frozen", "synced"}

BuffersOk ==
    /\ base = [root |-> base.root, id |-> base.id, buf |-> base.buf, layers |-> base.layers]
    /\ base.root \in Root /\ base.id = Depth[base.root] /\ base.layers \in Nat
    /\ On(base.root) \/ (misled /\ job.op = "open")
    /\ frozen = [phase |-> frozen.phase, buf |-> frozen.buf, layers |-> frozen.layers,
                 id |-> frozen.id, root |-> frozen.root]
    /\ frozen.phase \in {"none", "frozen", "synced", "done"}
    /\ frozen.layers \in Nat
    /\ up => /\ base.id = kv.id + base.layers + IF Buffered THEN frozen.layers ELSE 0
             /\ IsAncestor(kv.root, base.root)
    /\ Buffered => /\ IsAncestor(frozen.root, base.root) /\ frozen.id = Depth[frozen.root]
                   /\ frozen.id = kv.id + frozen.layers
    /\ frozen.phase = "synced" => frozen.id <= safe

\* The diff layers descend from the disk layer.
LayersOk == layers \subseteq Root /\ \A r \in layers : Depth[r] > base.id /\ At(r, base.id) = base.root

\* Each state of todo was derived from the one before it.
Consecutive(todo) ==
    /\ todo \in Seq(Root)
    /\ \A i \in 1..(Len(todo) - 1) : Parent[todo[i + 1]] = todo[i] /\ todo[i + 1] # Genesis

\* The histories from the one above r to that of the disk layer follow one another.
Leads(r) ==
    \A i \in (Depth[r] + 1)..base.id : Parent[items[i]] = IF i = Depth[r] + 1 THEN r ELSE items[i - 1]

\* What is known of an operation at each of its steps.
JobOk ==
    /\ job = [op |-> job.op, todo |-> job.todo, top |-> job.top, pc |-> job.pc,
              old |-> job.old, flush |-> job.flush]
    /\ Consecutive(job.todo)
    /\ layers \subseteq Root
    /\ \/ job.op = "none" /\ job.pc = "" /\ LayersOk /\ (up => Len(items) = base.id)
       \/ /\ job.op \in {"cap", "full"} /\ job.pc = "history" /\ job.todo # <<>>
          /\ Len(items) = base.id
          /\ \/ Parent[Bottom] = base.root /\ Bottom # Genesis
             \/ LayersOk /\ (Depth[Bottom] = base.id + 1 => Parent[Bottom] = base.root)
       \/ /\ job.op \in {"cap", "full"} /\ job.pc \in {"prune", "merge"} /\ job.todo # <<>>
          /\ Parent[Bottom] = base.root /\ Bottom # Genesis
          /\ On(Bottom) /\ Depth[Bottom] = Len(items)
       \/ job.op \in {"cap", "full"} /\ job.pc = "finish" /\ Len(items) = base.id
       \/ /\ job.op = "recover" /\ job.pc = "revert" /\ LayersOk
          /\ job.top \in Root /\ tail <= Depth[job.top] /\ Depth[job.top] <= base.id
          /\ IF base.id = Depth[job.top] THEN base.root = job.top
             ELSE Leads(job.top) /\ (Len(items) = base.id \/ items[base.id] = base.root)
       \/ /\ job.op = "recover" /\ job.pc = "cut" /\ LayersOk /\ tail <= base.id
          /\ \A v \in Versions : v.id <= base.id
       \/ /\ job.op = "open" /\ job.pc \in {"repair", "crit"} /\ up /\ LayersOk /\ older = {} /\ ~Buffered
          /\ OpensAgain

\* While the node is down nothing is in memory.
DownOk ==
    ~up => /\ older = {} /\ job = NoJob /\ layers = {} /\ frozen = NotFrozen
           /\ base.root = Genesis

\* The ids of the states that the disk layer was built from are stored.
IdsStored ==
    up => Stored(kv, IF job.pc = "merge" THEN Bottom ELSE base.root)

\* The invariant that every step preserves.
IInv ==
    /\ HistoryIsLine /\ (\A v \in Versions : VersionOk(v)) /\ TailOk /\ JournalOk /\ BuffersOk
    /\ JobOk /\ DownOk /\ IdsStored

-----------------------------------------------------------------------------
(* What is held.                                                           *)

\* What a buffer holds.
Values == [Key -> Root \cup {None}]

\* States r and s agree on key k.
Agree(r, s, k) == StateOf[r][k] = StateOf[s][k]

\* The values in buf are those of state r.
Within(buf, r) == \A k \in Key : buf[k] \in {None, StateOf[r][k]}

\* The state that the live buffer is based on.
Below == IF Buffered THEN frozen.root ELSE kv.root

\* The disk, the clean cache, the frozen and the live buffer add up.
BuffersHold ==
    /\ \A v \in Versions : v.data = StateOf[v.root]
    /\ base.buf \in Values /\ frozen.buf \in Values /\ cache \in Values
    /\ Within(cache, kv.root)
    /\ IF Buffered THEN Over(frozen.buf, StateOf[kv.root]) = StateOf[frozen.root]
       ELSE Within(frozen.buf, kv.root)
    /\ up => Over(base.buf, StateOf[Below]) = StateOf[base.root]
    /\ base.layers = 0 => base.buf = Nothing
    /\ ~up => cache = Nothing

\* The buffer of the journal fits the state the journal was written for.
JournalHolds ==
    LET j == kv.journal
    IN  j # None =>
          /\ j = [disk |-> j.disk, root |-> j.root, id |-> j.id, buf |-> j.buf, head |-> j.head]
          /\ j.disk \in Root /\ j.buf \in Values
          /\ Over(j.buf, StateOf[j.disk]) = StateOf[j.root]
          /\ j.id = Depth[j.disk] => j.buf = Nothing

-----------------------------------------------------------------------------
(* The layer tree and the readers.                                         *)

\* Layers are being committed to disk.
Flattening == job.op \in {"cap", "full"}

\* The state the layer tree stands on: while layers are committed, the one that
\* was the disk layer before.
Floor == IF Flattening THEN job.old ELSE base.root

\* The layers hold every state between one of them and the floor.
LayersClosed ==
    \A r \in layers :
        /\ r \in Root /\ Depth[r] > Depth[Floor] /\ At(r, Depth[Floor]) = Floor
        /\ \A i \in (Depth[Floor] + 1)..Depth[r] : At(r, i) \in layers

\* State r was derived from a, in one transition or more.
Above(r, a) == r \in Root /\ IsAncestor(a, r) /\ a # r

\* The pairs of descendants lead from layers to all they were derived from.
DescendantsOk ==
    /\ \A d \in descendants : /\ d = <<d[1], d[2]>> /\ Above(d[1], d[2])
                              /\ Depth[d[2]] >= Depth[Floor] => d[1] \in layers
    /\ \A r \in layers, a \in Root :
          Above(r, a) /\ Depth[a] >= Depth[Floor] => <<r, a>> \in descendants

\* The list of the layers L that changed k, the older ones first.
Lists(list, k, L) ==
    /\ list \in Seq(Root)
    /\ \A i \in 1..Len(list) : list[i] \in L /\ k \in Changed[list[i]]
    /\ \A r \in L : k \in Changed[r] => \E i \in 1..Len(list) : list[i] = r
    /\ \A i, j \in 1..Len(list) : Above(list[j], list[i]) => i < j

\* For every key the layers that changed it are listed.
LookupOk == lookup \in [Key -> Seq(Root)] /\ \A k \in Key : Lists(lookup[k], k, layers)

\* A layer linked to the disk layer was derived from it; one above another layer
\* is linked to that.
PtrOk ==
    /\ ptr \in [Root -> {"diff", "disk", "stale"}]
    /\ \A r \in Root : ptr[r] = "diff" => r # Genesis /\ Parent[r] # Genesis
    /\ \A r \in Root : ptr[r] = "disk" => up /\ r # Genesis /\ Parent[r] = base.root
    /\ \A r \in layers : Parent[r] \in layers /\ Depth[Parent[r]] > base.id => ptr[r] = "diff"

\* While layers are committed they are layers of the tree.
FlatteningOk ==
    /\ Flattening =>
        /\ job.old \in Root
        /\ base.root = job.old \/ (base.root \in layers /\ Depth[base.root] > Depth[job.old])
        /\ job.pc = "history" =>
              \/ Range(job.todo) \subseteq layers /\ Depth[Bottom] = base.id + 1
              \/ base.root = job.old /\ Depth[Bottom] # base.id + 1
        /\ job.pc \in {"prune", "merge"} => Range(job.todo) \subseteq layers
        /\ job.pc = "finish" => base.root \in layers
        /\ job.top # None /\ job.todo # <<>> =>
              job.top \in Root \ {Genesis} /\ Parent[job.top] = Last(job.todo)

\* The layer tree is in order.
TreeOk == LayersClosed /\ DescendantsOk /\ LookupOk /\ PtrOk /\ FlatteningOk

\* A reader at each of its steps.
ReaderOk ==
    /\ rd = [pc |-> rd.pc, root |-> rd.root, entry |-> rd.entry, found |-> rd.found,
             key |-> rd.key, val |-> rd.val]
    /\ rd.pc \in {"idle", "lookup", "walk", "base", "disk", "fill", "answered"}
    /\ rd.pc # "idle" => /\ up /\ rd.root \in Root /\ rd.key \in Key
                         /\ rd.entry \in {"diff", "disk", "stale"}
    /\ rd.pc # "idle" /\ rd.entry = "disk" => rd.root = base.root
    /\ rd.pc = "base" /\ rd.found = "disk" => Agree(base.root, rd.root, rd.key)
    /\ DiskRead => /\ ~DiskLocked /\ Agree(base.root, rd.root, rd.key)
                   /\ base.buf[rd.key] = None /\ frozen.buf[rd.key] = None
    /\ rd.pc = "fill" => rd.val = kv.data[rd.key]
    /\ ReadsRight

\* The contents, the layer tree and the reader are in order.
CInv == BuffersHold /\ JournalHolds /\ TreeOk /\ ReaderOk
=============================================================================
