---------------------------- MODULE PathDBSteps -----------------------------
(***************************************************************************)
(* Every step of the path database preserves IInv.                         *)
(***************************************************************************)
EXTENDS PathDBLine

\* Zenon is the prover of a leaf that names none: it is enough for first-order steps,
\* and the leaves that need arithmetic, records or sequences name SMT.
USE Zenon

-----------------------------------------------------------------------------
(* The line of the histories.                                              *)

\* After the histories above n are cut, the states up to n are still reached.
LEMMA CutLine ==
    ASSUME HistoryIsLine, NEW n \in 0..Len(items), items' = SubSeq(items, 1, n), misled => misled'
    PROVE  /\ items' \in Seq(Root) /\ Len(items') = n
           /\ misled' \/ IsLine'
           /\ \A r : On(r) /\ Depth[r] <= n => On(r)'
  <1>1. Newest \in Root /\ items \in Seq(Root) /\ Len(items) \in Nat
    BY NewestFacts
  <1>2. /\ items' \in Seq(Root) /\ Len(items') = n
        /\ \A i \in 1..n : items'[i] = items[i]
    BY <1>1, ElementOfSeq, SubSeqProperties, SMT
  <1>3. CASE misled
    <2> QED BY <1>2, <1>3 DEF On
  <1>4. CASE ~misled
    <2>1. Depth[Newest] = Len(items) /\ \A i \in 1..Len(items) : items[i] = At(Newest, i)
      BY <1>4, NewestFacts
    <2>2. At(Newest, n) \in Root /\ Depth[At(Newest, n)] = n
          /\ \A j \in 0..n : At(At(Newest, n), j) = At(Newest, j)
      BY <1>1, <2>1, AtAt, SMT
    <2>3. Newest' = At(Newest, n)
      <3>1. CASE n = 0
        BY <1>1, <1>2, <3>1, AtZero, SMT DEF Newest
      <3>2. CASE n > 0
        BY <1>1, <1>2, <2>1, <3>2, SMT DEF Newest
      <3> QED BY <3>1, <3>2, SMT
    <2>4. IsLine'
      BY <1>1, <1>2, <2>1, <2>2, <2>3, SMT DEF IsLine
    <2>5. ASSUME NEW r, On(r), Depth[r] <= n PROVE On(r)'
      <3>1. r \in Root /\ Depth[r] \in Nat /\ At(Newest, Depth[r]) = r
        BY <1>4, <2>5, AtSelf DEF On
      <3>2. At(Newest', Depth[r]) = r
        BY <2>2, <2>3, <2>5, <3>1, SMT
      <3> QED BY <1>2, <2>5, <3>1, <3>2 DEF On
    <2> QED BY <1>2, <2>4, <2>5
  <1> QED BY <1>3, <1>4

\* A history is appended for a state derived from the last one.
LEMMA ExtendLine ==
    ASSUME HistoryIsLine, NEW b \in Root, b # Genesis, On(Parent[b]), Depth[Parent[b]] = Len(items),
           items' = Append(items, b), UNCHANGED misled
    PROVE  /\ items' \in Seq(Root) /\ Len(items') = Len(items) + 1 /\ Depth[b] = Len(items')
           /\ misled' \/ IsLine'
           /\ On(b)' /\ \A r : On(r) => On(r)'
  <1>1. Newest \in Root /\ items \in Seq(Root) /\ Len(items) \in Nat
    BY NewestFacts
  <1>2. /\ items' \in Seq(Root) /\ Len(items') = Len(items) + 1 /\ items' # <<>>
        /\ items'[Len(items) + 1] = b
        /\ \A i \in 1..Len(items) : items'[i] = items[i]
    BY <1>1, AppendProperties, SMT
  <1>3. Newest' = b
    BY <1>2 DEF Newest
  <1>4. Depth[b] = Len(items) + 1 /\ Parent[b] = At(b, Len(items)) /\ At(b, Depth[b]) = b
    BY <1>1, AtParent, AtSelf, SMT
  <1>5. On(b)'
    BY <1>1, <1>2, <1>3, <1>4, SMT DEF On
  <1>6. CASE misled
    <2>1. ASSUME NEW r, On(r) PROVE On(r)'
      <3>1. r \in Root /\ Depth[r] \in Nat /\ Depth[r] <= Len(items)
        BY <2>1, AtSelf DEF On
      <3>2. Depth[r] <= Len(items')
        BY <1>1, <1>2, <3>1, SMT
      <3> QED BY <1>6, <3>1, <3>2 DEF On
    <2> QED BY <1>2, <1>4, <1>5, <1>6, <2>1
  <1>7. CASE ~misled
    <2>1. /\ Depth[Newest] = Len(items) /\ \A i \in 1..Len(items) : items[i] = At(Newest, i)
          /\ Parent[b] = Newest
      <3>1. Depth[Newest] = Len(items) /\ \A i \in 1..Len(items) : items[i] = At(Newest, i)
        BY <1>7, NewestFacts
      <3>2. At(Newest, Depth[Newest]) = Newest
        BY <1>1, AtSelf
      <3> QED BY <1>7, <3>1, <3>2 DEF On
    <2>2. \A j \in 0..Len(items) : At(b, j) = At(Newest, j)
      <3>1. Len(items) \in 0..Depth[b] /\ At(b, Len(items)) = Newest
        BY <1>1, <1>4, <2>1, SMT
      <3> QED BY <3>1, AtAt
    <2>3. ASSUME NEW i \in 1..Len(items') PROVE items'[i] = At(b, i)
      <3>1. CASE i = Len(items) + 1
        BY <1>2, <1>4, <3>1
      <3>2. CASE i \in 1..Len(items)
        BY <1>1, <1>2, <2>1, <2>2, <3>2, SMT
      <3> QED BY <1>1, <1>2, <3>1, <3>2, SMT
    <2>4. ASSUME NEW r, On(r) PROVE On(r)'
      <3>1. r \in Root /\ Depth[r] \in 0..Len(items) /\ At(Newest, Depth[r]) = r
        BY <1>1, <1>7, <2>4, AtSelf, SMT DEF On
      <3>2. At(b, Depth[r]) = r
        BY <2>2, <3>1
      <3>3. Depth[r] <= Len(items')
        BY <1>1, <1>2, <3>1, SMT
      <3> QED BY <1>3, <3>1, <3>2, <3>3 DEF On
    <2> QED BY <1>2, <1>3, <1>4, <1>5, <2>3, <2>4 DEF IsLine
  <1> QED BY <1>6, <1>7

-----------------------------------------------------------------------------
(* What is left alone keeps its part of the invariant.                     *)

\* The reached states depend on the histories alone.
LEMMA SameLine == UNCHANGED <<items, misled>> => (\A r : On(r)' <=> On(r)) /\ (IsLine' <=> IsLine)
  <1> SUFFICES ASSUME UNCHANGED <<items, misled>>
               PROVE  (\A r : On(r)' <=> On(r)) /\ (IsLine' <=> IsLine)
    OBVIOUS
  <1>1. Newest' = Newest /\ items' = items
    BY DEF Newest
  <1>1a. misled' <=> misled
    BY SMT
  <1>2. \A r : On(r)' <=> On(r)
    BY <1>1, <1>1a DEF On
  <1>3. IsLine' <=> IsLine
    BY <1>1 DEF IsLine
  <1> QED BY <1>2, <1>3

\* HistoryIsLine depends on the histories and their past alone.
LEMMA SameHistory ==
    ASSUME HistoryIsLine, UNCHANGED <<items, tail, safe, up, cut, undone, misled>>
    PROVE  HistoryIsLine'
  <1>1. misled' \/ IsLine'
    BY SameLine, SMT DEF HistoryIsLine
  <1> QED BY <1>1 DEF HistoryIsLine

\* Contents stay good if their states stay within the safe histories.
LEMMA KeepVersions ==
    ASSUME \A v \in Versions : VersionOk(v), UNCHANGED <<kv, older>>,
           \A v \in Versions : On(v.root)' /\ v.id <= safe'
    PROVE  \A v \in Versions' : VersionOk(v)'
  BY DEF Versions, VersionOk, Stored

\* A journal stays good unless histories it builds on go.
LEMMA KeepJournal ==
    ASSUME JournalOk, UNCHANGED kv,
           kv.journal # None /\ ~cut' =>
               ~cut /\ (On(kv.journal.root) => On(kv.journal.root)')
                    /\ (kv.journal.id <= safe => kv.journal.id <= safe')
    PROVE  JournalOk'
  BY DEF JournalOk, IsAncestor

\* Buffers stay good if the disk layer stays within the histories.
LEMMA KeepBuffers ==
    ASSUME BuffersOk, UNCHANGED <<kv, base, frozen>>, up' => up, On(base.root)',
           frozen.phase = "synced" => frozen.id <= safe'
    PROVE  BuffersOk'
  BY DEF BuffersOk, Buffered, IsAncestor

\* A step that writes neither store leaves every content good.
LEMMA SameVersions ==
    ASSUME \A v \in Versions : VersionOk(v), UNCHANGED <<kv, older, items, safe, misled>>
    PROVE  \A v \in Versions' : VersionOk(v)'
  BY SameLine, KeepVersions DEF VersionOk

\* A step that writes neither store leaves the journal good.
LEMMA SameJournal == JournalOk /\ UNCHANGED <<kv, items, safe, cut, misled>> => JournalOk'
  BY SameLine, KeepJournal, SMT

\* A step that leaves the stores and buffers alone keeps them aligned.
LEMMA SameBuffers ==
    ASSUME BuffersOk, UNCHANGED <<kv, items, safe, up, base, frozen, misled>>,
           job.op = "open" => job'.op = "open"
    PROVE  BuffersOk'
  <1>1. On(base.root)' <=> On(base.root)
    BY SameLine
  <1> QED BY <1>1 DEF BuffersOk, Buffered, IsAncestor

\* LayersOk depends on the layers and the disk layer alone.
LEMMA SameLayers == LayersOk /\ UNCHANGED <<layers, base>> => LayersOk'
  BY DEF LayersOk

-----------------------------------------------------------------------------
(* What the steps have in common.                                          *)

\* The lowest layer of a path from a layer either is on the disk layer or not
\* the next one.
LEMMA BottomOnBase ==
    ASSUME NEW r \in Root, At(r, base.id) = base.root, base.id \in Nat,
           NEW b, IsAncestor(b, r), Depth[b] = base.id + 1
    PROVE  Parent[b] = base.root
  <1>1. Depth[r] \in Nat /\ b \in Root /\ Depth[b] \in 0..Depth[r] /\ b = At(r, Depth[b])
    BY AtSelf DEF IsAncestor
  <1>2. b # Genesis /\ Parent[b] = At(b, base.id)
    BY <1>1, AtParent, SMT
  <1>3. At(b, base.id) = At(r, base.id)
    BY <1>1, AtAt, SMT
  <1> QED BY <1>1, <1>2, <1>3

\* An operation that leaves stores, histories and disk layer alone, and goes on
\* as JobOk asks, preserves the invariant.
LEMMA JobOnly ==
    ASSUME IInv, UNCHANGED <<kv, older, histories, base, frozen, past>>, up, JobOk',
           job.op # "open", job.pc # "merge", job'.pc # "merge"
    PROVE  IInv'
  <1>1. UNCHANGED <<items, tail, safe, up, cut, undone, misled>>
    BY DEF histories, past
  <1>2. HistoryIsLine' /\ JournalOk' /\ BuffersOk' /\ \A v \in Versions' : VersionOk(v)'
    BY <1>1, SameHistory, SameJournal, SameBuffers, SameVersions DEF IInv
  <1>3. DownOk' /\ IdsStored' /\ TailOk'
    BY <1>1 DEF IInv, DownOk, IdsStored, Stored, TailOk
  <1> QED BY <1>2, <1>3 DEF IInv

\* With no operation under way the layers are on the disk layer, which has the
\* last history.
LEMMA NoJobOk ==
    ASSUME job' = NoJob, LayersOk', up' => Len(items') = base'.id
    PROVE  JobOk'
  <1>1. NoJob.op = "none" /\ NoJob.pc = "" /\ NoJob.todo = <<>>
    BY DEF NoJob
  <1>2. NoJob = [op |-> NoJob.op, todo |-> NoJob.todo, top |-> NoJob.top, pc |-> NoJob.pc,
                 old |-> NoJob.old, flush |-> NoJob.flush]
    BY DEF NoJob
  <1>3. Consecutive(job'.todo)
    <2>1. job'.todo = <<>> /\ job'.todo \in Seq(Root) /\ Len(job'.todo) = 0
      BY <1>1, EmptySeq
    <2>2. 1..(Len(job'.todo) - 1) = {}
      BY <2>1, SMT
    <2> QED BY <2>1, <2>2 DEF Consecutive
  <1>5. job'.op = "none" /\ job'.pc = "" /\ layers' \subseteq Root
    BY <1>1 DEF LayersOk
  <1> QED BY <1>2, <1>3, <1>5 DEF JobOk

\* An ancestor of a state with stored ids has stored ids.
LEMMA StoredBelow ==
    ASSUME NEW v, NEW a \in Root, NEW b, IsAncestor(b, a), Stored(v, a)
    PROVE  Stored(v, b)
  <1> SUFFICES ASSUME Depth[b] > 0, NEW i \in 0..Depth[b] PROVE At(b, i) \in v.ids
    BY DEF Stored
  <1>1. /\ Depth[b] \in Nat /\ Depth[b] <= Depth[a] /\ Depth[a] \in Nat
        /\ At(b, i) = At(a, i)
    BY AncestorFacts, AtSelf
  <1>2. Depth[a] > 0 /\ i \in 0..Depth[a]
    BY <1>1, SMT
  <1> QED BY <1>1, <1>2 DEF Stored

-----------------------------------------------------------------------------
(* Layers are added and go to disk.                                        *)

\* Update (tree.add and the start of cap) preserves the invariant.
LEMMA UpdateInv == ASSUME IInv, NEW r \in Root, Update(r) PROVE IInv'
  <1>1. /\ up /\ job.op = "none" /\ job.pc = "" /\ LayersOk /\ Len(items) = base.id
        /\ r # Genesis /\ Parent[r] \in layers \cup {base.root}
        /\ layers' = layers \cup {r}
        /\ UNCHANGED <<kv, older, histories, base, frozen, past>>
    BY DEF Update, Running, IInv, JobOk
  <1>2. UNCHANGED <<items, up>>
    BY <1>1 DEF histories
  <1>3. base.root \in Root /\ base.id = Depth[base.root] /\ base.id \in Nat
    BY BaseFacts
  <1>4. Depth[r] > base.id /\ At(r, base.id) = base.root
    <2>1. Parent[r] \in Root /\ Depth[r] \in Nat /\ Depth[Parent[r]] = Depth[r] - 1
          /\ Parent[r] = At(r, Depth[r] - 1) /\ Depth[Parent[r]] \in Nat
      BY <1>1, AtParent, AtSelf
    <2>2. Depth[Parent[r]] >= base.id /\ At(Parent[r], base.id) = base.root
      <3>1. CASE Parent[r] = base.root
        <4>1. At(base.root, base.id) = base.root
          BY <1>3, AtSelf
        <4> QED BY <1>3, <3>1, <4>1, SMT
      <3>2. CASE Parent[r] \in layers
        <4>1. Depth[Parent[r]] > base.id /\ At(Parent[r], base.id) = base.root
          BY <1>1, <3>2 DEF LayersOk
        <4> QED BY <1>3, <2>1, <4>1, SMT
      <3> QED BY <1>1, <3>1, <3>2
    <2>3. At(At(r, Depth[r] - 1), base.id) = At(r, base.id)
      BY <1>3, <2>1, <2>2, AtAt, SMT
    <2> QED BY <1>3, <2>1, <2>2, <2>3, SMT
  <1>5. LayersOk'
    BY <1>1, <1>4 DEF LayersOk
  <1>6. PICK n \in 1..Len(Line[r]) :
          LET path == SubSeq(Line[r], 1, n)
          IN  job' = IF Excess(path) = <<>> THEN NoJob
                     ELSE [NoJob EXCEPT !.op = "cap", !.todo = Excess(path), !.pc = "history",
                                        !.top = path[MaxDiffLayers], !.old = base.root]
    BY DEF Update
  <1> DEFINE path == SubSeq(Line[r], 1, n)
             todo == Excess(path)
  <1>7. CASE todo = <<>>
    <2>1. job' = NoJob
      BY <1>6, <1>7
    <2>2. JobOk'
      BY <1>1, <1>2, <1>5, <2>1, NoJobOk
    <2>3. job'.pc # "merge"
      BY <2>1 DEF NoJob
    <2> QED BY <1>1, <2>2, <2>3, JobOnly
  <1>8. CASE todo # <<>>
    <2>1. job' = [op |-> "cap", todo |-> todo, top |-> path[MaxDiffLayers], pc |-> "history",
                  old |-> base.root, flush |-> FALSE]
      BY <1>6, <1>8 DEF NoJob
    <2>2. Line[r] \in Seq(Root) /\ Len(Line[r]) \in Nat
      BY TreeAssumption, SMT
    <2>3. Len(path) = n
      BY <2>2, ElementOfSeq, SubSeqProperties, SMT
    <2> DEFINE m == MaxDiffLayers + 1
    <2>4. m \in 1..n /\ todo = Reverse(SubSeq(SubSeq(Line[r], 1, n), m, n))
      BY <1>8, <2>3, PathDBAssumption, SMT DEF Excess
    <2> HIDE DEF todo, path, m
    <2>5. Consecutive(todo) /\ IsAncestor(Head(todo), r)
      BY <2>4, Descending
    <2>6. Bottom' = Head(todo) /\ base' = base
      BY <1>1, <2>1 DEF Bottom
    <2>7. Depth[Bottom'] = base'.id + 1 => Parent[Bottom'] = base'.root
      BY <1>3, <1>4, <2>5, <2>6, BottomOnBase
    <2>8. JobOk'
      BY <1>1, <1>2, <1>5, <1>8, <2>1, <2>5, <2>7 DEF JobOk, LayersOk
    <2>9. job'.pc # "merge"
      BY <2>1
    <2> QED BY <1>1, <2>8, <2>9, JobOnly
  <1> QED BY <1>7, <1>8

\* Commit (the start of a full flattening) preserves the invariant.
LEMMA CommitInv == ASSUME IInv, NEW r \in Root, Commit(r) PROVE IInv'
  <1>1. /\ up /\ job.op = "none" /\ job.pc = "" /\ LayersOk /\ Len(items) = base.id
        /\ r \in layers
        /\ UNCHANGED <<kv, older, histories, base, frozen, past>> /\ UNCHANGED layers
    BY DEF Commit, Running, IInv, JobOk, tree
  <1>2. UNCHANGED <<items, up>>
    BY <1>1 DEF histories
  <1>3. base.id \in Nat
    BY BaseFacts
  <1>4. PICK n \in 1..Len(Line[r]) :
          job' = [NoJob EXCEPT !.op = "full", !.todo = Reverse(SubSeq(Line[r], 1, n)),
                               !.pc = "history", !.old = base.root, !.flush = TRUE]
    BY DEF Commit
  <1> DEFINE path == SubSeq(Line[r], 1, n)
             todo == Reverse(path)
  <1>5. job' = [op |-> "full", todo |-> todo, top |-> None, pc |-> "history",
                old |-> base.root, flush |-> TRUE]
    BY <1>4 DEF NoJob
  <1>6. path = SubSeq(path, 1, n)
    <2>1. Line[r] \in Seq(Root) /\ Len(Line[r]) \in Nat
      BY TreeAssumption, SMT
    <2>2. path \in Seq(Root) /\ Len(path) = n
      BY <2>1, ElementOfSeq, SubSeqProperties, SMT
    <2> QED BY <2>2, SubSeqFull
  <1>6a. 1 \in 1..n
    BY TreeAssumption, SMT
  <1>6b. todo = Reverse(SubSeq(SubSeq(Line[r], 1, n), 1, n))
    BY <1>6
  <1> HIDE DEF todo, path
  <1>7. Consecutive(todo) /\ todo # <<>> /\ IsAncestor(Head(todo), r)
    BY <1>6a, <1>6b, Descending
  <1>8. Depth[Head(todo)] = base.id + 1 => Parent[Head(todo)] = base.root
    BY <1>1, <1>3, <1>7, BottomOnBase DEF LayersOk
  <1>9. JobOk'
    <2>1. Bottom' = Head(todo) /\ base' = base /\ job'.pc = "history" /\ job'.op = "full" /\ job'.todo = todo
      BY <1>1, <1>5 DEF Bottom
    <2>2. LayersOk'
      BY <1>1, SameLayers
    <2> QED BY <1>1, <1>2, <1>5, <1>7, <1>8, <2>1, <2>2 DEF JobOk, LayersOk
  <1>10. job'.pc # "merge"
    BY <1>5
  <1> QED BY <1>1, <1>9, <1>10, JobOnly

-----------------------------------------------------------------------------
(* The bottom layer goes to disk.                                          *)

\* diskLayer.commit, the append of the history, preserves the invariant: what is
\* appended is the history of a child of the disk layer.
LEMMA WriteHistoryInv == ASSUME IInv, WriteHistory PROVE IInv'
  <1>1. /\ up /\ job.op \in {"cap", "full"} /\ job.pc = "history" /\ job.todo # <<>>
        /\ Len(items) = base.id
        /\ \/ Parent[Bottom] = base.root /\ Bottom # Genesis
           \/ LayersOk /\ (Depth[Bottom] = base.id + 1 => Parent[Bottom] = base.root)
    BY DEF IInv, WriteHistory, Running, JobOk
  <1>2. UNCHANGED <<kv, older, tail, safe, up, base, frozen, layers, cut, undone, misled>>
    BY DEF WriteHistory, tree, past
  <1>3. /\ base.root \in Root /\ base.id = Depth[base.root] /\ base.id \in Nat
        /\ Len(items) \in Nat /\ On(base.root)
    BY <1>1, BaseFacts
  <1>4. Bottom \in Root /\ Depth[Bottom] \in Nat
    BY <1>1, BottomInTodo
  <1>5. CASE NextHistory
    <2>1. /\ items' = Append(items, Bottom) /\ job' = [job EXCEPT !.pc = "prune"]
      BY <1>5 DEF WriteHistory
    <2>2. Depth[Bottom] = base.id + 1
      BY <1>1, <1>5 DEF NextHistory
    <2>3. Parent[Bottom] = base.root /\ Bottom # Genesis
      BY <1>1, <1>3, <1>4, <2>2, AtParent, SMT
    <2>4. /\ items' \in Seq(Root) /\ Len(items') = Len(items) + 1 /\ Depth[Bottom] = Len(items')
          /\ misled' \/ IsLine'
          /\ On(Bottom)' /\ \A r : On(r) => On(r)'
      <3>1. PICK b : b = Bottom
        OBVIOUS
      <3>2. /\ items' \in Seq(Root) /\ Len(items') = Len(items) + 1 /\ Depth[b] = Len(items')
            /\ misled' \/ IsLine'
            /\ On(b)' /\ \A r : On(r) => On(r)'
        BY <1>1, <1>2, <1>3, <1>4, <2>1, <2>3, <3>1, ExtendLine DEF IInv
      <3>3. Bottom' = b
        BY <2>1, <3>1 DEF Bottom, IInv, JobOk
      <3> QED BY <3>1, <3>2, <3>3 DEF On
    <2>5. HistoryIsLine'
      <3>1. safe \in 0..Len(items')
        BY <1>3, <2>4, SMT DEF IInv, HistoryIsLine
      <3> QED BY <1>2, <2>4, <3>1 DEF IInv, HistoryIsLine
    <2>6. \A v \in Versions' : VersionOk(v)'
      BY <1>2, <2>4, KeepVersions DEF IInv, VersionOk
    <2>7. JournalOk'
      BY <1>2, <2>4, KeepJournal DEF IInv
    <2>8. BuffersOk'
      BY <1>2, <1>3, <2>4, KeepBuffers DEF IInv, BuffersOk
    <2>9. job' = [op |-> job.op, todo |-> job.todo, top |-> job.top, pc |-> "prune",
                  old |-> job.old, flush |-> job.flush]
      BY <2>1 DEF IInv, JobOk
    <2>10. Bottom' = Bottom
      BY <2>9 DEF Bottom
    <2>11. JobOk'
      BY <1>1, <1>2, <2>3, <2>4, <2>9, <2>10 DEF IInv, JobOk
    <2>12. DownOk' /\ IdsStored' /\ TailOk'
      BY <1>1, <1>2, <2>9 DEF IInv, DownOk, IdsStored, Stored, TailOk
    <2> QED BY <2>5, <2>6, <2>7, <2>8, <2>11, <2>12 DEF IInv
  <1>6. CASE ~NextHistory
    <2>1. job' = NoJob /\ UNCHANGED items
      BY <1>6 DEF WriteHistory
    <2>2. Depth[Bottom] # base.id + 1
      BY <1>1, <1>6 DEF NextHistory
    <2>3. ASSUME Parent[Bottom] = base.root, Bottom # Genesis PROVE FALSE
      <3>1. Depth[Parent[Bottom]] = Depth[Bottom] - 1
        BY <1>4, <2>3, AtParent
      <3>2. Depth[base.root] = Depth[Bottom] - 1
        BY <2>3, <3>1
      <3>3. \A x, y \in Nat : x = y - 1 => y = x + 1
        BY SMT
      <3> QED BY <1>3, <1>4, <2>2, <3>2, <3>3
    <2>4. LayersOk
      BY <1>1, <2>3
    <2>5. JobOk'
      BY <1>1, <1>2, <2>1, <2>4, SameLayers, NoJobOk
    <2>6. job.pc # "merge" /\ job'.pc # "merge" /\ UNCHANGED <<kv, older, histories, base, frozen, past>>
      BY <1>1, <1>2, <2>1 DEF NoJob, histories, past
    <2>7. job.op # "open"
      BY <1>1
    <2> QED BY <1>1, <2>5, <2>6, <2>7, JobOnly
  <1> QED BY <1>5, <1>6

\* A content that only got more ids is as good as the one before.
LEMMA MoreIds ==
    ASSUME NEW v, VersionOk(v), NEW ids, v.ids \subseteq ids,
           NEW w, w = [v EXCEPT !.ids = ids]
    PROVE  /\ w = [data |-> v.data, root |-> v.root, id |-> v.id, ids |-> ids,
                   journal |-> v.journal]
           /\ VersionOk(w)
  <1>1. w = [data |-> v.data, root |-> v.root, id |-> v.id, ids |-> ids, journal |-> v.journal]
    BY DEF VersionOk
  <1>2. \A r : Stored(v, r) => Stored(w, r)
    BY <1>1 DEF Stored
  <1> QED BY <1>1, <1>2 DEF VersionOk

\* writeStateHistory, pruning and ids, preserves the invariant: the tail stays at
\* or below the persistent state.
LEMMA PruneHistoryInv == ASSUME IInv, PruneHistory PROVE IInv'
  <1>1. /\ up /\ job.op \in {"cap", "full"} /\ job.pc = "prune" /\ job.todo # <<>>
        /\ Parent[Bottom] = base.root /\ Bottom # Genesis
        /\ On(Bottom) /\ Depth[Bottom] = Len(items)
    BY DEF IInv, PruneHistory, Running, JobOk
  <1>2. /\ UNCHANGED <<items, safe, up, base, frozen, layers, cut, undone, misled>>
        /\ kv' = [kv EXCEPT !.ids = StoredIds] /\ older' \subseteq older \cup {kv}
    BY DEF PruneHistory, tree, past, Put
  <1> DEFINE first == Depth[Bottom] - StateHistory + 1
             due == StateHistory # 0 /\ Depth[Bottom] - tail > StateHistory
             pruned == due /\ ~NeedsFlush(first)
  <1>3. /\ job' = [job EXCEPT !.pc = "merge", !.flush = @ \/ (due /\ NeedsFlush(first))]
        /\ tail' = IF pruned THEN first - 1 ELSE tail
    BY DEF PruneHistory
  <1>4. Bottom \in Root /\ Depth[Bottom] \in Nat
    BY <1>1, BottomInTodo
  <1>5. /\ base.root \in Root /\ base.id = Depth[base.root] /\ base.id \in Nat
        /\ kv.id \in Nat /\ tail \in Nat /\ kv.id <= safe /\ tail <= safe /\ safe \in Nat
        /\ kv \in Versions /\ VersionOk(kv)
    BY BaseFacts
  <1>6. StateHistory \in Nat
    BY PathDBAssumption
  <1>7. tail' \in 0..safe /\ (undone \/ tail' <= kv.id)
    <2>1. CASE pruned
      <3>1. tail' = first - 1 /\ ~(kv.id < first) /\ Depth[Bottom] - tail > StateHistory
        BY <1>3, <2>1 DEF NeedsFlush
      <3>2. tail' \in 0..safe /\ tail' <= kv.id
        BY <1>4, <1>5, <1>6, <3>1, SMT
      <3> QED BY <3>2
    <2>2. CASE ~pruned
      <3>1. tail' = tail
        BY <1>3, <2>2
      <3> QED BY <1>5, <3>1 DEF IInv, TailOk, HistoryIsLine
    <2> QED BY <2>1, <2>2
  <1> HIDE DEF first, due, pruned
  <1>9. /\ kv' = [data |-> kv.data, root |-> kv.root, id |-> kv.id, ids |-> StoredIds,
                  journal |-> kv.journal]
        /\ VersionOk(kv')
    <2>1. kv.ids \subseteq StoredIds
      BY DEF StoredIds
    <2> HIDE DEF StoredIds
    <2> QED BY <1>2, <1>5, <2>1, MoreIds
  <1>10. \A r : On(r)' <=> On(r)
    BY <1>2, SameLine
  <1>11. \A v \in Versions' : VersionOk(v)'
    <2> SUFFICES ASSUME NEW v \in Versions' PROVE VersionOk(v)'
      OBVIOUS
    <2>1. VersionOk(v)
      BY <1>2, <1>9 DEF Versions, IInv
    <2>2. kv'.journal = kv.journal
      BY <1>9
    <2> QED BY <1>2, <1>10, <2>1, <2>2 DEF VersionOk, Stored
  <1>12. HistoryIsLine'
    BY <1>2, <1>7, SameLine DEF IInv, HistoryIsLine
  <1>13. JournalOk'
    <2>1. kv'.journal = kv.journal
      BY <1>9
    <2> QED BY <1>2, <1>10, <2>1 DEF IInv, JournalOk, IsAncestor
  <1>14. BuffersOk'
    <2>1. kv'.root = kv.root /\ kv'.id = kv.id
      BY <1>9
    <2>2. job.op # "open"
      BY <1>1
    <2> QED BY <1>2, <1>10, <2>1, <2>2 DEF IInv, BuffersOk, Buffered, IsAncestor
  <1>15. job' = [op |-> job.op, todo |-> job.todo, top |-> job.top, pc |-> "merge",
                 old |-> job.old, flush |-> job'.flush]
    BY <1>3 DEF IInv, JobOk
  <1>16. Bottom' = Bottom /\ On(Bottom)'
    <2>1. PICK b : b = Bottom
      OBVIOUS
    <2>2. Bottom' = b
      BY <1>15, <2>1, SMT DEF Bottom
    <2>3. On(b)'
      BY <1>1, <1>10, <2>1
    <2> QED BY <2>1, <2>2, <2>3 DEF On
  <1>17. JobOk'
    <2>1. /\ job'.op = job.op /\ job'.todo = job.todo /\ job'.top = job.top
          /\ job'.pc = "merge" /\ job'.old = job.old
      BY <1>15, SMT
    <2>2. job' = [op |-> job'.op, todo |-> job'.todo, top |-> job'.top, pc |-> job'.pc,
                  old |-> job'.old, flush |-> job'.flush]
      BY <1>15, <2>1
    <2>3. Consecutive(job.todo) /\ layers \subseteq Root
      BY DEF IInv, JobOk
    <2> QED BY <1>1, <1>2, <1>16, <2>1, <2>2, <2>3 DEF JobOk
  <1>18. Stored(kv', Bottom)
    <2> SUFFICES ASSUME NEW i \in 0..Depth[Bottom] PROVE At(Bottom, i) \in StoredIds
      BY <1>9 DEF Stored
    <2>1. Depth[Bottom] = base.id + 1 /\ base.root = At(Bottom, base.id)
      BY <1>1, <1>4, <1>5, AtParent, SMT
    <2>2. CASE i = Depth[Bottom]
      BY <1>4, <2>2, AtSelf DEF StoredIds
    <2>3. CASE i \in 0..base.id
      <3>1. At(Bottom, i) = At(base.root, i)
        BY <1>4, <1>5, <2>1, <2>3, AtAt, SMT
      <3>2. CASE base.id > 0
        BY <1>1, <1>5, <2>3, <3>1, <3>2 DEF IInv, IdsStored, Stored, StoredIds
      <3>3. CASE base.id = 0
        <4>1. i = 0 /\ Depth[base.root] = 0
          BY <1>5, <2>3, <3>3, SMT
        <4>2. At(base.root, 0) = base.root
          BY <1>5, <4>1, AtSelf
        <4> QED BY <3>1, <3>3, <4>1, <4>2 DEF StoredIds
      <3> QED BY <1>5, <3>2, <3>3, SMT
    <2> QED BY <1>5, <2>1, <2>2, <2>3, SMT
  <1>19. IdsStored' /\ DownOk'
    BY <1>1, <1>2, <1>15, <1>16, <1>18, SMT DEF IdsStored, DownOk, Stored
  <1>20. TailOk'
    <2>1. kv'.id = kv.id
      BY <1>9
    <2> QED BY <1>2, <1>7, <2>1 DEF TailOk
  <1> QED BY <1>20, <1>11, <1>12, <1>13, <1>14, <1>17, <1>19 DEF IInv

\* diskLayer.commit, the merge into the buffer, preserves the invariant.
LEMMA MergeLayerInv == ASSUME IInv, MergeLayer PROVE IInv'
  <1>1. /\ up /\ job.op \in {"cap", "full"} /\ job.pc = "merge" /\ job.todo # <<>>
        /\ Parent[Bottom] = base.root /\ Bottom # Genesis
        /\ On(Bottom) /\ Depth[Bottom] = Len(items)
    BY DEF IInv, MergeLayer, Running, JobOk
  <1>2. /\ UNCHANGED <<kv, older, histories, layers, past>>
        /\ job' = [job EXCEPT !.todo = Tail(@),
                              !.pc = IF Len(job.todo) > 1 THEN "history" ELSE "finish",
                              !.flush = job.op = "full"]
    BY DEF MergeLayer
  <1>3. UNCHANGED <<items, tail, safe, up, cut, undone, misled>>
    BY <1>2 DEF histories, past
  <1> DEFINE buf == Merge(base.buf, Bottom)
  <1>4. PICK freeze \in BOOLEAN :
          /\ freeze => Flushed
          /\ frozen' = IF freeze THEN [phase |-> "frozen", buf |-> buf, layers |-> base.layers + 1,
                                       id |-> Depth[Bottom], root |-> Bottom]
                       ELSE frozen
          /\ base' = [root |-> Bottom, id |-> Depth[Bottom],
                      buf |-> IF freeze THEN Nothing ELSE buf,
                      layers |-> IF freeze THEN 0 ELSE base.layers + 1]
    <2>1. PICK full \in BOOLEAN :
            LET freeze == full \/ job.flush
            IN  /\ freeze => Flushed
                /\ frozen' = IF freeze THEN [phase |-> "frozen", buf |-> buf, layers |-> base.layers + 1,
                                             id |-> Depth[Bottom], root |-> Bottom]
                             ELSE frozen
                /\ base' = [root |-> Bottom, id |-> Depth[Bottom],
                            buf |-> IF freeze THEN Nothing ELSE buf,
                            layers |-> IF freeze THEN 0 ELSE base.layers + 1]
      BY DEF MergeLayer
    <2> HIDE DEF buf
    <2>2. CASE full \/ job.flush
      <3> WITNESS TRUE \in BOOLEAN
      <3> QED BY <2>1, <2>2
    <2>3. CASE ~(full \/ job.flush)
      <3> WITNESS FALSE \in BOOLEAN
      <3> QED BY <2>1, <2>3
    <2> QED BY <2>2, <2>3
  <1> HIDE DEF buf
  <1>5. Bottom \in Root /\ Depth[Bottom] \in Nat /\ Len(job.todo) \in Nat \ {0} /\ Bottom = job.todo[1]
    BY <1>1, BottomInTodo
  <1>6. /\ base.root \in Root /\ base.id = Depth[base.root] /\ base.id \in Nat
        /\ base.layers \in Nat /\ frozen.layers \in Nat /\ kv.id \in Nat
    BY BaseFacts
  <1>7. Depth[Bottom] = base.id + 1
    BY <1>1, <1>5, <1>6, AtParent, SMTT(30)
  <1>8. PICK b : b = Bottom
    OBVIOUS
  <1>9. On(b)' /\ \A r : On(r)' <=> On(r)
    BY <1>1, <1>3, <1>8, SameLine
  <1>10. HistoryIsLine' /\ JournalOk' /\ \A v \in Versions' : VersionOk(v)'
    BY <1>2, <1>3, SameHistory, SameJournal, SameVersions DEF IInv
  <1>11. base'.root = b /\ base'.id = Depth[b] /\ base'.id = base.id + 1
    BY <1>4, <1>7, <1>8
  <1>12a. IsAncestor(b, b) /\ \A a : IsAncestor(a, base.root) => IsAncestor(a, b)
    <2>1. b \in Root /\ IsAncestor(b, b) /\ IsAncestor(base.root, b)
      BY <1>1, <1>5, <1>8, OwnAncestor
    <2> QED BY <2>1, AncestorOf
  <1>12b. IsAncestor(kv'.root, b)
    BY <1>1, <1>2, <1>12a, BaseFacts
  <1>12. BuffersOk'
    <2>1. /\ base.id = kv.id + base.layers + IF Buffered THEN frozen.layers ELSE 0
          /\ frozen.phase \in {"none", "frozen", "synced", "done"}
      BY <1>1 DEF IInv, BuffersOk
    <2>2. CASE freeze
      <3>1. /\ frozen' = [phase |-> "frozen", buf |-> buf, layers |-> base.layers + 1,
                          id |-> Depth[b], root |-> b]
            /\ base' = [root |-> b, id |-> Depth[b], buf |-> Nothing, layers |-> 0]
        BY <1>4, <1>8, <2>2
      <3>2. frozen'.phase = "frozen" /\ frozen'.layers = base.layers + 1 /\ frozen'.id = Depth[b]
            /\ frozen'.root = b /\ base'.layers = 0 /\ Buffered'
        BY <3>1 DEF Buffered
      <3>3. ~Buffered
        BY <1>4, <2>2 DEF Flushed, Buffered
      <3>4. Depth[b] = kv.id + (base.layers + 1)
        BY <1>6, <1>7, <1>8, <2>1, <3>3, SMT
      <3>5. /\ frozen'.id = kv'.id + frozen'.layers /\ base'.id = kv'.id + base'.layers + frozen'.layers
            /\ base'.root = b /\ base'.id = Depth[b] /\ base'.layers \in Nat /\ frozen'.layers \in Nat
        BY <1>2, <1>6, <3>1, <3>2, <3>4, SMT
      <3>6. /\ base' = [root |-> base'.root, id |-> base'.id, buf |-> base'.buf, layers |-> base'.layers]
            /\ frozen' = [phase |-> frozen'.phase, buf |-> frozen'.buf, layers |-> frozen'.layers,
                          id |-> frozen'.id, root |-> frozen'.root]
        BY <3>1
      <3>7. b \in Root /\ frozen'.phase # "synced"
        BY <1>5, <1>8, <3>2
      <3> QED BY <1>9, <1>12a, <1>12b, <3>2, <3>5, <3>6, <3>7 DEF BuffersOk
    <2>3. CASE ~freeze
      <3>1. /\ frozen' = frozen
            /\ base' = [root |-> b, id |-> Depth[b], buf |-> buf, layers |-> base.layers + 1]
        BY <1>4, <1>8, <2>3
      <3>2. base'.layers = base.layers + 1 /\ (Buffered' <=> Buffered)
        BY <3>1 DEF Buffered
      <3>3. base'.id = kv.id + (base.layers + 1) + IF Buffered THEN frozen.layers ELSE 0
        BY <1>6, <1>11, <2>1, SMT
      <3>4. /\ base'.layers \in Nat
            /\ base' = [root |-> base'.root, id |-> base'.id, buf |-> base'.buf, layers |-> base'.layers]
        BY <1>6, <3>1, SMT
      <3>5. b \in Root
        BY <1>5, <1>8
      <3>6. Buffered => IsAncestor(frozen.root, b)
        BY <1>12a DEF IInv, BuffersOk
      <3> QED BY <1>2, <1>3, <1>9, <1>11, <1>12b, <3>1, <3>2, <3>3, <3>4, <3>5, <3>6 DEF IInv, BuffersOk
    <2> QED BY <2>2, <2>3
  <1>13. /\ job'.op = job.op /\ job'.todo = Tail(job.todo)
         /\ job'.pc = IF Len(job.todo) > 1 THEN "history" ELSE "finish"
         /\ job' = [op |-> job'.op, todo |-> job'.todo, top |-> job'.top, pc |-> job'.pc,
                    old |-> job'.old, flush |-> job'.flush]
    BY <1>2 DEF IInv, JobOk
  <1>14. Consecutive(job'.todo) /\ (Len(job.todo) > 1 => /\ job'.todo # <<>>
                                                         /\ Bottom' = job.todo[2])
    BY <1>1, <1>5, <1>13, TailConsecutive DEF IInv, JobOk, Bottom
  <1>15. JobOk'
    <2>1. layers' \subseteq Root /\ Len(items') = base'.id
      BY <1>1, <1>2, <1>3, <1>8, <1>11 DEF IInv, JobOk
    <2>2. CASE Len(job.todo) > 1
      <3>1. Parent[job.todo[2]] = job.todo[1] /\ job.todo[2] # Genesis
        <4>1. 1 \in 1..(Len(job.todo) - 1)
          BY <1>5, <2>2, SMT
        <4>2. Parent[job.todo[1 + 1]] = job.todo[1] /\ job.todo[1 + 1] # Genesis
          BY <4>1 DEF IInv, JobOk, Consecutive
        <4> QED BY <4>2, SMT
      <3>2. Parent[Bottom'] = base'.root /\ Bottom' # Genesis
        BY <1>5, <1>8, <1>11, <1>14, <2>2, <3>1
      <3> QED BY <1>1, <1>13, <1>14, <2>1, <2>2, <3>2 DEF JobOk
    <2>3. CASE ~(Len(job.todo) > 1)
      BY <1>1, <1>13, <1>14, <2>1, <2>3 DEF JobOk
    <2> QED BY <2>2, <2>3
  <1>16. Stored(kv, b)
    BY <1>1, <1>8 DEF IInv, IdsStored
  <1>17. DownOk' /\ IdsStored' /\ TailOk'
    BY <1>1, <1>2, <1>3, <1>11, <1>13, <1>16 DEF IInv, DownOk, IdsStored, Stored, TailOk
  <1> QED BY <1>10, <1>12, <1>15, <1>17 DEF IInv

\* The end of cap and of commit: what is left of the tree is on the disk layer.
LEMMA FinishCapInv == ASSUME IInv, FinishCap \/ FinishCommit PROVE IInv'
  <1>1. /\ up /\ job.pc = "finish" /\ Len(items) = base.id /\ layers \subseteq Root
    BY DEF IInv, FinishCap, FinishCommit, Running, JobOk
  <1>2. /\ UNCHANGED <<kv, older, histories, base, frozen, past>> /\ job' = NoJob
        /\ layers' \subseteq {r \in layers : r # base.root /\ base.root \in Ancestors[r]}
    BY DEF FinishCap, FinishCommit, EmptyTree
  <1>3. base.root \in Root /\ base.id = Depth[base.root] /\ base.id \in Nat
    BY BaseFacts
  <1>4. LayersOk'
    <2> SUFFICES ASSUME NEW r \in layers' PROVE Depth[r] > base.id /\ At(r, base.id) = base.root
      BY <1>1, <1>2 DEF LayersOk
    <2>1. r \in Root /\ r # base.root /\ base.root \in Ancestors[r]
      BY <1>1, <1>2
    <2>2. Depth[base.root] \in 0..Depth[r] /\ At(r, Depth[base.root]) = base.root
      BY <2>1, AtAncestor
    <2>3. Depth[r] # base.id
      BY <1>3, <2>1, <2>2, AtSelf
    <2>4. Depth[r] \in Nat
      BY <2>1, AtSelf
    <2> QED BY <1>3, <2>2, <2>3, <2>4, SMT
  <1>5. UNCHANGED <<items, up>>
    BY <1>2 DEF histories
  <1>6. JobOk'
    BY <1>1, <1>2, <1>4, <1>5, NoJobOk
  <1>7. job'.pc # "merge" /\ job.pc # "merge" /\ job.op # "open"
    BY <1>1, <1>2 DEF NoJob, FinishCap, FinishCommit
  <1> QED BY <1>1, <1>2, <1>6, <1>7, JobOnly

-----------------------------------------------------------------------------
(* The background flush.                                                   *)

\* A write to the key-value store that keeps the journal and leaves a good
\* content behind.
LEMMA WriteVersions ==
    ASSUME \A v \in Versions : VersionOk(v), UNCHANGED <<items, safe, misled>>,
           older' \subseteq older \cup {kv}, kv'.journal = kv.journal, VersionOk(kv')
    PROVE  \A v \in Versions' : VersionOk(v)'
  <1>1. \A r : On(r)' <=> On(r)
    BY SameLine
  <1> SUFFICES ASSUME NEW v \in Versions' PROVE VersionOk(v)'
    OBVIOUS
  <1>2. VersionOk(v)
    BY DEF Versions
  <1> QED BY <1>1, <1>2 DEF VersionOk, Stored

\* A content whose state is replaced by one within the safe histories is good.
LEMMA NewState ==
    ASSUME NEW v, VersionOk(v), NEW d, NEW r, On(r), NEW i, i = Depth[r], i <= safe,
           Stored(v, r),
           NEW w, w = [data |-> d, root |-> r, id |-> i, ids |-> v.ids, journal |-> v.journal]
    PROVE  VersionOk(w)
  <1>1. /\ w.data = d /\ w.root = r /\ w.id = i /\ w.ids = v.ids /\ w.journal = v.journal
        /\ w = [data |-> w.data, root |-> w.root, id |-> w.id, ids |-> w.ids, journal |-> w.journal]
    OBVIOUS
  <1> QED BY <1>1 DEF VersionOk, Stored

\* JobOk depends on the histories, the disk layer, the layers and the operation.
LEMMA KeepJob ==
    ASSUME JobOk, UNCHANGED <<items, tail, up, base, layers, job, misled>>, job.op # "open",
           job.pc = "cut" => \A v \in Versions' : v.id <= base.id
    PROVE  JobOk'
  <1>1. Bottom' = Bottom /\ (On(Bottom) => On(Bottom)')
    <2>1. PICK b : b = Bottom
      OBVIOUS
    <2>2. Bottom' = b /\ (On(b) => On(b)')
      BY <2>1, SameLine DEF Bottom
    <2> QED BY <2>1, <2>2 DEF On
  <1> QED BY <1>1, SameLayers DEF JobOk, Leads

\* Ids that are stored stay stored.
LEMMA KeepIds ==
    ASSUME IdsStored, up, kv.ids \subseteq kv'.ids, UNCHANGED <<up, base, job>>
    PROVE  IdsStored' /\ DownOk'
  BY DEF IdsStored, DownOk, Stored, Bottom

\* The buffer being flushed fits the persistent state.
LEMMA FrozenFacts ==
    ASSUME IInv, up, Buffered
    PROVE  /\ On(frozen.root) /\ frozen.root \in Root /\ frozen.id = Depth[frozen.root]
           /\ IsAncestor(frozen.root, base.root) /\ IsAncestor(kv.root, frozen.root)
           /\ frozen.id \in Nat /\ frozen.id <= Len(items)
           /\ frozen.id = kv.id + frozen.layers /\ frozen.id <= base.id
           /\ base.id = kv.id + base.layers + frozen.layers
           /\ Stored(kv, frozen.root)
  <1>1. /\ IsAncestor(frozen.root, base.root) /\ frozen.id = Depth[frozen.root]
        /\ frozen.id = kv.id + frozen.layers
        /\ base.id = kv.id + base.layers + frozen.layers
    BY DEF IInv, BuffersOk
  <1>2. /\ base.root \in Root /\ base.id = Depth[base.root] /\ kv.id = Depth[kv.root]
        /\ kv.id \in Nat /\ frozen.layers \in Nat /\ IsAncestor(kv.root, base.root)
    BY BaseFacts
  <1>3. On(frozen.root)
    <2>1. job.op # "open"
      BY DEF IInv, JobOk
    <2> QED BY <1>1, <2>1, BaseFacts, OnAncestor DEF IInv
  <1>4. frozen.root \in Root /\ frozen.id \in Nat /\ frozen.id <= Len(items) /\ frozen.id <= base.id
    BY <1>1, <1>2, <1>3, AncestorFacts DEF On
  <1>5. IsAncestor(kv.root, frozen.root)
    <2>1. kv.id <= frozen.id
      BY <1>1, <1>2, SMT
    <2> QED BY <1>1, <1>2, <2>1, AncestorBetween
  <1>6. Stored(kv, base.root)
    <2>1. CASE job.pc = "merge"
      <3>1. Stored(kv, Bottom) /\ Parent[Bottom] = base.root /\ Bottom # Genesis /\ job.todo # <<>>
        BY <2>1 DEF IInv, IdsStored, JobOk
      <3>2. Bottom \in Root /\ IsAncestor(base.root, Bottom)
        BY <3>1, BottomInTodo, OwnAncestor
      <3> QED BY <3>1, <3>2, StoredBelow
    <2>2. CASE job.pc # "merge"
      BY <2>2 DEF IInv, IdsStored
    <2> QED BY <2>1, <2>2
  <1>7. Stored(kv, frozen.root)
    BY <1>1, <1>2, <1>6, StoredBelow
  <1> QED BY <1>1, <1>3, <1>4, <1>5, <1>7

\* buffer.flush, the check of the id and the sync of the histories, preserves the
\* invariant: the check always succeeds.
LEMMA FlushSyncInv == ASSUME IInv, FlushSync PROVE IInv'
  <1>1. /\ up /\ job.op # "open" /\ frozen.phase = "frozen" /\ Buffered
        /\ UNCHANGED <<kv, older, items, tail, up, base, layers, job, cut, undone, misled>>
    BY DEF FlushSync, Running, Buffered, tree, past
  <1>2. /\ On(frozen.root) /\ frozen.id = Depth[frozen.root] /\ frozen.id = kv.id + frozen.layers
        /\ frozen.id <= Len(items)
    BY <1>1, FrozenFacts
  <1>3. safe' = Len(items) /\ frozen' = [frozen EXCEPT !.phase = "synced"]
    BY <1>2 DEF FlushSync
  <1>4. frozen' = [phase |-> "synced", buf |-> frozen.buf, layers |-> frozen.layers,
                   id |-> frozen.id, root |-> frozen.root]
    BY <1>3 DEF IInv, BuffersOk
  <1>5. safe \in Nat /\ Len(items) \in Nat /\ safe <= Len(items) /\ safe <= safe'
        /\ tail \in Nat /\ tail <= safe
    BY <1>3, BaseFacts
  <1>6. HistoryIsLine'
    <2>1. safe' \in 0..Len(items) /\ tail \in 0..safe'
      BY <1>3, <1>5, SMT
    <2> QED BY <1>1, <2>1, SameLine DEF IInv, HistoryIsLine
  <1>7. \A v \in Versions' : VersionOk(v)'
    <2> SUFFICES ASSUME NEW v \in Versions PROVE On(v.root)' /\ v.id <= safe'
      BY <1>1, KeepVersions DEF IInv
    <2>1. On(v.root) /\ v.id = Depth[v.root]
      BY DEF IInv, VersionOk
    <2>2. v.id <= Len(items)
      BY <2>1 DEF On
    <2> QED BY <1>1, <1>3, <2>1, <2>2, SameLine
  <1>8. JournalOk'
    <2>1. kv.journal # None /\ ~cut => kv.journal.id <= Len(items)
      BY DEF IInv, JournalOk, On
    <2> QED BY <1>1, <1>3, <2>1, SameLine, KeepJournal DEF IInv
  <1>9. BuffersOk'
    <2>1. On(base.root)'
      BY <1>1, BaseFacts, SameLine
    <2> QED BY <1>1, <1>2, <1>3, <1>4, <2>1 DEF IInv, BuffersOk, Buffered, IsAncestor
  <1>10. JobOk'
    BY <1>1, KeepJob DEF IInv, JobOk, Versions
  <1>11. IdsStored' /\ DownOk' /\ TailOk'
    BY <1>1, KeepIds DEF IInv, TailOk
  <1> QED BY <1>6, <1>7, <1>8, <1>9, <1>10, <1>11 DEF IInv

\* buffer.flush, the write of the batch, preserves the invariant.
LEMMA FlushWriteInv == ASSUME IInv, FlushWrite PROVE IInv'
  <1>1. /\ up /\ job.op # "open" /\ frozen.phase = "synced" /\ Buffered
        /\ UNCHANGED <<items, tail, safe, up, base, layers, job, cut, undone, misled>>
        /\ frozen' = [frozen EXCEPT !.phase = "done"]
        /\ older' \subseteq older \cup {kv}
    BY DEF FlushWrite, Running, Buffered, tree, histories, past, Put
  <1>2. /\ On(frozen.root) /\ frozen.id = Depth[frozen.root] /\ frozen.id = kv.id + frozen.layers
        /\ frozen.id \in Nat /\ frozen.id <= base.id
        /\ base.id = kv.id + base.layers + frozen.layers /\ Stored(kv, frozen.root)
        /\ IsAncestor(frozen.root, base.root)
    BY <1>1, FrozenFacts
  <1>3. frozen.id <= safe
    BY <1>1 DEF IInv, BuffersOk
  <1>4. /\ VersionOk(kv) /\ kv.id \in Nat /\ tail \in Nat /\ base.id \in Nat /\ On(base.root)
        /\ frozen.layers \in Nat /\ base.layers \in Nat
    BY <1>1, BaseFacts
  <1>5. tail <= kv.id => tail <= frozen.id
    BY <1>2, <1>4, SMT
  <1>6. kv' = [data |-> Over(frozen.buf, kv.data), root |-> frozen.root, id |-> frozen.id,
               ids |-> kv.ids, journal |-> kv.journal]
    BY <1>4 DEF FlushWrite, Put, VersionOk
  <1>7. /\ kv'.root = frozen.root /\ kv'.id = frozen.id /\ kv'.ids = kv.ids
        /\ kv'.journal = kv.journal /\ VersionOk(kv')
    <2>1. VersionOk(kv')
      BY <1>2, <1>3, <1>4, <1>6, NewState
    <2> QED BY <1>6, <2>1
  <1>8. HistoryIsLine' /\ \A v \in Versions' : VersionOk(v)'
    BY <1>1, <1>7, SameHistory, WriteVersions DEF IInv
  <1>9. JournalOk'
    BY <1>1, <1>7, SameLine DEF IInv, JournalOk, IsAncestor
  <1>10. frozen' = [phase |-> "done", buf |-> frozen.buf, layers |-> frozen.layers,
                    id |-> frozen.id, root |-> frozen.root]
    BY <1>1 DEF IInv, BuffersOk
  <1>11. frozen'.phase = "done" /\ frozen'.layers = frozen.layers /\ ~Buffered'
    BY <1>10 DEF Buffered
  <1>12. base.id = kv'.id + base.layers + 0
    BY <1>2, <1>4, <1>7, SMT
  <1>13. BuffersOk'
    <2>1. On(base.root)' /\ IsAncestor(kv'.root, base.root)
      BY <1>1, <1>2, <1>4, <1>7, SameLine
    <2> QED BY <1>1, <1>4, <1>10, <1>11, <1>12, <2>1 DEF IInv, BuffersOk
  <1>14. job.pc = "cut" => \A v \in Versions' : v.id <= base.id
    BY <1>1, <1>2, <1>7 DEF IInv, JobOk, Versions
  <1>15. JobOk' /\ IdsStored' /\ DownOk'
    BY <1>1, <1>7, <1>14, KeepJob, KeepIds DEF IInv
  <1>16. TailOk'
    BY <1>1, <1>5, <1>7 DEF IInv, TailOk
  <1> QED BY <1>8, <1>9, <1>13, <1>15, <1>16 DEF IInv

-----------------------------------------------------------------------------
(* Recovery.                                                               *)

\* Recover, once the state is found recoverable, preserves the invariant.
LEMMA RecoverInv == ASSUME IInv, NEW r \in Root, Recover(r) PROVE IInv'
  <1>1. /\ up /\ job.op = "none" /\ job.pc = "" /\ LayersOk /\ Recoverable(r)
        /\ Len(items) = base.id
        /\ UNCHANGED <<kv, older, histories, base, frozen, past>> /\ UNCHANGED layers
        /\ job' = [NoJob EXCEPT !.op = "recover", !.pc = "revert", !.top = r]
    BY DEF Recover, Running, IInv, JobOk, tree
  <1>2. job' = [op |-> "recover", todo |-> <<>>, top |-> r, pc |-> "revert", old |-> None,
                flush |-> FALSE]
    BY <1>1 DEF NoJob
  <1>3. Depth[r] < base.id /\ tail <= Depth[r] /\ Leads(r)
    BY <1>1 DEF Recoverable, Leads
  <1>4. base.id \in Nat /\ Depth[r] \in Nat
    BY BaseFacts, AtSelf
  <1>5. Consecutive(<<>>)
    <2>1. <<>> \in Seq(Root) /\ Len(<<>>) = 0 /\ 1..(0 - 1) = {}
      BY SMT
    <2> QED BY <2>1 DEF Consecutive
  <1>6. LayersOk'
    BY <1>1, SameLayers
  <1>7. /\ job'.op = "recover" /\ job'.pc = "revert" /\ job'.top = r /\ job'.todo = <<>>
        /\ job' = [op |-> job'.op, todo |-> job'.todo, top |-> job'.top, pc |-> job'.pc,
                   old |-> job'.old, flush |-> job'.flush]
    BY <1>2
  <1>8. items' = items /\ tail' = tail /\ base' = base /\ Depth[r] <= base.id /\ base.id # Depth[r]
    <2>1. items' = items /\ tail' = tail /\ base' = base
      BY <1>1 DEF histories
    <2> QED BY <1>3, <1>4, <2>1, SMT
  <1>9. JobOk'
    <2>1. Leads(job.top)' /\ Len(items') = base'.id
      BY <1>1, <1>3, <1>7, <1>8 DEF Leads
    <2>2. layers' \subseteq Root
      BY <1>6 DEF LayersOk
    <2>3. job'.top \in Root /\ tail' <= Depth[job'.top] /\ Depth[job'.top] <= base'.id /\ base'.id # Depth[job'.top]
      BY <1>3, <1>7, <1>8
    <2>4. Consecutive(job'.todo)
      BY <1>5, <1>7
    <2> QED BY <1>6, <1>7, <2>1, <2>2, <2>3, <2>4 DEF JobOk
  <1>10. job.op # "open" /\ job.pc # "merge"
    BY <1>1
  <1> QED BY <1>1, <1>7, <1>9, <1>10, JobOnly

\* The disk layer goes down by one transition.
LEMMA RevertInv == ASSUME IInv, Revert PROVE IInv'
  <1> DEFINE top == job.top
  <1>1. /\ up /\ job.op = "recover" /\ job.pc = "revert" /\ LayersOk /\ base.root # top
        /\ top \in Root /\ tail <= Depth[top] /\ Depth[top] <= base.id /\ base.id # Depth[top]
        /\ Leads(top) /\ (Len(items) = base.id \/ items[base.id] = base.root)
        /\ UNCHANGED <<items, tail, safe, up, cut, undone, misled>>
    BY DEF Revert, Running, IInv, JobOk, histories, past
  <1>2. /\ base.root \in Root /\ base.id = Depth[base.root] /\ base.id \in Nat /\ On(base.root)
        /\ base.layers \in Nat /\ frozen.layers \in Nat /\ kv.id \in Nat /\ tail \in Nat
        /\ kv.id <= safe /\ safe \in Nat /\ VersionOk(kv) /\ Depth[top] \in Nat
        /\ base.id = kv.id + base.layers + IF Buffered THEN frozen.layers ELSE 0
    BY <1>1, BaseFacts, AtSelf DEF IInv, BuffersOk
  <1>4. base.id > 0 /\ base.id # 0 /\ Depth[top] <= base.id - 1 /\ base.id - 1 \in Nat
    BY <1>1, <1>2, SMT
  <1>5. CASE items[base.id] # base.root
    <2>1. job' = NoJob /\ UNCHANGED <<kv, older, base, frozen, layers, histories, past>>
      BY <1>5 DEF Revert, tree
    <2>2. JobOk'
      BY <1>1, <1>5, <2>1, SameLayers, NoJobOk
    <2>3. job.op # "open" /\ job.pc # "merge" /\ job'.pc # "merge"
      BY <1>1, <2>1 DEF NoJob
    <2> QED BY <1>1, <2>1, <2>2, <2>3, JobOnly
  <1>5a. SUFFICES ASSUME items[base.id] = base.root PROVE IInv'
    BY <1>5
  <1>6. PICK to : to = Parent[base.root]
    OBVIOUS
  <1>7. /\ to \in Root /\ Depth[to] = base.id - 1 /\ IsAncestor(to, base.root) /\ base.root # Genesis
    <2>1. base.root # Genesis
      BY <1>2, <1>4, AtParent
    <2> QED BY <1>2, <1>6, <2>1, AtParent, OwnAncestor
  <1>7a. /\ IF base.id - 1 = Depth[top] THEN to = top
            ELSE items[base.id - 1] = to
    <2>1. base.id \in (Depth[top] + 1)..base.id /\ (base.id = Depth[top] + 1 <=> base.id - 1 = Depth[top])
      <3> HIDE DEF top
      <3> QED BY <1>2, <1>4, SMT
    <2>2. Parent[items[base.id]] = IF base.id = Depth[top] + 1 THEN top ELSE items[base.id - 1]
      BY <1>1, <2>1 DEF Leads
    <2> QED BY <1>5a, <1>6, <2>1, <2>2
  <1>8. On(to)
    BY <1>2, <1>7, OnAncestor DEF IInv
  <1>9. Stored(kv, to)
    <2>1. Stored(kv, base.root)
      BY <1>1 DEF IInv, IdsStored
    <2> QED BY <1>2, <1>7, <2>1, StoredBelow
  <1>10. /\ layers' = {} /\ job' = job
         /\ IF base.layers > 0
            THEN /\ base' = [root |-> to, id |-> base.id - 1, layers |-> base.layers - 1,
                             buf |-> IF base.layers <= 1 THEN Nothing ELSE Origin(base.buf, base.root)]
                 /\ UNCHANGED <<kv, older, frozen>>
            ELSE /\ Flushed /\ frozen' = NotFrozen
                 /\ Put([kv EXCEPT !.data = Origin(@, base.root), !.root = to, !.id = base.id - 1])
                 /\ base' = [base EXCEPT !.root = to, !.id = @ - 1]
    BY <1>4, <1>5a, <1>6, SMT DEF Revert, EmptyTree
  <1>11. HistoryIsLine' /\ \A r : On(r)' <=> On(r)
    BY <1>1, SameHistory, SameLine DEF IInv
  <1>12. /\ (\A v \in Versions' : VersionOk(v)') /\ kv'.journal = kv.journal /\ kv'.ids = kv.ids
         /\ base'.root = to /\ base'.id = base.id - 1 /\ BuffersOk'
         /\ kv'.id = kv.id \/ kv'.id = base.id - 1
    <2>1. CASE base.layers > 0
      <3>1. /\ base'.root = to /\ base'.id = base.id - 1 /\ base'.layers = base.layers - 1
            /\ base' = [root |-> base'.root, id |-> base'.id, buf |-> base'.buf, layers |-> base'.layers]
            /\ UNCHANGED <<kv, older, frozen>>
        BY <1>10, <2>1, SMT
      <3>2. \A v \in Versions' : VersionOk(v)'
        BY <1>1, <3>1, SameVersions DEF IInv
      <3>3. base.layers - 1 \in Nat
            /\ base.id - 1 = kv.id + (base.layers - 1) + IF Buffered THEN frozen.layers ELSE 0
        BY <1>2, <2>1, SMT
      <3>4. Buffered' <=> Buffered
        BY <3>1 DEF Buffered
      <3>5. BuffersOk'
        <4>1. \A a : IsAncestor(a, base.root) /\ Depth[a] <= base.id - 1 => IsAncestor(a, to)
          BY <1>2, <1>7, AncestorBetween
        <4>2. IsAncestor(kv.root, to)
          <5>1. Depth[kv.root] <= base.id - 1 /\ IsAncestor(kv.root, base.root)
            <6>1. kv.id <= base.id - 1
              BY <1>2, <2>1, <3>3, SMT
            <6> QED BY <1>1, <6>1, BaseFacts
          <5> QED BY <4>1, <5>1
        <4>3. Buffered => IsAncestor(frozen.root, to)
          <5> SUFFICES ASSUME Buffered PROVE IsAncestor(frozen.root, to)
            OBVIOUS
          <5>1. /\ IsAncestor(frozen.root, base.root) /\ frozen.id = Depth[frozen.root]
                /\ frozen.id = kv.id + frozen.layers
            BY DEF IInv, BuffersOk
          <5>2. frozen.id <= base.id - 1
            BY <1>2, <3>3, <5>1, SMT
          <5> QED BY <4>1, <5>1, <5>2
        <4> QED BY <1>1, <1>7, <1>8, <1>11, <3>1, <3>3, <3>4, <4>2, <4>3 DEF IInv, BuffersOk
      <3> QED BY <3>1, <3>2, <3>5
    <2>2. CASE ~(base.layers > 0)
      <3>1. /\ Flushed /\ frozen' = NotFrozen /\ older' \subseteq older \cup {kv}
            /\ kv' = [kv EXCEPT !.data = Origin(@, base.root), !.root = to, !.id = base.id - 1]
            /\ base' = [base EXCEPT !.root = to, !.id = @ - 1]
        BY <1>10, <2>2 DEF Put
      <3>2. base' = [root |-> to, id |-> base.id - 1, buf |-> base.buf, layers |-> base.layers]
        BY <3>1 DEF IInv, BuffersOk
      <3>3. kv' = [data |-> Origin(kv.data, base.root), root |-> to, id |-> base.id - 1,
                   ids |-> kv.ids, journal |-> kv.journal]
        BY <1>2, <3>1 DEF VersionOk
      <3>4. base.layers = 0 /\ kv.id = base.id
        BY <1>2, <2>2, <3>1, SMT DEF Buffered, Flushed
      <3>5. base.id - 1 <= safe
        BY <1>2, <1>4, <3>4, SMT
      <3>6. VersionOk(kv')
        BY <1>2, <1>7, <1>8, <1>9, <3>3, <3>5, NewState
      <3>7. kv'.journal = kv.journal /\ kv'.ids = kv.ids /\ kv'.id = base.id - 1
        BY <3>3
      <3>8. \A v \in Versions' : VersionOk(v)'
        BY <1>1, <3>1, <3>6, <3>7, WriteVersions DEF IInv
      <3>9. frozen' = [phase |-> "none", buf |-> Nothing, layers |-> 0, id |-> 0, root |-> None]
        BY <3>1 DEF NotFrozen
      <3>10. ~Buffered' /\ frozen'.phase = "none" /\ frozen'.layers = 0
        BY <3>9 DEF Buffered
      <3>11. base'.root = to /\ base'.id = base.id - 1 /\ base'.layers = 0 /\ base'.buf = base.buf
        BY <3>2, <3>4
      <3>12. base.id - 1 = (base.id - 1) + 0 + 0
        BY <1>4, SMTT(30)
      <3>13. BuffersOk'
        <4>1. IsAncestor(kv'.root, base'.root) /\ On(base.root)'
          <5>1. kv'.root = to /\ base'.root = to
            BY <3>3, <3>11
          <5> QED BY <1>7, <1>8, <1>11, <5>1, OwnAncestor
        <4>2. /\ base' = [root |-> base'.root, id |-> base'.id, buf |-> base'.buf, layers |-> base'.layers]
              /\ frozen' = [phase |-> frozen'.phase, buf |-> frozen'.buf, layers |-> frozen'.layers,
                            id |-> frozen'.id, root |-> frozen'.root]
          BY <3>2, <3>9
        <4>3. base'.layers \in Nat /\ frozen'.layers \in Nat /\ base'.id = kv'.id + base'.layers + 0
          BY <3>7, <3>10, <3>11, <3>12, SMT
        <4> QED BY <1>7, <3>10, <3>11, <4>1, <4>2, <4>3 DEF BuffersOk
      <3> QED BY <3>7, <3>8, <3>11, <3>13
    <2> QED BY <2>1, <2>2
  <1>13. JournalOk'
    BY <1>1, <1>11, <1>12 DEF IInv, JournalOk, IsAncestor
  <1>14. JobOk'
    <2>1. LayersOk'
      BY <1>10 DEF LayersOk
    <2>2. IF base'.id = Depth[top] THEN base'.root = top
          ELSE Leads(top)' /\ items'[base'.id] = base'.root
      <3>1. CASE base.id - 1 = Depth[top]
        BY <1>7a, <1>12, <3>1
      <3>2. CASE base.id - 1 # Depth[top]
        <4>1. items'[base'.id] = base'.root
          BY <1>1, <1>7a, <1>12, <3>2
        <4>2. Leads(top)'
          <5> SUFFICES ASSUME NEW k \in (Depth[top] + 1)..(base.id - 1)
                       PROVE  Parent[items[k]] = IF k = Depth[top] + 1 THEN top ELSE items[k - 1]
            BY <1>1, <1>10, <1>12 DEF Leads
          <5>1. k \in (Depth[top] + 1)..base.id
            BY <1>2, <1>4, SMT
          <5> QED BY <1>1, <5>1 DEF Leads
        <4> QED BY <1>12, <3>2, <4>1, <4>2
      <3> QED BY <3>1, <3>2
    <2>3. job' = job /\ Depth[top] <= base'.id /\ tail' = tail
      BY <1>1, <1>4, <1>10, <1>12
    <2>4. layers' \subseteq Root
      BY <2>1 DEF LayersOk
    <2> QED BY <1>1, <2>1, <2>2, <2>3, <2>4 DEF IInv, JobOk
  <1>15. IdsStored' /\ DownOk'
    BY <1>1, <1>9, <1>10, <1>12 DEF IdsStored, DownOk, Stored
  <1>16. TailOk'
    <2>1. tail <= base.id - 1
      BY <1>1, <1>2, <1>4, SMT
    <2> QED BY <1>1, <1>12, <2>1 DEF IInv, TailOk
  <1> QED BY <1>16, <1>11, <1>12, <1>13, <1>14, <1>15 DEF IInv

\* The sync of the key-value store in Recover preserves the invariant: from here
\* on no power failure brings back a state above the recovered one.
LEMMA SyncRecoveredInv == ASSUME IInv, SyncRecovered PROVE IInv'
  <1>1. /\ up /\ job.op = "recover" /\ job.pc = "revert" /\ LayersOk
        /\ older' = {} /\ job' = [job EXCEPT !.pc = "cut"]
        /\ UNCHANGED <<kv, items, tail, safe, up, base, frozen, layers, cut, undone, misled>>
        /\ base.root = job.top /\ tail <= Depth[job.top] /\ Depth[job.top] <= base.id
    BY DEF SyncRecovered, Running, IInv, JobOk, histories, tree, past
  <1>1a. job.op # "open" /\ tail <= base.id
    BY <1>1, BaseFacts
  <1>2. HistoryIsLine' /\ JournalOk' /\ BuffersOk'
    BY <1>1a, <1>1, SameHistory, SameJournal, SameBuffers DEF IInv
  <1>3. Versions' = {kv} /\ kv' = kv
    BY <1>1 DEF Versions
  <1>4. VersionOk(kv) /\ kv.id <= base.id
    BY <1>1, BaseFacts
  <1>5. \A v \in Versions' : VersionOk(v)'
    BY <1>1, <1>3, <1>4, SameLine DEF VersionOk, Stored
  <1>6. job' = [op |-> "recover", todo |-> job.todo, top |-> job.top, pc |-> "cut",
                old |-> job.old, flush |-> job.flush]
    BY <1>1 DEF IInv, JobOk
  <1>7. LayersOk' /\ Consecutive(job.todo)
    BY <1>1, SameLayers DEF IInv, JobOk
  <1>8. JobOk'
    BY <1>1, <1>1a, <1>3, <1>4, <1>6, <1>7 DEF JobOk, LayersOk
  <1>9. DownOk' /\ IdsStored' /\ TailOk'
    BY <1>1, <1>6 DEF IInv, DownOk, IdsStored, Stored, TailOk
  <1> QED BY <1>2, <1>5, <1>8, <1>9 DEF IInv

\* The histories above the disk layer are cut once nothing on disk needs them.
LEMMA CutInv ==
    ASSUME IInv, up, CutHistory(base.id), job' = NoJob, job.pc # "merge",
           LayersOk, \A v \in Versions : v.id <= base.id, base.id <= Len(items),
           tail' \in Nat, tail' <= tail, tail' <= base.id,
           UNCHANGED <<kv, older, up, base, frozen, layers, undone, misled>>
    PROVE  IInv'
  <1>1. PICK n : n = base.id
    OBVIOUS
  <1>2. /\ base.root \in Root /\ n = Depth[base.root] /\ n \in 0..Len(items) /\ n \in Nat
        /\ Len(items) \in Nat /\ safe \in Nat /\ tail \in Nat /\ tail <= safe /\ kv.id \in Nat
    BY <1>1, BaseFacts, SMT
  <1>2a. On(base.root)
    BY BaseFacts DEF IInv, BuffersOk, On
  <1>3. /\ items' = SubSeq(items, 1, n) /\ safe' = IF safe < n THEN safe ELSE n
        /\ cut' = (cut \/ (kv.journal # None /\ n < kv.journal.id))
    BY <1>1 DEF CutHistory
  <1>4. /\ items' \in Seq(Root) /\ Len(items') = n
        /\ misled' \/ IsLine'
        /\ \A r : On(r) /\ Depth[r] <= n => On(r)'
    BY <1>2, <1>3, CutLine DEF IInv
  <1>5. safe' \in Nat /\ safe' <= n /\ tail' <= safe' /\ \A i \in Nat : i <= safe /\ i <= n => i <= safe'
    BY <1>1, <1>2, <1>3, SMT
  <1>6. HistoryIsLine'
    <2>1. safe' \in 0..Len(items') /\ tail' \in 0..safe'
      BY <1>2, <1>4, <1>5, SMTT(30)
    <2>2. cut' \in BOOLEAN /\ up' \in BOOLEAN /\ undone' \in BOOLEAN /\ misled' \in BOOLEAN
      BY <1>3 DEF IInv, HistoryIsLine
    <2> QED BY <1>4, <2>1, <2>2 DEF HistoryIsLine
  <1>7. \A v \in Versions' : VersionOk(v)'
    <2> SUFFICES ASSUME NEW v \in Versions PROVE On(v.root)' /\ v.id <= safe'
      BY KeepVersions DEF IInv
    <2>1. On(v.root) /\ v.id = Depth[v.root] /\ v.id <= safe /\ v.id <= n
      BY <1>1 DEF IInv, VersionOk
    <2>2. v.id \in Nat
      BY <2>1, AtSelf DEF On
    <2> QED BY <1>2, <1>4, <1>5, <2>1, <2>2, SMT
  <1>8. JournalOk'
    <2> SUFFICES ASSUME kv.journal # None, ~cut'
                 PROVE  /\ ~cut /\ (On(kv.journal.root) => On(kv.journal.root)')
                        /\ (kv.journal.id <= safe => kv.journal.id <= safe')
      BY KeepJournal DEF IInv
    <2>1. PICK j : j = kv.journal
      OBVIOUS
    <2>2. ~cut /\ ~(n < j.id)
      BY <1>3, <2>1
    <2>3. j.id = Depth[j.root] /\ j.id \in Nat
      BY <2>1, AtSelf DEF IInv, JournalOk
    <2>4. Depth[j.root] <= n /\ j.id <= n
      BY <1>2, <2>2, <2>3, SMT
    <2>5. On(j.root) => On(j.root)'
      BY <1>4, <2>4
    <2>6. j.id <= safe => j.id <= safe'
      BY <1>5, <2>3, <2>4
    <2> QED BY <2>1, <2>2, <2>5, <2>6
  <1>9. BuffersOk'
    <2>1. On(base.root)'
      BY <1>2, <1>2a, <1>4, SMT
    <2>2. Buffered => frozen.id <= n /\ frozen.id \in Nat
      BY <1>1, FrozenFacts
    <2>4. frozen.phase = "synced" => frozen.id <= safe'
      <3>1. frozen.phase = "synced" => Buffered /\ frozen.id <= safe
        BY DEF IInv, BuffersOk, Buffered
      <3> QED BY <1>5, <2>2, <3>1
    <2> QED BY <2>1, <2>4, KeepBuffers DEF IInv
  <1>10. JobOk'
    <2>1. Len(items') = base'.id
      BY <1>1, <1>4
    <2> QED BY <2>1, SameLayers, NoJobOk
  <1>11. DownOk' /\ IdsStored'
    <2>1. job'.pc # "merge"
      BY DEF NoJob
    <2> QED BY <2>1 DEF IInv, DownOk, IdsStored, Stored
  <1>12. TailOk'
    <2>1. tail <= kv.id => tail' <= kv.id
      BY <1>2, SMT
    <2> QED BY <2>1 DEF IInv, TailOk
  <1> QED BY <1>12, <1>6, <1>7, <1>8, <1>9, <1>10, <1>11 DEF IInv

\* The truncation of the histories in Recover preserves the invariant.
LEMMA FinishRecoverInv == ASSUME IInv, FinishRecover PROVE IInv'
  <1>1. /\ up /\ job.pc = "cut" /\ LayersOk /\ \A v \in Versions : v.id <= base.id
        /\ CutHistory(base.id) /\ job' = NoJob
        /\ UNCHANGED <<kv, older, tail, up, base, frozen, layers, undone, misled>>
        /\ tail <= base.id /\ job.op # "open" /\ job.pc # "merge"
    BY DEF FinishRecover, Running, IInv, JobOk, tree
  <1>2. tail' \in Nat /\ tail' <= tail /\ tail' <= base.id /\ base.id <= Len(items)
    BY <1>1, BaseFacts, SMT
  <1> QED BY <1>1, <1>2, CutInv

\* The histories reach the disk layer, or a start fails for one of the two reasons.
LEMMA RepairInv == ASSUME IInv, Repair PROVE IInv'
  <1>1. /\ up /\ job.op = "open" /\ job.pc = "repair" /\ LayersOk /\ older = {} /\ ~Buffered
        /\ UNCHANGED <<kv, older, up, base, frozen, layers, undone, misled>>
    BY DEF Repair, IInv, JobOk, tree
  <1>2. /\ tail \in Nat /\ kv.id \in Nat /\ base.id \in Nat /\ kv.id <= base.id
        /\ Len(items) \in Nat
    BY <1>1, BaseFacts
  <1>3. \A v \in Versions : v.id <= base.id
    BY <1>1, <1>2 DEF Versions
  <1>4. CASE base.id = 0
    <2>1. CutHistory(base.id) /\ job' = NoJob /\ tail' = 0
      BY <1>4 DEF Repair
    <2>2. tail' \in Nat /\ tail' <= tail /\ tail' <= base.id /\ base.id <= Len(items)
      BY <1>2, <1>4, <2>1, SMT
    <2> QED BY <1>1, <1>3, <2>1, <2>2, CutInv
  <1>5. CASE base.id # 0 /\ tail <= base.id /\ base.id <= Len(items)
    <2>1. CutHistory(base.id) /\ job' = NoJob /\ tail' = tail
      BY <1>5 DEF Repair
    <2>2. tail' \in Nat /\ tail' <= tail /\ tail' <= base.id
      BY <1>2, <1>5, <2>1, SMT
    <2> QED BY <1>1, <1>3, <1>5, <2>1, <2>2, CutInv
  <1>6. CASE base.id # 0 /\ ~(tail <= base.id /\ base.id <= Len(items))
    <2>1. job' = [job EXCEPT !.pc = "crit"] /\ UNCHANGED <<items, tail, safe, cut>>
      BY <1>6 DEF Repair
    <2>2. undone \/ misled
      <3> SUFFICES ASSUME ~misled PROVE undone
        OBVIOUS
      <3>1. base.id <= Len(items)
        BY DEF IInv, BuffersOk, On
      <3>2. ~(tail <= kv.id)
        BY <1>2, <1>6, <3>1, SMT
      <3> QED BY <3>2 DEF IInv, TailOk
    <2>3. /\ job' = [op |-> job.op, todo |-> job.todo, top |-> job.top, pc |-> "crit",
                     old |-> job.old, flush |-> job.flush]
      BY <2>1 DEF IInv, JobOk
    <2>4. job'.op = "open" /\ job'.pc = "crit" /\ job'.todo = job.todo
      BY <1>1, <2>3
    <2>5. HistoryIsLine' /\ JournalOk' /\ BuffersOk' /\ \A v \in Versions' : VersionOk(v)'
      BY <1>1, <2>1, <2>4, SameHistory, SameJournal, SameBuffers, SameVersions DEF IInv
    <2>6. LayersOk' /\ ~Buffered' /\ older' = {} /\ up'
      BY <1>1, SameLayers DEF Buffered
    <2>7. OpensAgain'
      BY <1>1, <2>2, SMT DEF OpensAgain
    <2>8. JobOk'
      <3>1. job' = [op |-> job'.op, todo |-> job'.todo, top |-> job'.top, pc |-> job'.pc,
                    old |-> job'.old, flush |-> job'.flush]
        BY <2>3
      <3>2. Consecutive(job'.todo) /\ layers' \subseteq Root
        BY <1>1, <2>4 DEF IInv, JobOk, LayersOk
      <3> QED BY <2>4, <2>6, <2>7, <3>1, <3>2 DEF JobOk
    <2>9. DownOk' /\ IdsStored' /\ TailOk'
      BY <1>1, <2>1, <2>4 DEF IInv, DownOk, IdsStored, Stored, TailOk
    <2> QED BY <2>5, <2>8, <2>9 DEF IInv
  <1> QED BY <1>4, <1>5, <1>6

-----------------------------------------------------------------------------
(* Readers leave what the invariant is about alone.                        *)

\* What the invariant does not mention may change.
LEMMA StutterInv ==
    ASSUME IInv, UNCHANGED <<kv, older, items, tail, safe, up, base, frozen, layers, job, cut, undone, misled>>
    PROVE  IInv'
  <1>1. HistoryIsLine' /\ JournalOk' /\ BuffersOk' /\ \A v \in Versions' : VersionOk(v)'
    BY SameHistory, SameJournal, SameBuffers, SameVersions DEF IInv
  <1>2. JobOk'
    <2>1. CASE job.op = "open"
      BY <2>1, SameLayers DEF IInv, JobOk, Buffered, OpensAgain
    <2>2. CASE job.op # "open"
      BY <2>2, KeepJob DEF IInv, JobOk, Versions
    <2> QED BY <2>1, <2>2
  <1>3. DownOk' /\ IdsStored' /\ TailOk'
    BY DEF IInv, DownOk, IdsStored, Stored, Bottom, TailOk
  <1> QED BY <1>1, <1>2, <1>3 DEF IInv

\* No step of a reader touches what the invariant is about.
LEMMA ReaderInv ==
    ASSUME IInv, ReaderStep \/ \E r \in Root, k \in Key, flat \in BOOLEAN : OpenReader(r, k, flat)
    PROVE  IInv'
  <1>1. UNCHANGED <<kv, older, histories, base, frozen, tree, job, past>>
    BY DEF ReaderStep, OpenReader, LookupLayer, ReadBase, WalkLayers, LoadValue, FillCache, CloseReader
  <1>2. UNCHANGED <<kv, older, items, tail, safe, up, base, frozen, layers, job, cut, undone, misled>>
    BY <1>1 DEF histories, tree, past
  <1> QED BY <1>2, StutterInv

-----------------------------------------------------------------------------
(* Stops, failures and starts.                                             *)

\* The process is gone: what is on disk has to be in order.
LEMMA DownInv ==
    ASSUME Forget, older' = {}, HistoryIsLine', VersionOk(kv)', JournalOk', TailOk'
    PROVE  IInv'
  <1>1. /\ up' = FALSE /\ layers' = {} /\ job' = NoJob /\ frozen' = NotFrozen
        /\ base' = [root |-> Genesis, id |-> 0, buf |-> Nothing, layers |-> 0]
    BY DEF Forget, EmptyTree
  <1>2. Versions' = {kv'}
    BY DEF Versions
  <1>3. base'.root = Genesis /\ base'.id = 0 /\ base'.layers = 0 /\ base'.buf = Nothing
    BY <1>1
  <1>4. /\ frozen' = [phase |-> "none", buf |-> Nothing, layers |-> 0, id |-> 0, root |-> None]
        /\ frozen'.phase = "none" /\ frozen'.layers = 0 /\ ~Buffered'
    BY <1>1 DEF NotFrozen, Buffered
  <1>5. On(Genesis)' /\ Depth[Genesis] = 0
    <2>1. Genesis \in Root /\ Depth[Genesis] = 0
      BY PathDBAssumption, AtParent
    <2>2. items' \in Seq(Root) /\ Len(items') \in Nat
      BY SMT DEF HistoryIsLine
    <2>3. Newest' \in Root /\ 0 <= Len(items')
      BY <2>1, <2>2, SMT DEF Newest
    <2>4. At(Newest', 0) = Genesis
      BY <2>3, AtZero
    <2> QED BY <2>1, <2>3, <2>4 DEF On
  <1>6. BuffersOk'
    <2>1. /\ base' = [root |-> base'.root, id |-> base'.id, buf |-> base'.buf, layers |-> base'.layers]
          /\ frozen' = [phase |-> frozen'.phase, buf |-> frozen'.buf, layers |-> frozen'.layers,
                        id |-> frozen'.id, root |-> frozen'.root]
      BY <1>1, <1>4
    <2>2. base'.layers \in Nat /\ frozen'.layers \in Nat
      BY <1>3, <1>4, SMT
    <2>3. On(base.root)' /\ base'.root \in Root
      BY <1>3, <1>5 DEF On
    <2> QED BY <1>1, <1>3, <1>4, <1>5, <2>1, <2>2, <2>3 DEF BuffersOk
  <1>7. JobOk'
    <2>1. LayersOk'
      BY <1>1 DEF LayersOk
    <2> QED BY <1>1, <2>1, NoJobOk
  <1>8. DownOk' /\ IdsStored'
    BY <1>1, <1>3 DEF DownOk, IdsStored
  <1> QED BY <1>2, <1>6, <1>7, <1>8 DEF IInv

\* Without a sync, what is kept of the key-value store still fits the histories.
LEMMA CrashInv == ASSUME IInv, Crash PROVE IInv'
  <1>1. /\ up /\ Forget /\ older' = {} /\ up' = FALSE
        /\ UNCHANGED <<items, tail, safe, cut, misled>>
    BY DEF Crash, Forget
  <1>2. PICK v \in Versions : kv' = v /\ undone' = (undone \/ v.id < tail)
    BY DEF Crash, Versions
  <1>3. VersionOk(v)
    BY DEF IInv
  <1>4. \A r : On(r)' <=> On(r)
    BY <1>1, SameLine
  <1>5. HistoryIsLine'
    BY <1>1, <1>2, SameLine DEF IInv, HistoryIsLine
  <1>6. VersionOk(kv)'
    BY <1>1, <1>2, <1>3, <1>4 DEF VersionOk, Stored
  <1>7. JournalOk'
    <2>1. kv'.journal = kv.journal
      BY <1>2, <1>3 DEF VersionOk
    <2> QED BY <1>1, <1>4, <2>1 DEF IInv, JournalOk, IsAncestor
  <1>8. TailOk'
    <2>1. v.id \in Nat /\ tail \in Nat
      BY <1>3, BaseFacts, AtSelf DEF VersionOk, On
    <2>2. v.id < tail \/ tail <= v.id
      BY <2>1, SMT
    <2> QED BY <1>1, <1>2, <2>2 DEF TailOk
  <1> QED BY <1>1, <1>5, <1>6, <1>7, <1>8, DownInv

\* Journal and Close preserve the invariant.
LEMMA StopInv == ASSUME IInv, NEW r \in Root, Stop(r) PROVE IInv'
  <1> DEFINE journaled == r = base.root \/ ptr[Last(Path(r))] = "disk"
  <1>1. /\ up /\ job.op = "none" /\ job.pc = "" /\ LayersOk /\ r \in layers \cup {base.root}
        /\ kv' = IF journaled THEN [kv EXCEPT !.journal = JournalOf(r)] ELSE kv
        /\ cut' = (cut /\ ~journaled)
        /\ older' = {} /\ safe' = Len(items) /\ Forget /\ UNCHANGED <<items, tail, undone, misled>>
    BY DEF Stop, Running, IInv, JobOk
  <1> HIDE DEF journaled
  <1>1a. safe' = Len(items)
    BY <1>1
  <1>2. /\ base.root \in Root /\ base.id = Depth[base.root] /\ base.id \in Nat
        /\ base.id <= Len(items) /\ VersionOk(kv) /\ Len(items) \in Nat /\ safe <= Len(items)
        /\ kv.id \in Nat /\ safe \in Nat /\ tail \in Nat /\ tail <= safe /\ kv.id <= safe
        /\ kv.id = Depth[kv.root] /\ kv.root \in Root
    BY <1>1, BaseFacts
  <1>2a. kv.id <= Len(items)
    BY <1>2, SMT
  <1>3. On(base.root) /\ Stored(kv, base.root) /\ IsAncestor(kv.root, base.root)
    BY <1>1, BaseFacts DEF IInv, IdsStored
  <1>4. \A s : On(s)' <=> On(s)
    BY <1>1, SameLine
  <1>5. HistoryIsLine'
    <2>1. up' = FALSE /\ cut' \in BOOLEAN
      BY <1>1 DEF Forget
    <2>2. safe' \in 0..Len(items) /\ tail \in 0..safe'
      BY <1>1a, <1>2, SMT
    <2> QED BY <1>1, <2>1, <2>2, SameLine DEF IInv, HistoryIsLine
  <1>6. CASE journaled
    <2>1. kv' = [data |-> kv.data, root |-> kv.root, id |-> kv.id, ids |-> kv.ids,
                 journal |-> JournalOf(r)]
      BY <1>1, <1>2, <1>6 DEF VersionOk
    <2>2. /\ kv'.data = kv.data /\ kv'.root = kv.root /\ kv'.id = kv.id /\ kv'.ids = kv.ids
          /\ kv'.journal = JournalOf(r)
      BY <2>1
    <2>3. /\ JournalOf(r).root = base.root /\ JournalOf(r).id = base.id /\ JournalOf(r).head = r
          /\ JournalOf(r).disk = kv.root
      BY DEF JournalOf
    <2>4. VersionOk(kv)'
      BY <1>1, <1>2, <1>2a, <1>3, <1>4, <2>1, <2>2, <2>3 DEF VersionOk, Stored
    <2>5. base.id <= Depth[r] /\ At(r, base.id) = base.root
      <3>1. CASE r = base.root
        BY <1>2, <3>1, AtSelf, SMT
      <3>2. CASE r \in layers
        <4>1. Depth[r] > base.id /\ At(r, base.id) = base.root /\ Depth[r] \in Nat
          BY <1>1, <3>2, AtSelf DEF LayersOk
        <4> QED BY <1>2, <4>1, SMT
      <3> QED BY <1>1, <3>1, <3>2
    <2>6. JournalOk'
      BY <1>1, <1>2, <1>3, <1>4, <2>2, <2>3, <2>5 DEF JournalOk
    <2>7. TailOk'
      BY <1>1, <2>2 DEF IInv, TailOk
    <2> QED BY <1>1, <1>5, <2>4, <2>6, <2>7, DownInv
  <1>7. CASE ~journaled
    <2>1. kv' = kv /\ cut' = cut
      BY <1>1, <1>7 DEF IInv, HistoryIsLine
    <2>2. VersionOk(kv)'
      BY <1>1, <1>2, <1>2a, <1>4, <2>1 DEF VersionOk, Stored
    <2>3. JournalOk'
      <3>1. kv.journal # None => kv.journal.id \in Nat
        BY AtSelf DEF IInv, JournalOk
      <3>2. kv.journal # None /\ kv.journal.id <= safe => kv.journal.id <= safe'
        BY <1>1a, <1>2, <3>1, SMT
      <3> QED BY <1>4, <2>1, <3>2, KeepJournal DEF IInv
    <2>4. TailOk'
      BY <1>1, <2>1 DEF IInv, TailOk
    <2> QED BY <1>1, <1>5, <2>2, <2>3, <2>4, DownInv
  <1> QED BY <1>6, <1>7

\* loadLayers and the opening of the histories preserve the invariant.
LEMMA OpenInv == ASSUME IInv, Open PROVE IInv'
  <1>1. /\ ~up /\ up' = TRUE /\ UNCHANGED <<kv, older, safe, frozen, cut, undone>>
        /\ older = {} /\ job = NoJob /\ layers = {} /\ frozen = NotFrozen
        /\ job' = [NoJob EXCEPT !.op = "open", !.pc = "repair"]
    BY DEF Open, IInv, DownOk
  <1>2. PICK n \in safe..Len(items), m \in 0..tail : items' = SubSeq(items, 1, n) /\ tail' = m
    BY DEF Open
  <1>3. /\ Len(items) \in Nat /\ safe \in Nat /\ tail \in Nat /\ n \in 0..Len(items) /\ safe <= n
        /\ kv.root \in Root /\ kv.id = Depth[kv.root] /\ kv.id \in Nat /\ kv.id <= safe
        /\ tail' \in Nat /\ tail' <= tail /\ tail <= safe /\ VersionOk(kv)
    BY <1>2, BaseFacts, SMT
  <1>3a. misled' \in BOOLEAN /\ (misled => misled')
    BY DEF Open, IInv, HistoryIsLine
  <1>4. /\ items' \in Seq(Root) /\ Len(items') = n
        /\ misled' \/ IsLine'
        /\ \A r : On(r) /\ Depth[r] <= n => On(r)'
    BY <1>2, <1>3, <1>3a, CutLine DEF IInv
  <1>5. HistoryIsLine'
    <2>1. safe' \in 0..Len(items') /\ tail' \in 0..safe'
      BY <1>1, <1>3, <1>4, SMTT(30)
    <2> QED BY <1>1, <1>3a, <1>4, <2>1 DEF IInv, HistoryIsLine
  <1>6. \A v \in Versions' : VersionOk(v)'
    <2> SUFFICES ASSUME NEW v \in Versions PROVE On(v.root)' /\ v.id <= safe'
      BY <1>1, KeepVersions DEF IInv
    <2>1. On(v.root) /\ v.id = Depth[v.root] /\ v.id <= safe
      BY DEF IInv, VersionOk
    <2>2. v.id \in Nat
      BY <2>1, AtSelf DEF On
    <2> QED BY <1>1, <1>3, <1>4, <2>1, <2>2, SMT
  <1>7. PICK j : j = kv.journal
    OBVIOUS
  <1>8. j # None => /\ j.root \in Root /\ j.id = Depth[j.root] /\ j.id \in Nat
                    /\ j.head \in Root /\ j.id <= Depth[j.head] /\ At(j.head, j.id) = j.root /\ IsAncestor(j.disk, j.root)
                    /\ ~cut => On(j.root) /\ On(j.root)' /\ j.id <= safe
    <2>1. j # None => /\ j.root \in Root /\ j.id = Depth[j.root] /\ j.id \in Nat
                      /\ j.head \in Root /\ j.id <= Depth[j.head] /\ At(j.head, j.id) = j.root /\ IsAncestor(j.disk, j.root)
                      /\ ~cut => On(j.root) /\ j.id <= safe
      BY <1>7, AtSelf DEF IInv, JournalOk
    <2>2. j # None /\ ~cut => Depth[j.root] <= n
      BY <1>3, <2>1, SMT
    <2> QED BY <1>4, <2>1, <2>2
  <1>9. JournalOk'
    BY <1>1, <1>7, <1>8, KeepJournal DEF IInv
  <1>10. /\ job' = [op |-> "open", todo |-> <<>>, top |-> None, pc |-> "repair", old |-> None,
                   flush |-> FALSE]
         /\ frozen' = [phase |-> "none", buf |-> Nothing, layers |-> 0, id |-> 0, root |-> None]
    BY <1>1 DEF NoJob, NotFrozen
  <1>11. /\ job'.op = "open" /\ job'.pc = "repair" /\ job'.todo = <<>> /\ ~Buffered'
         /\ frozen'.phase = "none" /\ frozen'.layers = 0
    BY <1>10 DEF Buffered
  <1>12. Consecutive(<<>>)
    <2>1. <<>> \in Seq(Root) /\ Len(<<>>) = 0 /\ 1..(0 - 1) = {}
      BY SMT
    <2> QED BY <2>1 DEF Consecutive
  <1> DEFINE load == j # None /\ j.disk = kv.root /\ kv.id <= j.id
  <1>13. /\ On(base.root)' \/ misled'
         /\ base'.root \in Root /\ IsAncestor(kv.root, base'.root)
         /\ base'.id = Depth[base'.root] /\ LayersOk' /\ Stored(kv, base'.root)
         /\ base'.layers \in Nat /\ base'.id = kv.id + base'.layers
         /\ base' = [root |-> base'.root, id |-> base'.id, buf |-> base'.buf, layers |-> base'.layers]
    <2>1. CASE load
      <3>1. /\ base' = [root |-> j.root, id |-> j.id, buf |-> j.buf, layers |-> j.id - kv.id]
            /\ layers' = {r \in Ancestors[j.head] : Depth[r] > j.id}
            /\ misled' = (misled \/ cut)
        BY <1>7, <2>1 DEF Open, LoadDiskLayer
      <3>2. cut => misled'
        BY <3>1
      <3>3. /\ base'.root = j.root /\ base'.id = j.id /\ base'.buf = j.buf
            /\ base'.layers = j.id - kv.id
        BY <3>1
      <3>4. base'.layers \in Nat /\ base'.id = kv.id + base'.layers
        BY <1>3, <1>8, <2>1, <3>3, SMT
      <3>5. LayersOk'
        <4> SUFFICES ASSUME NEW r \in layers'
                     PROVE  r \in Root /\ Depth[r] > j.id /\ At(r, j.id) = j.root
          BY <3>3 DEF LayersOk
        <4>1. r \in Ancestors[j.head] /\ Depth[r] > j.id
          BY <3>1
        <4>2. r \in Root /\ Depth[r] \in 0..Depth[j.head] /\ At(j.head, Depth[r]) = r
          BY <1>8, <2>1, <4>1, AtAncestor
        <4>3. j.id \in 0..Depth[r]
          BY <1>8, <2>1, <4>1, <4>2, SMT
        <4>4. At(At(j.head, Depth[r]), j.id) = At(j.head, j.id)
          BY <1>8, <2>1, <4>2, <4>3, AtAt
        <4> QED BY <1>8, <2>1, <4>1, <4>2, <4>4
      <3>6. Stored(kv, j.root)
        BY <1>3, <1>7, <2>1 DEF VersionOk
      <3>7. On(base.root)' \/ misled'
        <4>1. CASE cut
          BY <3>2, <4>1
        <4>2. CASE ~cut
          <5>1. On(j.root)'
            BY <1>8, <2>1, <4>2
          <5> QED BY <3>3, <5>1 DEF On
        <4> QED BY <4>1, <4>2
      <3>8. IsAncestor(kv.root, base'.root)
        BY <1>8, <2>1, <3>3
      <3> QED BY <1>8, <2>1, <3>1, <3>3, <3>4, <3>5, <3>6, <3>7, <3>8
    <2>2. CASE ~load
      <3>1. /\ base' = [root |-> kv.root, id |-> kv.id, buf |-> Nothing, layers |-> 0]
            /\ layers' = {}
        BY <1>1, <1>7, <2>2 DEF Open, tree
      <3>2. base'.root = kv.root /\ base'.id = kv.id /\ base'.buf = Nothing /\ base'.layers = 0
        BY <3>1
      <3>3. On(kv.root) /\ Stored(kv, kv.root) /\ Depth[kv.root] <= n
        BY <1>3, SMT DEF VersionOk
      <3>4. On(base.root)'
        BY <1>4, <3>2, <3>3
      <3>4a. IsAncestor(kv.root, base'.root)
        BY <1>3, <3>2, OwnAncestor
      <3>5. LayersOk'
        BY <3>1 DEF LayersOk
      <3>6. base'.layers \in Nat /\ base'.id = kv.id + base'.layers
        BY <1>3, <3>2, SMT
      <3> QED BY <1>3, <3>1, <3>2, <3>3, <3>4, <3>4a, <3>5, <3>6
    <2> QED BY <2>1, <2>2
  <1> HIDE DEF load
  <1>14. BuffersOk'
    <2>1. base'.id = kv'.id + base'.layers + 0
      BY <1>1, <1>3, <1>13, SMT
    <2>2. frozen' = [phase |-> frozen'.phase, buf |-> frozen'.buf, layers |-> frozen'.layers,
                     id |-> frozen'.id, root |-> frozen'.root] /\ frozen'.layers \in Nat
      BY <1>10, <1>11, SMT
    <2>3. kv' = kv
      BY <1>1
    <2> QED BY <1>11, <1>13, <2>1, <2>2, <2>3 DEF BuffersOk
  <1>15. JobOk'
    <2>1. OpensAgain'
      BY <1>11 DEF OpensAgain
    <2> QED BY <1>1, <1>10, <1>11, <1>12, <1>13, <2>1 DEF JobOk, LayersOk
  <1>16. DownOk' /\ IdsStored'
    BY <1>1, <1>11, <1>13 DEF DownOk, IdsStored, Stored
  <1>17. TailOk'
    <2>1. tail <= kv.id => tail' <= kv.id
      BY <1>3, BaseFacts, SMT
    <2> QED BY <1>1, <2>1 DEF IInv, TailOk
  <1> QED BY <1>17, <1>5, <1>6, <1>9, <1>14, <1>15, <1>16 DEF IInv
=============================================================================
