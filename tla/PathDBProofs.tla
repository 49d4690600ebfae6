---------------------------- MODULE PathDBProofs ----------------------------
(***************************************************************************)
(* What is proved of the path database: in which cases alone it cannot     *)
(* start again or lacks a history, that it counts its transitions, holds   *)
(* the states it says it holds, gives its readers the values of their      *)
(* state, and uses the ancient store of its histories as that allows.      *)
(***************************************************************************)
EXTENDS PathDBSteps, PathDBTree, PathDBReads, PathDBStore

\* Zenon is the prover of a leaf that names none: it is enough for first-order steps,
\* and the leaves that need arithmetic, records or sequences name SMT.
USE Zenon

-----------------------------------------------------------------------------
(* The invariants.                                                         *)

\* A new database satisfies the invariant.
LEMMA InitInv == Init => IInv
  <1> SUFFICES ASSUME Init PROVE IInv
    OBVIOUS
  <1>1. Genesis \in Root /\ Depth[Genesis] = 0 /\ At(Genesis, 0) = Genesis
    BY PathDBAssumption, AtParent, AtZero
  <1>2. /\ kv = [data |-> StateOf[Genesis], root |-> Genesis, id |-> 0, ids |-> {}, journal |-> None]
        /\ older = {} /\ items = <<>> /\ tail = 0 /\ safe = 0 /\ up = FALSE
        /\ base = [root |-> Genesis, id |-> 0, buf |-> Nothing, layers |-> 0]
        /\ frozen = NotFrozen /\ layers = {} /\ job = NoJob
        /\ cut = FALSE /\ undone = FALSE /\ misled = FALSE
    BY DEF Init
  <1>3. /\ kv.data = StateOf[Genesis] /\ kv.root = Genesis /\ kv.id = 0 /\ kv.ids = {}
        /\ kv.journal = None /\ base.root = Genesis /\ base.id = 0 /\ base.buf = Nothing
        /\ base.layers = 0
    BY <1>2
  <1>4. /\ Newest = Genesis /\ Len(items) = 0 /\ items \in Seq(Root) /\ On(Genesis)
        /\ IsAncestor(Genesis, Genesis)
    BY <1>1, <1>2, OwnAncestor, SMTT(30) DEF Newest, On
  <1>5. HistoryIsLine
    <2>1. safe \in 0..Len(items) /\ tail \in 0..safe /\ 1..Len(items) = {}
      BY <1>2, <1>4, SMT
    <2>2. up \in BOOLEAN /\ cut \in BOOLEAN /\ undone \in BOOLEAN /\ misled \in BOOLEAN
      BY <1>2
    <2> QED BY <1>1, <1>4, <2>1, <2>2 DEF HistoryIsLine, IsLine
  <1>6. \A v \in Versions : VersionOk(v)
    BY <1>1, <1>2, <1>3, <1>4, SMTT(30) DEF Versions, VersionOk, Stored
  <1>7. JournalOk
    BY <1>3 DEF JournalOk
  <1>8. BuffersOk
    BY <1>1, <1>2, <1>3, <1>4 DEF BuffersOk, Buffered, NotFrozen
  <1>9. JobOk
    <2>1. Consecutive(<<>>)
      <3>1. <<>> \in Seq(Root) /\ Len(<<>>) = 0 /\ 1..(0 - 1) = {}
        BY SMT
      <3> QED BY <3>1 DEF Consecutive
    <2>2. LayersOk
      BY <1>2 DEF LayersOk
    <2> QED BY <1>2, <2>1, <2>2 DEF JobOk, NoJob
  <1>10. DownOk /\ IdsStored
    BY <1>2, <1>3 DEF DownOk, IdsStored
  <1>11. TailOk
    BY <1>2, <1>3, SMT DEF TailOk
  <1> QED BY <1>5, <1>6, <1>7, <1>8, <1>9, <1>10, <1>11 DEF IInv

\* Every step preserves the invariant.
LEMMA NextInv == ASSUME IInv, [Next]_vars PROVE IInv'
  <1>1. CASE Operation
    <2>1. ASSUME NEW r \in Root, Update(r) PROVE IInv'
      BY <2>1, UpdateInv
    <2>2. ASSUME NEW r \in Root, Commit(r) PROVE IInv'
      BY <2>2, CommitInv
    <2>3. ASSUME NEW r \in Root, Recover(r) PROVE IInv'
      BY <2>3, RecoverInv
    <2>4. ASSUME NEW r \in Root, Stop(r) PROVE IInv'
      BY <2>4, StopInv
    <2> QED BY <1>1, <2>1, <2>2, <2>3, <2>4, ReaderInv DEF Operation
  <1>2. CASE OperationStep
    BY <1>2, WriteHistoryInv, PruneHistoryInv, MergeLayerInv, FinishCapInv, RevertInv,
       SyncRecoveredInv, FinishRecoverInv DEF OperationStep
  <1>3. CASE FlushStep
    BY <1>3, FlushSyncInv, FlushWriteInv DEF FlushStep
  <1>4. CASE ReaderStep
    BY <1>4, ReaderInv
  <1>5. CASE StartStep
    BY <1>5, OpenInv, RepairInv DEF StartStep
  <1>6. CASE Crash
    BY <1>6, CrashInv
  <1>7. CASE UNCHANGED vars
    BY <1>7, StutterInv DEF vars, histories, tree, past
  <1> QED BY <1>1, <1>2, <1>3, <1>4, <1>5, <1>6, <1>7 DEF Next

\* The contents of a database that was never opened.
LEMMA InitContent == Init => CInv
  <1> SUFFICES ASSUME Init PROVE CInv
    OBVIOUS
  <1>1. /\ kv = [data |-> StateOf[Genesis], root |-> Genesis, id |-> 0, ids |-> {}, journal |-> None]
        /\ older = {} /\ ~up /\ frozen = NotFrozen /\ cache = Nothing
        /\ base = [root |-> Genesis, id |-> 0, buf |-> Nothing, layers |-> 0]
        /\ layers = {} /\ ptr = [r \in Root |-> "stale"] /\ descendants = {} /\ lookup = NoLookup
        /\ job = NoJob /\ rd = NoReader
    BY DEF Init
  <1>2. BuffersHold /\ JournalHolds
    <2>1. Versions = {kv} /\ kv.data = StateOf[kv.root] /\ kv.journal = None
      BY <1>1 DEF Versions
    <2>2. base.buf = Nothing /\ frozen.buf = Nothing /\ ~Buffered
      BY <1>1 DEF NotFrozen, Buffered
    <2> QED BY <1>1, <2>1, <2>2, NothingHolds DEF BuffersHold, JournalHolds
  <1>3. TreeOk
    <2>1. \A k \in Key : lookup[k] = <<>>
      BY <1>1 DEF NoLookup
    <2>2. <<>> \in Seq(Root) /\ Len(<<>>) = 0
      BY SMT
    <2>3. \A k \in Key : Lists(lookup[k], k, layers)
      <3>1. \A k : Lists(<<>>, k, {})
        BY <2>2, SMT DEF Lists
      <3> QED BY <1>1, <2>1, <3>1
    <2>4. LookupOk
      BY <1>1, <2>2, <2>3 DEF LookupOk, NoLookup
    <2>5. LayersClosed /\ DescendantsOk /\ PtrOk
      BY <1>1 DEF LayersClosed, DescendantsOk, PtrOk
    <2>6. FlatteningOk
      BY <1>1 DEF FlatteningOk, Flattening, NoJob
    <2> QED BY <2>4, <2>5, <2>6 DEF TreeOk
  <1>4. ReaderOk
    BY <1>1 DEF NoReader, ReaderOk, DiskRead, ReadsRight
  <1> QED BY <1>2, <1>3, <1>4 DEF CInv

\* Every step keeps the contents, the tree and the readers in order.
LEMMA NextContent == ASSUME IInv, CInv, [Next]_vars PROVE CInv'
  BY ContentInv, TreeInv, ReadersInv DEF CInv

\* The invariant holds in every behaviour of pathdb, those with outdated journals and
\* with power failures after a pruning included.
THEOREM Invariant == Spec => []IInv
  <1>1. IInv /\ [Next]_vars => IInv'
    BY NextInv
  <1> QED BY <1>1, InitInv, PTL DEF Spec

\* Next to it, the contents of the buffers, the indexes of the layer tree and the
\* readers stay in order.
THEOREM Contents == Spec => [](IInv /\ CInv)
  <1>1. Init => IInv /\ CInv
    BY InitInv, InitContent
  <1>2. IInv /\ CInv /\ [Next]_vars => IInv' /\ CInv'
    BY NextInv, NextContent
  <1> QED BY <1>1, <1>2, PTL DEF Spec

-----------------------------------------------------------------------------
(* What follows.                                                           *)

\* repairHistory gives up in two cases only, wherever the node stopped or failed: a
\* power failure undid the flush that a pruning relied on, or the journal builds on
\* histories that a recovery cut.
THEOREM StartsAgain == Spec => []OpensAgain
  <1>1. IInv => OpensAgain
    <2>1. ASSUME IInv, job.pc = "crit" PROVE undone \/ misled
      BY <2>1 DEF IInv, JobOk, OpensAgain
    <2> QED BY <2>1 DEF OpensAgain
  <1> QED BY <1>1, Invariant, PTL

\* writeStateHistory leaves the histories above the persistent state, until a power
\* failure undoes a flush and with it what a pruning relied on.
THEOREM KeepsHistory == Spec => []PersistentHasHistory
  <1>1. IInv => PersistentHasHistory
    BY DEF IInv, TailOk, PersistentHasHistory
  <1> QED BY <1>1, Invariant, PTL

\* The ids of the persistent state, of the frozen and of the live buffer add up,
\* so that the id check of buffer.flush never fails.
THEOREM IdsCount == Spec => []IdsAligned
  <1>1. IInv => IdsAligned
    BY BaseFacts DEF IInv, BuffersOk, Buffered, IdsAligned
  <1> QED BY <1>1, Invariant, PTL

\* Between operations Recoverable accepts every state below the disk layer whose
\* histories were not pruned, unless a journal was loaded that outlived its histories.
THEOREM Recovers == Spec => []StatesRecoverable
  <1>1. ASSUME IInv, Running, job.op = "none", ~misled, NEW r \in Ancestors[base.root] \ {base.root},
               tail <= Depth[r]
        PROVE  Recoverable(r)
    <2>1. /\ base.root \in Root /\ base.id = Depth[base.root] /\ base.id \in Nat
          /\ base.id <= Len(items) /\ Len(items) \in Nat
          /\ Newest \in Root /\ Depth[Newest] = Len(items) /\ On(base.root)
      BY <1>1, BaseFacts, NewestFacts DEF IInv, Running
    <2>2. r \in Root /\ Depth[r] \in 0..Depth[base.root] /\ At(base.root, Depth[r]) = r
      BY <1>1, <2>1, AtAncestor
    <2>3. Depth[r] # base.id
      BY <1>1, <2>1, <2>2, AtSelf
    <2>4. Depth[r] \in Nat /\ Depth[r] < base.id
      BY <2>1, <2>2, <2>3, SMTT(30)
    <2>5. r \in kv.ids
      <3>1. Stored(kv, base.root)
        BY <1>1 DEF IInv, IdsStored, JobOk, Running
      <3>2. Depth[base.root] > 0
        BY <2>1, <2>4, SMTT(30)
      <3> QED BY <2>2, <3>1, <3>2 DEF Stored
    <2>6. At(Newest, Depth[r]) = r
      <3>1. IsAncestor(r, base.root)
        BY <2>2 DEF IsAncestor
      <3> QED BY <1>1, <2>1, <3>1, OnAncestor DEF IInv, On
    <2>7. ASSUME NEW i \in (Depth[r] + 1)..base.id
          PROVE  Parent[items[i]] = IF i = Depth[r] + 1 THEN r ELSE items[i - 1]
      <3>1. i \in 1..Len(items) /\ i \in 0..Depth[Newest] /\ i - 1 \in 0..i
        BY <2>1, <2>4, SMTT(30)
      <3>2. items[i] = At(Newest, i)
        BY <1>1, <3>1, NewestFacts DEF IInv
      <3>3. At(Newest, i) \in Root /\ Depth[At(Newest, i)] = i /\ At(At(Newest, i), i - 1) = At(Newest, i - 1)
        BY <2>1, <3>1, AtAt
      <3>4. Parent[At(Newest, i)] = At(At(Newest, i), i - 1)
        <4>1. At(Newest, i) # Genesis
          BY <3>1, <3>3, AtParent, SMTT(30)
        <4> QED BY <3>3, <4>1, AtParent
      <3>5. CASE i = Depth[r] + 1
        <4>1. i - 1 = Depth[r]
          BY <2>4, <3>5, SMTT(30)
        <4> QED BY <2>6, <3>2, <3>3, <3>4, <3>5, <4>1
      <3>6. CASE i # Depth[r] + 1
        <4>1. i - 1 \in 1..Len(items)
          BY <2>1, <2>4, <3>6, SMTT(30)
        <4>2. items[i - 1] = At(Newest, i - 1)
          BY <1>1, <4>1, NewestFacts DEF IInv
        <4> QED BY <3>2, <3>3, <3>4, <3>6, <4>2
      <3> QED BY <3>5, <3>6
    <2> QED BY <1>1, <2>1, <2>4, <2>5, <2>7 DEF Recoverable
  <1>2. IInv => StatesRecoverable
    BY <1>1 DEF StatesRecoverable
  <1> QED BY <1>2, Invariant, PTL

\* The disk holds the state it is said to hold, and the buffers over the clean
\* cache over the disk the state of the disk layer, through flushes in the
\* background, recoveries, stops and crashes.
THEOREM HoldsState == Spec => []DiskContent
  <1>1. IInv /\ CInv => DiskContent
    BY ContentHolds DEF CInv
  <1> QED BY <1>1, Contents, PTL

\* A reader gets the value of its state or fails as stale, whatever is committed,
\* flushed or recovered between the steps of its read.
THEOREM ReadsCorrect == Spec => []ReadsRight
  <1>1. IInv /\ CInv => ReadsRight
    BY DEF CInv, ReaderOk
  <1> QED BY <1>1, Contents, PTL

-----------------------------------------------------------------------------
(* The histories are used as the ancient store allows.                     *)

\* A part that ends before it starts is empty.
LEMMA SubSeqEmpty ==
    ASSUME NEW q, NEW m \in Int, NEW n \in Int, n < m
    PROVE  SubSeq(q, m, n) = <<>>
  BY SMT

\* Nothing is added by the empty sequence.
LEMMA ConcatEmptySeq ==
    ASSUME NEW S, NEW q \in Seq(S)
    PROVE  q \o <<>> = q
  BY SMT

\* Sequences of one length with the same elements are the same.
LEMMA SeqEqual ==
    ASSUME NEW S, NEW q \in Seq(S), NEW p \in Seq(S), Len(q) = Len(p),
           \A i \in 1..Len(q) : q[i] = p[i]
    PROVE  q = p
  BY SMT

\* What Min gives for two numbers.
LEMMA SmallerOf ==
    ASSUME NEW a \in Nat, NEW b \in Nat
    PROVE  Histories!Min({a, b}) = IF a < b THEN a ELSE b
  <1> DEFINE c == IF a < b THEN a ELSE b
  <1>1. c \in {a, b} /\ \A y \in {a, b} : c <= y
    BY SMT
  <1>2. \A x \in {a, b} : (\A y \in {a, b} : x <= y) => x = c
    BY SMT
  <1> QED BY <1>1, <1>2 DEF Histories!Min

\* Nothing is added to histories that stay the same.
LEMMA AddedNothing ==
    ASSUME HistoryIsLine, UNCHANGED items
    PROVE  items' = items \o Histories!Added
  <1>1. items \in Seq(Root) /\ Len(items) \in Nat
    BY SMT DEF HistoryIsLine
  <1>2. Histories!Added = <<>>
    BY <1>1, SubSeqEmpty, SMTT(30) DEF Histories!Added
  <1> QED BY <1>1, <1>2, ConcatEmptySeq

\* Cutting the histories down to the disk layer is a truncation of the ancient
\* store, or no step of it.
LEMMA CutIsTruncation ==
    ASSUME IInv, up, base.id <= Len(items), CutHistory(base.id), UNCHANGED <<tail, up>>
    PROVE  [Histories!Next]_(Histories!store)
  <1>1. PICK n : n = base.id
    OBVIOUS
  <1>2. /\ n \in 0..Len(items) /\ n \in Nat /\ safe \in Nat /\ Len(items) \in Nat
        /\ safe <= Len(items) /\ items \in Seq(Root)
    BY <1>1, BaseFacts, SMTT(30) DEF IInv, HistoryIsLine
  <1>3. items' = SubSeq(items, 1, n) /\ safe' = IF safe < n THEN safe ELSE n
    BY <1>1 DEF CutHistory
  <1>4. Len(items') = n
    BY <1>2, <1>3, SMTT(30)
  <1>5. CASE n < Len(items)
    <2>1. safe' = Histories!Min({safe, n})
      BY <1>2, <1>3, SmallerOf
    <2>2. Histories!TruncateHead(Len(items'))
      BY <1>3, <1>4, <1>5, <2>1 DEF Histories!TruncateHead
    <2> QED BY <2>2 DEF Histories!Next, Histories!Operate
  <1>6. CASE n = Len(items)
    <2>1. items' = items
      BY <1>2, <1>3, <1>6, SubSeqFull
    <2>2. safe' = safe
      BY <1>2, <1>3, <1>6, SMTT(30)
    <2> QED BY <2>1, <2>2 DEF Histories!store
  <1> QED BY <1>2, <1>5, <1>6, SMTT(30)

\* pathdb uses its histories only as the ancient store allows: every step of it
\* is an operation of AncientStore or leaves the store alone.
THEOREM AncientStoreUse == Spec => UsesAncientStore
  <1>1. Init => Histories!Init
    BY DEF Init, Histories!Init
  <1>2. ASSUME IInv, [Next]_vars PROVE [Histories!Next]_(Histories!store)
    <2>1. /\ tail \in Nat /\ kv.id \in Nat /\ safe \in Nat /\ Len(items) \in Nat
          /\ tail <= safe /\ kv.id <= safe /\ safe <= Len(items) /\ items \in Seq(Root)
          /\ HistoryIsLine /\ base.id \in Nat /\ (job.op # "open" => base.id <= Len(items))
      BY <1>2, BaseFacts DEF IInv, HistoryIsLine
    <2>2. CASE UNCHANGED histories
      BY <2>2 DEF histories, Histories!store
    <2>3. CASE WriteHistory /\ NextHistory
      <3>1. up /\ items' = Append(items, Bottom) /\ UNCHANGED <<tail, safe, up>> /\ Bottom \in Root
        BY <1>2, <2>3, BottomInTodo, SMTT(30) DEF WriteHistory, Running, IInv, JobOk
      <3>2. items' = items \o Histories!Added
        <4>1. /\ items' \in Seq(Root) /\ Len(items') = Len(items) + 1
              /\ items'[Len(items) + 1] = Bottom
          BY <2>1, <3>1, AppendProperties, SMTT(30)
        <4>2. Histories!Added = <<Bottom>>
          <5>1. Histories!Added = SubSeq(items', Len(items) + 1, Len(items) + 1)
            BY <4>1 DEF Histories!Added
          <5>2. /\ SubSeq(items', Len(items) + 1, Len(items) + 1) \in Seq(Root)
                /\ Len(SubSeq(items', Len(items) + 1, Len(items) + 1)) = 1
                /\ SubSeq(items', Len(items) + 1, Len(items) + 1)[1] = Bottom
            BY <2>1, <4>1, ElementOfSeq, SubSeqProperties, SMTT(30)
          <5>3. <<Bottom>> \in Seq(Root) /\ Len(<<Bottom>>) = 1 /\ <<Bottom>>[1] = Bottom
            BY <3>1, SMTT(30)
          <5>4. \A i \in 1..1 : i = 1
            BY SMT
          <5> HIDE DEF Histories!Added
          <5>5. \A i \in 1..1 : Histories!Added[i] = <<Bottom>>[i]
            BY <5>1, <5>2, <5>3, <5>4
          <5> QED BY <5>1, <5>2, <5>3, <5>5, SeqEqual
        <4> QED BY <2>1, <3>1, <4>2, SMTT(30)
      <3>3. Histories!Write(Histories!Added)
        BY <3>1, <3>2 DEF Histories!Write
      <3> QED BY <3>3, ZenonT(30) DEF Histories!Next, Histories!Operate
    <2>4. CASE PruneHistory /\ tail' # tail
      <3>1. up /\ UNCHANGED <<items, safe, up>> /\ tail < tail' /\ tail' <= safe
        <4>1. job.todo # <<>> /\ up
          BY <1>2, <2>4 DEF IInv, JobOk, PruneHistory, Running
        <4>2. Depth[Bottom] \in Nat /\ StateHistory \in Nat
          BY <1>2, <4>1, BottomInTodo, PathDBAssumption
        <4> DEFINE first == Depth[Bottom] - StateHistory + 1
                   due == StateHistory # 0 /\ Depth[Bottom] - tail > StateHistory
        <4>3. /\ UNCHANGED <<items, safe, up>>
              /\ IF due /\ ~NeedsFlush(first) THEN tail' = first - 1 ELSE tail' = tail
          BY <2>4 DEF PruneHistory
        <4>4. tail < tail' /\ tail' <= safe
          <5>1. due /\ ~NeedsFlush(first) /\ tail' = first - 1
            BY <2>4, <4>3
          <5>2. ~(kv.id < first)
            BY <5>1 DEF NeedsFlush
          <5> QED BY <2>1, <4>2, <5>1, <5>2, SMTT(30)
        <4> QED BY <4>1, <4>3, <4>4, ZenonT(30)
      <3>2. Histories!TruncateTail(tail')
        BY <3>1 DEF Histories!TruncateTail
      <3> QED BY <3>2 DEF Histories!Next, Histories!Operate
    <2>5. CASE FlushSync
      <3>1. up /\ UNCHANGED <<items, tail, up>> /\ (safe' = Len(items) \/ safe' = safe)
        BY <2>5 DEF FlushSync, Running
      <3>2. safe' \in safe..Len(items)
        BY <2>1, <3>1, SMTT(30)
      <3>3. Histories!Sync(safe')
        BY <3>1, <3>2 DEF Histories!Sync
      <3> QED BY <3>3 DEF Histories!Next, Histories!Operate
    <2>6. CASE FinishRecover
      BY <1>2, <2>1, <2>6, CutIsTruncation DEF FinishRecover, Running
    <2>7. CASE Repair
      <3>1. up /\ UNCHANGED up
        BY <1>2, <2>7 DEF Repair, IInv, JobOk
      <3>2. CASE base.id = 0
        <4>1. items' = SubSeq(items, 1, 0) /\ safe' = (IF safe < 0 THEN safe ELSE 0) /\ tail' = 0
          BY <2>7, <3>2 DEF Repair, CutHistory
        <4>2. items' = <<>> /\ safe' = 0
          BY <2>1, <4>1, SMTT(30)
        <4>3. Histories!Reset
          BY <3>1, <4>1, <4>2 DEF Histories!Reset
        <4> QED BY <4>3 DEF Histories!Next, Histories!Operate
      <3>3. CASE base.id # 0 /\ tail <= base.id /\ base.id <= Len(items)
        <4>1. CutHistory(base.id) /\ tail' = tail
          BY <2>7, <3>3 DEF Repair
        <4> QED BY <1>2, <3>1, <3>3, <4>1, CutIsTruncation, ZenonT(30)
      <3>4. CASE base.id # 0 /\ ~(tail <= base.id /\ base.id <= Len(items))
        BY <2>7, <3>1, <3>4 DEF Repair, Histories!store
      <3> QED BY <3>2, <3>3, <3>4
    <2>8. CASE \E r \in Root : Stop(r)
      <3>1. up /\ up' = FALSE /\ UNCHANGED <<items, tail>> /\ safe' = Len(items)
        BY <2>8 DEF Stop, Running, Forget
      <3>2. Histories!Stop(Histories!Added, safe')
        <4>1. safe' <= Len(items)
          BY <2>1, <3>1, SMTT(30)
        <4> QED BY <2>1, <3>1, <4>1, AddedNothing DEF Histories!Stop
      <3> QED BY <3>2 DEF Histories!Next, Histories!Operate
    <2>9. CASE Crash
      <3>1. up /\ up' = FALSE /\ UNCHANGED <<items, tail, safe>>
        BY <2>9 DEF Crash, Forget
      <3>2. Histories!Stop(Histories!Added, safe')
        <4>1. safe' <= Len(items)
          BY <2>1, <3>1
        <4> QED BY <2>1, <3>1, <4>1, AddedNothing DEF Histories!Stop
      <3> QED BY <3>2 DEF Histories!Next, Histories!Operate
    <2>10. CASE Open
      <3>1. ~up /\ up' = TRUE /\ UNCHANGED safe
        BY <2>10 DEF Open
      <3>2. PICK n \in safe..Len(items), m \in 0..tail : items' = SubSeq(items, 1, n) /\ tail' = m
        BY <2>10 DEF Open
      <3>3. n \in 0..Len(items) /\ m \in 0..safe
        BY <2>1, <3>2, SMTT(30)
      <3>4. Len(items') = n
        BY <2>1, <3>2, <3>3, SMTT(30)
      <3>5. Histories!Start(Len(items'), tail')
        BY <3>1, <3>2, <3>3, <3>4 DEF Histories!Start
      <3> QED BY <3>5 DEF Histories!Next, Histories!Operate
    <2>11. \/ UNCHANGED histories
           \/ WriteHistory /\ NextHistory
           \/ PruneHistory /\ tail' # tail
           \/ FlushSync \/ FinishRecover \/ Repair \/ Open \/ Crash
           \/ \E r \in Root : Stop(r)
      <3>1. CASE Operation
        BY <3>1 DEF Operation, Update, Commit, Recover, OpenReader
      <3>2. CASE OperationStep
        <4>1. WriteHistory /\ ~NextHistory => UNCHANGED histories
          BY DEF WriteHistory, histories
        <4>2. PruneHistory /\ tail' = tail => UNCHANGED histories
          BY DEF PruneHistory, histories
        <4>3. MergeLayer \/ FinishCap \/ FinishCommit \/ Revert \/ SyncRecovered => UNCHANGED histories
          BY DEF MergeLayer, FinishCap, FinishCommit, Revert, SyncRecovered
        <4> QED BY <3>2, <4>1, <4>2, <4>3 DEF OperationStep
      <3>3. CASE FlushStep
        BY <3>3 DEF FlushStep, FlushWrite
      <3>4. CASE ReaderStep
        BY <3>4 DEF ReaderStep, LookupLayer, ReadBase, WalkLayers, LoadValue, FillCache, CloseReader
      <3>5. CASE StartStep \/ Crash
        BY <3>5 DEF StartStep
      <3>6. CASE UNCHANGED vars
        BY <3>6 DEF vars
      <3> QED BY <1>2, <3>1, <3>2, <3>3, <3>4, <3>5, <3>6 DEF Next
    <2> QED BY <2>2, <2>3, <2>4, <2>5, <2>6, <2>7, <2>8, <2>9, <2>10, <2>11
  <1> QED BY <1>1, <1>2, Invariant, PTL DEF Spec, UsesAncientStore, Histories!Spec
=============================================================================
