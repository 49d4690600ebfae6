------------------------------ MODULE BlockChain ------------------------------
(***************************************************************************)
(* The block chain of a node under the hash scheme (core/blockchain.go,    *)
(* core/headerchain.go): inserting and producing blocks, reorganising,     *)
(* rewinding, stopping, crashing and loading the chain again.              *)
(*                                                                         *)
(* Every operation holds chainmu until it returns.  It is the sequence     *)
(* todo of the database writes it still has to make, so that another       *)
(* thread, a crash or a power failure may come between any two of them.    *)
(* The node never snap-syncs, so there is no pivot block.                  *)
(***************************************************************************)
EXTENDS TrieGC

CONSTANTS
    HeadRewindBlocksLimit,      \* cfg.HeadRewindBlocksLimit, 0 if unset
    FullImmutabilityThreshold,  \* params.FullImmutabilityThreshold
    Allowed,    \* which of the unusual operations below may happen
    Pipeline,   \* whether the node pushes block changes to followers
    MaxOps,     \* bound on operations
    MaxCrashes, \* bound on crashes of the process
    MaxOutages  \* bound on power failures

ASSUME ChainAssumption ==
    /\ HeadRewindBlocksLimit \in Nat
    /\ FullImmutabilityThreshold \in Nat
    /\ Allowed \subseteq {"rewindFinal", "rewindWhileFreezing", "importWhileFreezing"}
    /\ Pipeline \in BOOLEAN

VARIABLES
    kv,      \* the key-value store
    lost,    \* states of the store a power failure may bring back
    anc,     \* the ancient store: the frozen blocks
    safe,    \* the ancients that survive a power failure
    locked,  \* whether ModifyAncients holds the freezer's writeLock
    up,      \* whether the process runs
    cur,     \* bc.currentBlock
    hdr,     \* hc.currentHeader
    snap,    \* bc.currentSnapBlock
    fin,     \* bc.currentFinalBlock
    trie,    \* the state tries in memory
    todo,    \* what the operation holding chainmu still has to do
    pushed,  \* the last block pushed to the followers
    follow,  \* the chain the followers have
    left     \* operations, crashes and power failures still allowed

heads  == <<cur, hdr, snap>>
memory == <<heads, fin, trie>>
store  == <<anc, safe>>
outside == <<pushed, follow>>
chain  == <<kv, lost, anc, safe, up, memory, todo, pushed, follow, left>>

Ancients == INSTANCE AncientStore WITH
    Versions <- Blocks, items <- anc, tail <- 0, safe <- safe, up <- up, failed <- FALSE

Init ==
    /\ kv = EmptyKV
    /\ lost = {}
    /\ anc = <<>>
    /\ safe = 0
    /\ locked = FALSE
    /\ up = TRUE
    /\ cur = Genesis
    /\ hdr = Genesis
    /\ snap = Genesis
    /\ fin = NoBlock
    /\ trie = EmptyTries
    /\ todo = <<>>
    /\ pushed = Genesis
    /\ follow = <<Genesis>>
    /\ left = [ops |-> MaxOps, crashes |-> MaxCrashes, outages |-> MaxOutages]

\* A batch turns the store into k; until the next sync a power failure may
\* undo it, and what was written after it.
Put(k) ==
    /\ kv' = k
    /\ lost' = IF left.outages > 0 /\ k # kv THEN lost \cup {kv} ELSE lost

Known(b) == HasBlock(kv, anc, b)
KnownState(b) == HasState(kv, trie, b)
Canonical(n) == ReadCanonicalHash(kv, anc, n)
ReadNumber(b) == IF b # NoBlock /\ b \in kv.nums THEN Number(b) ELSE 0

-----------------------------------------------------------------------------
(* Operations.  An operation takes chainmu and leaves its steps in todo.   *)

Do(op, b) == [op |-> op, b |-> b]

\* writeBlockAndSetHead and writeBlockWithState.
WriteAndSetHead(b) == <<Do("store", b), Do("state", b), Do("reorg", b), Do("head", b), Do("push", b)>>
WriteOnly(b) == <<Do("store", b), Do("state", b)>>

Begin(steps) ==
    /\ up
    /\ todo = <<>>
    /\ left.ops > 0
    /\ left' = [left EXCEPT !.ops = @ - 1]
    /\ todo' = steps
    /\ UNCHANGED <<kv, lost, store, up, locked, memory, outside>>

\* The stateless blocks below and including b, lowest first, down to one with
\* a state; the search fails on a missing block.
Stateless(b) ==
    LET n == Max({i \in 0..Number(b) : KnownState(Ancestor(b, i))} \cup {-1})
    IN SubSeq(Chain[b], n + 2, Number(b) + 1)
Recoverable(b) ==
    \E i \in 0..Number(b) :
       /\ KnownState(Ancestor(b, i))
       /\ \A j \in i..(Number(b) - 1) : Known(Ancestor(b, j))

\* WriteBlockAndSetHeadWithTime: a block the node produced on the state of
\* its head.
Produce(b) ==
    /\ b # Genesis
    /\ Parent[b] = cur
    /\ KnownState(cur)
    /\ ~(Known(b) /\ KnownState(b))
    /\ Begin(WriteAndSetHead(b))

\* The steps of insertChain for one block: a block known with its state is
\* skipped or made the head; one whose parent has no state goes through
\* insertSideChain or recoverAncestors.
InsertSteps(b, setHead) ==
    IF Known(b) /\ KnownState(b)
    THEN IF Number(b) <= Number(cur) /\ Canonical(Number(b)) = b THEN <<>>
         ELSE <<Do("reorg", b), Do("head", b)>>
    ELSE IF KnownState(Parent[b])
    THEN IF setHead THEN WriteAndSetHead(b) ELSE WriteOnly(b)
    ELSE IF setHead
    THEN (IF Known(b) THEN <<>> ELSE <<Do("store", b)>>) \o
         FlattenSeq([i \in 1..Len(Stateless(b)) |-> WriteAndSetHead(Stateless(b)[i])])
    ELSE FlattenSeq([i \in 1..Len(Stateless(b)) |-> WriteOnly(Stateless(b)[i])])

\* The parent is known and, if its state is not, an ancestor with a state is.
CanInsert(b) == Known(Parent[b]) /\ Recoverable(b)

InsertChain(b) ==
    /\ b # Genesis
    /\ CanInsert(b)
    /\ Begin(InsertSteps(b, TRUE))

InsertBlockWithoutSetHead(b) ==
    /\ b # Genesis
    /\ CanInsert(b)
    /\ Begin(InsertSteps(b, FALSE))

\* SetCanonical and ReorgToOldBlock, recovering the state of b if need be.
SetCanonical(b) ==
    /\ b # cur
    /\ Known(b)
    /\ Recoverable(b)
    /\ Begin((IF KnownState(b) THEN <<>>
              ELSE FlattenSeq([i \in 1..Len(Stateless(b)) |-> WriteOnly(Stateless(b)[i])])) \o
             <<Do("reorg", b), Do("head", b), Do("push", b)>>)

\* RecoverState: the blocks without a state are executed again.
RecoverState(b) ==
    /\ Known(b) /\ ~KnownState(b)
    /\ Recoverable(b)
    /\ Begin(FlattenSeq([i \in 1..Len(Stateless(b)) |-> WriteOnly(Stateless(b)[i])]))

\* The operation under way does not undo block b.
Undisturbed(b) ==
    \A i \in DOMAIN todo :
        /\ todo[i].op \in {"reorg", "head"} => IsAncestor(b, todo[i].b)
        /\ todo[i].op \in {"rewind", "reload"} => "rewindFinal" \in Allowed \/ Number(b) <= todo[i].n
        /\ todo[i].op \notin {"load", "repair", "check"}

\* SetFinalized for a block of the canonical chain, at any time: it does not take
\* chainmu.  Finality only advances.
SetFinalized(b) ==
    /\ up /\ left.ops > 0
    /\ IsAncestor(b, cur) /\ Undisturbed(b)
    /\ kv.final # NoBlock => IsAncestor(kv.final, b) /\ b # kv.final
    /\ fin' = b
    /\ Put([kv EXCEPT !.final = b])
    /\ left' = [left EXCEPT !.ops = @ - 1]
    /\ UNCHANGED <<store, up, locked, heads, trie, todo, outside>>

FlushTrieDB ==
    LET s == FlushTrie(kv, trie, anc)
    IN /\ up /\ todo = <<>> /\ left.ops > 0
       /\ trie.gc # EmptyBag
       /\ Put(s.k)
       /\ trie' = s.t
       /\ left' = [left EXCEPT !.ops = @ - 1]
       /\ UNCHANGED <<store, up, locked, heads, fin, todo, outside>>

-----------------------------------------------------------------------------
(* The steps of an insertion. *)

Step(op) == up /\ todo # <<>> /\ Head(todo).op = op
Subject == Head(todo).b

\* The batch with header, body and receipts.
StoreBlock ==
    /\ Step("store")
    /\ Put(WriteBlock(kv, Subject))
    /\ todo' = Tail(todo)
    /\ UNCHANGED <<store, up, locked, memory, outside, left>>

\* The state is committed to memory, and tries are collected and flushed.
WriteBlockState ==
    /\ Step("state")
    /\ \E s \in WriteState(kv, trie, anc, Subject) : Put(s.k) /\ trie' = s.t
    /\ todo' = Tail(todo)
    /\ UNCHANGED <<store, up, locked, heads, fin, outside, left>>

\* The numbers above which reorg deletes the canonical indexes.
Unindexed(b) == <<[op |-> "unindex", n |-> IF b = CommonAncestor(cur, b) THEN Number(b)
                                           ELSE Number(b) - 1]>>

\* Mutant reorg: only the new head is written, not the blocks below it.
MutReorgHeadOnly ==
    LET b == Subject
    IN /\ Step("reorg")
       /\ todo' = IF b # Genesis /\ Parent[b] = cur THEN Tail(todo) ELSE Unindexed(b) \o Tail(todo)
       /\ UNCHANGED <<kv, lost, store, up, locked, memory, outside, left>>
\* reorg to b's chain: every block below b is made the head in turn, then the
\* indexes from b's number on are deleted.  It is skipped for a child of the
\* head, and fails on a missing block.
Reorg ==
    LET b    == Subject
        base == CommonAncestor(cur, b)
        news == Above(base, b)
        olds == Above(base, cur)
        ok   == \A x \in {base} \cup ToSet(news) \cup ToSet(olds) : Known(x)
    IN /\ Step("reorg")
       /\ todo' = IF b # Genesis /\ Parent[b] = cur THEN Tail(todo)
                  ELSE IF ~ok THEN <<>>
                  ELSE [i \in 1..Max({0, Len(news) - 1}) |-> Do("head", news[i])] \o
                       Unindexed(b) \o Tail(todo)
       /\ UNCHANGED <<kv, lost, store, up, locked, memory, outside, left>>

\* The canonical numbers from n + 1 on, up to the first that has no hash.
Stale(n) ==
    {i \in Heights : i > n /\ \A j \in (n + 1)..i : Canonical(j) # NoBlock}

DeleteIndexes ==
    /\ Step("unindex")
    /\ Put(DeleteCanonical(kv, Stale(Head(todo).n)))
    /\ todo' = Tail(todo)
    /\ UNCHANGED <<store, up, locked, memory, outside, left>>

\* writeHeadBlock: one batch, then the markers in memory.
WriteHeadBlock ==
    LET b == Subject
    IN /\ Step("head")
       /\ Put([kv EXCEPT !.header = b, !.snap = b, !.head = b, !.canon[Number(b)] = b])
       /\ cur' = b /\ hdr' = b /\ snap' = b
       /\ todo' = Tail(todo)
       /\ UNCHANGED <<store, up, locked, fin, trie, outside, left>>

-----------------------------------------------------------------------------
(* Rewinding. *)

\* The oldest block rewindHashHead looks at, coming from number n.
RewindLimit(n) ==
    IF HeadRewindBlocksLimit > 0 /\ n > HeadRewindBlocksLimit THEN n - HeadRewindBlocksLimit
    ELSE Max({0, n - FullImmutabilityThreshold})

\* Mutant rewindHashHead: the search stops at the first block with a header.
MutStateIgnored(b) == b
\* rewindHashHead without a snapshot root: the closest ancestor with a state,
\* or the genesis block if the limit or a missing block comes first.
RewindHead(b) ==
    LET with == {i \in 0..Number(b) : KnownState(Ancestor(b, i))}
        a    == Ancestor(b, Max(with))
    IN IF with # {} /\ Number(a) >= RewindLimit(Number(b))
          /\ \A i \in Number(a)..(Number(b) - 1) : Known(Ancestor(b, i))
       THEN a ELSE Genesis

Rewind(n, update) ==
    [op |-> "rewind", n |-> n, update |-> update, first |-> TRUE, bs |-> {}, ns |-> {}]

\* hc.SetHead down to number n, then the rest of setHeadBeyondRoot.
SetHeadSteps(n, update) ==
    <<Rewind(n, update), [op |-> "sync"], [op |-> "truncate"], [op |-> "reload", n |-> n]>>

SetHead(n) == Begin(SetHeadSteps(n, TRUE))

\* Mutant setHead: the markers are not lowered before the data is deleted.
MutMarkersLast(h, p) == kv
\* The batch with the markers that setHead writes before it deletes data.
LowerMarkers(h, p) ==
    [kv EXCEPT !.head = h, !.header = p, !.snap = IF Number(p) < Number(snap) THEN p ELSE @]

\* One round of the loop of setHead: head header and, through updateFn, head
\* block move down one block; what is to be deleted is collected in a batch,
\* written out when it is large and at the end.
RewindHeader ==
    LET s     == Head(todo)
        num   == Number(hdr)
        p     == IF Known(Parent[hdr]) THEN Parent[hdr] ELSE Genesis
        h     == IF s.update /\ Number(p) <= Number(cur) THEN RewindHead(p) ELSE cur
        wipe  == s.update /\ Number(h) + 1 < Len(anc)
        over  == {n \in Heights : s.first /\ n > num /\
                     \A j \in (num + 1)..n : ReadAllHashes(kv, j) # {}}
        found == UNION {ReadAllHashes(kv, n) : n \in over \cup {num}}
        next  == [s EXCEPT !.n = IF wipe THEN Min({@, Number(h)}) ELSE @,
                           !.first = FALSE,
                           !.bs = @ \cup found \cup (IF ReadAllHashes(kv, num) = {} THEN {hdr} ELSE {}),
                           !.ns = @ \cup over \cup {num}]
        out   == [op |-> "delete", bs |-> next.bs, ns |-> next.ns]
    IN /\ Step("rewind")
       /\ num > s.n
       /\ Put(IF s.update THEN LowerMarkers(h, p) ELSE [kv EXCEPT !.header = p])
       /\ cur' = h
       /\ hdr' = p
       /\ snap' = IF s.update /\ Number(p) < Number(snap) THEN p ELSE snap
       /\ todo' \in {<<next>> \o Tail(todo),
                     <<out, [next EXCEPT !.bs = {}, !.ns = {}]>> \o Tail(todo)}
       /\ UNCHANGED <<store, up, locked, fin, trie, outside, left>>

RewindDone ==
    LET s == Head(todo)
    IN /\ Step("rewind")
       /\ Number(hdr) <= s.n
       /\ todo' = <<[op |-> "delete", bs |-> s.bs, ns |-> s.ns]>> \o Tail(todo)
       /\ UNCHANGED <<kv, lost, store, up, locked, memory, outside, left>>

DeleteRewound ==
    LET s == Head(todo)
    IN /\ Step("delete")
       /\ Put(DeleteCanonical(DeleteBlocks(kv, s.bs), s.ns))
       /\ todo' = Tail(todo)
       /\ UNCHANGED <<store, up, locked, memory, outside, left>>

\* Mutant setHead: the deletions are not synced before the ancients are cut.
MutNoSync ==
    /\ Step("sync")
    /\ todo' = Tail(todo)
    /\ UNCHANGED <<kv, lost, store, up, locked, memory, outside, left>>
\* The deletions are durable before the ancients are cut.
SyncKeyValue ==
    /\ Step("sync")
    /\ lost' = {}
    /\ todo' = Tail(todo)
    /\ UNCHANGED <<kv, store, up, locked, memory, outside, left>>

\* Mutant setHead: the ancients are left alone.
MutTruncateSkipped ==
    /\ Step("truncate")
    /\ todo' = Tail(todo)
    /\ UNCHANGED <<kv, lost, store, up, locked, memory, outside, left>>
\* The ancients above the head header are cut; TruncateHead waits for the
\* freezer's writeLock, reading the number of ancients does not.
TruncateAncients ==
    /\ Step("truncate")
    /\ IF Number(hdr) + 1 < Len(anc)
       THEN ~locked /\ Ancients!TruncateHead(Number(hdr) + 1)
       ELSE UNCHANGED <<store, up>>
    /\ todo' = Tail(todo)
    /\ UNCHANGED <<kv, lost, locked, memory, outside, left>>

\* loadLastState: head header and snap block are those of the markers if they
\* are found, and the head otherwise.
HeadFound == FoundByHash(kv, anc, kv.head)
Loaded(b) == IF FoundByHash(kv, anc, b) THEN b ELSE kv.head
LoadLastState ==
    /\ HeadFound
    /\ cur' = kv.head /\ hdr' = Loaded(kv.header) /\ snap' = Loaded(kv.snap)
LoadedFinal == IF kv.final # NoBlock /\ FoundByHash(kv, anc, kv.final) THEN kv.final ELSE fin

\* The end of setHeadBeyondRoot: a finalized block above the target is
\* forgotten and the last state is loaded.
Reload ==
    LET gone == fin # NoBlock /\ Head(todo).n < Number(fin)
    IN /\ Step("reload")
       /\ LoadLastState
       /\ Put(IF gone THEN [kv EXCEPT !.final = NoBlock] ELSE kv)
       /\ fin' = IF gone THEN NoBlock ELSE LoadedFinal
       /\ todo' = Tail(todo)
       /\ UNCHANGED <<store, up, locked, trie, outside, left>>

-----------------------------------------------------------------------------
(* Followers. *)

\* getCommonAncestor: from b down to the height of a, then from both down until
\* they meet; what is passed on either side, lowest first.  b is not below a.
Walk[a \in Blocks, b \in Blocks] ==
    IF Number(b) > Number(a)
    THEN LET w == Walk[a, Parent[b]] IN [w EXCEPT !.news = Append(@, b)]
    ELSE IF a = b THEN [drops |-> <<>>, news |-> <<>>]
    ELSE LET w == Walk[Parent[a], Parent[b]]
         IN  [drops |-> Append(w.drops, a), news |-> Append(w.news, b)]

IsChild(b) == b # Genesis /\ Parent[b] = pushed

\* Mutant getCommonAncestor: the first loop does not collect the blocks it passes.
MutFirstLoopLost(b) ==
    IF IsChild(b) THEN [drops |-> <<>>, news |-> <<b>>] ELSE Walk[pushed, Ancestor(b, Number(pushed))]
\* The blocks the followers are told to drop and to add.
Change(b) == IF IsChild(b) THEN [drops |-> <<>>, news |-> <<b>>] ELSE Walk[pushed, b]

\* The headers that the walks look up.
Lookups(b) ==
    IF IsChild(b) THEN {}
    ELSE {Parent[x] : x \in ToSet(Change(b).drops) \cup ToSet(Change(b).news)}

\* A follower takes the last blocks off its chain if they are the ones to be
\* dropped, and puts the new ones on top of it if they fit there.
Apply(blocks, change) ==
    LET n    == Len(blocks) - Len(change.drops)
        rest == SubSeq(blocks, 1, n)
    IN  IF n > 0 /\ SubSeq(blocks, n + 1, Len(blocks)) = change.drops
              /\ (change.news # <<>> => Parent[Head(change.news)] = blocks[n])
        THEN rest \o change.news ELSE blocks

\* pushBlockChange: nothing to do unless b is at least as high as the last
\* pushed block; a push that fails is only logged.
PushBlockChange(ok) ==
    LET b == Subject
        due == Pipeline /\ Number(pushed) <= Number(b)
    IN /\ Step("push")
       /\ due => \A x \in Lookups(b) : FoundByHash(kv, anc, x)
       /\ IF due /\ ok /\ b # pushed
          THEN pushed' = b /\ follow' = Apply(follow, Change(b))
          ELSE UNCHANGED outside
       /\ todo' = Tail(todo)
       /\ UNCHANGED <<kv, lost, store, up, locked, memory, left>>

-----------------------------------------------------------------------------
(* Stopping and starting. *)

Forget ==
    /\ locked' = FALSE
    /\ lost' = {}
    /\ todo' = <<>>
    /\ UNCHANGED <<heads, fin, outside>>

\* Stop and closing the database.
Stop ==
    LET s == SaveOnStop(kv, trie, anc, Number(cur))
    IN /\ todo = <<>>
       /\ ~locked
       /\ left.ops > 0
       /\ left' = [left EXCEPT !.ops = @ - 1]
       /\ Ancients!Stop(<<>>, Len(anc))
       /\ kv' = s.k
       /\ trie' = s.t
       /\ Forget

\* The process dies; what it wrote stays.
Crash ==
    /\ left.crashes > 0
    /\ left' = [left EXCEPT !.crashes = @ - 1]
    /\ Ancients!Stop(<<>>, Len(anc))
    /\ trie' = EmptyTries
    /\ Forget
    /\ UNCHANGED kv

\* log.Crit in getCommonAncestor ends the process.
PushFatal ==
    /\ Step("push")
    /\ Pipeline /\ Number(pushed) <= Number(Subject)
    /\ \E x \in Lookups(Subject) : ~FoundByHash(kv, anc, x)
    /\ Ancients!Stop(<<>>, Len(anc))
    /\ trie' = EmptyTries
    /\ Forget
    /\ UNCHANGED <<kv, left>>

\* Power fails: the writes to the key-value store since some point after the
\* last sync, and the ancients that were not synced, may be gone.
PowerFailure ==
    /\ left.outages > 0
    /\ left' = [left EXCEPT !.outages = @ - 1]
    /\ Ancients!Stop(<<>>, safe)
    /\ kv' \in lost \cup {kv}
    /\ trie' = EmptyTries
    /\ Forget

\* The markers of a database that holds no chain.
Empty(k) == k.head = Genesis /\ k.header = Genesis /\ k.snap = Genesis

\* The database is opened; a chain that is only in the ancient store is taken
\* over before NewBlockChain loads the last state.
Open ==
    /\ \E n \in safe..Len(anc) : Ancients!Start(n, 0)
    /\ Contiguous(kv, anc')
    /\ cur' = Genesis /\ hdr' = Genesis /\ snap' = Genesis /\ fin' = NoBlock
    /\ trie' = EmptyTries
    /\ todo' = (IF Empty(kv) /\ anc' # <<>>
                THEN <<[op |-> "number"], Do("header", Last(anc')), Do("snap", Last(anc'))>>
                ELSE <<>>) \o <<[op |-> "load"], [op |-> "repair"], [op |-> "check"]>>
    /\ UNCHANGED <<kv, lost, locked, outside, left>>

\* InitDatabaseFromFreezer: the numbers of the frozen blocks, then the markers.
InitDatabaseFromFreezer ==
    /\ \/ Step("number") /\ Put([kv EXCEPT !.nums = @ \cup ToSet(anc)])
       \/ Step("header") /\ Put([kv EXCEPT !.header = Subject])
    /\ todo' = Tail(todo)
    /\ UNCHANGED <<store, up, locked, memory, outside, left>>

WriteSnap ==
    /\ Step("snap")
    /\ Put([kv EXCEPT !.snap = Subject])
    /\ todo' = Tail(todo)
    /\ UNCHANGED <<store, up, locked, memory, outside, left>>

Load ==
    /\ Step("load")
    /\ LoadLastState
    /\ fin' = LoadedFinal
    /\ todo' = Tail(todo)
    /\ UNCHANGED <<kv, lost, store, up, locked, trie, outside, left>>

\* A head without a state: the head block is rewound, a snap block above it set to
\* the former head; header chain and ancients follow only if they are left above it
\* in the ancient store.
RepairHead ==
    LET h    == RewindHead(cur)
        wipe == Number(h) + 1 < Len(anc)
        miss == ~KnownState(cur) /\ cur # Genesis
        down == miss /\ Number(cur) < Number(snap)
    IN /\ Step("repair")
       /\ IF miss
          THEN /\ Put([kv EXCEPT !.head = h])
               /\ cur' = h
               /\ todo' = (IF down THEN <<Do("snap", cur)>> ELSE <<>>) \o
                          (IF wipe THEN SubSeq(SetHeadSteps(Number(h), FALSE), 1, 3) ELSE <<>>) \o
                          <<[op |-> "reload", n |-> Number(cur)]>> \o Tail(todo)
          ELSE /\ todo' = Tail(todo)
               /\ UNCHANGED <<kv, lost, cur>>
       /\ snap' = IF down THEN cur ELSE snap
       /\ UNCHANGED <<store, up, locked, hdr, fin, trie, outside, left>>

\* The target of the rewind that removes extra ancients at startup.
ExtraBelow ==
    {Number(b) : b \in {x \in {cur} : x # Genesis} \cup {snap}} \cap {n \in Heights : n < Len(anc) - 1}

CheckAncients ==
    /\ Step("check")
    /\ todo' = IF ExtraBelow # {} THEN SetHeadSteps(Min(ExtraBelow), TRUE) \o Tail(todo)
               ELSE Tail(todo)
    /\ UNCHANGED <<kv, lost, store, up, locked, memory, outside, left>>

-----------------------------------------------------------------------------
\* What is frozen, may be frozen meanwhile or is finalized is not reorganised:
\* the common ancestor is not below the last frozen block and less than
\* FullImmutabilityThreshold below the head.  A head below the frozen blocks is
\* extended by these.
Acceptable(b) ==
    LET base == CommonAncestor(cur, b)
    IN /\ Number(base) >= Len(anc) - 1 \/ (base = cur /\ Frozen(anc, b))
       /\ base # cur => Number(cur) - Number(base) < FullImmutabilityThreshold
       /\ kv.final # NoBlock => IsAncestor(kv.final, b) \/ IsAncestor(b, kv.final)
       /\ kv.final # NoBlock /\ base # cur => Number(base) >= Number(kv.final)

Operation ==
    \/ \E b \in Blocks :
          /\ Acceptable(b)
          /\ Produce(b) \/ InsertChain(b) \/ InsertBlockWithoutSetHead(b) \/ SetCanonical(b)
             \/ RecoverState(b)
    \/ \E b \in Blocks : SetFinalized(b)
    \/ \E n \in Heights :
          /\ "rewindFinal" \in Allowed \/ n >= ReadNumber(kv.final)
          /\ SetHead(n)
    \/ FlushTrieDB

Continue ==
    \/ StoreBlock \/ WriteBlockState \/ Reorg \/ DeleteIndexes \/ WriteHeadBlock
    \/ RewindHeader \/ RewindDone \/ DeleteRewound \/ SyncKeyValue
    \/ TruncateAncients \/ Reload
    \/ PushBlockChange(TRUE) \/ PushBlockChange(FALSE)
    \/ InitDatabaseFromFreezer \/ WriteSnap \/ Load \/ RepairHead \/ CheckAncients
=============================================================================
