-------------------------------- MODULE TrieGC --------------------------------
(***************************************************************************)
(* When the block chain keeps, drops and writes out the state tries of its *)
(* blocks under the hash scheme (core/blockchain.go): the dirty tries in   *)
(* memory with their reference counts, and the queue triegc of tries to be *)
(* released.  A trie is one root here; its nodes are those of HashDB.      *)
(***************************************************************************)
EXTENDS ChainDB, BagsExt

CONSTANTS
    TriesInMemory,  \* blocks whose tries stay in memory
    TrieRetention,  \* whether young tries may stay longer (cfg.TrieRetention)
    ArchiveMode,    \* cfg.ArchiveMode
    MaxSkip,        \* cfg.MaxNumberOfBlocksToSkipStateSaving
    SkipByGas       \* whether cfg.MaxAmountOfGasToSkipStateSaving is set

ASSUME TrieAssumption ==
    /\ TriesInMemory \in Nat \ {0}
    /\ TrieRetention \in BOOLEAN
    /\ ArchiveMode \in BOOLEAN
    /\ MaxSkip \in Nat
    /\ SkipByGas \in BOOLEAN

\* refs: references to the dirty trie of a block, 0 if it is not in memory;
\* gc: the entries <<number, block>> of triegc; lastWrite and skip as in
\* BlockChain.
EmptyTries == [refs |-> [r \in Blocks |-> 0], gc |-> EmptyBag, lastWrite |-> 0, skip |-> 0]

HasState(k, t, b) == b \in k.states \/ t.refs[b] > 0

Reference(t, b) == [t EXCEPT !.refs[b] = @ + 1]

\* Dereferencing a trie that is no longer in memory does nothing.
Dereference(t, entries) ==
    LET times(r) == BagCardinality([e \in {x \in DOMAIN entries : x[2] = r} |-> entries[e]])
    IN [t EXCEPT !.refs = [r \in Blocks |-> Max({0, @[r] - times(r)})]]

\* triedb.Commit(root): write the trie out and drop it from memory; a trie
\* that is not in memory is taken for one written before.
Commit(s, r) ==
    IF s.t.refs[r] = 0 THEN s
    ELSE [k |-> [s.k EXCEPT !.states = @ \cup {r}], t |-> [s.t EXCEPT !.refs[r] = 0]]

\* The numbers up to which triegc is emptied after block number n.
Cuts(n) ==
    LET limit == n - TriesInMemory
    IN IF limit <= 0 THEN {} ELSE IF TrieRetention THEN 0..limit ELSE {limit}

\* Garbage collection up to number cut, prev being the last entry popped:
\* the others are released, then the canonical trie at prev's number may be
\* flushed, then prev is released.
Collect(k, t, anc, cut, prev, flush) ==
    LET old  == [e \in {x \in DOMAIN t.gc : x[1] <= cut} |-> t.gc[e]]
        last == SetToBag({prev})
        rest == Dereference([t EXCEPT !.gc = @ (-) old], old (-) last)
        h    == GetBlockByNumber(k, anc, prev[1])
        done == IF ~flush \/ h = NoBlock THEN [k |-> k, t |-> rest]
                ELSE Commit([k |-> k, t |-> [rest EXCEPT !.lastWrite = prev[1]]], h)
    IN [done EXCEPT !.t = Dereference(@, last)]

Entries(t, cut) == {e \in DOMAIN t.gc : e[1] <= cut}
LastEntries(t, cut) == {e \in Entries(t, cut) : \A f \in Entries(t, cut) : f[1] <= e[1]}

\* Collection up to cut, with any of the entries of the highest number popped
\* last.  The flush happens once the processing time exceeds an interval, so
\* it may happen at any time; an archive node does none.
Collections(k, t, anc, cut) ==
    IF Entries(t, cut) = {} THEN {[k |-> k, t |-> t]}
    ELSE {Collect(k, t, anc, cut, prev, flush) :
             prev \in LastEntries(t, cut), flush \in IF ArchiveMode THEN {FALSE} ELSE BOOLEAN}

\* An archive node saves the state of a block if it skips none or has skipped MaxSkip;
\* it may do so earlier if the skipped blocks have used the gas allowed for them.
MustSave(t) == IF MaxSkip = 0 THEN ~SkipByGas ELSE t.skip = 0
MaySave(t) == MustSave(t) \/ SkipByGas

\* Mutant writeBlockWithState: one more state is skipped than allowed.
MutSkipOneMore(k, t, anc, b) ==
    LET saved == Commit([k |-> k, t |-> [Reference(t, b) EXCEPT !.skip = MaxSkip + 1]], b)
        kept  == [Reference([t EXCEPT !.skip = @ - 1], b) EXCEPT !.gc = @ (+) SetToBag({<<Number(b), b>>})]
    IN IF t.skip = 0 THEN {saved} ELSE {[k |-> k, t |-> kept]}
\* The results of writeBlockWithState for block b, once b is stored.
WriteState(k, t, anc, b) ==
    LET saved == Commit([k |-> k, t |-> [Reference(t, b) EXCEPT !.skip = MaxSkip]], b)
        aged  == IF ArchiveMode THEN [t EXCEPT !.skip = Max({0, @ - 1})] ELSE t
        kept  == [Reference(aged, b) EXCEPT !.gc = @ (+) SetToBag({<<Number(b), b>>})]
    IN (IF ArchiveMode /\ MaySave(t) THEN {saved} ELSE {}) \cup
       (IF ArchiveMode /\ MustSave(t) THEN {}
        ELSE IF Cuts(Number(b)) = {} THEN {[k |-> k, t |-> kept]}
        ELSE UNION {Collections(k, kept, anc, c) : c \in Cuts(Number(b))})

Lowest(t) == Min({e[1] : e \in DOMAIN t.gc})

\* FlushTrieDB: the canonical trie at the lowest number of triegc.
FlushTrie(k, t, anc) ==
    LET h == GetBlockByNumber(k, anc, Lowest(t))
    IN IF t.gc = EmptyBag \/ h = NoBlock THEN [k |-> k, t |-> t]
       ELSE Commit([k |-> k, t |-> [t EXCEPT !.lastWrite = Lowest(t)]], h)

\* Mutant Stop: the state of the head itself is not written.
MutHeadNotSaved(t, n) ==
    {n - o : o \in {x \in {1, TriesInMemory - 1} : n > x}} \cup
    {IF t.gc = EmptyBag THEN n + 1 ELSE Lowest(t)}
\* The numbers whose canonical states Stop writes: head, head - 1, head - 127
\* and the oldest in triegc; number - MaxUint64 wraps to number + 1.
StopNumbers(t, n) ==
    {n - o : o \in {x \in {0, 1, TriesInMemory - 1} : n > x}} \cup
    {IF t.gc = EmptyBag THEN n + 1 ELSE Lowest(t)}

\* Stop of a full or sparse archive node.
SaveOnStop(k, t, anc, n) ==
    LET rs == {GetBlockByNumber(k, anc, i) : i \in StopNumbers(t, n)} \ {NoBlock}
        s  == FoldSet(LAMBDA r, acc : Commit(acc, r), [k |-> k, t |-> t], rs)
    IN IF ArchiveMode /\ MaxSkip = 0 /\ ~SkipByGas THEN [k |-> k, t |-> t]
       ELSE [s EXCEPT !.t = Dereference([@ EXCEPT !.gc = EmptyBag], t.gc)]
=============================================================================
