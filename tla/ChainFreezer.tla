----------------------------- MODULE ChainFreezer -----------------------------
(***************************************************************************)
(* The background thread that moves old canonical blocks from the key-     *)
(* value store to the ancient store (core/rawdb/chain_freezer.go), next to *)
(* the block chain that inserts, reorganises and rewinds.  The two share   *)
(* the stores and no lock but the freezer's own writeLock.                 *)
(***************************************************************************)
EXTENDS BlockChain

CONSTANTS
    FreezerBatchLimit   \* freezerBatchLimit

ASSUME ChainFreezerAssumption == FreezerBatchLimit \in Nat \ {0}

VARIABLES
    fz,     \* the round in progress: where it is, first and last number,
            \* hashes read, number of ancients reloaded, dangling blocks
    clean,  \* history: the head when the node was stopped cleanly, until the
            \* next operation or crash
    torn,   \* history: whether a head without its number index was left, by a crash
            \* between the two batches that end a reorganisation
    regained    \* history: whether a chain was taken over from the ancient store

past == <<clean, torn, regained>>
vars == <<chain, locked, fz, past>>

NoRound == [pc |-> "idle", first |-> 0, last |-> 0, got |-> <<>>, lim |-> 0, dangling |-> {}]

FreezerInit ==
    /\ Init
    /\ fz = NoRound
    /\ clean = NoBlock
    /\ torn = FALSE
    /\ regained = FALSE

-----------------------------------------------------------------------------
\* freezeThreshold, 0 when it is not available.
FreezeThreshold ==
    Max({ReadNumber(kv.final), ReadNumber(kv.head) - FullImmutabilityThreshold, 0})

\* Mutant freeze: the block at the threshold is taken for frozen.
MutStopShort ==
    LET first == Len(anc)
    IN /\ up
       /\ fz.pc = "idle"
       /\ first < FreezeThreshold
       /\ fz' = [NoRound EXCEPT !.pc = "read", !.first = first,
                    !.last = Min({FreezeThreshold - 1, first + FreezerBatchLimit - 1})]
       /\ UNCHANGED <<chain, locked, past>>
\* The start of a round.
FreezeStart ==
    LET first == Len(anc)
    IN /\ up
       /\ fz.pc = "idle"
       /\ FreezeThreshold > 0
       /\ first = 0 \/ first - 1 < FreezeThreshold
       /\ fz' = [NoRound EXCEPT !.pc = "read", !.first = first,
                    !.last = Min({FreezeThreshold, first + FreezerBatchLimit - 1})]
       /\ UNCHANGED <<chain, locked, past>>

\* freezeRange reads one block inside ModifyAncients, which has taken the
\* writeLock; a missing block, or ancients that have changed since the round
\* started, end the round.
FreezeRead ==
    LET n == fz.first + Len(fz.got)
        b == kv.canon[n]
        ok == Len(anc) = fz.first /\ b # NoBlock /\ b \in kv.blocks
    IN /\ up
       /\ fz.pc = "read"
       /\ n <= fz.last
       /\ fz' = IF ok THEN [fz EXCEPT !.got = Append(@, b)] ELSE NoRound
       /\ locked' = ok
       /\ UNCHANGED <<chain, past>>

\* ModifyAncients writes the range and returns.
FreezeRange ==
    /\ up
    /\ fz.pc = "read"
    /\ fz.first + Len(fz.got) > fz.last
    /\ Ancients!Write(fz.got)
    /\ locked' = FALSE
    /\ fz' = [fz EXCEPT !.pc = "sync"]
    /\ UNCHANGED <<kv, lost, memory, todo, outside, left, past>>

\* Mutant freeze: the ancients are not synced before the blocks are wiped.
MutFreezeUnsynced ==
    /\ up
    /\ fz.pc = "sync"
    /\ fz' = [fz EXCEPT !.pc = "wipe"]
    /\ UNCHANGED <<chain, locked, past>>
FreezeSync ==
    /\ up
    /\ fz.pc = "sync"
    /\ Ancients!Sync(Len(anc))
    /\ fz' = [fz EXCEPT !.pc = "wipe"]
    /\ UNCHANGED <<kv, lost, locked, memory, todo, outside, left, past>>

\* The frozen canonical blocks are deleted from the key-value store, the
\* genesis block excepted, and the number of ancients is read again.
FreezeWipe ==
    LET ns == {fz.first + i - 1 : i \in 1..Len(fz.got)} \ {0}
    IN /\ up
       /\ fz.pc = "wipe"
       /\ Put(DeleteCanonical(DeleteBlocksWithoutNumber(kv, {fz.got[n - fz.first + 1] : n \in ns}), ns))
       /\ fz' = [fz EXCEPT !.pc = "sides", !.lim = Len(anc)]
       /\ UNCHANGED <<store, up, locked, memory, todo, outside, left, past>>

\* The side blocks at the frozen heights are deleted; those of the last one
\* are dangling parents.
FreezeSides ==
    LET at(n) == IF n = 0 THEN {} ELSE ReadAllHashes(kv, n)
        ns == {n \in Heights : fz.first <= n /\ n < fz.lim}
    IN /\ up
       /\ fz.pc = "sides"
       /\ Put(DeleteBlocks(kv, UNION {at(n) : n \in ns}))
       /\ fz' = [fz EXCEPT !.pc = "dangling", !.dangling = IF ns = {} THEN {} ELSE at(fz.lim - 1)]
       /\ UNCHANGED <<store, up, locked, memory, todo, outside, left, past>>

\* The stored descendants of the dangling blocks are deleted, a height at a
\* time for as long as there are any.
Dangling ==
    {b \in kv.blocks : /\ Number(b) >= fz.lim
                       /\ fz.lim > 0 /\ Ancestor(b, fz.lim - 1) \in fz.dangling
                       /\ \A n \in fz.lim..Number(b) : Ancestor(b, n) \in kv.blocks}

FreezeDangling ==
    /\ up
    /\ fz.pc = "dangling"
    /\ Put(DeleteBlocks(kv, Dangling))
    /\ fz' = NoRound
    /\ UNCHANGED <<store, up, locked, memory, todo, outside, left, past>>

-----------------------------------------------------------------------------
(* The two threads.  Stop waits for the freezer to finish its round. *)

\* The block chain deletes blocks, or is about to.
Rewinding(steps) ==
    \E i \in DOMAIN steps : steps[i].op \in {"rewind", "delete", "sync", "truncate"}

\* The block chain stores again a block at a height that round f freezes.
Importing(steps, f) ==
    \E i \in DOMAIN steps : steps[i].op = "store" /\ Number(steps[i].b) <= f.last

\* What the two threads may be doing at the same time.  A reorganisation does
\* not reach the heights that are being frozen.
Apart(steps, f) ==
    f.pc # "idle" => /\ \A i \in DOMAIN steps : steps[i].op = "reorg" =>
                           Number(CommonAncestor(cur, steps[i].b)) >= f.last
                     /\ Rewinding(steps) => "rewindWhileFreezing" \in Allowed
                     /\ Importing(steps, f) => "importWhileFreezing" \in Allowed

\* Blocks TriesInMemory or more above the head have been executed without
\* making them the head: the head's own trie may have been released.
RanAhead ==
    \E b \in kv.blocks : /\ Number(b) >= Number(cur) + TriesInMemory
                         /\ <<Number(b), b>> \in DOMAIN trie.gc

FreezeNext ==
    \/ FreezeStart \/ FreezeRead \/ FreezeRange \/ FreezeSync
    \/ FreezeWipe \/ FreezeSides \/ FreezeDangling

OperationStep ==
    /\ Operation
    /\ clean' = NoBlock
    /\ UNCHANGED <<fz, torn, regained>>

ContinueStep ==
    /\ Continue
    /\ regained' = (regained \/ Step("header"))
    /\ UNCHANGED <<fz, clean, torn>>

StopStep ==
    /\ Stop
    /\ fz.pc = "idle"
    /\ clean' = IF RanAhead THEN NoBlock ELSE cur
    /\ UNCHANGED <<fz, torn, regained>>

\* The head marker names a block that its number does not lead to.
HeadUnindexed(k) == ReadCanonicalHash(k, SubSeq(anc, 1, safe'), Number(k.head)) # k.head

DieStep ==
    /\ Crash \/ PushFatal \/ PowerFailure
    /\ fz' = NoRound
    /\ clean' = NoBlock
    /\ torn' = (torn \/ HeadUnindexed(kv'))
    /\ UNCHANGED regained

OpenStep == Open /\ UNCHANGED <<fz, past>>

Next ==
    /\ FreezeNext \/ OperationStep \/ ContinueStep \/ StopStep \/ DieStep \/ OpenStep
    /\ Apart(todo', fz')

Spec == FreezerInit /\ [][Next]_vars

\* The freezer's loop, the steps of an operation that has begun and a restart
\* go on by themselves; operations, crashes and power failures do not.
Fairness ==
    /\ WF_vars(FreezeNext /\ Apart(todo', fz'))
    /\ WF_vars(ContinueStep /\ Apart(todo', fz'))
    /\ WF_vars(OpenStep)

FairSpec == Spec /\ Fairness

-----------------------------------------------------------------------------
(* Properties. *)

Idle == up /\ todo = <<>>

\* Between operations every number up to the head's gives, from whichever
\* store, the head's ancestor of that number (blockchain_sethead_test.go,
\* verifyNoGaps): through reorgs, rewinds, freezing, crashes and restarts, unless
\* a crash came between the two batches that end a reorganisation.
CanonicalChain ==
    Idle /\ ~torn => \A n \in 0..Number(cur) : GetBlockByNumber(kv, anc, n) = Ancestor(cur, n)

\* Between operations the state of the head can be opened, unless the node has
\* executed TriesInMemory blocks beyond the head: after reorgs, rewinds,
\* garbage collection, flushes, crashes and repairs.
HeadHasState == Idle /\ ~RanAhead => KnownState(cur)

\* "Ensure that no blocks are missing yet from the key-value store" (Open): the
\* database opens whatever a crash or a power failure leaves.  No gap between the
\* stores is reported, and the head block is there, so that the chain is not reset
\* to the genesis block.
AlwaysOpens ==
    ~up => \A n \in safe..Len(anc) :
              LET a == SubSeq(anc, 1, n)
              IN Contiguous(kv, a) /\ FoundByHash(kv, a, kv.head)

\* The database opens again after every crash and power failure but one, that
\* between the two batches that end a reorganisation.
OpensAgain == torn \/ AlwaysOpens

\* The head that a start or a rewind loads is there: loadLastState would otherwise
\* reset the chain, in a rewind waiting for the mutex it holds.
ReloadFindsHead == up /\ todo # <<>> /\ Head(todo).op \in {"load", "reload"} => HeadFound

\* Between operations no block above both the head header and the finalized
\* block is in the ancient store, unless a start after an interrupted rewind to
\* the genesis block took the chain over from there (InitDatabaseFromFreezer): after
\* that, blocks inserted again lower the head header.
NoExtraAncients == Idle /\ ~regained => Len(anc) <= Max({Number(hdr), ReadNumber(kv.final)}) + 1

\* A node stopped cleanly has the same head when it is started again.
CleanRestart == clean # NoBlock /\ Idle => cur = clean

\* A sparse archive node that follows one chain has on disk the state of one of
\* the last MaxSkip + 1 blocks: a crash costs at most MaxSkip blocks.  With a limit
\* on the gas alone, the number of blocks is not limited.
SparseKept ==
    Idle /\ ArchiveMode /\ (SkipByGas => MaxSkip # 0) =>
       \E i \in Max({0, Number(cur) - MaxSkip})..Number(cur) : Ancestor(cur, i) \in kv.states

\* Every change that is pushed fits what the followers have, and leaves them with the
\* chain of the last pushed block: after reorgs, rewinds, crashes and failed pushes,
\* whatever heights the walks of getCommonAncestor start from.
FollowersFollow == follow = Chain[pushed]

\* Once operations and crashes cease the node runs with every block up to the
\* threshold frozen, unless a crash has left the head without its index, or below
\* the finalized block (freeze gives up a range of which one block is missing).
EventuallyFrozen ==
    <>[](torn \/ (up /\ (FreezeThreshold > 0 /\ ReadNumber(kv.final) <= Number(cur) =>
                             Len(anc) > FreezeThreshold)))
=============================================================================
