------------------------------- MODULE ChainDB -------------------------------
(***************************************************************************)
(* The chain database (core/rawdb): a tree of blocks of which a key-value  *)
(* store holds some, next to an ancient store that holds the oldest        *)
(* canonical ones, and the accessors that read through both.  Header, body *)
(* and receipts of a block are one entry: they are written in one batch    *)
(* and deleted in one batch.  No two blocks have the same state root, so a *)
(* block also stands for its state trie.                                   *)
(***************************************************************************)
EXTENDS Integers, Sequences, FiniteSets, SequencesExt, FiniteSetsExt

CONSTANTS
    Blocks,     \* all blocks that may ever be produced
    Genesis,    \* the block at height 0
    Parent,     \* the parent of every other block
    NoBlock     \* not a block

ASSUME TreeAssumption ==
    /\ Genesis \in Blocks
    /\ NoBlock \notin Blocks
    /\ Parent \in [Blocks \ {Genesis} -> Blocks]

\* The chain from the genesis block to b.
PathTo[b \in Blocks] == IF b = Genesis THEN <<b>> ELSE Append(PathTo[Parent[b]], b)
Chain == [b \in Blocks |-> PathTo[b]]

Number(b) == Len(Chain[b]) - 1
MaxNumber == Max({Number(b) : b \in Blocks})
Heights == 0..MaxNumber
Ancestor(b, n) == Chain[b][n + 1]
IsAncestor(a, b) == Number(a) <= Number(b) /\ Ancestor(b, Number(a)) = a

CommonAncestor(a, b) ==
    CHOOSE c \in ToSet(Chain[a]) \cap ToSet(Chain[b]) :
       \A d \in ToSet(Chain[a]) \cap ToSet(Chain[b]) : Number(d) <= Number(c)

\* The blocks of b's chain above block a of it, lowest first.
Above(a, b) == SubSeq(Chain[b], Number(a) + 2, Number(b) + 1)

-----------------------------------------------------------------------------
(* The key-value store: blocks by hash, the hash-to-number and number-to-   *)
(* hash mappings, the head markers and the state tries written out.        *)

EmptyKV == [blocks |-> {Genesis}, nums |-> {Genesis},
            canon  |-> [n \in Heights |-> IF n = 0 THEN Genesis ELSE NoBlock],
            head   |-> Genesis, header |-> Genesis, snap |-> Genesis, final |-> NoBlock,
            states |-> {Genesis}]

WriteBlock(k, b) == [k EXCEPT !.blocks = @ \cup {b}, !.nums = @ \cup {b}]

\* DeleteBlock, and DeleteBlockWithoutNumber for the canonical blocks.
DeleteBlocks(k, bs) == [k EXCEPT !.blocks = @ \ bs, !.nums = @ \ bs]
DeleteBlocksWithoutNumber(k, bs) == [k EXCEPT !.blocks = @ \ bs]

DeleteCanonical(k, ns) ==
    [k EXCEPT !.canon = [n \in Heights |-> IF n \in ns THEN NoBlock ELSE @[n]]]

ReadAllHashes(k, n) == {b \in k.blocks : Number(b) = n}

\* The ancient store anc holds the block of number n at position n + 1.
Frozen(anc, b) == Number(b) < Len(anc) /\ anc[Number(b) + 1] = b

ReadCanonicalHash(k, anc, n) ==
    IF n < Len(anc) THEN anc[n + 1] ELSE IF n \in Heights THEN k.canon[n] ELSE NoBlock

HasBlock(k, anc, b) == Frozen(anc, b) \/ b \in k.blocks

\* GetHeaderByHash and GetBlockByHash go through the hash-to-number mapping.
FoundByHash(k, anc, b) == b \in k.nums /\ HasBlock(k, anc, b)

GetBlockByNumber(k, anc, n) ==
    LET b == ReadCanonicalHash(k, anc, n)
    IN IF b # NoBlock /\ HasBlock(k, anc, b) THEN b ELSE NoBlock

\* What Open checks before it combines the two stores.
Contiguous(k, anc) ==
    IF Len(anc) > 0
    THEN /\ anc[1] = k.canon[0]
         /\ \/ Len(anc) \in Heights /\ k.canon[Len(anc)] # NoBlock
            \/ k.header \in k.nums /\ Number(k.header) <= Len(anc) - 1
    ELSE k.header = Genesis \/ k.canon[1] # NoBlock
=============================================================================
