----------------------------- MODULE AncientStore -----------------------------
(***************************************************************************)
(* What the ancient store promises its users (ethdb.AncientStore): a       *)
(* numbered sequence of items that grows at its head, is cut at either     *)
(* end, and of which a sync makes a prefix survive power failures.  The    *)
(* tables, files and repairs of Freezer are shown to implement it.         *)
(***************************************************************************)
EXTENDS Integers, Sequences, FiniteSetsExt

CONSTANT Versions   \* what an item may hold

VARIABLES
    items,  \* the items; while the store is closed, those it may reopen with
    tail,   \* the items below tail can no longer be read
    safe,   \* the length of the prefix a power failure cannot remove
    up,     \* whether the store is open
    failed  \* whether the operating system has failed a write or an fsync

store == <<items, tail, safe, up, failed>>

Init ==
    /\ items = <<>>
    /\ tail = 0
    /\ safe = 0
    /\ up = FALSE
    /\ failed = FALSE

\* ModifyAncients writes all of vs or nothing.
Write(vs) ==
    /\ up
    /\ items' = items \o vs
    /\ UNCHANGED <<tail, safe, up>>

\* Items can be rewritten only after a truncation, which ends their safety.
TruncateHead(n) ==
    /\ up
    /\ n < Len(items)
    /\ items' = SubSeq(items, 1, n)
    /\ safe' = Min({safe, n})
    /\ UNCHANGED <<tail, up>>

TruncateTail(n) ==
    /\ up
    /\ tail < n /\ n <= safe
    /\ tail' = n
    /\ UNCHANGED <<items, safe, up>>

\* A sync covers at least what was there when it began, unless a truncation
\* came in between.
Sync(n) ==
    /\ up
    /\ n \in safe..Len(items)
    /\ safe' = n
    /\ UNCHANGED <<items, tail, up>>

\* The store stops, with vs being appended or the head being cut to n; after
\* a clean stop everything is safe.
Stop(vs, n) ==
    /\ up
    /\ n <= Len(items)
    /\ up' = FALSE
    /\ items' = items \o vs
    /\ safe' = n
    /\ UNCHANGED tail

\* The store opens with some prefix, at least the safe one.  The tail is not
\* synced as it moves: items hidden before a power failure may be back.
Start(n, m) ==
    /\ ~up
    /\ up' = TRUE
    /\ n \in safe..Len(items)
    /\ m \in 0..safe
    /\ items' = SubSeq(items, 1, n)
    /\ tail' = m
    /\ UNCHANGED safe

\* Reset drops all items.
Reset ==
    /\ up
    /\ items' = <<>> /\ tail' = 0 /\ safe' = 0
    /\ UNCHANGED up

\* The items the next state has and this one does not.
Added == SubSeq(items', Len(items) + 1, Len(items'))

Operate ==
    \/ Write(Added)
    \/ TruncateHead(Len(items'))
    \/ TruncateTail(tail')
    \/ Sync(safe')
    \/ Reset
    \/ Stop(Added, safe')
    \/ Start(Len(items'), tail')

\* Nothing is promised once the operating system has reported an error.
Next == (Operate /\ UNCHANGED failed) \/ failed'

Spec == Init /\ [][Next]_store
=============================================================================
