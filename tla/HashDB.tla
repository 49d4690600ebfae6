------------------------------- MODULE HashDB -------------------------------
(***************************************************************************)
(* The hash-based trie database: trie nodes that are not on disk yet are   *)
(* kept in memory with a count of their parents and linked into a flush    *)
(* list from the oldest to the newest.  Every operator takes the database  *)
(* as a record and returns the database after the call.                    *)
(*                                                                         *)
(* A node stands for its hash.  Children are the hashes inside a node;     *)
(* StorageRoots are the storage tries of the accounts in it, which the     *)
(* database links explicitly.                                              *)
(***************************************************************************)
EXTENDS Integers, Sequences, FiniteSets, SequencesExt, FiniteSetsExt

CONSTANTS
  Node,          \* the hashes of trie nodes
  Children,      \* Node -> the nodes whose hashes are inside a node
  StorageRoots,  \* Node -> the storage roots of the accounts in a node
  NodeOrder,     \* Node as a sequence, storage tries and children first
  Nil            \* the zero hash

ASSUME HashDBAssumption ==
  /\ Nil \notin Node
  /\ Children \in [Node -> SUBSET Node]
  /\ StorageRoots \in [Node -> SUBSET Node]
  /\ ToSet(NodeOrder) = Node
  /\ \A i, j \in 1..Len(NodeOrder) :
       NodeOrder[j] \in Children[NodeOrder[i]] \cup StorageRoots[NodeOrder[i]]
         => j < i

Below(n) == Children[n] \cup StorageRoots[n]

\* The nodes of the trie under n, its storage tries included.
RECURSIVE NodesUnder(_)
NodesUnder(n) == {n} \cup UNION {NodesUnder(c) : c \in Below(n)}
Tries == [n \in Node |-> NodesUnder(n)]
Trie(n) == Tries[n]

-----------------------------------------------------------------------------
New(disk) == [dirties |-> <<>>, oldest |-> Nil, newest |-> Nil, disk |-> disk]

Cached(db) == DOMAIN db.dirties
Available(db) == Cached(db) \cup db.disk

WithDirty(db, n, node) ==
  [db EXCEPT !.dirties =
     [m \in Cached(db) \cup {n} |-> IF m = n THEN node ELSE @[m]]]

AddParent(db, n) ==
  IF n \in Cached(db) THEN [db EXCEPT !.dirties[n].parents = @ + 1] ELSE db

\* Mutant: the new node does not count as a parent.
MutChildrenUncounted(db, n) ==
  LET entry == [parents |-> 0, external |-> {},
                flushPrev |-> db.newest, flushNext |-> Nil]
      linked == IF db.oldest = Nil
                THEN [db EXCEPT !.oldest = n]
                ELSE [db EXCEPT !.dirties[db.newest].flushNext = n]
  IN IF n \in Cached(db) THEN db
     ELSE WithDirty([linked EXCEPT !.newest = n], n, entry)

insert(db, n) ==
  LET entry == [parents |-> 0, external |-> {},
                flushPrev |-> db.newest, flushNext |-> Nil]
      counted == FoldSet(LAMBDA c, d : AddParent(d, c), db, Children[n])
      linked == IF db.oldest = Nil
                THEN [counted EXCEPT !.oldest = n]
                ELSE [counted EXCEPT !.dirties[db.newest].flushNext = n]
  IN IF n \in Cached(db) THEN db
     ELSE WithDirty([linked EXCEPT !.newest = n], n, entry)

\* The reference of a state root, whose parent is the zero hash.
referenceRoot(db, root) == AddParent(db, root)

\* Mutant: a link that exists is counted again.
MutLinkedTwice(db, child, parent) ==
  IF child \notin Cached(db) THEN db
  ELSE [AddParent(db, child) EXCEPT !.dirties[parent].external = @ \cup {child}]

referenceStorage(db, child, parent) ==
  IF child \notin Cached(db) \/ child \in db.dirties[parent].external
  THEN db
  ELSE [AddParent(db, child) EXCEPT !.dirties[parent].external = @ \cup {child}]

WithPrev(db, n, prev) ==
  IF n = Nil THEN db ELSE [db EXCEPT !.dirties[n].flushPrev = prev]

WithNext(db, n, next) ==
  IF n = Nil THEN db ELSE [db EXCEPT !.dirties[n].flushNext = next]

\* Mutant: the newest node is not a case of its own.
MutNewestKept(db, n) ==
  LET prev == db.dirties[n].flushPrev
      next == db.dirties[n].flushNext
  IN IF n = db.oldest
     THEN WithPrev([db EXCEPT !.oldest = next], next, Nil)
     ELSE WithPrev(WithNext(db, prev, next), next, prev)

\* Take n off the flush list.  The last node leaves newest behind.
unlink(db, n) ==
  LET prev == db.dirties[n].flushPrev
      next == db.dirties[n].flushNext
  IN IF n = db.oldest
     THEN WithPrev([db EXCEPT !.oldest = next], next, Nil)
     ELSE IF n = db.newest
     THEN WithNext([db EXCEPT !.newest = prev], prev, Nil)
     ELSE WithPrev(WithNext(db, prev, next), next, prev)

uncache(db, n) ==
  [db EXCEPT !.dirties = [m \in Cached(db) \ {n} |-> @[m]]]

RECURSIVE dereference(_, _)
dereference(db, n) ==
  IF n \notin Cached(db) THEN db
  ELSE LET left == IF db.dirties[n].parents > 0 THEN db.dirties[n].parents - 1 ELSE 0
           kept == [db EXCEPT !.dirties[n].parents = left]
       IN IF left > 0 THEN kept
          ELSE uncache(FoldSet(LAMBDA c, d : dereference(d, c), unlink(kept, n),
                               Children[n] \cup db.dirties[n].external), n)

\* Update: insert the new nodes of a trie, then link the storage tries.
Update(db, nodes) ==
  LET inserted == FoldLeft(insert, db, SelectSeq(NodeOrder, LAMBDA n : n \in nodes))
      links == UNION {{<<s, n>> : s \in StorageRoots[n]} : n \in nodes}
  IN FoldSet(LAMBDA l, d : referenceStorage(d, l[1], l[2]), inserted, links)

\* The flush list from its oldest node.
RECURSIVE ListFrom(_, _)
ListFrom(db, n) ==
  IF n = Nil THEN <<>> ELSE <<n>> \o ListFrom(db, db.dirties[n].flushNext)

\* Cap: write the k oldest nodes, then drop them from memory.
Cap(db, k) ==
  LET list == ListFrom(db, db.oldest)
      rest == [db EXCEPT !.disk = @ \cup ToSet(SubSeq(list, 1, k)),
                         !.dirties = [m \in ToSet(SubSeq(list, k + 1, Len(list))) |-> @[m]],
                         !.oldest = IF k < Len(list) THEN list[k + 1] ELSE Nil]
  IN IF rest.oldest = Nil THEN rest ELSE [rest EXCEPT !.dirties[rest.oldest].flushPrev = Nil]

\* A batch of Cap fails: what the batches before it wrote stays in memory.
CapFails(db, k) ==
  [db EXCEPT !.disk = @ \cup ToSet(SubSeq(ListFrom(db, db.oldest), 1, k))]

\* The nodes commit reaches: it stops at a node that is not in memory.
RECURSIVE CommitSet(_, _)
CommitSet(db, n) ==
  IF n \notin Cached(db) THEN {}
  ELSE {n} \cup UNION {CommitSet(db, c) : c \in Children[n] \cup db.dirties[n].external}

\* Commit: write the trie children first and uncache what the batches wrote;
\* a failing batch leaves the nodes from the k-th on in memory.
Commit(db, root, k) ==
  LET order == SelectSeq(NodeOrder, LAMBDA n : n \in CommitSet(db, root))
  IN FoldLeft(LAMBDA d, n : [uncache(unlink(d, n), n) EXCEPT !.disk = @ \cup {n}],
              db, SubSeq(order, 1, k))
=============================================================================
