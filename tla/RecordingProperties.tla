------------------------ MODULE RecordingProperties -------------------------
(* What the recording database and the trie database under it promise. *)
EXTENDS RecordingDatabase

\* How often the request of a client holds a root.
Held(c, root) ==
  LET r == request[c]
      current == IF CurrentRoot(c) = root THEN 1 ELSE 0
      last == IF r.lastRoot = root THEN 1 ELSE 0
  IN CASE r.pc \in {"idle", "find", "reference"} -> 0
       [] r.pc \in {"opened", "prepare", "recording"} -> current
       [] r.pc \in {"advance", "commit", "addReference", "unwind"} -> last
       [] r.pc \in {"cap", "drop"} -> current + last

Holders(root) == MapThenSumSet(LAMBDA c : Held(c, root), Client) + leaked[root]

\* The root of the state a request has open, if it has one.
OpenRoot(c) ==
  LET r == request[c]
  IN CASE r.pc \in {"idle", "find", "unwind"} -> {}
       [] r.pc \in {"reference", "opened", "cap", "drop", "prepare", "recording"} ->
            {CurrentRoot(c)}
       [] r.pc \in {"advance", "commit", "addReference"} -> {r.lastRoot}

Parents(n) == {m \in Cached(db) : n \in Children[m] \cup db.dirties[m].external}

-----------------------------------------------------------------------------
\* The state a request has open is complete, in memory or on disk, while other
\* requests drop their references and the database flushes and writes:
\* StateFor opens and references under the mutex, and the loop of
\* GetOrRecreateState drops a state only after the next one is referenced.
OpenStateAvailable ==
  \A c \in Client : \A root \in OpenRoot(c) : Trie(root) \subseteq Available(db)

\* A node that can be found has everything below it: StateFor looks for the
\* root node only and takes the rest of the state for granted.
FoundMeansComplete == \A n \in Available(db) : Below(n) \subseteq Available(db)

\* The flush list, oldest to newest by flushNext and back by flushPrev, holds
\* the cached nodes: dereference, Cap and the cleaner of Commit relink it.
FlushListIntact ==
  LET list == ListFrom(db, db.oldest)
  IN /\ ToSet(list) = Cached(db) /\ Len(list) = Cardinality(Cached(db))
     /\ list # <<>> => Last(list) = db.newest
     /\ \A i \in 2..Len(list) : db.dirties[list[i]].flushPrev = list[i - 1]

\* The parents of a node that is not on disk are counted exactly: the cached
\* nodes above it and the holders of a root.  (A node that was flushed and then
\* inserted again may be counted short, and is then dropped early.)
ParentsCounted ==
  \A n \in Cached(db) \ db.disk :
    db.dirties[n].parents =
      Cardinality(Parents(n)) + (IF n \in Roots THEN Holders(n) ELSE 0)

\* The reference count of the recording database is the number of references
\* held by requests and by those that gave up with one.
ReferencesCounted == references = MapThenSumSet(Holders, Roots)

\* PrepareRecording and GetOrRecreateState hand out the state of the block they
\* were asked for, although the chain may reorganise while they execute.
RecreatedIsTarget ==
  \A c \in Client : request[c].pc \in {"prepare", "recording"} =>
    request[c].current = request[c].target

\* The blocks above b, up to the highest number.
BlocksLeft == [b \in Block |-> Max({Number(d) : d \in Block}) - Number(b)]
Height == BlocksLeft[GenesisBlock]

\* How many steps a request may still take: down to a block with a state, which is
\* opened, then for every block up to the target five steps of the loop.
StepsLeft(c) ==
  LET r == request[c]
      n == BlocksLeft[r.current]
  IN CASE r.pc = "idle" -> 0
       [] r.pc \in {"recording", "unwind"} -> 1
       [] r.pc = "prepare" -> 2
       [] r.pc = "advance" -> 3 + 5 * n
       [] r.pc = "drop" -> 4 + 5 * n
       [] r.pc = "cap" -> 5 + 5 * n
       [] r.pc = "addReference" -> 6 + 5 * n
       [] r.pc = "commit" -> 7 + 5 * n
       [] r.pc = "opened" -> 4 + 5 * Height
       [] r.pc = "reference" -> 5 + 5 * Height
       [] r.pc = "find" -> 6 + 6 * Height - n

\* Every step of a request leaves it fewer to take, whatever the others do and the
\* chain becomes meanwhile: the loops of FindLastAvailableState and GetOrRecreateState
\* end, with a recording or with an error, if the request gets the mutex.
RequestsAdvance ==
  [][\A c \in Client : request'[c] # request[c] /\ ~At(c, "idle") =>
        StepsLeft(c)' < StepsLeft(c) \/ request' = [request EXCEPT ![c].cancelled = TRUE]]_vars
=============================================================================
