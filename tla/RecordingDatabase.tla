------------------------- MODULE RecordingDatabase --------------------------
(***************************************************************************)
(* The recording database of the block validator: concurrent requests for  *)
(* the state of a block.  A request walks back to a block whose state is   *)
(* still available, then executes forward again, each step holding a       *)
(* reference to the state it works on, so that the trie database keeps it. *)
(*                                                                         *)
(* One client is one goroutine in PrepareRecording.  The mutex of the      *)
(* recording database is a variable, for it is held over several calls of  *)
(* the trie database, each of which is atomic under a lock of its own.     *)
(* The chain may reorganise and the context may be cancelled at any time,  *)
(* and the process may stop, which loses everything but the disk.          *)
(***************************************************************************)
EXTENDS HashDB

CONSTANTS
  Client,       \* the concurrent requests
  Block,        \* the blocks of the tree the chain knows
  GenesisBlock,
  Parent,       \* Block -> its parent, GenesisBlock -> itself
  RootOf,       \* Block -> the root of its state
  BadRoot,      \* what an execution that went wrong commits
  Free,         \* the mutex is not held
  MaxReorgs, MaxCancels, MaxRestarts, MaxWrites, \* bounds on the environment
  Shared        \* the blocks asked for while another request is at work

ASSUME RecordingAssumption ==
  /\ GenesisBlock \in Block /\ Parent[GenesisBlock] = GenesisBlock
  /\ \A b \in Block : RootOf[b] \in Node
  /\ BadRoot \in Node
  /\ Free \notin Client

VARIABLES
  db,          \* the trie database
  references,  \* the reference count the metrics report
  mutex,       \* who holds the mutex
  request,     \* Client -> the local state of its request
  head,        \* the head of the canonical chain
  leaked,      \* history: roots referenced by a request that gave up
  budget       \* what is left of the bounds

vars == <<db, references, mutex, request, head, leaked, budget>>

-----------------------------------------------------------------------------
(* The chain. *)

RECURSIVE Ancestry(_)
Ancestry(b) == IF b = GenesisBlock THEN {b} ELSE {b} \cup Ancestry(Parent[b])
Chain == [b \in Block |-> Ancestry(b)]
Number(b) == Cardinality(Chain[b]) - 1

\* GetBlockByNumber: the canonical block with a number, if there is one.
BlockByNumber(n) == {b \in Chain[head] : Number(b) = n}

Roots == {RootOf[b] : b \in Block} \cup {BadRoot}

NoRequest == [pc |-> "idle", target |-> GenesisBlock, current |-> GenesisBlock,
              lastRoot |-> Nil, cancelled |-> FALSE]

Limits == [reorgs |-> MaxReorgs, cancels |-> MaxCancels,
           restarts |-> MaxRestarts, writes |-> MaxWrites]

Init ==
  /\ db = New(Trie(RootOf[GenesisBlock]))
  /\ references = 0
  /\ mutex = Free
  /\ request = [c \in Client |-> NoRequest]
  /\ head \in {b \in Block : \A c \in Block \ {GenesisBlock} : Parent[c] # b}
  /\ leaked = [r \in Roots |-> 0]
  /\ budget = Limits

At(c, pc) == request[c].pc = pc
CurrentRoot(c) == RootOf[request[c].current]

Goto(c, pc) == request' = [request EXCEPT ![c].pc = pc]
Return(c) == request' = [request EXCEPT ![c] = NoRequest]

Lock(c) == mutex = Free /\ mutex' = c
Unlock(c) == mutex = c /\ mutex' = Free
LockAndUnlock == mutex = Free /\ UNCHANGED mutex

\* referenceRootLockHeld
ReferenceRoot(root) ==
  /\ references' = references + 1
  /\ db' = referenceRoot(db, root)

\* Mutant: dereferencing does not wait for the mutex.
MutDereferenceUnlocked(root) ==
  /\ UNCHANGED mutex
  /\ references' = references - 1
  /\ db' = dereference(db, root)

\* dereferenceRoot
DereferenceRoot(root) ==
  /\ LockAndUnlock
  /\ references' = references - 1
  /\ db' = dereference(db, root)

-----------------------------------------------------------------------------
(* FindLastAvailableState. *)

Working == {c \in Client : ~At(c, "idle")}

\* PrepareRecording is called for the state of a block.
Start(c, b) ==
  /\ At(c, "idle")
  /\ Working = {} \/ (budget = Limits /\ {b} \cup {request[d].target : d \in Working} \subseteq Shared)
  /\ request' = [request EXCEPT ![c] = [NoRequest EXCEPT !.pc = "find", !.target = b, !.current = b]]
  /\ UNCHANGED <<db, references, mutex, head, leaked, budget>>

\* The loop ends without a state once the context is cancelled.
FindCancelled(c) ==
  /\ At(c, "find") /\ request[c].cancelled
  /\ Return(c)
  /\ UNCHANGED <<db, references, mutex, head, leaked, budget>>

\* StateFor, first half: only the root node decides whether a state is there.
StateFor(c) ==
  /\ At(c, "find") /\ ~request[c].cancelled
  /\ CurrentRoot(c) \in Available(db)
  /\ Lock(c)
  /\ Goto(c, "reference")
  /\ UNCHANGED <<db, references, head, leaked, budget>>

\* StateFor failed: go on with the parent, unless this is the genesis block.
StateMissing(c) ==
  /\ At(c, "find") /\ ~request[c].cancelled
  /\ CurrentRoot(c) \notin Available(db)
  /\ LockAndUnlock
  /\ IF request[c].current = GenesisBlock
     THEN Return(c)
     ELSE request' = [request EXCEPT ![c].current = Parent[@]]
  /\ UNCHANGED <<db, references, head, leaked, budget>>

\* StateFor, second half.
StateForReference(c) ==
  /\ At(c, "reference")
  /\ Unlock(c)
  /\ ReferenceRoot(CurrentRoot(c))
  /\ Goto(c, "opened")
  /\ UNCHANGED <<head, leaked, budget>>

\* FindLastAvailableState returns the error of the context with the state it
\* found, and GetOrRecreateState returns without dereferencing it.
OpenedCancelled(c) ==
  /\ At(c, "opened") /\ request[c].cancelled
  /\ leaked' = [leaked EXCEPT ![CurrentRoot(c)] = @ + 1]
  /\ Return(c)
  /\ UNCHANGED <<db, references, mutex, head, budget>>

Opened(c) ==
  /\ At(c, "opened") /\ ~request[c].cancelled
  /\ IF request[c].current = request[c].target
     THEN Goto(c, "prepare")
     ELSE request' = [request EXCEPT ![c].pc = "advance", ![c].lastRoot = CurrentRoot(c)]
  /\ UNCHANGED <<db, references, mutex, head, leaked, budget>>

-----------------------------------------------------------------------------
(* The loop of GetOrRecreateState. *)

\* AdvanceStateByBlock fetched the next canonical block and executed it.
Advance(c) ==
  /\ At(c, "advance") /\ ~request[c].cancelled
  /\ \E b \in BlockByNumber(Number(request[c].current) + 1) :
       /\ Parent[b] = request[c].current
       /\ request' = [request EXCEPT ![c].pc = "commit", ![c].current = b]
  /\ UNCHANGED <<db, references, mutex, head, leaked, budget>>

\* The context is cancelled, there is no such block, its parent is another
\* one, or its execution failed.
AdvanceFails(c) ==
  /\ At(c, "advance")
  /\ Goto(c, "unwind")
  /\ UNCHANGED <<db, references, mutex, head, leaked, budget>>

\* The nodes a commit of root may write on a state with root base: the new
\* ones and some that it rewrote as they were, with all nodes above them.
NodeSets(root, base) ==
  {nodes \in SUBSET Trie(root) :
     /\ Trie(root) \ Trie(base) \subseteq nodes
     /\ \A n \in Trie(root) : Below(n) \cap nodes # {} => n \in nodes}

CommitState(root, base) ==
  IF root = base THEN db' = db
  ELSE \E nodes \in NodeSets(root, base) : db' = Update(db, nodes)

\* addStateVerify: StateDB.Commit hands the trie to the database.
AddState(c) ==
  /\ At(c, "commit")
  /\ Lock(c)
  /\ CommitState(CurrentRoot(c), request[c].lastRoot)
  /\ Goto(c, "addReference")
  /\ UNCHANGED <<references, head, leaked, budget>>

\* addStateVerify: the commit has another root than the block.
AddBadState(c) ==
  /\ At(c, "commit")
  /\ LockAndUnlock
  /\ CurrentRoot(c) # BadRoot
  /\ CommitState(BadRoot, request[c].lastRoot)
  /\ Goto(c, "unwind")
  /\ UNCHANGED <<references, head, leaked, budget>>

AddReference(c) ==
  /\ At(c, "addReference")
  /\ ReferenceRoot(CurrentRoot(c))
  /\ Goto(c, "cap")
  /\ UNCHANGED <<mutex, head, leaked, budget>>

\* The database may be above its limit, and the error of Cap is ignored.  If the new
\* state cannot be opened its reference is not given back.
CapAndOpen(c) ==
  LET root == CurrentRoot(c)
  IN /\ At(c, "cap")
     /\ Unlock(c)
     /\ \E k \in 0..Cardinality(Cached(db)) : db' \in {Cap(db, k), CapFails(db, k)}
     /\ IF root \in Available(db')
        THEN Goto(c, "drop") /\ UNCHANGED leaked
        ELSE Goto(c, "unwind") /\ leaked' = [leaked EXCEPT ![root] = @ + 1]
     /\ UNCHANGED <<references, head, budget>>

\* Mutant: the hash is not compared at the number of the target.
MutHashUnchecked(c) ==
  LET r == request[c]
      next == IF Number(r.current) < Number(r.target)
              THEN [r EXCEPT !.pc = "advance", !.lastRoot = RootOf[r.current]]
              ELSE [r EXCEPT !.pc = "prepare", !.lastRoot = Nil]
  IN /\ At(c, "drop")
     /\ DereferenceRoot(r.lastRoot)
     /\ request' = [request EXCEPT ![c] = next]
     /\ UNCHANGED <<head, leaked, budget>>

\* Mutant: with another block than the target at its number, start all over again.
MutSearchAgain(c) ==
  LET r == request[c]
      next == CASE Number(r.current) < Number(r.target) ->
                     [r EXCEPT !.pc = "advance", !.lastRoot = RootOf[r.current]]
                [] Number(r.current) >= Number(r.target) /\ r.current # r.target ->
                     [NoRequest EXCEPT !.pc = "find", !.target = r.target, !.current = r.target]
                [] r.current = r.target ->
                     [r EXCEPT !.pc = "prepare", !.lastRoot = Nil]
  IN /\ At(c, "drop")
     /\ DereferenceRoot(r.lastRoot)
     /\ request' = [request EXCEPT ![c] = next]
     /\ UNCHANGED <<head, leaked, budget>>

\* Drop the state before; at the number of the target, compare the hashes.
DropLast(c) ==
  LET r == request[c]
      next == CASE Number(r.current) < Number(r.target) ->
                     [r EXCEPT !.pc = "advance", !.lastRoot = RootOf[r.current]]
                [] Number(r.current) >= Number(r.target) /\ r.current # r.target ->
                     [r EXCEPT !.pc = "unwind", !.lastRoot = RootOf[r.current]]
                [] r.current = r.target ->
                     [r EXCEPT !.pc = "prepare", !.lastRoot = Nil]
  IN /\ At(c, "drop")
     /\ DereferenceRoot(r.lastRoot)
     /\ request' = [request EXCEPT ![c] = next]
     /\ UNCHANGED <<head, leaked, budget>>

\* Mutant: an error return keeps the reference.
MutReferenceKept(c) ==
  /\ At(c, "unwind")
  /\ Return(c)
  /\ UNCHANGED <<db, references, mutex, head, leaked, budget>>

\* The deferred dereference of an error return.
Unwind(c) ==
  /\ At(c, "unwind")
  /\ DereferenceRoot(request[c].lastRoot)
  /\ Return(c)
  /\ UNCHANGED <<head, leaked, budget>>

-----------------------------------------------------------------------------
(* PrepareRecording and its caller. *)

Prepared(c) ==
  /\ At(c, "prepare")
  /\ Goto(c, "recording")
  /\ UNCHANGED <<db, references, mutex, head, leaked, budget>>

\* The recording state could not be created: finalDereference.
PrepareFails(c) ==
  /\ At(c, "prepare")
  /\ DereferenceRoot(RootOf[request[c].target])
  /\ Return(c)
  /\ UNCHANGED <<head, leaked, budget>>

\* The caller is done with the recording.
Dereference(c) ==
  /\ At(c, "recording")
  /\ DereferenceRoot(RootOf[request[c].target])
  /\ Return(c)
  /\ UNCHANGED <<head, leaked, budget>>

-----------------------------------------------------------------------------
(* The environment. *)

Spend(what) ==
  /\ budget[what] > 0
  /\ budget = Limits
  /\ what # "writes" => Cardinality(Working) <= 1
  /\ budget' = [budget EXCEPT ![what] = @ - 1]

\* Commit of a state that is asked to be kept, without the mutex.  A batch may
\* fail, so that only the first nodes are written.
WriteStateToDatabase(b) ==
  /\ Spend("writes")
  /\ \E k \in 0..Cardinality(CommitSet(db, RootOf[b])) : db' = Commit(db, RootOf[b], k)
  /\ UNCHANGED <<references, mutex, request, head, leaked>>

Cancel(c) ==
  /\ Spend("cancels")
  /\ request[c].pc \notin {"idle", "prepare", "recording"}
  /\ request' = [request EXCEPT ![c].cancelled = TRUE]
  /\ UNCHANGED <<db, references, mutex, head, leaked>>

Reorg(b) ==
  /\ Spend("reorgs")
  /\ head' = b
  /\ UNCHANGED <<db, references, mutex, request, leaked>>

\* The process stops, in the middle of a Cap or a Commit or not, and starts again.
Restart ==
  /\ Spend("restarts")
  /\ \/ \E k \in 0..Cardinality(Cached(db)) : db' = New(CapFails(db, k).disk)
     \/ \E b \in Block : \E k \in 0..Cardinality(CommitSet(db, RootOf[b])) :
          db' = New(Commit(db, RootOf[b], k).disk)
  /\ references' = 0
  /\ mutex' = Free
  /\ request' = [c \in Client |-> NoRequest]
  /\ leaked' = [r \in Roots |-> 0]
  /\ UNCHANGED head

Finding(c) ==
  \/ FindCancelled(c) \/ StateFor(c) \/ StateMissing(c) \/ StateForReference(c)
  \/ OpenedCancelled(c) \/ Opened(c)

Recreating(c) ==
  \/ Advance(c) \/ AdvanceFails(c) \/ AddState(c) \/ AddBadState(c)
  \/ AddReference(c) \/ CapAndOpen(c) \/ DropLast(c) \/ Unwind(c)

Preparing(c) == Prepared(c) \/ PrepareFails(c)

\* The steps of a request that its goroutine takes without its caller.
Run(c) == Finding(c) \/ Recreating(c) \/ Preparing(c)

Next ==
  \/ \E c \in Client : Run(c) \/ Dereference(c) \/ Cancel(c)
  \/ \E c \in Client, b \in Block : Start(c, b)
  \/ \E b \in Block : WriteStateToDatabase(b) \/ Reorg(b)
  \/ Restart

Spec == Init /\ [][Next]_vars
=============================================================================
