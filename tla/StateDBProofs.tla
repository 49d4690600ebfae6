--------------------------- MODULE StateDBProofs ----------------------------
(***************************************************************************)
(* Proofs about StateDB for every value of its constants.  The initial     *)
(* states satisfy the invariant IInv; Snapshot, the steps of               *)
(* RevertToSnapshot, Finalise, IntermediateRoot, Commit and SetTxContext   *)
(* preserve it as the calls do, so it holds in every reachable state.      *)
(* From it a revert restores the world and the balance delta of its        *)
(* snapshot, Finalise finds every change, and a commit writes what the     *)
(* transactions saw, reversibly.                                           *)
(***************************************************************************)
EXTENDS StateDBCallProofs

\* Zenon is the prover of a leaf that names none: it is enough for first-order steps,
\* and the leaves that need arithmetic, records or sequences name SMT.
USE Zenon

-----------------------------------------------------------------------------
(* Snapshot and RevertToSnapshot.                                          *)

\* A prefix of a sequence.
LEMMA PrefixProps ==
  ASSUME NEW S, NEW q \in Seq(S), NEW m \in 0 .. Len(q)
  PROVE  /\ SubSeq(q, 1, m) \in Seq(S)
         /\ Len(SubSeq(q, 1, m)) = m
         /\ \A i \in 1 .. m : SubSeq(q, 1, m)[i] = q[i]
BY SMT

\* A step that leaves the worlds and the entries alone.
LEMMA SameJournal ==
  ASSUME IInv, UNCHANGED <<world, trail, destruct, db, mutations, trie>>,
         journal'.entries = journal.entries, journal'.dirties = journal.dirties
  PROVE  /\ JournalUndoable' /\ ChangesTracked' /\ BlockOk'
         /\ \A i : At(DB', i) = At(DB, i)
<1>1. /\ DB'.trail = trail /\ DB'.world = world /\ DB'.journal.entries = journal.entries
      /\ DB.trail = trail /\ DB.world = world /\ DB.journal.entries = journal.entries
  BY DEF DB
<1>2. \A i : At(DB', i) = At(DB, i)
  BY <1>1 DEF At
<1>3. JournalUndoable /\ Tracked(DB) /\ Counted(journal)
  BY DEF IInv, ChangesTracked
<1>4. JournalUndoable'
  BY <1>1, <1>2, <1>3, SameBlock, SMT DEF JournalUndoable, Undoable
<1>5. Tracked(DB')
  BY <1>1, <1>2, <1>3, SMT DEF Tracked
<1>6. Counted(journal')
  BY <1>3 DEF Counted, Touches
<1>7. BlockOk'
  BY <1>2, SameStart DEF IInv
<1> QED BY <1>2, <1>4, <1>5, <1>6, <1>7 DEF ChangesTracked

\* Snapshot adds a revision that points to the current world.
LEMMA SnapshotPreserves == IInv /\ Snapshot => IInv'
<1> SUFFICES ASSUME IInv, Snapshot PROVE IInv'
  OBVIOUS
<1> DEFINE rev == [id |-> journal.nextRevisionId, journalIndex |-> Len(journal.entries),
                   delta |-> delta]
           sav == [world |-> world, delta |-> delta, expected |-> expected]
           m   == Len(saved)
           n   == Len(trail)
<1>1. /\ journal'.validRevisions = Append(journal.validRevisions, rev)
      /\ journal'.nextRevisionId = journal.nextRevisionId + 1
      /\ journal'.entries = journal.entries /\ journal'.dirties = journal.dirties
      /\ journal' \in Journals
      /\ rev \in Revisions /\ sav \in SavedStates
  <2>1. journal \in Journals /\ delta \in Int /\ expected \in Int /\ world \in Worlds
    BY DEF IInv, TypeOK
  <2>2. rev \in Revisions /\ sav \in SavedStates
    BY <2>1, InvFacts DEF Revisions, SavedStates, Journals
  <2> HIDE DEF rev, sav
  <2>3. Append(journal.validRevisions, rev) \in Seq(Revisions)
    BY <2>2, InvFacts, AppendProps
  <2> DEFINE V == Append(journal.validRevisions, rev)
             N == journal.nextRevisionId + 1
  <2>4. journal' = [journal EXCEPT !.nextRevisionId = N, !.validRevisions = V]
    BY <2>1 DEF Snapshot, rev, Journals
  <2>5. N \in Nat
    BY <2>1, SMT DEF Journals
  <2> HIDE DEF V, N
  <2>6. /\ journal'.validRevisions = V /\ journal'.nextRevisionId = N
        /\ journal'.entries = journal.entries /\ journal'.dirties = journal.dirties
        /\ journal' \in Journals
    BY <2>1, <2>3, <2>4, <2>5 DEF Journals, V
  <2> QED BY <2>2, <2>6 DEF V, N
<1>2. /\ saved' = Append(saved, sav)
      /\ UNCHANGED <<world, delta, thash, reverting, blockVars, trail, expected, lost>>
      /\ reverting = 0
  BY DEF Snapshot, Idle
<1> HIDE DEF rev, sav
<1>3. /\ m \in Nat /\ m = Len(journal.validRevisions)
      /\ Len(journal'.validRevisions) = m + 1 /\ Len(saved') = m + 1
      /\ saved' \in Seq(SavedStates)
      /\ \A i \in 1 .. m : /\ journal'.validRevisions[i] = journal.validRevisions[i]
                           /\ saved'[i] = saved[i]
      /\ journal'.validRevisions[m + 1] = rev /\ saved'[m + 1] = sav
  <2>1. /\ journal.validRevisions \in Seq(Revisions) /\ saved \in Seq(SavedStates)
        /\ m \in Nat /\ m = Len(journal.validRevisions) /\ m = Len(saved)
    BY InvFacts
  <2>2. /\ Len(journal'.validRevisions) = m + 1
        /\ \A i \in 1 .. m : journal'.validRevisions[i] = journal.validRevisions[i]
        /\ journal'.validRevisions[m + 1] = rev
    BY <2>1, <1>1, AppendProps, SMT
  <2>3. /\ saved' \in Seq(SavedStates) /\ Len(saved') = m + 1
        /\ \A i \in 1 .. m : saved'[i] = saved[i]
        /\ saved'[m + 1] = sav
    BY <2>1, <1>1, <1>2, AppendProps, SMT
  <2> QED BY <2>1, <2>2, <2>3
<1>4. /\ rev.id = journal.nextRevisionId /\ rev.journalIndex = n /\ rev.delta = delta
      /\ sav.world = world /\ sav.delta = delta /\ n \in Nat
  BY InvFacts DEF rev, sav
<1>5. JournalUndoable' /\ ChangesTracked' /\ BlockOk' /\ \A i : At(DB', i) = At(DB, i)
  BY <1>1, <1>2, SameJournal DEF blockVars
<1>6. TypeOK'
  <2>1. /\ TypeOK /\ reverting' \in 0 .. Len(journal'.validRevisions)
        /\ Len(saved') = Len(journal'.validRevisions)
    BY <1>2, <1>3, SMT DEF IInv
  <2>2. Len(trail') = Len(journal'.entries) /\ trail' \in Seq(Worlds)
    BY <1>1, <1>2, <2>1 DEF TypeOK
  <2>3. /\ world' \in Worlds /\ delta' \in Int /\ thash' \in Tx
        /\ expected' \in Int /\ lost' \in [Address -> Nat]
    BY <1>2, <2>1 DEF TypeOK
  <2>4. /\ destruct' \in [Address -> [origin : Account \cup {NoObject}] \cup {NoEntry}]
        /\ mutations' \in [Address -> Mutations \cup {NoEntry}]
        /\ trie' \in [Address -> Account \cup {NoObject}]
        /\ db' \in [Address -> Account \cup {NoObject}]
        /\ txs' \in Nat
    BY <1>2, <2>1 DEF TypeOK, blockVars
  <2> QED BY <1>1, <1>3, <2>1, <2>2, <2>3, <2>4 DEF TypeOK
<1>7. RevisionsOrdered'
  <2>1. Open = m /\ Open' = m + 1
    BY <1>2, <1>3 DEF Open, Idle
  <2>2. ASSUME NEW i \in 1 .. m + 1, NEW j \in 1 .. m + 1, i < j
        PROVE  /\ journal'.validRevisions[i].id < journal'.validRevisions[j].id
               /\ journal'.validRevisions[i].journalIndex <= journal'.validRevisions[j].journalIndex
    <3>1. i \in 1 .. m
      BY <2>2, <1>3, SMT
    <3>2. /\ journal.validRevisions[i].id < journal.nextRevisionId
          /\ journal.validRevisions[i].journalIndex <= n
      BY <3>1, <2>1, <1>3, RevisionFacts, InvFacts DEF IInv, RevisionsOrdered
    <3>3. CASE j = m + 1 BY <3>1, <3>2, <3>3, <1>3, <1>4
    <3>4. CASE j \in 1 .. m BY <2>2, <3>1, <3>4, <1>3 DEF IInv, RevisionsOrdered
    <3> QED BY <3>3, <3>4, <1>3, SMT
  <2>3. ASSUME NEW i \in 1 .. m + 1
        PROVE  /\ journal'.validRevisions[i].id < journal'.nextRevisionId
               /\ journal'.validRevisions[i].delta = saved'[i].delta
               /\ journal'.validRevisions[i].journalIndex <= Len(trail')
               /\ saved'[i].world = At(DB', journal'.validRevisions[i].journalIndex + 1)
    <3>0. journal.nextRevisionId \in Nat
      BY DEF IInv, TypeOK, Journals
    <3>1. CASE i = m + 1
      <4>1. At(DB', n + 1) = world
        BY <1>5, InvFacts
      <4> QED BY <3>0, <3>1, <4>1, <1>1, <1>2, <1>3, <1>4, SMTT(30)
    <3>2. CASE i \in 1 .. m
      <4>1. /\ journal.validRevisions[i].id < journal.nextRevisionId
            /\ journal.validRevisions[i].delta = saved[i].delta
        BY <3>2, <1>3 DEF IInv, RevisionsOrdered
      <4>2. /\ journal.validRevisions[i].journalIndex <= n
            /\ saved[i].world = At(DB, journal.validRevisions[i].journalIndex + 1)
        BY <3>2, <2>1, RevisionFacts, InvFacts, SMT
      <4>3. journal.validRevisions[i].id \in Nat
        BY <3>2, InvFacts DEF Revisions
      <4> QED BY <3>0, <3>2, <4>1, <4>2, <4>3, <1>1, <1>2, <1>3, <1>5, SMTT(30)
    <3> QED BY <3>1, <3>2, <1>3, SMT
  <2> QED BY <2>1, <2>2, <2>3, <1>2, <1>3 DEF RevisionsOrdered, Idle
<1> QED BY <1>5, <1>6, <1>7 DEF IInv

\* sort.Search finds the revision with the id.
LEMMA SearchFacts ==
  ASSUME IInv, NEW id, NEW i \in 1 .. Len(journal.validRevisions),
         journal.validRevisions[i].id = id
  PROVE  /\ Search(journal.validRevisions, id) \in 1 .. Len(journal.validRevisions)
<1> DEFINE revs == journal.validRevisions
<1>1. revs[i].id >= id /\ \A j \in 1 .. i - 1 : revs[j].id < id
  <2>1. revs[i].id \in Nat
    BY InvFacts DEF Revisions
  <2>2. ASSUME NEW j \in 1 .. i - 1 PROVE revs[j].id < id
    <3>1. j \in 1 .. Len(revs) /\ j < i
      BY InvFacts, SMT
    <3> QED BY <3>1 DEF IInv, RevisionsOrdered
  <2> QED BY <2>1, <2>2, SMT
<1> QED BY <1>1 DEF Search

\* The lengths the revert loop runs over.
LEMMA LengthFacts ==
  ASSUME IInv
  PROVE  /\ Len(trail) \in Nat /\ Len(journal.entries) = Len(trail)
         /\ Len(saved) \in Nat /\ reverting \in 0 .. Len(saved)
         /\ \A i \in 1 .. Len(saved) : journal.validRevisions[i].journalIndex \in Nat
<1>1. /\ Len(trail) \in Nat /\ Len(journal.entries) = Len(trail)
      /\ Len(saved) \in Nat /\ reverting \in 0 .. Len(saved)
  BY InvFacts
<1>2. \A i \in 1 .. Len(saved) : journal.validRevisions[i].journalIndex \in Nat
  BY InvFacts
<1> QED BY <1>1, <1>2

\* RevertToSnapshot finds the revision and restores its delta.
LEMMA RevertToSnapshotPreserves ==
  ASSUME IInv, NEW id, RevertToSnapshot(id) PROVE IInv'
<1> DEFINE x == Search(journal.validRevisions, id)
<1>1. x \in 1 .. Len(saved)
  BY SearchFacts, InvFacts DEF RevertToSnapshot
<1>2. /\ reverting = 0 /\ reverting' = x
      /\ delta' = journal.validRevisions[x].delta
      /\ expected' = saved[x].expected
      /\ UNCHANGED <<world, journal, thash, blockVars, trail, saved, lost>>
  BY DEF RevertToSnapshot, Idle
<1> HIDE DEF x
<1>3. delta' \in Int /\ delta' = saved[x].delta /\ expected' \in Int
  <2>1. journal.validRevisions[x] \in Revisions /\ saved[x] \in SavedStates
    BY <1>1, InvFacts
  <2>2. journal.validRevisions[x].delta = saved[x].delta
    BY <1>1, InvFacts DEF IInv, RevisionsOrdered
  <2> QED BY <1>2, <2>1, <2>2 DEF Revisions, SavedStates
<1>4. TypeOK'
  <2>1. reverting' \in 0 .. Len(journal'.validRevisions)
    <3>1. Len(saved) \in Nat /\ Len(saved) = Len(journal.validRevisions)
      BY InvFacts
    <3> QED BY <1>1, <1>2, <3>1, SMT
  <2> QED BY <1>2, <1>3, <2>1 DEF IInv, TypeOK, blockVars
<1>5. JournalUndoable' /\ ChangesTracked' /\ BlockOk' /\ \A i : At(DB', i) = At(DB, i)
  BY <1>2, SameJournal DEF blockVars
<1>6. RevisionsOrdered'
  <2>1. Open = Len(saved) /\ Open' = x /\ Len(saved) \in Nat
    <3>1. x # 0 /\ Len(saved) \in Nat
      BY <1>1, LengthFacts, SMT
    <3> QED BY <1>2, <3>1 DEF Open, Idle
  <2>2. \A i \in 1 .. x : i \in 1 .. Open
    BY <1>1, <2>1, SMT
  <2>3. ASSUME NEW i \in 1 .. x
        PROVE  /\ journal.validRevisions[i].journalIndex <= Len(trail)
               /\ saved[i].world = At(DB', journal.validRevisions[i].journalIndex + 1)
    <3>1. i \in 1 .. Open
      BY <2>2
    <3>2. /\ journal.validRevisions[i].journalIndex \in 0 .. Len(trail)
          /\ saved[i].world = At(DB, journal.validRevisions[i].journalIndex + 1)
      BY <3>1, RevisionFacts
    <3>3. At(DB', journal.validRevisions[i].journalIndex + 1)
            = At(DB, journal.validRevisions[i].journalIndex + 1)
      BY <1>5
    <3>4. journal.validRevisions[i].journalIndex <= Len(trail)
      BY <3>2, LengthFacts, SMT
    <3> QED BY <3>2, <3>3, <3>4
  <2> QED BY <1>2, <1>3, <2>1, <2>3 DEF IInv, RevisionsOrdered
<1> QED BY <1>4, <1>5, <1>6 DEF IInv

\* One turn of the revert loop: the last entry takes the world back to the one
\* before it.
LEMMA RevertEntryPreserves == IInv /\ RevertEntry => IInv'
<1> SUFFICES ASSUME IInv, RevertEntry PROVE IInv'
  OBVIOUS
<1> DEFINE n == Len(trail)
           x == journal.validRevisions[reverting].journalIndex
<1>1. /\ n \in Nat /\ n = Len(journal.entries) /\ reverting # 0
      /\ reverting \in 1 .. Len(saved) /\ x \in Nat /\ x < n
  <2>1. reverting # 0 /\ Len(journal.entries) > x
    BY DEF RevertEntry, Idle
  <2>2. reverting \in 1 .. Len(saved)
    BY <2>1, LengthFacts, SMT
  <2>3. x \in Nat
    BY <2>2, LengthFacts
  <2> QED BY <2>1, <2>2, <2>3, LengthFacts
<1>2. /\ world' = Undo(journal.entries[n], world)
      /\ trail' = SubSeq(trail, 1, n - 1)
      /\ UNCHANGED <<delta, thash, reverting, blockVars, saved, expected, lost>>
  BY <1>1 DEF RevertEntry
<1>3. /\ journal' \in Journals
      /\ journal'.entries = SubSeq(journal.entries, 1, n - 1)
      /\ journal'.validRevisions = journal.validRevisions
      /\ journal'.nextRevisionId = journal.nextRevisionId
      /\ \A a \in Address : journal'.dirties[a]
           = journal.dirties[a] - (IF Dirtied(journal.entries[n], a) THEN 1 ELSE 0)
  <2> DEFINE e  == journal.entries[n]
             q  == SubSeq(journal.entries, 1, n - 1)
             ds == IF e.type \in DirtyingTypes THEN Decrement(journal.dirties, e.addr)
                                               ELSE journal.dirties
             zs == IF isZombie(e) /\ journal.dirties[e.addr] = 1
                   THEN Decrement(journal.zombieEntries, e.addr) ELSE journal.zombieEntries
  <2>1. journal \in Journals /\ journal.entries \in Seq(Entries) /\ e \in Entries
    <3>1. n \in 1 .. n
      BY <1>1, SMT
    <3>2. journal \in Journals
      BY DEF IInv, TypeOK
    <3> QED BY <3>1, <3>2, InvFacts
  <2>2. q \in Seq(Entries)
    BY <1>1, <2>1, PrefixProps, SMT
  <2>3. journal' = [journal EXCEPT !.entries = q, !.dirties = ds, !.zombieEntries = zs]
    BY <1>1, <2>1 DEF RevertEntry, dropLast, Journals
  <2>4. ds \in [Address -> Int] /\ zs \in [Address -> Int]
    <3>1. e.type \in DirtyingTypes => e.addr \in Address
      BY <2>1 DEF Entries, AddressEntries, DirtyingTypes
    <3>2. isZombie(e) => e.addr \in Address
      BY <3>1 DEF isZombie, DirtyingTypes
    <3>3. ASSUME NEW f \in [Address -> Int], NEW a \in Address
          PROVE  Decrement(f, a) \in [Address -> Int]
      BY SMT DEF Decrement
    <3> HIDE DEF e
    <3> QED BY <2>1, <3>1, <3>2, <3>3 DEF Journals
  <2>4a. ASSUME NEW a \in Address
         PROVE  ds[a] = journal.dirties[a] - (IF Dirtied(e, a) THEN 1 ELSE 0)
    <3>1. journal.dirties \in [Address -> Int]
      BY <2>1 DEF Journals
    <3>2. e.type \in DirtyingTypes => e.addr \in Address
      BY <2>1 DEF Entries, AddressEntries, DirtyingTypes
    <3> HIDE DEF e
    <3>3. CASE e.type \in DirtyingTypes BY <3>1, <3>2, <3>3, SMT DEF Dirtied, Decrement
    <3>4. CASE e.type \notin DirtyingTypes BY <3>1, <3>4, SMT DEF Dirtied
    <3> QED BY <3>3, <3>4
  <2> HIDE DEF q, ds, zs
  <2>5. /\ journal' \in Journals /\ journal'.entries = q /\ journal'.dirties = ds
        /\ journal'.validRevisions = journal.validRevisions
        /\ journal'.nextRevisionId = journal.nextRevisionId
    BY <2>1, <2>2, <2>3, <2>4 DEF Journals
  <2> QED BY <2>4a, <2>5 DEF q
<1>4. /\ trail' \in Seq(Worlds) /\ Len(trail') = n - 1
      /\ Len(journal'.entries) = n - 1
      /\ \A i \in 1 .. n - 1 : /\ trail'[i] = trail[i]
                               /\ journal'.entries[i] = journal.entries[i]
  <2>1. n - 1 \in 0 .. n
    BY <1>1, SMT
  <2>2. trail \in Seq(Worlds) /\ journal.entries \in Seq(Entries)
    BY InvFacts
  <2> QED BY <1>1, <1>2, <1>3, <2>1, <2>2, PrefixProps, SMTT(30)
<1>5. world' = trail[n] /\ world' \in Worlds
  <2>1. n \in 1 .. n /\ n \in 1 .. n + 1
    BY <1>1, SMT
  <2>2. Undo(journal.entries[n], At(DB, n + 1)) = At(DB, n)
    BY <2>1 DEF IInv, JournalUndoable, Undoable, DB
  <2>3. At(DB, n) = trail[n] /\ At(DB, n + 1) = world /\ At(DB, n) \in Worlds
    BY <2>1, InvFacts
  <2> QED BY <1>2, <2>2, <2>3
<1>6. \A i \in 1 .. n : At(DB', i) = At(DB, i)
  <2>1. DB'.trail = trail' /\ DB'.world = world'
    BY DEF DB
  <2> SUFFICES ASSUME NEW i \in 1 .. n PROVE At(DB', i) = At(DB, i)
    OBVIOUS
  <2>2. CASE i = n
    <3>1. At(DB, n) = trail[n]
      BY <2>2, InvFacts
    <3>2. ~(n <= Len(trail'))
      BY <1>1, <1>4, SMT
    <3> QED BY <2>1, <2>2, <3>1, <3>2, <1>5 DEF At
  <2>3. CASE i \in 1 .. n - 1
    <3>1. At(DB, i) = trail[i]
      BY InvFacts
    <3>2. i <= Len(trail') /\ trail'[i] = trail[i]
      BY <2>3, <1>1, <1>4, SMT
    <3> QED BY <2>1, <3>1, <3>2 DEF At
  <2> QED BY <2>2, <2>3, <1>1, SMT
<1>7. JournalUndoable'
  <2>1. /\ \A w : Sound(w)' <=> Sound(w)
        /\ \A e, w : Undo(e, w)' = Undo(e, w)
    BY <1>2, SameBlock DEF blockVars
  <2>2. \A i \in 1 .. Len(trail') + 1 : Sound(At(DB', i))
    BY <1>1, <1>4, <1>6, InvFacts, SMT
  <2>3. ASSUME NEW i \in 1 .. n - 1
        PROVE  Undo(journal'.entries[i], At(DB', i + 1)) = At(DB', i)
    <3>1. i \in 1 .. n /\ i + 1 \in 1 .. n
      BY <1>1, SMT
    <3>2. Undo(journal.entries[i], At(DB, i + 1)) = At(DB, i)
      BY <3>1 DEF IInv, JournalUndoable, Undoable, DB
    <3> QED BY <3>1, <3>2, <1>4, <1>6
  <2>4. DB'.trail = trail' /\ DB'.journal = journal'
    BY DEF DB
  <2> QED BY <2>1, <2>2, <2>3, <2>4, <1>4 DEF JournalUndoable, Undoable
<1>8. TypeOK'
  <2>1. UNCHANGED <<delta, thash, reverting, saved, expected, lost>>
    BY <1>2
  <2>2. UNCHANGED <<destruct, mutations, trie, db, txs>>
    BY <1>2 DEF blockVars
  <2> QED BY <2>1, <2>2, <1>3, <1>4, <1>5 DEF IInv, TypeOK
<1>9. RevisionsOrdered'
  <2>1. Open = reverting /\ Open' = reverting
    BY <1>1, <1>2 DEF Open, Idle
  <2>2. ASSUME NEW i \in 1 .. reverting
        PROVE  /\ journal.validRevisions[i].journalIndex <= Len(trail')
               /\ saved[i].world = At(DB', journal.validRevisions[i].journalIndex + 1)
    <3> DEFINE y == journal.validRevisions[i].journalIndex
    <3>1. i \in 1 .. Len(saved) /\ y \in 0 .. n /\ saved[i].world = At(DB, y + 1)
      BY <2>1, RevisionFacts
    <3>2. y <= x
      <4>0. x \in Nat
        BY <1>1
      <4>1. CASE i = reverting BY <4>0, <4>1, SMT
      <4>2. CASE i < reverting
        BY <4>2, <3>1, <1>1, InvFacts DEF IInv, RevisionsOrdered
      <4> QED BY <4>1, <4>2, <1>1, SMT
    <3> HIDE DEF y
    <3>3. y + 1 \in 1 .. n /\ y <= n - 1
      BY <3>1, <3>2, <1>1, SMT
    <3> QED BY <3>1, <3>3, <1>4, <1>6 DEF y
  <2> QED BY <1>1, <1>2, <1>3, <2>1, <2>2 DEF IInv, RevisionsOrdered, Idle
<1>10. Tracked(DB')
  <2>1. DB'.trail = trail' /\ DB'.journal = journal' /\ DB.trail = trail /\ DB.journal = journal
    BY DEF DB
  <2> SUFFICES ASSUME NEW a \in Address, NEW i \in 1 .. n
               PROVE  /\ Ledger(At(DB', i).obj[a]) # Ledger(At(DB', 1).obj[a]) =>
                           \E j \in 1 .. i - 1 : Dirtied(journal'.entries[j], a)
                      /\ At(DB', i).obj[a] = NoObject => At(DB', 1).obj[a] = NoObject
    <3>1. n \in Nat /\ Len(trail') = n - 1
      BY <1>1, <1>4
    <3>2. Len(trail') + 1 = n
      BY <3>1, SMT
    <3>3. 1 .. Len(DB'.trail) + 1 = 1 .. n
      BY <2>1, <3>2
    <3>4. DB'.journal.entries = journal'.entries
      BY <2>1
    <3> QED BY <3>3, <3>4 DEF Tracked
  <2>2. 1 \in 1 .. n /\ i \in 1 .. n + 1 /\ \A j \in 1 .. i - 1 : j \in 1 .. n - 1
    BY <1>1, SMT
  <2>3. /\ Ledger(At(DB, i).obj[a]) # Ledger(At(DB, 1).obj[a]) =>
             \E j \in 1 .. i - 1 : Dirtied(journal.entries[j], a)
        /\ At(DB, i).obj[a] = NoObject => At(DB, 1).obj[a] = NoObject
    BY <2>1, <2>2 DEF IInv, ChangesTracked, Tracked
  <2> QED BY <1>4, <1>6, <2>2, <2>3
<1>11. Counted(journal')
  <2> SUFFICES ASSUME NEW a \in Address
               PROVE  /\ journal'.dirties[a] \in Nat
                      /\ ExistsInjection(Touches(journal', a), 1 .. journal'.dirties[a])
    BY DEF Counted
  <2> DEFINE e == journal.entries[n]
  <2>1. OneMore(journal', journal)
    <3>1. journal'.entries \in Seq(Entries) /\ journal.entries \in Seq(Entries)
      BY <1>3, InvFacts DEF Journals
    <3>2. n \in Nat /\ Len(journal.entries) = n /\ Len(journal'.entries) = n - 1
      BY <1>1, <1>4
    <3>3. Len(journal.entries) = Len(journal'.entries) + 1
      BY <3>2, SMT
    <3>4. \A i \in 1 .. Len(journal'.entries) : journal.entries[i] = journal'.entries[i]
      BY <3>2, <1>4
    <3> QED BY <3>1, <3>3, <3>4 DEF OneMore
  <2>2. /\ n \notin Touches(journal', a)
        /\ Touches(journal, a) = IF Dirtied(e, a) THEN Touches(journal', a) \cup {n}
                                 ELSE Touches(journal', a)
    BY <2>1, <1>1, TouchesOneMore
  <2>3. /\ journal.dirties[a] \in Nat
        /\ ExistsInjection(Touches(journal, a), 1 .. journal.dirties[a])
    BY DEF IInv, ChangesTracked, Counted
  <2>4. journal'.dirties[a] = journal.dirties[a] - (IF Dirtied(e, a) THEN 1 ELSE 0)
    BY <1>1, <1>3 DEF IInv, TypeOK, Journals
  <2> HIDE DEF e
  <2>5. CASE Dirtied(e, a)
    BY <2>2, <2>3, <2>4, <2>5, CountDown, SMTT(30)
  <2>6. CASE ~Dirtied(e, a)
    BY <2>2, <2>3, <2>4, <2>6, SMTT(30)
  <2> QED BY <2>5, <2>6
<1>12. BlockOk'
  <2>1. 1 \in 1 .. n
    BY <1>1, SMT
  <2> QED BY <1>2, <1>6, <2>1, SameStart DEF IInv, blockVars
<1> QED BY <1>7, <1>8, <1>9, <1>10, <1>11, <1>12 DEF IInv, ChangesTracked

\* When the journal is back to the length of the revision, the world is the one the
\* revision saved.
LEMMA RevertDonePreserves ==
  ASSUME IInv, RevertDone
  PROVE  /\ IInv'
         /\ world' = saved[reverting].world
         /\ delta' = saved[reverting].delta
         /\ Len(journal'.validRevisions) = reverting - 1
<1> DEFINE r == reverting
           q == SubSeq(journal.validRevisions, 1, r - 1)
<1>1. /\ r # 0 /\ r \in 1 .. Len(saved)
      /\ Len(trail) = journal.validRevisions[r].journalIndex
      /\ journal' = [journal EXCEPT !.validRevisions = q]
      /\ saved' = SubSeq(saved, 1, r - 1)
      /\ reverting' = 0
      /\ UNCHANGED <<world, delta, thash, blockVars, trail, expected, lost>>
  BY InvFacts, SMT DEF RevertDone, Idle
<1>2. /\ q \in Seq(Revisions) /\ Len(q) = r - 1
      /\ saved' \in Seq(SavedStates) /\ Len(saved') = r - 1
      /\ \A i \in 1 .. r - 1 : /\ q[i] = journal.validRevisions[i]
                               /\ saved'[i] = saved[i]
                               /\ i \in 1 .. r /\ i \in 1 .. Len(saved)
  <2>1. /\ journal.validRevisions \in Seq(Revisions) /\ saved \in Seq(SavedStates)
        /\ Len(saved) = Len(journal.validRevisions) /\ Len(saved) \in Nat
    BY InvFacts
  <2>2. r - 1 \in 0 .. Len(saved) /\ \A i \in 1 .. r - 1 : i \in 1 .. r /\ i \in 1 .. Len(saved)
    BY <1>1, <2>1, SMT
  <2> QED BY <1>1, <2>1, <2>2, PrefixProps, SMTT(30)
<1> HIDE DEF q
<1>3. /\ journal' \in Journals /\ journal'.validRevisions = q
      /\ journal'.entries = journal.entries /\ journal'.dirties = journal.dirties
      /\ journal'.nextRevisionId = journal.nextRevisionId
  <2>1. journal \in Journals
    BY DEF IInv, TypeOK
  <2> QED BY <1>1, <1>2, <2>1 DEF Journals
<1>4. JournalUndoable' /\ ChangesTracked' /\ BlockOk' /\ \A i : At(DB', i) = At(DB, i)
  BY <1>1, <1>3, SameJournal DEF blockVars
<1>5. TypeOK'
  <2>1. reverting' \in 0 .. Len(journal'.validRevisions)
    BY <1>1, <1>2, <1>3, SMT
  <2> QED BY <1>1, <1>2, <1>3, <2>1 DEF IInv, TypeOK, blockVars
<1>6. Open = r /\ Open' = r - 1
  BY <1>1, <1>2 DEF Open, Idle
<1>7. RevisionsOrdered'
  <2>1. ASSUME NEW i \in 1 .. r - 1
        PROVE  /\ q[i].journalIndex <= Len(trail)
               /\ saved'[i].world = At(DB', q[i].journalIndex + 1)
    <3> DEFINE y == journal.validRevisions[i].journalIndex
    <3>1. i \in 1 .. Open /\ q[i] = journal.validRevisions[i] /\ saved'[i] = saved[i]
      BY <1>2, <1>6
    <3>2. y \in 0 .. Len(trail) /\ saved[i].world = At(DB, y + 1)
      BY <3>1, RevisionFacts
    <3>3. y <= Len(trail)
      BY <3>2, InvFacts, SMT
    <3> QED BY <3>1, <3>2, <3>3, <1>4
  <2>2. Len(saved) = Len(journal.validRevisions)
    BY InvFacts
  <2>3. ASSUME NEW i \in 1 .. r - 1, NEW j \in 1 .. r - 1, i < j
        PROVE  q[i].id < q[j].id /\ q[i].journalIndex <= q[j].journalIndex
    BY <2>2, <2>3, <1>2 DEF IInv, RevisionsOrdered
  <2>4. ASSUME NEW i \in 1 .. r - 1
        PROVE  q[i].id < journal.nextRevisionId /\ q[i].delta = saved'[i].delta
    BY <2>2, <1>2 DEF IInv, RevisionsOrdered
  <2> QED BY <1>1, <1>2, <1>3, <1>6, <2>1, <2>3, <2>4, SMTT(30) DEF RevisionsOrdered, Idle
<1>8. world' = saved[r].world
  <2>1. r \in 1 .. Open
    BY <1>1, <1>6, InvFacts, SMT
  <2>2. saved[r].world = At(DB, journal.validRevisions[r].journalIndex + 1)
    BY <2>1, RevisionFacts
  <2> QED BY <1>1, <2>2, InvFacts
<1>9. delta' = saved[r].delta
  BY <1>1 DEF IInv, RevisionsOrdered, Idle
<1> QED BY <1>2, <1>3, <1>4, <1>5, <1>7, <1>8, <1>9 DEF IInv
-----------------------------------------------------------------------------
(* The boundaries.                                                         *)

\* Between two transactions the invariant is the types, a sound world and settled
\* accounts.
Between ==
  /\ TypeOK /\ Sound(world)
  /\ trail = <<>> /\ journal.validRevisions = <<>> /\ reverting = 0
  /\ journal.dirties = [a \in Address |-> 0]
  /\ \A a \in Address : Settled(a, world.obj[a], destruct[a], mutations[a], trie[a])

\* Between transactions the rest of the invariant holds for the empty journal.
LEMMA EmptyJournal == Between => IInv
<1> SUFFICES ASSUME Between PROVE IInv
  OBVIOUS
<1>0. /\ TypeOK /\ Sound(world)
      /\ trail = <<>> /\ journal.validRevisions = <<>> /\ reverting = 0
      /\ journal.dirties = [a \in Address |-> 0]
      /\ \A a \in Address : Settled(a, world.obj[a], destruct[a], mutations[a], trie[a])
  BY DEF Between
<1>1. Len(trail) = 0 /\ DB.trail = trail /\ DB.world = world /\ Len(journal.validRevisions) = 0
  BY <1>0 DEF DB
<1>2. At(DB, 1) = world
  BY <1>1, SMT DEF At
<1>3. JournalUndoable
  BY <1>0, <1>1, <1>2, SMT DEF JournalUndoable, Undoable
<1>4. Open = 0
  BY <1>0, <1>1 DEF Open, Idle, TypeOK
<1>5. RevisionsOrdered
  BY <1>0, <1>1, <1>4, SMT DEF RevisionsOrdered, Idle
<1>6. Tracked(DB)
  <2>1. \A i \in 1 .. Len(DB.trail) + 1 : i = 1
    BY <1>1, SMT
  <2> QED BY <2>1 DEF Tracked
<1>7. Counted(journal)
  <2>1. Len(journal.entries) = 0
    BY <1>0, <1>1 DEF TypeOK
  <2>2. \A a : Touches(journal, a) = {}
    BY <2>1, SMT DEF Touches
  <2>3. \A a \in Address : journal.dirties[a] = 0
    BY <1>0
  <2>4. ExistsInjection({}, 1 .. 0)
    <3> DEFINE f == [x \in {} |-> 1]
    <3>1. f \in [{} -> 1 .. 0] /\ IsInjective(f)
      BY DEF IsInjective
    <3> QED BY <3>1 DEF ExistsInjection, Injection
  <2> QED
    <3> SUFFICES ASSUME NEW a \in Address
                 PROVE  /\ journal.dirties[a] \in Nat
                        /\ ExistsInjection(Touches(journal, a), 1 .. journal.dirties[a])
      BY DEF Counted
    <3>1. journal.dirties[a] = 0 /\ Touches(journal, a) = {}
      BY <2>2, <2>3
    <3> QED BY <3>1, <2>4, SMT
<1>8. BlockOk
  BY <1>0, <1>2 DEF BlockOk
<1> QED BY <1>0, <1>3, <1>5, <1>6, <1>7, <1>8 DEF IInv, ChangesTracked

\* The objects a StateDB opened at a state with account acct would load.
LEMMA NewObjectOf ==
  ASSUME NEW acct \in Account
  PROVE  LET o == newObject(acct)
         IN  /\ o \in StateObjects /\ Fits(o, acct) /\ Logical(o) = acct
             /\ o.dirtyStorage = NoStorage /\ o.base.uncommittedStorage = NoStorage
<1> DEFINE o == newObject(acct)
<1>1. NoStorage \in Storage /\ acct # NoObject /\ acct.storage \in [Slot -> Word]
  BY ObjectAssumption DEF NoStorage, Storage, Account
<1>2. o \in StateObjects
  BY <1>1, ObjectAssumption DEF newObject, StateObjects, Account
<1>3. /\ o.dirtyStorage = NoStorage
      /\ o.balance = acct.balance /\ o.nonce = acct.nonce /\ o.code = acct.code
      /\ o.base = [pendingStorage |-> NoStorage, uncommittedStorage |-> NoStorage,
                   originStorage |-> acct.storage, root |-> acct.storage, origin |-> acct]
  BY <1>1 DEF newObject
<1> HIDE DEF o
<1>4. \A k \in Slot : GetCommittedState(o, k) = acct.storage[k] /\ GetState(o, k) = acct.storage[k]
  BY <1>3, SMTT(30) DEF GetCommittedState, GetState, NoStorage
<1>5. DirtyDiffers(o) /\ MarkersRight(o) /\ OnParent(o, acct)
  BY <1>1, <1>3, <1>4, SMT DEF DirtyDiffers, MarkersRight, OnParent, NoStorage
<1>6. Logical(o) = acct
  <2>1. o # NoObject
    BY <1>2, ObjectAssumption
  <2>2. [k \in Slot |-> GetState(o, k)] = acct.storage
    BY <1>1, <1>4
  <2>3. Logical(o) = [balance |-> acct.balance, nonce |-> acct.nonce, code |-> acct.code,
                      storage |-> acct.storage]
    BY <1>3, <2>1, <2>2 DEF Logical
  <2> QED BY <2>3 DEF Account
<1> QED BY <1>2, <1>3, <1>5, <1>6, SMTT(30) DEF Fits, o

\* A new StateDB over the flat state d.
LEMMA FreshFacts ==
  ASSUME NEW d \in [Address -> Account \cup {NoObject}]
  PROVE  /\ freshWorld(d) \in Worlds
         /\ \A a \in Address :
              LET o == freshWorld(d).obj[a]
              IN  /\ o = NoObject <=> d[a] = NoObject
                  /\ Logical(o) = d[a]
                  /\ o # NoObject => /\ Fits(o, d[a])
                                     /\ o.dirtyStorage = NoStorage
                                     /\ o.base.uncommittedStorage = NoStorage
         /\ ListSound(freshWorld(d).accessList)
<1> DEFINE f  == [a \in Address |-> IF d[a] = NoObject THEN NoObject ELSE newObject(d[a])]
           v  == freshWorld(d)
           tr == [a \in Address |-> Zeroes]
           lg == [t \in Tx |-> <<>>]
           ws == [m \in Module |-> NoEntry]
<1>1. v = [obj |-> f, transient |-> tr, refund |-> 0, logs |-> lg, logSize |-> 0,
           accessList |-> newAccessList, wasms |-> ws]
  BY DEF freshWorld
<1>2. ASSUME NEW a \in Address
      PROVE  /\ f[a] \in StateObjects \cup {NoObject}
             /\ f[a] = NoObject <=> d[a] = NoObject
             /\ Logical(f[a]) = d[a]
             /\ f[a] # NoObject => /\ Fits(f[a], d[a])
                                   /\ f[a].dirtyStorage = NoStorage
                                   /\ f[a].base.uncommittedStorage = NoStorage
  <2>1. CASE d[a] = NoObject BY <2>1 DEF Logical
  <2>2. CASE d[a] # NoObject
    <3>1. f[a] = newObject(d[a]) /\ d[a] \in Account
      BY <2>2
    <3> HIDE DEF f
    <3> QED BY <2>2, <3>1, NewObjectOf, ObjectAssumption
  <2> QED BY <2>1, <2>2
<1>3. tr \in [Address -> [Slot -> Word]] /\ lg \in [Tx -> Seq(Nat)]
      /\ ws \in [Module -> AsmMap \cup {NoEntry}]
  BY ObjectAssumption, SMT DEF Zeroes
<1>4. newAccessList \in AccessLists /\ ListSound(newAccessList)
  BY SMT DEF newAccessList, AccessLists, ListSound, WellIndexed, Packed, NotListed
<1>5. f \in [Address -> StateObjects \cup {NoObject}]
  BY <1>2
<1> HIDE DEF f, v, tr, lg, ws
<1>6. v \in Worlds /\ v.obj = f /\ v.accessList = newAccessList
  BY <1>1, <1>3, <1>4, <1>5 DEF Worlds
<1> QED BY <1>2, <1>4, <1>6 DEF v

\* A StateDB just opened is between two transactions.
Opened ==
  /\ world = freshWorld(db) /\ trie = db
  /\ destruct = [a \in Address |-> NoEntry] /\ mutations = [a \in Address |-> NoEntry]
  /\ journal = newJournal /\ trail = <<>> /\ reverting = 0

\* A state database just opened is between transactions.
LEMMA OpenedBetween == TypeOK /\ Opened => Between
<1> SUFFICES ASSUME TypeOK, Opened PROVE Between
  OBVIOUS
<1>0. /\ world = freshWorld(db) /\ trie = db
      /\ destruct = [a \in Address |-> NoEntry] /\ mutations = [a \in Address |-> NoEntry]
      /\ journal = newJournal /\ trail = <<>> /\ reverting = 0
  BY DEF Opened
<1>1. db \in [Address -> Account \cup {NoObject}]
  BY DEF TypeOK
<1>2. \A a \in Address : /\ world.obj[a] = NoObject <=> db[a] = NoObject
                         /\ Logical(world.obj[a]) = db[a]
                         /\ world.obj[a] # NoObject =>
                              /\ Fits(world.obj[a], db[a])
                              /\ world.obj[a].dirtyStorage = NoStorage
                              /\ world.obj[a].base.uncommittedStorage = NoStorage
  BY <1>0, <1>1, FreshFacts
<1>3. Sound(world)
  <2>1. ListSound(world.accessList)
    BY <1>0, <1>1, FreshFacts
  <2>2. \A a \in Address : ParentOf(a, destruct[a]) = db[a] /\ ~MarkedUpdate(a)
    BY <1>0 DEF ParentOf, MarkedUpdate
  <2> QED BY <1>2, <2>1, <2>2 DEF Sound, ListSound, Layered
<1>4. \A a \in Address : Settled(a, world.obj[a], destruct[a], mutations[a], trie[a])
  BY <1>0, <1>2 DEF Settled
<1>5. journal.validRevisions = <<>> /\ journal.dirties = [a \in Address |-> 0]
  BY <1>0 DEF newJournal
<1> QED BY <1>0, <1>3, <1>4, <1>5 DEF Between

\* newJournal and reset give an empty journal.
LEMMA NewJournalFacts ==
  /\ newJournal \in Journals
  /\ newJournal.validRevisions = <<>> /\ newJournal.entries = <<>>
  /\ \A j \in Journals : /\ reset(j) \in Journals
                          /\ reset(j).validRevisions = <<>> /\ reset(j).entries = <<>>
                          /\ reset(j).dirties = [a \in Address |-> 0]
<1>1. <<>> \in Seq(Entries) /\ <<>> \in Seq(Revisions) /\ [a \in Address |-> 0] \in [Address -> Int]
  BY SMT
<1>2. /\ newJournal \in Journals
      /\ newJournal.validRevisions = <<>> /\ newJournal.entries = <<>>
  BY <1>1 DEF newJournal, Journals
<1>3. ASSUME NEW j \in Journals
      PROVE  /\ reset(j) \in Journals /\ reset(j).validRevisions = <<>> /\ reset(j).entries = <<>>
             /\ reset(j).dirties = [a \in Address |-> 0]
  BY <1>1 DEF reset, newJournal, Journals
<1> QED BY <1>2, <1>3

\* The invariant holds initially.
LEMMA InitInv == Init => IInv
<1> SUFFICES ASSUME Init PROVE IInv
  OBVIOUS
<1>1. db \in [Address -> Account \cup {NoObject}]
  BY DBAssumption DEF Init
<1>2. world \in Worlds
  BY <1>1, FreshFacts DEF Init
<1>3. TypeOK
  <2>1. journal \in Journals /\ journal.validRevisions = <<>> /\ journal.entries = <<>>
    BY NewJournalFacts DEF Init
  <2>2. /\ <<>> \in Seq(Worlds) /\ <<>> \in Seq(SavedStates)
        /\ Len(<<>>) = 0 /\ 0 \in 0 .. 0
    BY SMT
  <2> QED BY <1>1, <1>2, <2>1, <2>2, SMT DEF Init, TypeOK
<1> QED BY <1>3, OpenedBetween, EmptyJournal DEF Init, Opened

\* finalise moves the dirty slots to pending and leaves none; what the object holds,
\* and the account it goes back to, stay.
LEMMA FinaliseObj ==
  ASSUME NEW o \in StateObjects, NEW parent, Fits(o, parent)
  PROVE  /\ finalise(o) \in StateObjects /\ Fits(finalise(o), parent)
         /\ finalise(o).dirtyStorage = NoStorage
         /\ Logical(finalise(o)) = Logical(o)
<1> DEFINE D(k) == o.dirtyStorage[k] # NoEntry
           u == [k \in Slot |-> IF D(k) THEN CommitMarker(o, k) ELSE o.base.uncommittedStorage[k]]
           q == [k \in Slot |-> IF D(k) THEN o.dirtyStorage[k] ELSE o.base.pendingStorage[k]]
           b == [o.base EXCEPT !.uncommittedStorage = u, !.pendingStorage = q]
           f == finalise(o)
           Bases == [pendingStorage : Storage, uncommittedStorage : Storage,
                     originStorage : [Slot -> Word], root : [Slot -> Word],
                     origin : Account \cup {NoObject}]
<1>1. /\ o.dirtyStorage \in Storage /\ o.base \in Bases
      /\ o.base.uncommittedStorage \in Storage /\ o.base.pendingStorage \in Storage
      /\ o.base.originStorage \in [Slot -> Word]
  BY DEF StateObjects
<1>2. \A k \in Slot : GetCommittedState(o, k) \in Word
  BY <1>1 DEF GetCommittedState, Storage
<1>3. \A k \in Slot : CommitMarker(o, k) \in Word \cup {NoEntry}
  BY <1>1, <1>2 DEF CommitMarker, Storage
<1>4. u \in Storage /\ q \in Storage
  BY <1>1, <1>3 DEF Storage
<1>4a. \A k \in Slot : /\ D(k) => u[k] = CommitMarker(o, k) /\ q[k] = o.dirtyStorage[k]
                       /\ ~D(k) => /\ u[k] = o.base.uncommittedStorage[k]
                                   /\ q[k] = o.base.pendingStorage[k]
  OBVIOUS
<1> HIDE DEF u, q
<1>5. /\ b \in Bases /\ b.uncommittedStorage = u /\ b.pendingStorage = q
      /\ b.originStorage = o.base.originStorage /\ b.root = o.base.root
      /\ b.origin = o.base.origin
  BY <1>1, <1>4
<1>6. f = [o EXCEPT !.base = b, !.dirtyStorage = NoStorage, !.newContract = FALSE]
  BY DEF finalise, StateObjects, u, q
<1> HIDE DEF b
<1>7. NoStorage \in Storage
  BY DEF NoStorage, Storage
<1> HIDE DEF f
<1>8. /\ f \in StateObjects /\ f.dirtyStorage = NoStorage /\ f.base = b
      /\ f.balance = o.balance /\ f.nonce = o.nonce /\ f.code = o.code
  BY <1>5, <1>6, <1>7 DEF StateObjects
<1>9. \A k \in Slot : /\ GetCommittedState(f, k) = GetState(o, k)
                      /\ GetState(f, k) = GetState(o, k)
  BY <1>4a, <1>5, <1>8 DEF GetCommittedState, GetState, NoStorage
<1>10. MarkersRight(f)
  <2> SUFFICES ASSUME NEW k \in Slot
               PROVE  IF u[k] = NoEntry THEN GetState(o, k) = o.base.root[k]
                      ELSE u[k] = o.base.root[k] /\ q[k] \notin {NoEntry, o.base.root[k]}
    BY <1>5, <1>8, <1>9, ZenonT(30) DEF MarkersRight
  <2>1. /\ IF o.base.uncommittedStorage[k] = NoEntry
            THEN GetCommittedState(o, k) = o.base.root[k]
            ELSE /\ o.base.uncommittedStorage[k] = o.base.root[k]
                 /\ o.base.pendingStorage[k] \notin {NoEntry, o.base.root[k]}
        /\ D(k) => o.dirtyStorage[k] # GetCommittedState(o, k)
    BY DEF Fits, MarkersRight, DirtyDiffers
  <2>2. CASE ~D(k) BY <1>4a, <2>1, <2>2 DEF GetState
  <2>3. CASE D(k)
    <3>1. u[k] = CommitMarker(o, k) /\ q[k] = o.dirtyStorage[k] /\ GetState(o, k) = o.dirtyStorage[k]
      BY <1>4a, <2>3 DEF GetState
    <3>2. GetCommittedState(o, k) # NoEntry /\ o.dirtyStorage[k] # NoEntry
      BY <1>2, <2>3, ObjectAssumption
    <3> QED BY <2>1, <2>3, <3>1, <3>2 DEF CommitMarker
  <2> QED BY <2>2, <2>3
<1>11. DirtyDiffers(f)
  BY <1>8 DEF DirtyDiffers, NoStorage
<1>12. OnParent(f, parent)
  BY <1>5, <1>8 DEF Fits, OnParent
<1>13. Logical(f) = Logical(o)
  <2>1. f # NoObject /\ o # NoObject
    BY <1>8, ObjectAssumption
  <2>2. [k \in Slot |-> GetState(f, k)] = [k \in Slot |-> GetState(o, k)]
    BY <1>9
  <2> QED BY <1>8, <2>1, <2>2 DEF Logical
<1> QED BY <1>8, <1>10, <1>11, <1>12, <1>13 DEF Fits, f

\* updateRoot brings the storage trie to the committed values, and changes nothing
\* that the object holds.
LEMMA UpdateRootObj ==
  ASSUME NEW o \in StateObjects, NEW parent, Fits(o, parent), o.dirtyStorage = NoStorage
  PROVE  /\ updateRoot(o) \in StateObjects /\ Fits(updateRoot(o), parent)
         /\ updateRoot(o).dirtyStorage = NoStorage
         /\ updateRoot(o).base.uncommittedStorage = NoStorage
         /\ Logical(updateRoot(o)) = Logical(o)
         /\ TrieAccount(updateRoot(o)) = Logical(o)
<1> DEFINE t == [k \in Slot |-> IF o.base.uncommittedStorage[k] # NoEntry /\ ~NoopMarker(o, k)
                                THEN o.base.pendingStorage[k] ELSE o.base.root[k]]
           b == [o.base EXCEPT !.root = t, !.uncommittedStorage = NoStorage]
           r == updateRoot(o)
           Bases == [pendingStorage : Storage, uncommittedStorage : Storage,
                     originStorage : [Slot -> Word], root : [Slot -> Word],
                     origin : Account \cup {NoObject}]
<1>1. /\ o.base \in Bases /\ o.base.root \in [Slot -> Word]
      /\ o.base.uncommittedStorage \in Storage /\ o.base.pendingStorage \in Storage
  BY DEF StateObjects
<1>2. t \in [Slot -> Word]
  BY <1>1 DEF NoopMarker, Storage
<1>3. NoStorage \in Storage
  BY DEF NoStorage, Storage
<1>3a. \A k \in Slot : t[k] = GetCommittedState(o, k)
  <2> SUFFICES ASSUME NEW k \in Slot PROVE t[k] = GetCommittedState(o, k)
    OBVIOUS
  <2>1. IF o.base.uncommittedStorage[k] = NoEntry
        THEN GetCommittedState(o, k) = o.base.root[k]
        ELSE /\ o.base.uncommittedStorage[k] = o.base.root[k]
             /\ o.base.pendingStorage[k] \notin {NoEntry, o.base.root[k]}
    BY DEF Fits, MarkersRight
  <2> QED BY <2>1 DEF NoopMarker, GetCommittedState
<1> HIDE DEF t
<1>4. /\ b \in Bases /\ b.pendingStorage = o.base.pendingStorage
      /\ b.originStorage = o.base.originStorage /\ b.origin = o.base.origin
      /\ b.root = t /\ b.uncommittedStorage = NoStorage
  BY <1>1, <1>2, <1>3
<1>5. r = [o EXCEPT !.base = b]
  BY DEF updateRoot, StateObjects, t
<1> HIDE DEF b, r
<1>6. /\ r \in StateObjects /\ r.dirtyStorage = NoStorage /\ r.base = b
      /\ r.balance = o.balance /\ r.nonce = o.nonce /\ r.code = o.code
  BY <1>4, <1>5 DEF StateObjects
<1>7. \A k \in Slot : /\ GetCommittedState(r, k) = GetCommittedState(o, k)
                      /\ GetState(r, k) = GetState(o, k)
                      /\ GetState(o, k) = GetCommittedState(o, k)
  BY <1>4, <1>6 DEF GetCommittedState, GetState, NoStorage
<1>8. DirtyDiffers(r) /\ MarkersRight(r)
  BY <1>3a, <1>4, <1>6, <1>7 DEF DirtyDiffers, MarkersRight, NoStorage
<1>9. OnParent(r, parent)
  BY <1>4, <1>6 DEF Fits, OnParent
<1>10. o # NoObject /\ r # NoObject
  BY <1>6, ObjectAssumption
<1>11. /\ [k \in Slot |-> GetState(r, k)] = [k \in Slot |-> GetState(o, k)]
       /\ t = [k \in Slot |-> GetState(o, k)]
  BY <1>2, <1>3a, <1>7
<1>12. Logical(r) = Logical(o) /\ TrieAccount(r) = Logical(o)
  BY <1>4, <1>6, <1>10, <1>11 DEF Logical, TrieAccount
<1> QED BY <1>4, <1>6, <1>8, <1>9, <1>12 DEF Fits, r

\* An account that an entry of the journal dirties is counted.
LEMMA TouchedIsDirty ==
  ASSUME IInv, NEW a \in Address, \E j \in 1 .. Len(trail) : Dirtied(journal.entries[j], a)
  PROVE  journal.dirties[a] # 0
<1>1. /\ Len(journal.entries) = Len(trail)
      /\ ExistsInjection(Touches(journal, a), 1 .. journal.dirties[a])
  BY InvFacts DEF IInv, ChangesTracked, Counted
<1>2. PICK i : i \in Touches(journal, a)
  BY <1>1 DEF Touches
<1>3. \E n : n \in 1 .. journal.dirties[a]
  BY <1>1, <1>2 DEF ExistsInjection, Injection
<1> QED BY <1>3, SMT

\* An account that is not dirty is what it was when the transaction started.
LEMMA CleanFacts ==
  ASSUME IInv, NEW a \in Address, ~Dirty(a)
  PROVE  LET o == world.obj[a]
             start == At(DB, 1).obj[a]
         IN  /\ o = NoObject <=> start = NoObject
             /\ o # NoObject => o.dirtyStorage = start.dirtyStorage /\ o.base = start.base
             /\ Logical(o) = Logical(start)
<1> DEFINE o == world.obj[a]
           start == At(DB, 1).obj[a]
           n == Len(trail)
<1>1. /\ n \in Nat /\ At(DB, n + 1) = world /\ 1 \in 1 .. n + 1 /\ n + 1 \in 1 .. n + 1
      /\ world \in Worlds /\ At(DB, 1) \in Worlds
      /\ DB.trail = trail /\ DB.journal = journal
  <2>1. n \in Nat /\ At(DB, n + 1) = world /\ world \in Worlds
    BY InvFacts DEF IInv, TypeOK
  <2>2. 1 \in 1 .. n + 1 /\ n + 1 \in 1 .. n + 1
    BY <2>1, SMT
  <2>3. At(DB, 1) \in Worlds
    BY <2>2, InvFacts
  <2> QED BY <2>1, <2>2, <2>3 DEF DB
<1>2. o \in StateObjects \cup {NoObject} /\ start \in StateObjects \cup {NoObject}
  BY <1>1 DEF Worlds
<1>3. /\ Ledger(o) # Ledger(start) => \E j \in 1 .. n : Dirtied(journal.entries[j], a)
      /\ o = NoObject => start = NoObject
  <2>1. /\ Ledger(At(DB, n + 1).obj[a]) # Ledger(At(DB, 1).obj[a]) =>
             \E j \in 1 .. (n + 1) - 1 : Dirtied(journal.entries[j], a)
        /\ At(DB, n + 1).obj[a] = NoObject => At(DB, 1).obj[a] = NoObject
    BY <1>1 DEF IInv, ChangesTracked, Tracked
  <2>2. (n + 1) - 1 = n
    BY <1>1, SMT
  <2> QED BY <1>1, <2>1, <2>2
<1>4. ASSUME \E j \in 1 .. n : Dirtied(journal.entries[j], a) PROVE journal.dirties[a] # 0
  BY <1>4, TouchedIsDirty
<1>5. CASE o = NoObject
  <2>1. start = NoObject
    BY <1>3, <1>5
  <2> QED BY <1>5, <2>1
<1>6. CASE o # NoObject
  <2>1. Ledger(o) = Ledger(start)
    BY <1>3, <1>4, <1>6 DEF Dirty, Exist
  <2>2. o \in StateObjects /\ Ledger(o) = [o EXCEPT !.newContract = FALSE]
    BY <1>2, <1>6 DEF Ledger
  <2> HIDE DEF o, start
  <2>3. [o EXCEPT !.newContract = FALSE] \in StateObjects
    BY <2>2 DEF StateObjects
  <2>4. start # NoObject
    BY <2>1, <2>2, <2>3, ObjectAssumption DEF Ledger
  <2>5. start \in StateObjects /\ [o EXCEPT !.newContract = FALSE] = [start EXCEPT !.newContract = FALSE]
    BY <1>2, <2>1, <2>2, <2>4 DEF Ledger
  <2>6. ASSUME NEW p \in StateObjects
        PROVE  LET q == [p EXCEPT !.newContract = FALSE]
               IN  /\ q.dirtyStorage = p.dirtyStorage /\ q.base = p.base
                   /\ q.balance = p.balance /\ q.nonce = p.nonce /\ q.code = p.code
    BY DEF StateObjects
  <2>7. /\ o.dirtyStorage = start.dirtyStorage /\ o.base = start.base
        /\ o.balance = start.balance /\ o.nonce = start.nonce /\ o.code = start.code
    <3>1. PICK q : q = [o EXCEPT !.newContract = FALSE]
      OBVIOUS
    <3>2. /\ q.dirtyStorage = o.dirtyStorage /\ q.base = o.base
          /\ q.balance = o.balance /\ q.nonce = o.nonce /\ q.code = o.code
      BY <2>2, <2>6, <3>1
    <3>3. /\ q.dirtyStorage = start.dirtyStorage /\ q.base = start.base
          /\ q.balance = start.balance /\ q.nonce = start.nonce /\ q.code = start.code
      BY <2>5, <2>6, <3>1
    <3> QED BY <3>2, <3>3
  <2>8. \A k : GetState(o, k) = GetState(start, k)
    BY <2>7 DEF GetState, GetCommittedState
  <2>9. Logical(o) = Logical(start)
    BY <1>6, <2>4, <2>7, <2>8 DEF Logical
  <2> QED BY <1>6, <2>4, <2>7, <2>9 DEF o, start
<1> QED BY <1>5, <1>6

\* What Finalise makes of the objects, the destructs and the mutations.
LEMMA FinalFacts ==
  ASSUME IInv
  PROVE  /\ finalObj \in [Address -> StateObjects \cup {NoObject}]
         /\ finalDestruct \in [Address -> [origin : Account \cup {NoObject}] \cup {NoEntry}]
         /\ finalMutations \in [Address -> Mutations \cup {NoEntry}]
         /\ \A a \in Address :
              /\ finalObj[a] # NoObject => Fits(finalObj[a], ParentOf(a, finalDestruct[a]))
              /\ finalObj[a] = NoObject =>
                   /\ finalDestruct[a] # NoEntry \/ db[a] = NoObject
                   /\ ~(finalMutations[a] # NoEntry /\ finalMutations[a].typ = "update")
              /\ Settled(a, finalObj[a], finalDestruct[a], finalMutations[a], trie[a])
              /\ Logical(finalObj[a]) = IF Removed(a) THEN NoObject ELSE Logical(world.obj[a])
<1>1. /\ world \in Worlds /\ world.obj \in [Address -> StateObjects \cup {NoObject}]
      /\ destruct \in [Address -> [origin : Account \cup {NoObject}] \cup {NoEntry}]
      /\ mutations \in [Address -> Mutations \cup {NoEntry}]
  BY DEF IInv, TypeOK, Worlds
<1>2. Sound(world)
  BY InvGood, GoodWorld, SMT DEF DB
<1>3. ASSUME NEW a \in Address
      PROVE  /\ finalObj[a] \in StateObjects \cup {NoObject}
             /\ finalDestruct[a] \in [origin : Account \cup {NoObject}] \cup {NoEntry}
             /\ finalMutations[a] \in Mutations \cup {NoEntry}
             /\ finalObj[a] # NoObject => Fits(finalObj[a], ParentOf(a, finalDestruct[a]))
             /\ finalObj[a] = NoObject =>
                  /\ finalDestruct[a] # NoEntry \/ db[a] = NoObject
                  /\ ~(finalMutations[a] # NoEntry /\ finalMutations[a].typ = "update")
             /\ Settled(a, finalObj[a], finalDestruct[a], finalMutations[a], trie[a])
             /\ Logical(finalObj[a]) = IF Removed(a) THEN NoObject ELSE Logical(world.obj[a])
  <2> DEFINE o     == world.obj[a]
             start == At(DB, 1).obj[a]
             del   == [typ |-> "deletion", applied |-> FALSE]
             upd   == [typ |-> "update", applied |-> FALSE]
  <2>0. /\ finalObj[a] = IF Removed(a) THEN NoObject
                         ELSE IF Dirty(a) THEN finalise(world.obj[a]) ELSE world.obj[a]
        /\ finalDestruct[a] = IF Removed(a) /\ destruct[a] = NoEntry
                              THEN [origin |-> world.obj[a].base.origin] ELSE destruct[a]
        /\ finalMutations[a] = IF Removed(a) THEN del ELSE IF Dirty(a) THEN upd ELSE mutations[a]
    BY DEF finalObj, finalDestruct, finalMutations
  <2>1. /\ del \in Mutations /\ del.typ = "deletion" /\ ~del.applied
        /\ upd \in Mutations /\ upd.typ = "update" /\ ~upd.applied
        /\ del # NoEntry /\ upd # NoEntry
    <3>1. del \in Mutations /\ upd \in Mutations
      BY DEF Mutations
    <3> QED BY <3>1, DBAssumption
  <2> HIDE DEF del, upd
  <2>2. Settled(a, start, destruct[a], mutations[a], trie[a])
    BY DEF IInv, BlockOk
  <2>3. /\ o # NoObject => Fits(o, ParentOf(a, destruct[a]))
        /\ o = NoObject => (destruct[a] # NoEntry \/ db[a] = NoObject) /\ ~MarkedUpdate(a)
        /\ o \in StateObjects \cup {NoObject}
    BY <1>1, <1>2 DEF Sound, Layered
  <2>4. CASE Removed(a)
    <3>1. o \in StateObjects /\ o # NoObject
      BY <2>3, <2>4, ObjectAssumption DEF Removed, Dirty, Exist
    <3>2. [origin |-> o.base.origin] \in [origin : Account \cup {NoObject}]
      BY <3>1 DEF StateObjects
    <3>3. finalDestruct[a] # NoEntry
      BY <2>0, <2>4, <3>2, DBAssumption
    <3>4. finalDestruct[a] \in [origin : Account \cup {NoObject}] \cup {NoEntry}
      BY <1>1, <2>0, <2>4, <3>2
    <3>5. finalMutations[a] = del /\ finalObj[a] = NoObject
      BY <2>0, <2>4
    <3>6. finalDestruct[a].origin = db[a]
      <4>1. CASE destruct[a] = NoEntry
        <5>1. o.base.origin = db[a]
          BY <2>3, <3>1, <4>1 DEF Fits, OnParent, ParentOf
        <5>2. finalDestruct[a] = [origin |-> db[a]]
          BY <2>0, <2>4, <4>1, <5>1
        <5> QED BY <5>2, SMT
      <4>2. CASE destruct[a] # NoEntry
        BY <2>0, <2>2, <4>2 DEF Settled
      <4> QED BY <4>1, <4>2
    <3>7. Logical(finalObj[a]) = NoObject
      BY <3>5 DEF Logical
    <3>8. Settled(a, finalObj[a], finalDestruct[a], finalMutations[a], trie[a])
      BY <2>1, <3>3, <3>5, <3>6 DEF Settled
    <3> QED BY <2>1, <2>4, <3>3, <3>4, <3>5, <3>7, <3>8
  <2>5. CASE ~Removed(a) /\ Dirty(a)
    <3>1. o \in StateObjects /\ o # NoObject
      BY <2>3, <2>5, ObjectAssumption DEF Dirty, Exist
    <3>2. /\ finalise(o) \in StateObjects /\ Fits(finalise(o), ParentOf(a, destruct[a]))
          /\ finalise(o).dirtyStorage = NoStorage /\ Logical(finalise(o)) = Logical(o)
      BY <2>3, <3>1, FinaliseObj
    <3>3. finalObj[a] = finalise(o) /\ finalObj[a] # NoObject
      BY <2>0, <2>5, <3>2, ObjectAssumption
    <3>4. finalDestruct[a] = destruct[a] /\ finalMutations[a] = upd
      BY <2>0, <2>5
    <3>5. destruct[a] # NoEntry => destruct[a].origin = db[a]
      BY <2>2 DEF Settled
    <3>6. Settled(a, finalObj[a], finalDestruct[a], finalMutations[a], trie[a])
      BY <2>1, <3>2, <3>3, <3>4, <3>5 DEF Settled
    <3> QED BY <1>1, <2>1, <2>5, <3>2, <3>3, <3>4, <3>6
  <2>6. CASE ~Removed(a) /\ ~Dirty(a)
    <3>1. /\ finalObj[a] = o /\ finalDestruct[a] = destruct[a]
          /\ finalMutations[a] = mutations[a]
      BY <2>0, <2>6
    <3>2. /\ o = NoObject <=> start = NoObject
          /\ o # NoObject => o.dirtyStorage = start.dirtyStorage /\ o.base = start.base
          /\ Logical(o) = Logical(start)
      BY <2>6, CleanFacts
    <3>3. Settled(a, o, destruct[a], mutations[a], trie[a])
      BY <2>2, <3>2 DEF Settled
    <3> HIDE DEF o
    <3> QED BY <1>1, <2>3, <2>6, <3>1, <3>3 DEF MarkedUpdate, o
  <2> QED BY <2>4, <2>5, <2>6
<1>4. /\ finalObj = [a \in Address |-> finalObj[a]]
      /\ finalDestruct = [a \in Address |-> finalDestruct[a]]
      /\ finalMutations = [a \in Address |-> finalMutations[a]]
  BY DEF finalObj, finalDestruct, finalMutations
<1> QED BY <1>3, <1>4

\* EmptyJournal of the state after a step.
LEMMA EmptyJournalNext == Between' => IInv'
BY EmptyJournal, PTL

\* OpenedBetween of the state after a step.
LEMMA OpenedBetweenNext == TypeOK' /\ Opened' => Between'
<1>1. (TypeOK /\ Opened)' => Between'
  BY OpenedBetween, PTL
<1> QED BY <1>1

\* The end of a transaction, with F the objects after it.
LEMMA BoundaryPreserves ==
  ASSUME IInv, Idle, FinaliseRest,
         NEW F \in [Address -> StateObjects \cup {NoObject}],
         \A a \in Address : F[a] = NoObject <=> finalObj[a] = NoObject,
         \A a \in Address : F[a] # NoObject => Fits(F[a], ParentOf(a, finalDestruct[a])),
         world' = [world EXCEPT !.obj = F, !.refund = 0],
         mutations' \in [Address -> Mutations \cup {NoEntry}],
         \A a \in Address : mutations'[a] # NoEntry /\ mutations'[a].typ = "update"
           => finalMutations[a] # NoEntry /\ finalMutations[a].typ = "update",
         trie' \in [Address -> Account \cup {NoObject}],
         \A a \in Address : Settled(a, F[a], finalDestruct[a], mutations'[a], trie'[a])
  PROVE  IInv'
<1>1. world' \in Worlds /\ world'.obj = F /\ world'.accessList = world.accessList
  BY DEF IInv, TypeOK, Worlds
<1>2. ListSound(world.accessList)
  BY InvGood, GoodWorld, SMT DEF DB, Sound, ListSound
<1>3. /\ destruct' = finalDestruct /\ db' = db
      /\ trail' = <<>> /\ saved' = <<>> /\ journal' = reset(journal)
      /\ UNCHANGED <<delta, thash, reverting, expected>> /\ reverting = 0
      /\ txs' = txs + 1
      /\ lost' = [a \in Address |-> lost[a] + IF Removed(a) THEN world.obj[a].balance ELSE 0]
  BY DEF FinaliseRest, Idle
<1>4. Sound(world)'
  <2>1. ASSUME NEW a \in Address, F[a] = NoObject
        PROVE  /\ destruct'[a] # NoEntry \/ db'[a] = NoObject
               /\ ~(mutations'[a] # NoEntry /\ mutations'[a].typ = "update")
    <3>1. /\ finalDestruct[a] # NoEntry \/ db[a] = NoObject
          /\ ~(finalMutations[a] # NoEntry /\ finalMutations[a].typ = "update")
      BY <2>1, FinalFacts
    <3> QED BY <3>1, <1>3
  <2>2. \A a : ParentOf(a, destruct[a])' = ParentOf(a, finalDestruct[a])
    BY <1>3 DEF ParentOf
  <2>3. \A a \in Address : F[a] # NoObject => Layered(a, F[a])'
    BY <2>2 DEF Layered
  <2> QED BY <2>1, <2>3, <1>1, <1>2 DEF Sound, MarkedUpdate, ListSound
<1>5. lost' \in [Address -> Nat]
  <2>1. ASSUME NEW a \in Address
        PROVE  lost[a] + (IF Removed(a) THEN world.obj[a].balance ELSE 0) \in Nat
    <3>1. lost[a] \in Nat
      BY DEF IInv, TypeOK
    <3>2. Removed(a) => world.obj[a].balance \in Nat
      BY SMT DEF IInv, TypeOK, Worlds, StateObjects, Removed, Dirty, Exist
    <3> QED BY <3>1, <3>2, SMT
  <2> QED BY <2>1, <1>3
<1>6. /\ journal' \in Journals /\ journal'.validRevisions = <<>> /\ journal'.entries = <<>>
      /\ journal'.dirties = [a \in Address |-> 0]
  BY <1>3, NewJournalFacts DEF IInv, TypeOK
<1>7. TypeOK'
  <2>1. /\ <<>> \in Seq(Worlds) /\ <<>> \in Seq(SavedStates)
        /\ Len(<<>>) = 0 /\ 0 \in 0 .. 0
    BY SMT
  <2>2. txs' \in Nat /\ delta' \in Int /\ thash' \in Tx /\ expected' \in Int
    BY <1>3, SMT DEF IInv, TypeOK
  <2>3. db' \in [Address -> Account \cup {NoObject}]
    BY <1>3 DEF IInv, TypeOK
  <2>4. destruct' \in [Address -> [origin : Account \cup {NoObject}] \cup {NoEntry}]
    BY <1>3, FinalFacts
  <2>5. reverting' = 0
    BY <1>3
  <2> QED BY <1>1, <1>3, <1>5, <1>6, <2>1, <2>2, <2>3, <2>4, <2>5 DEF TypeOK
<1>8. trail' = <<>> /\ reverting' = 0
  BY <1>3
<1>9. \A a \in Address : Settled(a, world.obj[a], destruct[a], mutations[a], trie[a])'
  <2>1. \A a, o, d, m, t : Settled(a, o, d, m, t)' <=> Settled(a, o, d, m, t)
    BY <1>3, SMT DEF Settled
  <2> QED BY <1>1, <1>3, <2>1
<1>10. Between'
  BY <1>1, <1>4, <1>6, <1>7, <1>8, <1>9 DEF Between
<1> QED BY <1>10, EmptyJournalNext

\* Finalise preserves the invariant.
LEMMA FinalisePreserves == IInv /\ Finalise => IInv'
<1> SUFFICES ASSUME IInv, Finalise PROVE IInv'
  OBVIOUS
<1>1. /\ Idle /\ FinaliseRest /\ mutations' = finalMutations /\ trie' = trie
      /\ world' = [world EXCEPT !.obj = finalObj, !.refund = 0]
  BY DEF Finalise
<1>2. trie' \in [Address -> Account \cup {NoObject}]
  BY <1>1 DEF IInv, TypeOK
<1> QED BY <1>1, <1>2, FinalFacts, BoundaryPreserves

\* The objects and the account trie after IntermediateRoot: the trie holds what the
\* objects do.
LEMMA RootFacts ==
  ASSUME IInv
  PROVE  /\ rootObj \in [Address -> StateObjects \cup {NoObject}]
         /\ rootTrie \in [Address -> Account \cup {NoObject}]
         /\ \A a \in Address :
              /\ rootObj[a] = NoObject <=> finalObj[a] = NoObject
              /\ rootObj[a] # NoObject => /\ Fits(rootObj[a], ParentOf(a, finalDestruct[a]))
                                          /\ rootObj[a].dirtyStorage = NoStorage
                                          /\ rootObj[a].base.uncommittedStorage = NoStorage
              /\ Logical(rootObj[a]) = Logical(finalObj[a])
              /\ rootTrie[a] = Logical(finalObj[a])
<1>1. ASSUME NEW a \in Address
      PROVE  /\ rootObj[a] \in StateObjects \cup {NoObject}
             /\ rootTrie[a] \in Account \cup {NoObject}
             /\ rootObj[a] = NoObject <=> finalObj[a] = NoObject
             /\ rootObj[a] # NoObject => /\ Fits(rootObj[a], ParentOf(a, finalDestruct[a]))
                                         /\ rootObj[a].dirtyStorage = NoStorage
                                         /\ rootObj[a].base.uncommittedStorage = NoStorage
             /\ Logical(rootObj[a]) = Logical(finalObj[a])
             /\ rootTrie[a] = Logical(finalObj[a])
  <2> DEFINE f == finalObj[a]
             m == finalMutations[a]
             parent == ParentOf(a, finalDestruct[a])
  <2>1. /\ rootObj[a] = IF Pending(a, "update") THEN updateRoot(f) ELSE f
        /\ rootTrie[a] = IF Pending(a, "deletion") THEN NoObject
                         ELSE IF Pending(a, "update") THEN TrieAccount(rootObj[a]) ELSE trie[a]
    BY DEF rootObj, rootTrie
  <2>2. /\ f \in StateObjects \cup {NoObject} /\ m \in Mutations \cup {NoEntry}
        /\ f # NoObject => Fits(f, parent)
        /\ f = NoObject => ~(m # NoEntry /\ m.typ = "update")
        /\ Settled(a, f, finalDestruct[a], m, trie[a])
    BY FinalFacts
  <2>3. \A t : Pending(a, t) <=> m # NoEntry /\ ~m.applied /\ m.typ = t
    BY DEF Pending
  <2>4. trie[a] \in Account \cup {NoObject}
    BY DEF IInv, TypeOK
  <2> HIDE DEF f, m, parent
  <2>5. CASE m # NoEntry /\ ~m.applied /\ m.typ = "update"
    <3>1. Pending(a, "update") /\ ~Pending(a, "deletion")
      BY <2>3, <2>5, SMT
    <3>2. f # NoObject /\ f \in StateObjects /\ Fits(f, parent) /\ f.dirtyStorage = NoStorage
      BY <2>2, <2>5 DEF Settled
    <3>3. /\ updateRoot(f) \in StateObjects /\ Fits(updateRoot(f), parent)
          /\ updateRoot(f).dirtyStorage = NoStorage
          /\ updateRoot(f).base.uncommittedStorage = NoStorage
          /\ Logical(updateRoot(f)) = Logical(f) /\ TrieAccount(updateRoot(f)) = Logical(f)
      BY <3>2, UpdateRootObj
    <3>4. rootObj[a] = updateRoot(f) /\ rootTrie[a] = TrieAccount(rootObj[a])
      BY <2>1, <3>1
    <3>5. rootObj[a] # NoObject
      BY <3>3, <3>4, ObjectAssumption
    <3>6. TrieAccount(rootObj[a]) \in Account
      BY <3>3, <3>4 DEF TrieAccount, Account, StateObjects
    <3> QED BY <3>2, <3>3, <3>4, <3>5, <3>6 DEF f, parent
  <2>6. CASE m # NoEntry /\ ~m.applied /\ m.typ = "deletion"
    <3>1. ~Pending(a, "update") /\ Pending(a, "deletion")
      BY <2>3, <2>6, SMT
    <3>2. f = NoObject
      BY <2>2, <2>6 DEF Settled
    <3>3. rootObj[a] = NoObject /\ rootTrie[a] = NoObject /\ Logical(f) = NoObject
      BY <2>1, <3>1, <3>2 DEF Logical
    <3> QED BY <3>2, <3>3 DEF f
  <2>7. CASE m = NoEntry \/ m.applied
    <3>1. ~Pending(a, "update") /\ ~Pending(a, "deletion")
      BY <2>3, <2>7
    <3>2. rootObj[a] = f /\ rootTrie[a] = trie[a]
      BY <2>1, <3>1
    <3>3. /\ trie[a] = Logical(f)
          /\ f # NoObject => f.base.uncommittedStorage = NoStorage /\ f.dirtyStorage = NoStorage
      BY <2>2, <2>7 DEF Settled
    <3> QED BY <2>2, <2>4, <3>2, <3>3 DEF f, parent
  <2>8. m = NoEntry \/ m.typ = "update" \/ m.typ = "deletion"
    BY <2>2 DEF Mutations
  <2> QED BY <2>5, <2>6, <2>7, <2>8
<1>2. /\ rootObj = [a \in Address |-> rootObj[a]]
      /\ rootTrie = [a \in Address |-> rootTrie[a]]
  <2>1. rootObj = [a \in Address |-> rootObj[a]]
    BY DEF rootObj
  <2>2. rootTrie = [a \in Address |-> rootTrie[a]]
    BY DEF rootTrie
  <2> QED BY <2>1, <2>2
<1> QED BY <1>1, <1>2

\* IntermediateRoot preserves the invariant.
LEMMA IntermediateRootPreserves == IInv /\ IntermediateRoot => IInv'
<1> SUFFICES ASSUME IInv, IntermediateRoot PROVE IInv'
  OBVIOUS
<1>1. /\ Idle /\ FinaliseRest /\ trie' = rootTrie
      /\ world' = [world EXCEPT !.obj = rootObj, !.refund = 0]
      /\ mutations' = [a \in Address |-> IF finalMutations[a] = NoEntry THEN NoEntry
                                         ELSE [finalMutations[a] EXCEPT !.applied = TRUE]]
  BY DEF IntermediateRoot
<1>2. ASSUME NEW a \in Address
      PROVE  /\ mutations'[a] \in Mutations \cup {NoEntry}
             /\ mutations'[a] = NoEntry <=> finalMutations[a] = NoEntry
             /\ mutations'[a] # NoEntry => mutations'[a].typ = finalMutations[a].typ
  <2>1. finalMutations[a] \in Mutations \cup {NoEntry}
    BY FinalFacts
  <2>2. mutations'[a] = IF finalMutations[a] = NoEntry THEN NoEntry
                        ELSE [finalMutations[a] EXCEPT !.applied = TRUE]
    BY <1>1
  <2>3. \A m \in Mutations : /\ [m EXCEPT !.applied = TRUE] \in Mutations
                             /\ [m EXCEPT !.applied = TRUE].typ = m.typ
    BY DEF Mutations
  <2> QED BY <2>1, <2>2, <2>3, DBAssumption, SMTT(30)
<1>3. mutations' \in [Address -> Mutations \cup {NoEntry}]
  BY <1>1, <1>2
<1>4. ASSUME NEW a \in Address
      PROVE  Settled(a, rootObj[a], finalDestruct[a], mutations'[a], rootTrie[a])
  <2>1. Settled(a, finalObj[a], finalDestruct[a], finalMutations[a], trie[a])
    BY FinalFacts
  <2>2. /\ rootObj[a] = NoObject <=> finalObj[a] = NoObject
        /\ rootObj[a] # NoObject => /\ rootObj[a].dirtyStorage = NoStorage
                                    /\ rootObj[a].base.uncommittedStorage = NoStorage
        /\ Logical(rootObj[a]) = Logical(finalObj[a])
        /\ rootTrie[a] = Logical(finalObj[a])
    BY RootFacts
  <2> QED BY <1>2, <2>1, <2>2 DEF Settled
<1>5. /\ rootObj \in [Address -> StateObjects \cup {NoObject}]
      /\ rootTrie \in [Address -> Account \cup {NoObject}]
      /\ \A a \in Address :
           /\ rootObj[a] = NoObject <=> finalObj[a] = NoObject
           /\ rootObj[a] # NoObject => Fits(rootObj[a], ParentOf(a, finalDestruct[a]))
  BY RootFacts
<1> QED BY <1>1, <1>2, <1>3, <1>4, <1>5, BoundaryPreserves

\* What an object holds is an account.
LEMMA LogicalType == ASSUME NEW o \in StateObjects PROVE Logical(o) \in Account
<1>1. o # NoObject /\ o.balance \in Nat /\ o.nonce \in Nat /\ o.code \in Code
  BY ObjectAssumption DEF StateObjects
<1>2. \A k \in Slot : GetState(o, k) \in Word
  BY DEF StateObjects, Storage, GetState, GetCommittedState
<1>3. [k \in Slot |-> GetState(o, k)] \in [Slot -> Word]
  BY <1>2
<1> QED BY <1>1, <1>3 DEF Logical, Account

\* What the destructs and the mutations of the block say of an account, in terms of
\* the parent state and of the object the trie was updated from.
LEMMA ChangeFacts ==
  ASSUME IInv, NEW a \in Address
  PROVE  LET r == rootObj[a]
         IN  /\ db[a] \in Account \cup {NoObject}
             /\ Wiped(a) => finalDestruct[a].origin = db[a] /\ db[a] # NoObject
             /\ ~Updated(a) => Logical(finalObj[a]) = IF Wiped(a) THEN NoObject ELSE db[a]
             /\ Updated(a) =>
                  /\ r \in StateObjects /\ Logical(finalObj[a]) \in Account
                  /\ r.base.origin = IF Wiped(a) THEN NoObject ELSE db[a]
                  /\ Logical(finalObj[a]) =
                       [balance |-> r.balance, nonce |-> r.nonce, code |-> r.code,
                        storage |-> [k \in Slot |-> IF k \in FlatStorage(r) THEN r.base.pendingStorage[k]
                                                    ELSE r.base.originStorage[k]]]
                  /\ \A k \in Slot : r.base.originStorage[k]
                       = IF Wiped(a) \/ db[a] = NoObject THEN ZeroHash ELSE db[a].storage[k]
<1> DEFINE f == finalObj[a]
           d == finalDestruct[a]
           m == finalMutations[a]
           r == rootObj[a]
<1>1. /\ db[a] \in Account \cup {NoObject}
      /\ Wiped(a) <=> d # NoEntry /\ d.origin # NoObject
      /\ Updated(a) <=> m # NoEntry /\ m.typ = "update"
  BY DEF IInv, TypeOK, Wiped, Updated
<1>2. /\ m \in Mutations \cup {NoEntry}
      /\ Settled(a, f, d, m, trie[a])
      /\ f = NoObject => ~(m # NoEntry /\ m.typ = "update")
  BY FinalFacts
<1>3. /\ r \in StateObjects \cup {NoObject}
      /\ r = NoObject <=> f = NoObject
      /\ r # NoObject => Fits(r, ParentOf(a, d)) /\ r.dirtyStorage = NoStorage
      /\ Logical(r) = Logical(f)
  BY RootFacts
<1> HIDE DEF f, d, m, r
<1>4. d # NoEntry => d.origin = db[a] /\ m # NoEntry
  BY <1>2 DEF Settled
<1>5. Wiped(a) => d.origin = db[a] /\ db[a] # NoObject
  BY <1>1, <1>4
<1>6. ParentOf(a, d) = IF Wiped(a) THEN NoObject ELSE db[a]
  BY <1>1, <1>4 DEF ParentOf
<1>7. ASSUME ~Updated(a) PROVE Logical(f) = IF Wiped(a) THEN NoObject ELSE db[a]
  <2>1. CASE m = NoEntry
    BY <1>1, <1>2, <1>4, <2>1 DEF Settled
  <2>2. CASE m # NoEntry
    <3>1. m.typ = "deletion"
      BY <1>1, <1>2, <1>7, <2>2 DEF Mutations
    <3>2. f = NoObject /\ d # NoEntry
      BY <1>2, <2>2, <3>1 DEF Settled
    <3> QED BY <1>1, <1>4, <3>2 DEF Logical
  <2> QED BY <2>1, <2>2
<1>8. ASSUME Updated(a)
      PROVE  /\ r \in StateObjects /\ Logical(f) \in Account
             /\ r.base.origin = IF Wiped(a) THEN NoObject ELSE db[a]
             /\ Logical(f) =
                  [balance |-> r.balance, nonce |-> r.nonce, code |-> r.code,
                   storage |-> [k \in Slot |-> IF k \in FlatStorage(r) THEN r.base.pendingStorage[k]
                                               ELSE r.base.originStorage[k]]]
             /\ \A k \in Slot : r.base.originStorage[k]
                  = IF Wiped(a) \/ db[a] = NoObject THEN ZeroHash ELSE db[a].storage[k]
  <2>1. r # NoObject /\ r \in StateObjects
    BY <1>1, <1>2, <1>3, <1>8
  <2>2. OnParent(r, ParentOf(a, d)) /\ r.dirtyStorage = NoStorage
    BY <1>3, <2>1 DEF Fits
  <2>3. r.base.origin = IF Wiped(a) THEN NoObject ELSE db[a]
    BY <1>6, <2>2 DEF OnParent
  <2>4. \A k \in Slot : r.base.originStorage[k]
          = IF Wiped(a) \/ db[a] = NoObject THEN ZeroHash ELSE db[a].storage[k]
    BY <1>6, <2>2 DEF OnParent, Zeroes
  <2>5. \A k \in Slot : GetState(r, k) = IF k \in FlatStorage(r) THEN r.base.pendingStorage[k]
                                         ELSE r.base.originStorage[k]
    BY <2>2 DEF GetState, GetCommittedState, FlatStorage, NoStorage
  <2>6. [k \in Slot |-> GetState(r, k)]
          = [k \in Slot |-> IF k \in FlatStorage(r) THEN r.base.pendingStorage[k]
                            ELSE r.base.originStorage[k]]
    BY <2>5
  <2>7. Logical(r) = [balance |-> r.balance, nonce |-> r.nonce, code |-> r.code,
                      storage |-> [k \in Slot |-> GetState(r, k)]]
    BY <2>1 DEF Logical
  <2>8. Logical(r) \in Account
    BY <2>1, LogicalType
  <2> QED BY <1>3, <2>1, <2>3, <2>4, <2>6, <2>7, <2>8
<1> QED BY <1>1, <1>5, <1>7, <1>8 DEF f, d, r

\* The state update, one account at a time.
LEMMA UpdateAt ==
  ASSUME NEW a \in Address
  PROVE  LET r == rootObj[a]
             W(k) == Wiped(a) /\ k \in StoragesOf(finalDestruct[a].origin)
             U(k) == Updated(a) /\ k \in FlatStorage(r)
         IN  /\ newStateUpdate.accounts[a] =
                   IF Updated(a) THEN [balance |-> r.balance, nonce |-> r.nonce, code |-> r.code]
                   ELSE IF Wiped(a) THEN NoObject ELSE NoEntry
             /\ newStateUpdate.accountsOrigin[a] =
                   IF Wiped(a) THEN finalDestruct[a].origin
                   ELSE IF Updated(a) THEN r.base.origin ELSE NoEntry
             /\ \A k \in Slot : newStateUpdate.storages[a][k] =
                   IF U(k) THEN r.base.pendingStorage[k] ELSE IF W(k) THEN ZeroHash ELSE NoEntry
             /\ \A k \in Slot : newStateUpdate.storagesOrigin[a][k] =
                   IF W(k) THEN finalDestruct[a].origin.storage[k]
                   ELSE IF U(k) THEN r.base.originStorage[k] ELSE NoEntry
BY DEF newStateUpdate

\* An account is its four fields.
LEMMA AccountFields ==
  ASSUME NEW acct \in Account
  PROVE  /\ acct = [balance |-> acct.balance, nonce |-> acct.nonce, code |-> acct.code,
                    storage |-> [k \in Slot |-> acct.storage[k]]]
         /\ acct # NoObject /\ acct # NoEntry
         /\ \A k \in Slot : acct.storage[k] \in Word /\ acct.storage[k] # NoEntry
<1>1. acct.storage \in [Slot -> Word]
  BY DEF Account
<1>2. acct.storage = [k \in Slot |-> acct.storage[k]]
  BY <1>1
<1>3. acct = [balance |-> acct.balance, nonce |-> acct.nonce, code |-> acct.code,
              storage |-> acct.storage]
  BY SMT DEF Account
<1> QED BY <1>1, <1>2, <1>3, ObjectAssumption, DBAssumption

\* What Commit writes over the flat state is what the objects hold.
LEMMA CommittedAccount ==
  ASSUME IInv, NEW a \in Address
  PROVE  ApplyDiff(db, newStateUpdate.accounts, newStateUpdate.storages)[a] = Logical(finalObj[a])
<1> DEFINE r   == rootObj[a]
           acc == newStateUpdate.accounts
           sto == newStateUpdate.storages
           s   == [k \in Slot |-> IF sto[a][k] # NoEntry THEN sto[a][k]
                                  ELSE IF db[a] = NoObject THEN ZeroHash ELSE db[a].storage[k]]
           x   == IF acc[a] = NoEntry THEN db[a] ELSE acc[a]
<1>1. ApplyDiff(db, acc, sto)[a] =
        IF x = NoObject THEN NoObject
        ELSE [balance |-> x.balance, nonce |-> x.nonce, code |-> x.code, storage |-> s]
  BY DEF ApplyDiff
<1>2. /\ acc[a] = IF Updated(a) THEN [balance |-> r.balance, nonce |-> r.nonce, code |-> r.code]
                  ELSE IF Wiped(a) THEN NoObject ELSE NoEntry
      /\ \A k \in Slot : sto[a][k] =
           IF Updated(a) /\ k \in FlatStorage(r) THEN r.base.pendingStorage[k]
           ELSE IF Wiped(a) /\ k \in StoragesOf(finalDestruct[a].origin) THEN ZeroHash
           ELSE NoEntry
  BY UpdateAt
<1>3. db[a] \in Account \cup {NoObject} /\ NoEntry # NoObject
  BY ChangeFacts, DBAssumption
<1>4. CASE Updated(a)
  <2>1. /\ r \in StateObjects
        /\ Logical(finalObj[a]) =
             [balance |-> r.balance, nonce |-> r.nonce, code |-> r.code,
              storage |-> [k \in Slot |-> IF k \in FlatStorage(r) THEN r.base.pendingStorage[k]
                                          ELSE r.base.originStorage[k]]]
        /\ \A k \in Slot : r.base.originStorage[k]
             = IF Wiped(a) \/ db[a] = NoObject THEN ZeroHash ELSE db[a].storage[k]
        /\ Wiped(a) => finalDestruct[a].origin = db[a] /\ db[a] # NoObject
    BY <1>4, ChangeFacts
  <2>2. /\ acc[a] = [balance |-> r.balance, nonce |-> r.nonce, code |-> r.code]
        /\ acc[a] # NoEntry /\ acc[a] # NoObject
    <3>1. [balance |-> r.balance, nonce |-> r.nonce, code |-> r.code]
            \in [balance : Nat, nonce : Nat, code : Code]
      BY <2>1 DEF StateObjects
    <3> QED BY <1>2, <1>4, <3>1, DBAssumption
  <2>3. x.balance = r.balance /\ x.nonce = r.nonce /\ x.code = r.code /\ x # NoObject
    <3>1. x = acc[a]
      BY <2>2
    <3> HIDE DEF x, r, acc
    <3> QED BY <2>2, <3>1, SMT
  <2>4. ASSUME NEW k \in Slot
        PROVE  s[k] = IF k \in FlatStorage(r) THEN r.base.pendingStorage[k]
                      ELSE r.base.originStorage[k]
    <3>1. k \in FlatStorage(r) => r.base.pendingStorage[k] # NoEntry
      BY DEF FlatStorage
    <3>2. ZeroHash # NoEntry
      BY ObjectAssumption
    <3>3. CASE k \in FlatStorage(r)
      BY <1>2, <1>4, <3>1, <3>3
    <3>4. CASE k \notin FlatStorage(r)
      <4>1. sto[a][k] = IF Wiped(a) /\ k \in StoragesOf(db[a]) THEN ZeroHash ELSE NoEntry
        BY <1>2, <2>1, <3>4
      <4>2. k \in StoragesOf(db[a]) <=> db[a] # NoObject /\ db[a].storage[k] # ZeroHash
        BY DEF StoragesOf
      <4>3. s[k] = IF sto[a][k] # NoEntry THEN sto[a][k]
                   ELSE IF db[a] = NoObject THEN ZeroHash ELSE db[a].storage[k]
        OBVIOUS
      <4> HIDE DEF s, sto
      <4> QED BY <2>1, <3>2, <3>4, <4>1, <4>2, <4>3
    <3> QED BY <3>3, <3>4
  <2>5. s = [k \in Slot |-> IF k \in FlatStorage(r) THEN r.base.pendingStorage[k]
                            ELSE r.base.originStorage[k]]
    BY <2>4
  <2> HIDE DEF s, x
  <2> QED BY <1>1, <2>1, <2>3, <2>5
<1>5. CASE ~Updated(a) /\ Wiped(a)
  <2>1. x = NoObject /\ Logical(finalObj[a]) = NoObject
    BY <1>2, <1>3, <1>5, ChangeFacts
  <2> HIDE DEF x
  <2> QED BY <1>1, <2>1, SMTT(30)
<1>6. CASE ~Updated(a) /\ ~Wiped(a)
  <2>1. x = db[a] /\ Logical(finalObj[a]) = db[a]
    BY <1>2, <1>6, ChangeFacts
  <2>2. CASE db[a] = NoObject
    <3> HIDE DEF x
    <3> QED BY <1>1, <2>1, <2>2
  <2>3. CASE db[a] # NoObject
    <3>1. s = [k \in Slot |-> db[a].storage[k]]
      BY <1>2, <1>6, <2>3
    <3>2. db[a] = [balance |-> db[a].balance, nonce |-> db[a].nonce, code |-> db[a].code,
                   storage |-> [k \in Slot |-> db[a].storage[k]]]
      BY <1>3, <2>3, AccountFields, SMTT(30)
    <3> HIDE DEF x, s
    <3> QED BY <1>1, <2>1, <2>3, <3>1, <3>2
  <2> QED BY <2>2, <2>3
<1> QED BY <1>4, <1>5, <1>6

\* Writing the original values over what Commit wrote gives the account of the
\* parent state back.
LEMMA RestoredAccount ==
  ASSUME IInv, NEW a \in Address, NEW d, d[a] = Logical(finalObj[a])
  PROVE  ApplyDiff(d, newStateUpdate.accountsOrigin, newStateUpdate.storagesOrigin)[a] = db[a]
<1> DEFINE r   == rootObj[a]
           acc == newStateUpdate.accountsOrigin
           sto == newStateUpdate.storagesOrigin
           s   == [k \in Slot |-> IF sto[a][k] # NoEntry THEN sto[a][k]
                                  ELSE IF d[a] = NoObject THEN ZeroHash ELSE d[a].storage[k]]
           x   == IF acc[a] = NoEntry THEN d[a] ELSE acc[a]
<1>1. ApplyDiff(d, acc, sto)[a] =
        IF x = NoObject THEN NoObject
        ELSE [balance |-> x.balance, nonce |-> x.nonce, code |-> x.code, storage |-> s]
  BY DEF ApplyDiff
<1>2. /\ db[a] \in Account \cup {NoObject} /\ NoEntry # NoObject
      /\ Wiped(a) => finalDestruct[a].origin = db[a] /\ db[a] # NoObject
      /\ ~Updated(a) => d[a] = IF Wiped(a) THEN NoObject ELSE db[a]
  BY ChangeFacts, DBAssumption
<1>3. /\ acc[a] = IF Wiped(a) THEN db[a] ELSE IF Updated(a) THEN r.base.origin ELSE NoEntry
      /\ \A k \in Slot : sto[a][k] =
           IF Wiped(a) /\ k \in StoragesOf(db[a]) THEN db[a].storage[k]
           ELSE IF Updated(a) /\ k \in FlatStorage(r) THEN r.base.originStorage[k]
           ELSE NoEntry
  BY <1>2, UpdateAt
<1>4. Updated(a) =>
        /\ r.base.origin = IF Wiped(a) THEN NoObject ELSE db[a]
        /\ d[a] # NoObject
        /\ \A k \in Slot :
             /\ d[a].storage[k] = IF k \in FlatStorage(r) THEN r.base.pendingStorage[k]
                                  ELSE r.base.originStorage[k]
             /\ r.base.originStorage[k]
                  = IF Wiped(a) \/ db[a] = NoObject THEN ZeroHash ELSE db[a].storage[k]
  <2> SUFFICES ASSUME Updated(a)
               PROVE  /\ r.base.origin = IF Wiped(a) THEN NoObject ELSE db[a]
                      /\ d[a] # NoObject
                      /\ \A k \in Slot :
                           /\ d[a].storage[k] = IF k \in FlatStorage(r) THEN r.base.pendingStorage[k]
                                                ELSE r.base.originStorage[k]
                           /\ r.base.originStorage[k]
                                = IF Wiped(a) \/ db[a] = NoObject THEN ZeroHash
                                  ELSE db[a].storage[k]
    OBVIOUS
  <2>1. /\ r.base.origin = IF Wiped(a) THEN NoObject ELSE db[a]
        /\ d[a] = [balance |-> r.balance, nonce |-> r.nonce, code |-> r.code,
                   storage |-> [k \in Slot |-> IF k \in FlatStorage(r) THEN r.base.pendingStorage[k]
                                               ELSE r.base.originStorage[k]]]
        /\ \A k \in Slot : r.base.originStorage[k]
             = IF Wiped(a) \/ db[a] = NoObject THEN ZeroHash ELSE db[a].storage[k]
    BY ChangeFacts
  <2>2. d[a] # NoObject
    BY ChangeFacts, ObjectAssumption, ZenonT(30)
  <2> HIDE DEF r
  <2>3. ASSUME NEW k \in Slot
        PROVE  d[a].storage[k] = IF k \in FlatStorage(r) THEN r.base.pendingStorage[k]
                                 ELSE r.base.originStorage[k]
    BY <2>1, SMT
  <2> QED BY <2>1, <2>2, <2>3
<1> HIDE DEF r, sto, acc
<1>5. ASSUME db[a] # NoObject, NEW k \in Slot PROVE s[k] = db[a].storage[k]
  <2>1. s[k] = IF sto[a][k] # NoEntry THEN sto[a][k]
               ELSE IF d[a] = NoObject THEN ZeroHash ELSE d[a].storage[k]
    OBVIOUS
  <2>2. k \in StoragesOf(db[a]) <=> db[a].storage[k] # ZeroHash
    BY <1>5 DEF StoragesOf
  <2>3. db[a].storage[k] # NoEntry /\ ZeroHash # NoEntry
    BY <1>2, <1>5, AccountFields, ObjectAssumption
  <2> HIDE DEF s
  <2>4. CASE Wiped(a) BY <1>2, <1>3, <1>4, <2>1, <2>2, <2>3, <2>4
  <2>5. CASE ~Wiped(a) /\ Updated(a) BY <1>3, <1>4, <1>5, <2>1, <2>3, <2>5
  <2>6. CASE ~Wiped(a) /\ ~Updated(a) BY <1>2, <1>3, <1>5, <2>1, <2>6
  <2> QED BY <2>4, <2>5, <2>6
<1>6. x = db[a]
  <2>1. db[a] # NoEntry
    BY <1>2, AccountFields
  <2>2. x = IF acc[a] = NoEntry THEN d[a] ELSE acc[a]
    BY SMT
  <2> HIDE DEF x
  <2>3. CASE Wiped(a) BY <1>2, <1>3, <1>4, <2>1, <2>2, <2>3
  <2>4. CASE ~Wiped(a) /\ Updated(a) BY <1>2, <1>3, <1>4, <2>1, <2>2, <2>4
  <2>5. CASE ~Wiped(a) /\ ~Updated(a) BY <1>2, <1>3, <1>4, <2>1, <2>2, <2>5
  <2> QED BY <2>3, <2>4, <2>5
<1>7. db[a] # NoObject => s = [k \in Slot |-> db[a].storage[k]]
  BY <1>5
<1>8. db[a] # NoObject =>
        db[a] = [balance |-> db[a].balance, nonce |-> db[a].nonce, code |-> db[a].code,
                 storage |-> [k \in Slot |-> db[a].storage[k]]]
  BY <1>2, AccountFields
<1> HIDE DEF s, x
<1> QED BY <1>1, <1>6, <1>7, <1>8 DEF acc, sto

\* What the transactions of the block saw in the end.
View == [a \in Address |-> IF Removed(a) THEN NoObject ELSE Logical(world.obj[a])]

\* Commit writes the view to the flat state and to the account trie, and the
\* original values of the update take it back.
LEMMA CommitFacts ==
  ASSUME IInv
  PROVE  /\ ApplyDiff(db, newStateUpdate.accounts, newStateUpdate.storages) = View
         /\ rootTrie = View
         /\ ApplyDiff(View, newStateUpdate.accountsOrigin, newStateUpdate.storagesOrigin) = db
<1>1. \A a \in Address : View[a] = Logical(finalObj[a])
  BY FinalFacts DEF View
<1>2. /\ \A d, acc, sto : ApplyDiff(d, acc, sto) = [a \in Address |-> ApplyDiff(d, acc, sto)[a]]
      /\ View = [a \in Address |-> View[a]] /\ rootTrie = [a \in Address |-> rootTrie[a]]
      /\ db = [a \in Address |-> db[a]]
  <2>1. \A d, acc, sto : ApplyDiff(d, acc, sto) = [a \in Address |-> ApplyDiff(d, acc, sto)[a]]
    <3> SUFFICES ASSUME NEW d, NEW acc, NEW sto
                 PROVE  ApplyDiff(d, acc, sto) = [a \in Address |-> ApplyDiff(d, acc, sto)[a]]
      OBVIOUS
    <3> DEFINE Result(a) ==
                 LET acct == IF acc[a] = NoEntry THEN d[a] ELSE acc[a]
                 IN  IF acct = NoObject THEN NoObject
                     ELSE [balance |-> acct.balance, nonce |-> acct.nonce, code |-> acct.code,
                           storage |-> [k \in Slot |->
                                          IF sto[a][k] # NoEntry THEN sto[a][k]
                                          ELSE IF d[a] = NoObject THEN ZeroHash
                                          ELSE d[a].storage[k]]]
    <3>1. ApplyDiff(d, acc, sto) = [a \in Address |-> Result(a)]
      BY DEF ApplyDiff
    <3> HIDE DEF Result
    <3> QED BY <3>1
  <2>2. View = [a \in Address |-> View[a]]
    BY DEF View
  <2>3. rootTrie = [a \in Address |-> rootTrie[a]]
    BY DEF rootTrie
  <2>4. db \in [Address -> Account \cup {NoObject}]
    BY DEF IInv, TypeOK
  <2> QED BY <2>1, <2>2, <2>3, <2>4
<1>3. ApplyDiff(db, newStateUpdate.accounts, newStateUpdate.storages) = View
  BY <1>1, <1>2, CommittedAccount, SMTT(30)
<1>4. rootTrie = View
  BY <1>1, <1>2, RootFacts, SMTT(30)
<1>5. ApplyDiff(View, newStateUpdate.accountsOrigin, newStateUpdate.storagesOrigin) = db
  BY <1>1, <1>2, RestoredAccount, SMTT(30)
<1> QED BY <1>3, <1>4, <1>5

\* Commit, with the new StateDB opened after it, preserves the invariant.
LEMMA CommitPreserves == IInv /\ Commit => IInv'
<1> SUFFICES ASSUME IInv, Commit PROVE IInv'
  OBVIOUS
<1>1. /\ db' = View /\ trie' = View
      /\ db' \in [Address -> Account \cup {NoObject}]
      /\ trie' \in [Address -> Account \cup {NoObject}]
  BY CommitFacts, RootFacts DEF Commit
<1>2. /\ world' = freshWorld(db') /\ journal' = newJournal /\ delta' = 0 /\ thash' \in Tx
      /\ destruct' = [a \in Address |-> NoEntry] /\ mutations' = [a \in Address |-> NoEntry]
      /\ txs' = 0 /\ trail' = <<>> /\ saved' = <<>> /\ expected' = 0
      /\ lost' = [a \in Address |-> 0] /\ reverting' = 0
  BY DEF Commit, Idle
<1>3. world' \in Worlds
  BY <1>1, <1>2, FreshFacts
<1>4. /\ journal' \in Journals /\ journal'.validRevisions = <<>> /\ journal'.entries = <<>>
  BY <1>2, NewJournalFacts
<1>5. TypeOK'
  <2>1. /\ <<>> \in Seq(Worlds) /\ <<>> \in Seq(SavedStates)
        /\ Len(<<>>) = 0 /\ 0 \in 0 .. 0 /\ 0 \in Int /\ 0 \in Nat
    BY SMT
  <2>2. /\ destruct' \in [Address -> [origin : Account \cup {NoObject}] \cup {NoEntry}]
        /\ mutations' \in [Address -> Mutations \cup {NoEntry}]
        /\ lost' \in [Address -> Nat]
    BY <1>2
  <2> QED BY <1>1, <1>2, <1>3, <1>4, <2>1, <2>2 DEF TypeOK
<1>6. Opened'
  BY <1>1, <1>2 DEF Opened
<1> QED BY <1>5, <1>6, OpenedBetweenNext, EmptyJournalNext

\* SetTxContext only names the transaction.
LEMMA SetTxContextPreserves == ASSUME IInv, NEW t \in Tx, SetTxContext(t) PROVE IInv'
<1>1. /\ Idle /\ thash' = t /\ delta' = delta /\ expected' = expected
      /\ UNCHANGED <<world, journal, trail, reverting, blockVars, saved, lost>>
  BY DEF SetTxContext, histVars
<1>2. delta' \in Int /\ expected' \in Int /\ thash' \in Tx
  BY <1>1 DEF IInv, TypeOK
<1> QED BY <1>1, <1>2, QuietPreserves

-----------------------------------------------------------------------------
(* The theorems.                                                           *)

\* A stuttering step preserves the invariant.
LEMMA StutterPreserves == IInv /\ UNCHANGED vars => IInv'
<1> SUFFICES ASSUME IInv, UNCHANGED vars PROVE IInv'
  OBVIOUS
<1>1. /\ UNCHANGED <<world, journal, delta, thash, reverting>>
      /\ UNCHANGED <<destruct, mutations, trie, db, txs>>
      /\ UNCHANGED <<trail, saved, expected, lost>>
  BY DEF vars, txVars, blockVars, histVars
<1>2. TypeOK'
  BY <1>1 DEF IInv, TypeOK
<1>3. JournalUndoable' /\ ChangesTracked' /\ BlockOk'
  BY <1>1, SameJournal
<1>4. RevisionsOrdered'
  <2>1. \A i : At(DB', i) = At(DB, i)
    BY <1>1, SameJournal
  <2> QED BY <1>1, <2>1 DEF IInv, RevisionsOrdered, Open, Idle
<1> QED BY <1>2, <1>3, <1>4 DEF IInv

\* IInv is inductive: one case for each action.
THEOREM NextInv == IInv /\ [Next]_vars => IInv'
<1> SUFFICES ASSUME IInv, [Next]_vars PROVE IInv'
  OBVIOUS
<1>1. CASE AccountCall
  BY <1>1, AccountCallPreserves
<1>2. CASE OtherCall
  BY <1>2, OtherCallPreserves
<1>3. CASE Snapshot
  BY <1>3, SnapshotPreserves
<1>4. CASE \E id \in 0 .. journal.nextRevisionId : RevertToSnapshot(id)
  BY <1>4, RevertToSnapshotPreserves
<1>5. CASE RevertEntry
  BY <1>5, RevertEntryPreserves
<1>6. CASE RevertDone
  BY <1>6, RevertDonePreserves
<1>7. CASE Finalise
  BY <1>7, FinalisePreserves
<1>8. CASE \E t \in Tx : SetTxContext(t)
  BY <1>8, SetTxContextPreserves
<1>9. CASE IntermediateRoot
  BY <1>9, IntermediateRootPreserves
<1>10. CASE Commit
  BY <1>10, CommitPreserves
<1>11. CASE UNCHANGED vars
  BY <1>11, StutterPreserves
<1> QED BY <1>1, <1>2, <1>3, <1>4, <1>5, <1>6, <1>7, <1>8, <1>9, <1>10, <1>11 DEF Next

\* The invariant holds in every reachable state, whatever the accounts, slots,
\* values and bounds.
THEOREM Invariant == Spec => []IInv
<1> QED BY InitInv, NextInv, PTL DEF Spec

\* Every variable keeps its type.
THEOREM TypeCorrect == Spec => []TypeOK
<1>1. IInv => TypeOK
  BY DEF IInv
<1> QED BY <1>1, Invariant, PTL

\* Every journal entry, undone in the state after it, gives the state before it.
THEOREM UndoCorrect == Spec => []JournalUndoable
<1>1. IInv => JournalUndoable
  BY DEF IInv
<1> QED BY <1>1, Invariant, PTL

\* The step that ends a revert is the only one that leaves reverting.
LEMMA LeavesReverting ==
  ASSUME [Next]_vars, reverting # 0, reverting' = 0 PROVE RevertDone
<1>1. ~Idle
  BY DEF Idle
<1>2. ~AccountCall
  <2>1. \A a \in Address, x \in Amount :
          ~AddBalance(a, x) /\ ~SubBalance(a, x) /\ ~SetBalance(a, x)
    BY <1>1 DEF AddBalance, SubBalance, SetBalance, Calling, Set, SetWithDelta
  <2>2. \A a \in Address : /\ \A n \in Nonce : ~SetNonce(a, n)
                           /\ \A c \in Code : ~SetCode(a, c)
                           /\ \A k \in Slot, v \in Word : ~SetState(a, k, v)
    BY <1>1 DEF SetNonce, SetCode, SetState, Calling, Set
  <2>3. \A a \in Address : /\ ~SelfDestruct(a) /\ ~SelfDestruct6780(a)
                           /\ ~CreateZombieIfDeleted(a) /\ ~Create(a)
    BY <1>1 DEF SelfDestruct, SelfDestruct6780, CreateZombieIfDeleted, Create, Calling, Set,
       SetWithDelta
  <2> QED BY <2>1, <2>2, <2>3 DEF AccountCall
<1>3. ~OtherCall
  BY <1>1 DEF OtherCall, ExpectBalanceBurn, ExpectBalanceMint, SetTransientState, AddRefund, SubRefund,
     AddLog, AddAddressToAccessList, AddSlotToAccessList, ActivateWasm, Prepare, Calling, Set
<1>4. /\ ~Snapshot /\ ~Finalise /\ ~IntermediateRoot /\ ~Commit
      /\ \A t \in Tx : ~SetTxContext(t)
      /\ \A id \in 0 .. journal.nextRevisionId : ~RevertToSnapshot(id)
  BY <1>1 DEF Snapshot, Finalise, IntermediateRoot, Commit, SetTxContext, RevertToSnapshot
<1>5. ~RevertEntry /\ ~UNCHANGED vars
  BY DEF RevertEntry, vars, txVars
<1> QED BY <1>2, <1>3, <1>4, <1>5 DEF Next

\* RevertToSnapshot restores the state of the snapshot.
THEOREM RevertCorrect == Spec => RevertRestores
<1>1. ASSUME IInv, [Next]_vars
      PROVE  [reverting # 0 /\ reverting' = 0
               => /\ world' = saved[reverting].world
                  /\ delta' = saved[reverting].delta
                  /\ Len(journal'.validRevisions) = reverting - 1]_vars
  BY <1>1, LeavesReverting, RevertDonePreserves
<1> QED BY <1>1, Invariant, PTL DEF Spec, RevertRestores

\* An address marked for an update has a live object.
THEOREM UpdatesLive == Spec => []UpdatedAccountsLive
<1>1. IInv => UpdatedAccountsLive
  BY FinalFacts DEF UpdatedAccountsLive, Updated
<1> QED BY <1>1, Invariant, PTL

\* No index of the access list points past the slice, and the slice holds nothing
\* that no address points to, through every addition and revert.
THEOREM AccessListCorrect == Spec => []AccessListSound
<1>1. ASSUME IInv PROVE AccessListSound
  <2>1. Sound(DB.world)
    BY <1>1, InvGood, GoodWorld
  <2>2. Sound(world)
    BY <2>1 DEF DB
  <2> QED BY <2>2 DEF Sound, AccessListSound
<1> QED BY <1>1, Invariant, PTL

\* Finalise, which only looks at the dirties, sees every account that changed.
THEOREM ChangesDirty == Spec => []ChangedIsDirty
<1>1. ASSUME IInv PROVE ChangedIsDirty
  <2> SUFFICES ASSUME NEW a \in Address,
                      Ledger(world.obj[a]) # Ledger(StartWorld.obj[a])
               PROVE  journal.dirties[a] # 0
    BY DEF ChangedIsDirty
  <2> DEFINE n == Len(trail)
  <2>1. n \in Nat /\ At(DB, n + 1) = world /\ trail \in Seq(Worlds)
    BY <1>1, InvFacts
  <2>2. At(DB, 1) = StartWorld
    <3>1. DB.trail = trail /\ DB.world = world
      BY DEF DB
    <3>2. trail = <<>> <=> ~(1 <= n)
      BY <2>1, SMT
    <3> QED BY <3>1, <3>2 DEF At, StartWorld
  <2>3. n + 1 \in 1 .. n + 1 /\ (n + 1) - 1 = n
    BY <2>1, SMT
  <2>4. Ledger(At(DB, n + 1).obj[a]) # Ledger(At(DB, 1).obj[a]) =>
          \E j \in 1 .. (n + 1) - 1 : Dirtied(journal.entries[j], a)
    <3>1. DB.trail = trail /\ DB.journal = journal
      BY DEF DB
    <3> QED BY <1>1, <2>3, <3>1 DEF IInv, ChangesTracked, Tracked
  <2>5. \E j \in 1 .. n : Dirtied(journal.entries[j], a)
    BY <2>1, <2>2, <2>3, <2>4
  <2> QED BY <1>1, <2>5, TouchedIsDirty
<1> QED BY <1>1, Invariant, PTL

\* Only Commit writes the flat state or clears the mutations at the start of a block.
LEMMA OnlyCommits ==
  ASSUME IInv, [Next]_vars, db' # db \/ (txs' = 0 /\ mutations' # mutations) PROVE Commit
<1>1. ~UNCHANGED blockVars
  BY DEF blockVars
<1>2. ~AccountCall
  <2>1. \A a \in Address, x \in Amount :
          ~AddBalance(a, x) /\ ~SubBalance(a, x) /\ ~SetBalance(a, x)
    BY <1>1 DEF AddBalance, SubBalance, SetBalance, Calling, Set, SetWithDelta
  <2>2. \A a \in Address : /\ \A n \in Nonce : ~SetNonce(a, n)
                           /\ \A c \in Code : ~SetCode(a, c)
                           /\ \A k \in Slot, v \in Word : ~SetState(a, k, v)
    BY <1>1 DEF SetNonce, SetCode, SetState, Calling, Set
  <2>3. \A a \in Address : /\ ~SelfDestruct(a) /\ ~SelfDestruct6780(a)
                           /\ ~CreateZombieIfDeleted(a) /\ ~Create(a)
    BY <1>1 DEF SelfDestruct, SelfDestruct6780, CreateZombieIfDeleted, Create, Calling, Set,
       SetWithDelta
  <2> QED BY <2>1, <2>2, <2>3 DEF AccountCall
<1>3. ~OtherCall
  BY <1>1 DEF OtherCall, ExpectBalanceBurn, ExpectBalanceMint, SetTransientState, AddRefund, SubRefund,
     AddLog, AddAddressToAccessList, AddSlotToAccessList, ActivateWasm, Prepare, Calling, Set
<1>4. /\ ~Snapshot /\ ~RevertEntry /\ ~RevertDone /\ ~UNCHANGED vars
      /\ \A t \in Tx : ~SetTxContext(t)
      /\ \A id \in 0 .. journal.nextRevisionId : ~RevertToSnapshot(id)
  BY <1>1 DEF Snapshot, RevertEntry, RevertDone, SetTxContext, RevertToSnapshot, vars
<1>5. ~Finalise /\ ~IntermediateRoot
  <2>1. txs \in Nat
    BY DEF IInv, TypeOK
  <2>2. FinaliseRest => db' = db /\ txs' # 0
    BY <2>1, SMT DEF FinaliseRest
  <2> QED BY <2>2 DEF Finalise, IntermediateRoot
<1> QED BY <1>2, <1>3, <1>4, <1>5 DEF Next

\* The flat state and the account trie that Commit leaves are the accounts as the
\* transactions of the block saw them.
THEOREM CommitCorrect == Spec => CommitPersistsView
<1>1. ASSUME IInv, [Next]_vars
      PROVE  [db' # db \/ (txs' = 0 /\ mutations' # mutations)
               => LET view == [a \in Address |-> IF Removed(a) THEN NoObject
                                                 ELSE Logical(world.obj[a])]
                  IN  db' = view /\ trie' = view]_vars
  BY <1>1, OnlyCommits, CommitFacts DEF Commit, View
<1> QED BY <1>1, Invariant, PTL DEF Spec, CommitPersistsView

\* The original values in the state update of a commit undo it.
THEOREM UpdateReversible == Spec => UpdateIsReversible
<1>1. ASSUME IInv, [Next]_vars
      PROVE  [db' # db => ApplyDiff(db', newStateUpdate.accountsOrigin,
                                         newStateUpdate.storagesOrigin) = db]_vars
  <2> SUFFICES ASSUME db' # db
               PROVE  ApplyDiff(db', newStateUpdate.accountsOrigin,
                                     newStateUpdate.storagesOrigin) = db
    OBVIOUS
  <2>1. Commit
    BY <1>1, OnlyCommits
  <2>2. db' = View
    BY <1>1, <2>1, CommitFacts DEF Commit
  <2> QED BY <1>1, <2>2, CommitFacts
<1> QED BY <1>1, Invariant, PTL DEF Spec, UpdateIsReversible
=============================================================================
