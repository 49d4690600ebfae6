------------------------- MODULE StateDBCallProofs --------------------------
(***************************************************************************)
(* Proofs about the calls of StateDB, for every set of addresses, slots,   *)
(* words, codes, modules and transactions.                                 *)
(*                                                                         *)
(* The setters are functions of s = [world, journal, trail].  Good(s) is   *)
(* the part of the invariant that speaks of such a value; every setter maps*)
(* a good s to a good one that continues it (Step): it records an entry    *)
(* whose revert method gives the old world back, or does nothing.  So all  *)
(* calls inside a transaction preserve the inductive invariant IInv.       *)
(***************************************************************************)
EXTENDS StateDBProperties, TLAPS

\* Zenon is the prover of a leaf that names none: it is enough for first-order steps,
\* and the leaves that need arithmetic, records or sequences name SMT.
USE Zenon

\* The part of the invariant that speaks of s.
Good(s) ==
  /\ s.world \in Worlds
  /\ s.journal \in Journals
  /\ s.trail \in Seq(Worlds)
  /\ Len(s.trail) = Len(s.journal.entries)
  /\ \A i \in 1 .. Len(s.trail) + 1 : Sound(At(s, i))
  /\ Undoable(s)
  /\ Tracked(s) /\ Counted(s.journal)

\* r continues s: same revisions, and the worlds s went through.
Extends(s, r) ==
  /\ r.journal.validRevisions = s.journal.validRevisions
  /\ r.journal.nextRevisionId = s.journal.nextRevisionId
  /\ Len(s.trail) <= Len(r.trail)
  /\ \A i \in 1 .. Len(s.trail) + 1 : At(r, i) = At(s, i)

\* What every setter does.
Step(s, r) == Good(r) /\ Extends(s, r)

\* A call that changes nothing is a step.
LEMMA StepRefl == ASSUME NEW s, Good(s) PROVE Step(s, s)
BY SMT DEF Step, Extends, Good

\* Steps compose.
LEMMA StepTrans ==
  ASSUME NEW s, NEW r, NEW t, Good(s), Step(s, r), Step(r, t) PROVE Step(s, t)
<1>1. /\ s.trail \in Seq(Worlds) /\ r.trail \in Seq(Worlds)
      /\ Extends(s, r) /\ Extends(r, t) /\ Good(t)
  BY DEF Step, Good
<1>2. Len(s.trail) \in Nat /\ Len(r.trail) \in Nat
  BY <1>1, SMT
<1>3. Len(t.trail) \in Nat
  BY <1>1, SMT DEF Good
<1> QED BY <1>1, <1>2, <1>3, SMT DEF Step, Extends

\* Append, on any sequence.
LEMMA AppendProps ==
  ASSUME NEW S, NEW q \in Seq(S), NEW x \in S
  PROVE  /\ Append(q, x) \in Seq(S)
         /\ Len(Append(q, x)) = Len(q) + 1
         /\ \A i \in 1 .. Len(q) : Append(q, x)[i] = q[i]
         /\ Append(q, x)[Len(q) + 1] = x
BY SMT

\* k has the entries of j and one more.
OneMore(j, k) ==
  /\ j.entries \in Seq(Entries) /\ k.entries \in Seq(Entries)
  /\ Len(k.entries) = Len(j.entries) + 1
  /\ \A i \in 1 .. Len(j.entries) : k.entries[i] = j.entries[i]

\* One entry more, one touch more if it dirties the account.
LEMMA TouchesOneMore ==
  ASSUME NEW j, NEW k, OneMore(j, k), NEW a
  PROVE  LET n == Len(k.entries)
         IN  /\ n \notin Touches(j, a)
             /\ Touches(k, a) = IF Dirtied(k.entries[n], a) THEN Touches(j, a) \cup {n}
                                ELSE Touches(j, a)
<1> DEFINE n == Len(j.entries)
<1>1. n \in Nat /\ Len(k.entries) = n + 1
  BY SMT DEF OneMore
<1>2. n + 1 \notin Touches(j, a)
  BY <1>1, SMT DEF Touches
<1>3. Touches(k, a) = IF Dirtied(k.entries[n + 1], a) THEN Touches(j, a) \cup {n + 1}
                      ELSE Touches(j, a)
  <2>1. \A i : i \in 1 .. n + 1 <=> i \in 1 .. n \/ i = n + 1
    BY <1>1, SMT
  <2>2. \A i \in 1 .. n : k.entries[i] = j.entries[i]
    BY DEF OneMore
  <2> HIDE DEF n
  <2>3. \A i : i \in Touches(k, a) <=> \/ i \in Touches(j, a)
                                       \/ i = n + 1 /\ Dirtied(k.entries[n + 1], a)
    BY <1>1, <2>1, <2>2 DEF Touches, n
  <2> QED BY <2>3
<1> QED BY <1>1, <1>2, <1>3

\* A count goes up with one element more,
LEMMA CountUp ==
  ASSUME NEW S, NEW x, x \notin S, NEW n \in Nat, NEW m \in Nat, n + 1 <= m,
         ExistsInjection(S, 1 .. n)
  PROVE  ExistsInjection(S \cup {x}, 1 .. m)
<1>1. PICK f \in [S -> 1 .. n] : \A a, b \in S : f[a] = f[b] => a = b
  BY DEF ExistsInjection, Injection, IsInjective
<1>2. n + 1 \in 1 .. m /\ \A i \in 1 .. n : i \in 1 .. m /\ i # n + 1
  BY SMT
<1> DEFINE g == [y \in S \cup {x} |-> IF y = x THEN n + 1 ELSE f[y]]
<1>3. g \in [S \cup {x} -> 1 .. m]
  BY <1>1, <1>2
<1>4. \A a, b \in S \cup {x} : g[a] = g[b] => a = b
  BY <1>1, <1>2
<1> QED BY <1>3, <1>4 DEF ExistsInjection, Injection, IsInjective

\* may be larger than it needs to be,
LEMMA CountMore ==
  ASSUME NEW S, NEW n \in Nat, NEW m \in Nat, n <= m, ExistsInjection(S, 1 .. n)
  PROVE  ExistsInjection(S, 1 .. m)
<1>1. PICK f \in [S -> 1 .. n] : \A a, b \in S : f[a] = f[b] => a = b
  BY DEF ExistsInjection, Injection, IsInjective
<1>2. f \in [S -> 1 .. m]
  BY <1>1, SMT
<1> QED BY <1>1, <1>2 DEF ExistsInjection, Injection, IsInjective

\* and goes down with one element less.
LEMMA CountDown ==
  ASSUME NEW S, NEW x, x \notin S, NEW n \in Nat, ExistsInjection(S \cup {x}, 1 .. n)
  PROVE  n - 1 \in Nat /\ ExistsInjection(S, 1 .. n - 1)
<1>1. PICK f \in [S \cup {x} -> 1 .. n] : \A a, b \in S \cup {x} : f[a] = f[b] => a = b
  BY DEF ExistsInjection, Injection, IsInjective
<1>2. f[x] \in 1 .. n /\ \A y \in S : f[y] \in 1 .. n /\ f[y] # f[x]
  BY <1>1
<1>3. /\ n - 1 \in Nat
      /\ \A i \in 1 .. n : i # n => i \in 1 .. n - 1
  BY <1>2, SMT
<1> DEFINE g == [y \in S |-> IF f[y] = n THEN f[x] ELSE f[y]]
<1>4. g \in [S -> 1 .. n - 1]
  BY <1>2, <1>3
<1>5. \A a, b \in S : g[a] = g[b] => a = b
  BY <1>1, <1>2
<1> QED BY <1>3, <1>4, <1>5 DEF ExistsInjection, Injection, IsInjective
-----------------------------------------------------------------------------
(* Worlds and objects.                                                     *)

\* Replacing an object of a world, and putting the old one back.
LEMMA WithObjFacts ==
  ASSUME NEW w \in Worlds, NEW a \in Address, NEW o \in StateObjects \cup {NoObject}
  PROVE  /\ WithObj(w, a, o) \in Worlds
         /\ WithObj(w, a, o).obj = [w.obj EXCEPT ![a] = o]
         /\ WithObj(w, a, o).accessList = w.accessList
         /\ WithObj(WithObj(w, a, o), a, w.obj[a]) = w
BY DEF Worlds, WithObj

\* Replacing an object by itself changes nothing.
LEMMA WithObjSame ==
  ASSUME NEW w \in Worlds, NEW a \in Address, NEW o
  PROVE  WithObj(w, a, o).obj[a] = o
BY DEF Worlds, WithObj

\* A world stays sound when an object is replaced by one whose layers fit.
LEMMA SoundWithObj ==
  ASSUME NEW w \in Worlds, NEW a \in Address, NEW o \in StateObjects,
         Sound(w), Layered(a, o)
  PROVE  Sound(WithObj(w, a, o))
<1> DEFINE v == WithObj(w, a, o)
<1>1. /\ v.obj = [w.obj EXCEPT ![a] = o]
      /\ v.accessList = w.accessList
  BY WithObjFacts, SMT
<1>2. \A b \in Address : v.obj[b] = IF b = a THEN o ELSE w.obj[b]
  BY <1>1 DEF Worlds
<1>3. o # NoObject
  BY ObjectAssumption
<1> QED
  BY <1>1, <1>2, <1>3 DEF Sound

\* The object of a new account.
LEMMA NewObjectFacts ==
  /\ newObject(NoObject) \in StateObjects
  /\ \A a : destruct[a] # NoEntry \/ db[a] = NoObject => Layered(a, newObject(NoObject))
<1>1. NoStorage \in Storage /\ Zeroes \in [Slot -> Word]
  BY ObjectAssumption DEF NoStorage, Storage, Zeroes
<1>2. newObject(NoObject) \in StateObjects
  BY <1>1, ObjectAssumption DEF newObject, StateObjects
<1>3. /\ newObject(NoObject).dirtyStorage = NoStorage
      /\ newObject(NoObject).base = [pendingStorage |-> NoStorage, uncommittedStorage |-> NoStorage,
                                     originStorage |-> Zeroes, root |-> Zeroes, origin |-> NoObject]
  BY DEF newObject
<1> DEFINE o == newObject(NoObject)
<1> HIDE DEF o
<1>4. DirtyDiffers(o)
  BY <1>3 DEF DirtyDiffers, NoStorage, o
<1>5. MarkersRight(o)
  BY <1>3, SMT DEF MarkersRight, GetCommittedState, NoStorage, o
<1>6. OnParent(o, NoObject)
  BY <1>3, SMT DEF OnParent, o
<1> QED
  BY <1>2, <1>4, <1>5, <1>6 DEF Layered, Fits, ParentOf, o
-----------------------------------------------------------------------------
(* Record: a change together with an entry that undoes it.                 *)

\* What changes from world v to world w is an account that e dirties; none vanishes.
OnlyDirties(e, v, w) ==
  \A b \in Address : /\ Dirtied(e, b) \/ Ledger(w.obj[b]) = Ledger(v.obj[b])
                     /\ w.obj[b] = NoObject => v.obj[b] = NoObject

\* Recording entry e for a change from s.world to w is a step if e undoes it, and
\* names and counts the account that changes.
LEMMA RecordStep ==
  ASSUME NEW s, Good(s), NEW e \in Entries, NEW w \in Worlds,
         Sound(w), Undo(e, w) = s.world, OnlyDirties(e, s.world, w),
         NEW j \in Journals,
         j.entries = Append(s.journal.entries, e),
         \A b \in Address :
           s.journal.dirties[b] + (IF Dirtied(e, b) THEN 1 ELSE 0) <= j.dirties[b],
         j.validRevisions = s.journal.validRevisions,
         j.nextRevisionId = s.journal.nextRevisionId
  PROVE  Step(s, [world |-> w, journal |-> j, trail |-> Append(s.trail, s.world)])
<1> DEFINE r == [world |-> w, journal |-> j, trail |-> Append(s.trail, s.world)]
           n == Len(s.trail)
<1>1. /\ n \in Nat
      /\ n = Len(s.journal.entries)
      /\ s.journal.entries \in Seq(Entries)
      /\ s.trail \in Seq(Worlds)
      /\ s.world \in Worlds
  BY SMT DEF Good, Journals
<1>2. /\ r.trail \in Seq(Worlds)
      /\ Len(r.trail) = n + 1
      /\ Len(r.journal.entries) = n + 1
      /\ r.world = w
      /\ r.journal = j
      /\ \A i \in 1 .. n : r.trail[i] = s.trail[i] /\ r.journal.entries[i] = s.journal.entries[i]
      /\ r.trail[n + 1] = s.world
      /\ r.journal.entries[n + 1] = e
  <2>1. /\ r.trail = Append(s.trail, s.world)
        /\ r.journal.entries = Append(s.journal.entries, e)
        /\ r.world = w
        /\ r.journal = j
    OBVIOUS
  <2> HIDE DEF r
  <2>2. /\ r.trail \in Seq(Worlds)
        /\ Len(r.trail) = n + 1
        /\ \A i \in 1 .. n : r.trail[i] = s.trail[i]
        /\ r.trail[n + 1] = s.world
    BY <1>1, <2>1, AppendProps, SMT
  <2>3. /\ Len(r.journal.entries) = n + 1
        /\ \A i \in 1 .. n : r.journal.entries[i] = s.journal.entries[i]
        /\ r.journal.entries[n + 1] = e
    BY <1>1, <2>1, AppendProps, SMTT(30)
  <2> QED BY <2>1, <2>2, <2>3
<1>3. /\ \A i \in 1 .. n + 1 : At(r, i) = At(s, i)
      /\ At(r, n + 2) = w
      /\ At(r, n + 1) = s.world
  BY <1>1, <1>2, SMT DEF At
<1> HIDE DEF r
<1>4. \A i \in 1 .. Len(r.trail) + 1 : Sound(At(r, i))
  <2> SUFFICES ASSUME NEW i \in 1 .. n + 2 PROVE Sound(At(r, i))
    BY <1>2, SMT
  <2>1. CASE i = n + 2 BY <2>1, <1>3
  <2>2. CASE i \in 1 .. n + 1 BY <2>2, <1>3 DEF Good
  <2> QED BY <2>1, <2>2, <1>1, SMT
<1>5. Undoable(r)
  <2> SUFFICES ASSUME NEW i \in 1 .. n + 1
               PROVE  Undo(r.journal.entries[i], At(r, i + 1)) = At(r, i)
    BY <1>2 DEF Undoable
  <2>1. CASE i = n + 1 BY <2>1, <1>1, <1>2, <1>3, SMT
  <2>2. CASE i \in 1 .. n
    <3>1. Undo(s.journal.entries[i], At(s, i + 1)) = At(s, i)
      BY <2>2 DEF Good, Undoable
    <3>2. At(r, i + 1) = At(s, i + 1) /\ At(r, i) = At(s, i)
      BY <2>2, <1>1, <1>3, SMTT(30)
    <3> QED BY <2>2, <3>1, <3>2, <1>2
  <2> QED BY <2>1, <2>2, <1>1, SMT
<1>6. Tracked(r)
  <2> SUFFICES ASSUME NEW b \in Address, NEW i \in 1 .. n + 2
               PROVE  /\ Ledger(At(r, i).obj[b]) # Ledger(At(r, 1).obj[b]) =>
                           \E k \in 1 .. i - 1 : Dirtied(r.journal.entries[k], b)
                      /\ At(r, i).obj[b] = NoObject => At(r, 1).obj[b] = NoObject
    BY <1>2, SMT DEF Tracked
  <2>0. At(r, 1) = At(s, 1) /\ \A k \in 1 .. n : r.journal.entries[k] = s.journal.entries[k]
    BY <1>1, <1>2, <1>3, SMT
  <2>1. ASSUME NEW h \in 1 .. n + 1
        PROVE  /\ Ledger(At(r, h).obj[b]) # Ledger(At(r, 1).obj[b]) =>
                    \E k \in 1 .. h - 1 : Dirtied(r.journal.entries[k], b)
               /\ At(r, h).obj[b] = NoObject => At(r, 1).obj[b] = NoObject
    <3>1. /\ Ledger(At(s, h).obj[b]) # Ledger(At(s, 1).obj[b]) =>
               \E k \in 1 .. h - 1 : Dirtied(s.journal.entries[k], b)
          /\ At(s, h).obj[b] = NoObject => At(s, 1).obj[b] = NoObject
      BY DEF Good, Tracked
    <3>2. At(r, h) = At(s, h) /\ \A k \in 1 .. h - 1 : k \in 1 .. n
      BY <1>1, <1>3, SMT
    <3> QED BY <2>0, <3>1, <3>2
  <2>2. CASE i \in 1 .. n + 1 BY <2>1, <2>2
  <2>3. CASE i = n + 2
    <3>1. n + 1 \in 1 .. n + 1 /\ n + 1 \in 1 .. i - 1 /\ \A k \in 1 .. (n + 1) - 1 : k \in 1 .. i - 1
      BY <2>3, <1>1, SMT
    <3>2. At(r, i) = w /\ At(r, n + 1) = s.world /\ r.journal.entries[n + 1] = e
      BY <2>3, <1>2, <1>3
    <3>3. /\ Dirtied(e, b) \/ Ledger(w.obj[b]) = Ledger(s.world.obj[b])
          /\ w.obj[b] = NoObject => s.world.obj[b] = NoObject
      BY DEF OnlyDirties
    <3>4. /\ Ledger(s.world.obj[b]) # Ledger(At(r, 1).obj[b]) =>
               \E k \in 1 .. (n + 1) - 1 : Dirtied(r.journal.entries[k], b)
          /\ s.world.obj[b] = NoObject => At(r, 1).obj[b] = NoObject
      BY <2>1, <3>1, <3>2
    <3> QED BY <3>1, <3>2, <3>3, <3>4
  <2> QED BY <2>2, <2>3, <1>1, SMT
<1>7. Counted(r.journal)
  <2> SUFFICES ASSUME NEW b \in Address
               PROVE  j.dirties[b] \in Nat /\ ExistsInjection(Touches(j, b), 1 .. j.dirties[b])
    BY <1>2 DEF Counted
  <2> DEFINE m == Len(j.entries)
             c == s.journal.dirties[b]
             d == j.dirties[b]
  <2>1. OneMore(s.journal, j) /\ j.entries[m] = e
    BY SMTT(30) DEF Journals, Good, OneMore
  <2>2. /\ m \notin Touches(s.journal, b)
        /\ Touches(j, b) = IF Dirtied(e, b) THEN Touches(s.journal, b) \cup {m}
                           ELSE Touches(s.journal, b)
    BY <2>1, TouchesOneMore
  <2>3. c \in Nat /\ ExistsInjection(Touches(s.journal, b), 1 .. c)
    BY DEF Good, Counted
  <2>4. d \in Int /\ c + (IF Dirtied(e, b) THEN 1 ELSE 0) <= d
    BY DEF Good, Journals
  <2> HIDE DEF m, c, d
  <2>5. d \in Nat
    BY <2>3, <2>4, SMT
  <2>6. CASE Dirtied(e, b)
    BY <2>2, <2>3, <2>4, <2>5, <2>6, CountUp, SMTT(30) DEF d
  <2>7. CASE ~Dirtied(e, b)
    BY <2>2, <2>3, <2>4, <2>5, <2>7, CountMore, SMT DEF d
  <2> QED BY <2>6, <2>7
<1>8. Good(r)
  BY <1>1, <1>2, <1>4, <1>5, <1>6, <1>7 DEF Good
<1>9. Extends(s, r)
  BY <1>1, <1>2, <1>3, SMT DEF Extends
<1> QED BY <1>8, <1>9 DEF Step, r

\* append makes a journal that RecordStep accepts.
LEMMA AppendFacts ==
  ASSUME NEW j \in Journals, NEW e \in Entries
  PROVE  /\ append(j, e) \in Journals
         /\ append(j, e).entries = Append(j.entries, e)
         /\ append(j, e).validRevisions = j.validRevisions
         /\ append(j, e).nextRevisionId = j.nextRevisionId
         /\ \A b \in Address :
              append(j, e).dirties[b] = j.dirties[b] + (IF Dirtied(e, b) THEN 1 ELSE 0)
<1>1. j.entries \in Seq(Entries)
  BY DEF Journals
<1>2. Append(j.entries, e) \in Seq(Entries)
  BY <1>1, AppendProps
<1>3. e.type \in DirtyingTypes => e.addr \in Address
  BY DEF Entries, AddressEntries, DirtyingTypes
<1>4. ASSUME NEW f \in [Address -> Int], NEW x \in Address
      PROVE  Increment(f, x) \in [Address -> Int]
  BY SMT DEF Increment
<1>5. isZombie(e) => e.type \in DirtyingTypes
  BY DEF isZombie, DirtyingTypes
<1>6. /\ append(j, e) \in Journals
      /\ append(j, e).entries = Append(j.entries, e)
      /\ append(j, e).validRevisions = j.validRevisions
      /\ append(j, e).nextRevisionId = j.nextRevisionId
      /\ append(j, e).dirties = IF e.type \in DirtyingTypes THEN Increment(j.dirties, e.addr)
                                ELSE j.dirties
  BY <1>2, <1>3, <1>4, <1>5 DEF append, Journals
<1>7. ASSUME NEW b \in Address
      PROVE  append(j, e).dirties[b] = j.dirties[b] + (IF Dirtied(e, b) THEN 1 ELSE 0)
  <2>1. j.dirties \in [Address -> Int]
    BY DEF Journals
  <2>2. CASE e.type \in DirtyingTypes
    BY <1>3, <1>6, <2>1, <2>2, SMT DEF Dirtied, Increment
  <2>3. CASE e.type \notin DirtyingTypes
    BY <1>6, <2>1, <2>3, SMT DEF Dirtied
  <2> QED BY <2>2, <2>3
<1> QED BY <1>6, <1>7

\* Record is a step if its entry undoes its change.
COROLLARY Recorded ==
  ASSUME NEW s, Good(s), NEW e \in Entries, NEW w \in Worlds,
         Sound(w), Undo(e, w) = s.world, OnlyDirties(e, s.world, w)
  PROVE  Step(s, Record(s, e, w))
<1> DEFINE j == append(s.journal, e)
<1>1. s.journal \in Journals /\ s.journal.dirties \in [Address -> Int]
  BY DEF Good, Journals
<1>2. /\ j \in Journals /\ j.entries = Append(s.journal.entries, e)
      /\ j.validRevisions = s.journal.validRevisions
      /\ j.nextRevisionId = s.journal.nextRevisionId
      /\ \A b \in Address : j.dirties[b] = s.journal.dirties[b] + (IF Dirtied(e, b) THEN 1 ELSE 0)
  BY <1>1, AppendFacts
<1>3. Record(s, e, w) = [world |-> w, journal |-> j, trail |-> Append(s.trail, s.world)]
  BY DEF Record
<1> HIDE DEF j
<1>4. \A b \in Address :
        s.journal.dirties[b] + (IF Dirtied(e, b) THEN 1 ELSE 0) <= j.dirties[b]
  BY <1>1, <1>2, SMT
<1> QED BY <1>2, <1>3, <1>4, RecordStep

\* A change of anything but the objects.
LEMMA SameObjects == ASSUME NEW e, NEW v, NEW w, w.obj = v.obj PROVE OnlyDirties(e, v, w)
BY DEF OnlyDirties
-----------------------------------------------------------------------------
(* The setters of an account: each is a step, and leaves the account live. *)

\* The account exists.
Live(s, a) == s.world.obj[a] # NoObject

\* The world of a good s.
LEMMA GoodWorld == ASSUME NEW s, Good(s) PROVE s.world \in Worlds /\ Sound(s.world)
<1>1. s.trail \in Seq(Worlds) /\ s.world \in Worlds
  BY DEF Good
<1>2. At(s, Len(s.trail) + 1) = s.world /\ Len(s.trail) + 1 \in 1 .. Len(s.trail) + 1
  BY <1>1, SMT DEF At
<1> QED BY <1>1, <1>2 DEF Good

\* The objects of a good s.
LEMMA GoodObj ==
  ASSUME NEW s, Good(s), NEW a \in Address
  PROVE  /\ s.world \in Worlds /\ Sound(s.world)
         /\ Live(s, a) => s.world.obj[a] \in StateObjects /\ Layered(a, s.world.obj[a])
         /\ ~Live(s, a) => /\ s.world.obj[a] = NoObject
                           /\ destruct[a] # NoEntry \/ db[a] = NoObject
<1>1. s.world \in Worlds /\ Sound(s.world)
  BY GoodWorld
<1>2. s.world.obj[a] \in StateObjects \cup {NoObject}
  BY <1>1 DEF Worlds
<1> QED BY <1>1, <1>2 DEF Sound, Live

\* Replacing a live object, with an entry that puts the old one back.
LEMMA ObjStep ==
  ASSUME NEW s, Good(s), NEW a \in Address, NEW e \in Entries,
         NEW p \in StateObjects, Layered(a, p),
         Dirtied(e, a) \/ Ledger(p) = Ledger(s.world.obj[a]),
         Undo(e, WithObj(s.world, a, p)) = WithObj(WithObj(s.world, a, p), a, s.world.obj[a])
  PROVE  /\ Step(s, Record(s, e, WithObj(s.world, a, p)))
         /\ Record(s, e, WithObj(s.world, a, p)).world.obj[a] = p
         /\ Live(Record(s, e, WithObj(s.world, a, p)), a)
<1> DEFINE v == WithObj(s.world, a, p)
<1>1. s.world \in Worlds /\ Sound(s.world) /\ p \in StateObjects \cup {NoObject}
  BY GoodObj
<1>2. v \in Worlds /\ v.obj[a] = p /\ Undo(e, v) = s.world
  <2>1. WithObj(v, a, s.world.obj[a]) = s.world
    BY <1>1, WithObjFacts
  <2>2. v \in Worlds
    BY <1>1, WithObjFacts
  <2>3. v.obj[a] = p
    BY <1>1, WithObjSame, SMT
  <2> QED BY <2>1, <2>2, <2>3
<1>3. Sound(v)
  BY <1>1, SoundWithObj
<1>4. p # NoObject
  BY ObjectAssumption
<1>5. OnlyDirties(e, s.world, v)
  <2>1. /\ v.obj = [s.world.obj EXCEPT ![a] = p]
        /\ s.world.obj \in [Address -> StateObjects \cup {NoObject}]
    <3>1. v.obj = [s.world.obj EXCEPT ![a] = p]
      BY <1>1, WithObjFacts, SMT
    <3> QED BY <1>1, <3>1 DEF Worlds
  <2> HIDE DEF v
  <2>2. \A b \in Address : b # a => v.obj[b] = s.world.obj[b]
    BY <2>1
  <2> QED BY <1>2, <1>4, <2>2 DEF OnlyDirties
<1>6. Step(s, Record(s, e, v))
  BY <1>2, <1>3, <1>5, Recorded
<1>7. Record(s, e, v).world = v
  BY DEF Record
<1> QED BY <1>2, <1>4, <1>6, <1>7 DEF Live

\* createObject, and createZombie, for an account that does not exist.
LEMMA CreateStep ==
  ASSUME NEW s, Good(s), NEW a \in Address, ~Live(s, a)
  PROVE  /\ Step(s, createObject(s, a)) /\ Live(createObject(s, a), a)
         /\ createObject(s, a).world.obj[a] = newObject(NoObject)
         /\ Step(s, createZombie(s, a)) /\ Live(createZombie(s, a), a)
<1>1. ASSUME NEW t \in {"createObject", "createZombie"}
      PROVE  /\ [type |-> t, addr |-> a] \in Entries
             /\ \A x : Undo([type |-> t, addr |-> a], x) = WithObj(x, a, Underlying(a))
             /\ Dirtied([type |-> t, addr |-> a], a)
  BY DEF Entries, AddressEntries, Undo, Dirtied, DirtyingTypes
<1>2. s.world.obj[a] = NoObject /\ Underlying(a) = NoObject /\ Layered(a, newObject(NoObject))
  BY GoodObj, NewObjectFacts DEF Underlying
<1>3. ASSUME NEW t \in {"createObject", "createZombie"}
      PROVE  LET e == [type |-> t, addr |-> a]
                 w == WithObj(s.world, a, newObject(NoObject))
             IN  /\ Step(s, Record(s, e, w)) /\ Live(Record(s, e, w), a)
                 /\ Record(s, e, w).world.obj[a] = newObject(NoObject)
  BY <1>1, <1>2, NewObjectFacts, ObjStep, SMT
<1> QED BY <1>3 DEF createObject, createZombie

\* getOrNewStateObject is a step, after which the account has a live object.
LEMMA GetOrNewStep ==
  ASSUME NEW s, Good(s), NEW a \in Address
  PROVE  /\ Step(s, getOrNewStateObject(s, a)) /\ Live(getOrNewStateObject(s, a), a)
         /\ ~Live(s, a) => getOrNewStateObject(s, a).world.obj[a] = newObject(NoObject)
         /\ Live(s, a) => getOrNewStateObject(s, a) = s
<1>1. CASE Live(s, a) BY <1>1, StepRefl DEF getOrNewStateObject, Live
<1>2. CASE ~Live(s, a) BY <1>2, CreateStep DEF getOrNewStateObject, Live
<1> QED BY <1>1, <1>2

\* Changing a field other than the storage maps keeps the layers.
LEMMA SameStorage ==
  ASSUME NEW a, NEW o, NEW p, Layered(a, o), p.base = o.base,
         p.dirtyStorage = o.dirtyStorage \/ DirtyDiffers(p)
  PROVE  Layered(a, p)
<1>1. \A k : GetCommittedState(p, k) = GetCommittedState(o, k)
  BY DEF GetCommittedState
<1>2. DirtyDiffers(p)
  BY <1>1 DEF DirtyDiffers, Layered, Fits
<1>3. MarkersRight(p) /\ OnParent(p, ParentOf(a, destruct[a]))
  BY <1>1 DEF MarkersRight, OnParent, Layered, Fits
<1> QED BY <1>2, <1>3 DEF Layered, Fits

\* setBalance on a live object is undone by its balance entry.
LEMMA SetBalanceStep ==
  ASSUME NEW s, Good(s), NEW a \in Address, Live(s, a), NEW n \in Nat
  PROVE  Step(s, setBalance(s, a, n)) /\ Live(setBalance(s, a, n), a)
<1> DEFINE o == s.world.obj[a]
           p == [o EXCEPT !.balance = n]
           e == [type |-> "balance", addr |-> a, prev |-> o.balance]
<1>1. o \in StateObjects /\ Layered(a, o) /\ s.world \in Worlds
  BY GoodObj
<1>2. /\ p \in StateObjects /\ o.balance \in Nat
      /\ p.dirtyStorage = o.dirtyStorage /\ p.base = o.base
      /\ [p EXCEPT !.balance = o.balance] = o
  BY <1>1 DEF StateObjects
<1>3. Layered(a, p)
  BY <1>1, <1>2, SameStorage
<1>4. e \in Entries /\ Dirtied(e, a)
  BY <1>2 DEF Entries, Dirtied, DirtyingTypes
<1>5. \A x : Undo(e, x) = WithObj(x, a, [x.obj[a] EXCEPT !.balance = o.balance])
  BY DEF Undo
<1>6. WithObj(s.world, a, p).obj[a] = p
  BY <1>1, WithObjSame, SMT
<1>7. Undo(e, WithObj(s.world, a, p)) = WithObj(WithObj(s.world, a, p), a, o)
  BY <1>2, <1>5, <1>6, ZenonT(30)
<1>8. setBalance(s, a, n) = Record(s, e, WithObj(s.world, a, p))
  BY DEF setBalance
<1> HIDE DEF e, p
<1> QED BY <1>2, <1>3, <1>4, <1>7, <1>8, ObjStep, SMT

\* SetNonce on a live object is undone by its nonce entry.
LEMMA SetNonceStep ==
  ASSUME NEW s, Good(s), NEW a \in Address, Live(s, a), NEW n \in Nat
  PROVE  Step(s, setNonce(s, a, n)) /\ Live(setNonce(s, a, n), a)
<1> DEFINE o == s.world.obj[a]
           p == [o EXCEPT !.nonce = n]
           e == [type |-> "nonce", addr |-> a, prev |-> o.nonce]
<1>1. o \in StateObjects /\ Layered(a, o) /\ s.world \in Worlds
  BY GoodObj
<1>2. /\ p \in StateObjects /\ o.nonce \in Nat
      /\ p.dirtyStorage = o.dirtyStorage /\ p.base = o.base
      /\ [p EXCEPT !.nonce = o.nonce] = o
  BY <1>1 DEF StateObjects
<1>3. Layered(a, p)
  BY <1>1, <1>2, SameStorage
<1>4. e \in Entries /\ Dirtied(e, a)
  BY <1>2 DEF Entries, Dirtied, DirtyingTypes
<1>5. \A x : Undo(e, x) = WithObj(x, a, [x.obj[a] EXCEPT !.nonce = o.nonce])
  BY DEF Undo
<1>6. WithObj(s.world, a, p).obj[a] = p
  BY <1>1, WithObjSame, SMT
<1>7. Undo(e, WithObj(s.world, a, p)) = WithObj(WithObj(s.world, a, p), a, o)
  BY <1>2, <1>5, <1>6, ZenonT(30)
<1>8. setNonce(s, a, n) = Record(s, e, WithObj(s.world, a, p))
  BY DEF setNonce
<1> HIDE DEF e, p
<1> QED BY <1>2, <1>3, <1>4, <1>7, <1>8, ObjStep, SMT

\* SetCode on a live object is undone by its code entry.
LEMMA SetCodeStep ==
  ASSUME NEW s, Good(s), NEW a \in Address, Live(s, a), NEW c \in Code
  PROVE  Step(s, setCode(s, a, c)) /\ Live(setCode(s, a, c), a)
<1> DEFINE o == s.world.obj[a]
           p == [o EXCEPT !.code = c]
           e == [type |-> "code", addr |-> a, prev |-> o.code]
<1>1. o \in StateObjects /\ Layered(a, o) /\ s.world \in Worlds
  BY GoodObj
<1>2. /\ p \in StateObjects /\ o.code \in Code
      /\ p.dirtyStorage = o.dirtyStorage /\ p.base = o.base
      /\ [p EXCEPT !.code = o.code] = o
  BY <1>1 DEF StateObjects
<1>3. Layered(a, p)
  BY <1>1, <1>2, SameStorage
<1>4. e \in Entries /\ Dirtied(e, a)
  BY <1>2 DEF Entries, Dirtied, DirtyingTypes
<1>5. \A x : Undo(e, x) = WithObj(x, a, [x.obj[a] EXCEPT !.code = o.code])
  BY DEF Undo
<1>6. WithObj(s.world, a, p).obj[a] = p
  BY <1>1, WithObjSame, SMT
<1>7. Undo(e, WithObj(s.world, a, p)) = WithObj(WithObj(s.world, a, p), a, o)
  BY <1>2, <1>5, <1>6, ZenonT(30)
<1>8. setCode(s, a, c) = Record(s, e, WithObj(s.world, a, p))
  BY DEF setCode
<1> HIDE DEF e, p
<1> QED BY <1>2, <1>3, <1>4, <1>7, <1>8, ObjStep, SMT

\* markSelfdestructed on a live object is undone by its entry; nothing is recorded
\* for an object that is marked already.
LEMMA SelfdestructedStep ==
  ASSUME NEW s, Good(s), NEW a \in Address, Live(s, a)
  PROVE  Step(s, markSelfdestructed(s, a)) /\ Live(markSelfdestructed(s, a), a)
<1> DEFINE o == s.world.obj[a]
           p == [o EXCEPT !.selfDestructed = TRUE]
           e == [type |-> "selfDestruct", addr |-> a]
<1>0. SUFFICES ASSUME ~o.selfDestructed PROVE Step(s, markSelfdestructed(s, a)) /\ Live(markSelfdestructed(s, a), a)
  BY StepRefl DEF markSelfdestructed
<1>1. o \in StateObjects /\ Layered(a, o) /\ s.world \in Worlds
  BY GoodObj
<1>2. p \in StateObjects /\ p.dirtyStorage = o.dirtyStorage /\ p.base = o.base
  BY <1>1 DEF StateObjects
<1>3. [p EXCEPT !.selfDestructed = FALSE] = o
  BY <1>0, <1>1 DEF StateObjects
<1>4. Layered(a, p)
  <2> HIDE DEF p
  <2> QED BY <1>1, <1>2, SameStorage
<1>5. e \in Entries /\ Dirtied(e, a)
  BY <1>2 DEF Entries, AddressEntries, Dirtied, DirtyingTypes
<1>6. \A x : Undo(e, x) = WithObj(x, a, [x.obj[a] EXCEPT !.selfDestructed = FALSE])
  BY DEF Undo
<1>7. WithObj(s.world, a, p).obj[a] = p
  BY <1>1, WithObjSame, SMT
<1>8. Undo(e, WithObj(s.world, a, p)) = WithObj(WithObj(s.world, a, p), a, o)
  <2> HIDE DEF p, e
  <2> QED BY <1>6, <1>7, <1>3, SMT
<1>9. markSelfdestructed(s, a) = Record(s, e, WithObj(s.world, a, p))
  BY <1>0 DEF markSelfdestructed
<1> HIDE DEF e, p
<1> QED BY <1>2, <1>4, <1>5, <1>8, <1>9, ObjStep, SMT

\* CreateContract on a live object is undone by its entry; nothing is recorded for
\* an object that is marked already.
LEMMA CreateContractStep ==
  ASSUME NEW s, Good(s), NEW a \in Address, Live(s, a)
  PROVE  Step(s, createContract(s, a)) /\ Live(createContract(s, a), a)
<1> DEFINE o == s.world.obj[a]
           p == [o EXCEPT !.newContract = TRUE]
           e == [type |-> "createContract", addr |-> a]
<1>0. SUFFICES ASSUME ~o.newContract PROVE Step(s, createContract(s, a)) /\ Live(createContract(s, a), a)
  BY StepRefl DEF createContract
<1>1. o \in StateObjects /\ Layered(a, o) /\ s.world \in Worlds
  BY GoodObj
<1>2. p \in StateObjects /\ p.dirtyStorage = o.dirtyStorage /\ p.base = o.base
  BY <1>1 DEF StateObjects
<1>3. [p EXCEPT !.newContract = FALSE] = o
  BY <1>0, <1>1 DEF StateObjects
<1>4. Layered(a, p)
  <2> HIDE DEF p
  <2> QED BY <1>1, <1>2, SameStorage
<1>5. e \in Entries
  BY <1>2 DEF Entries, AddressEntries
<1>6. \A x : Undo(e, x) = WithObj(x, a, [x.obj[a] EXCEPT !.newContract = FALSE])
  BY DEF Undo
<1>7. WithObj(s.world, a, p).obj[a] = p
  BY <1>1, WithObjSame, SMT
<1>8. Undo(e, WithObj(s.world, a, p)) = WithObj(WithObj(s.world, a, p), a, o)
  <2> HIDE DEF p, e
  <2> QED BY <1>6, <1>7, <1>3, SMT
<1>9. createContract(s, a) = Record(s, e, WithObj(s.world, a, p))
  BY <1>0 DEF createContract
<1>10. Ledger(p) = Ledger(o)
  <2>1. o # NoObject /\ p # NoObject
    BY <1>1, <1>2, ObjectAssumption
  <2>2. [p EXCEPT !.newContract = FALSE] = [o EXCEPT !.newContract = FALSE]
    BY <1>1, <1>0 DEF StateObjects
  <2> QED BY <2>1, <2>2 DEF Ledger
<1> HIDE DEF e, p
<1> QED BY <1>2, <1>4, <1>5, <1>8, <1>9, <1>10, ObjStep, SMT

\* Writing a slot and writing the old value back: the dirty entry comes back
\* exactly, because a dirty value never equals the committed one.
LEMMA SetStateFacts ==
  ASSUME NEW o \in StateObjects, DirtyDiffers(o), NEW k \in Slot, NEW v \in Word
  PROVE  LET prev   == GetState(o, k)
             origin == GetCommittedState(o, k)
             p      == setState(o, k, v, origin)
         IN  /\ prev \in Word /\ origin \in Word
             /\ p \in StateObjects /\ DirtyDiffers(p) /\ p.base = o.base
             /\ setState(p, k, prev, origin) = o
<1> DEFINE prev   == GetState(o, k)
           origin == GetCommittedState(o, k)
           p      == setState(o, k, v, origin)
<1>1. /\ o.dirtyStorage \in [Slot -> Word \cup {NoEntry}]
      /\ o.base.pendingStorage \in [Slot -> Word \cup {NoEntry}]
      /\ o.base.originStorage \in [Slot -> Word]
  BY DEF StateObjects, Storage
<1>2. origin \in Word
  BY <1>1 DEF GetCommittedState
<1>3. prev = IF o.dirtyStorage[k] # NoEntry THEN o.dirtyStorage[k] ELSE origin
  BY DEF GetState
<1>4. prev \in Word
  BY <1>1, <1>2, <1>3
<1>5. o.dirtyStorage[k] = IF prev = origin THEN NoEntry ELSE prev
  BY <1>3 DEF DirtyDiffers
<1> DEFINE d == [o.dirtyStorage EXCEPT ![k] = IF v = origin THEN NoEntry ELSE v]
<1>6. p = [o EXCEPT !.dirtyStorage = d]
  BY DEF setState
<1>7. d \in [Slot -> Word \cup {NoEntry}]
  BY <1>1
<1>8. p \in StateObjects /\ p.dirtyStorage = d /\ p.base = o.base
  <2> HIDE DEF d, p
  <2> QED BY <1>6, <1>7 DEF StateObjects, Storage
<1>9. DirtyDiffers(p)
  <2> SUFFICES ASSUME NEW i \in Slot, d[i] # NoEntry
               PROVE  d[i] # GetCommittedState(p, i)
    <3> HIDE DEF d, p
    <3> QED BY <1>8 DEF DirtyDiffers
  <2>1. GetCommittedState(p, i) = GetCommittedState(o, i)
    <3> HIDE DEF p
    <3> QED BY <1>8 DEF GetCommittedState
  <2>2. CASE i = k
    <3> HIDE DEF p
    <3> QED BY <2>1, <2>2, <1>1
  <2>3. CASE i # k
    <3>1. d[i] = o.dirtyStorage[i]
      BY <2>3, <1>1
    <3> QED BY <2>1, <3>1 DEF DirtyDiffers
  <2> QED BY <2>2, <2>3
<1>10. setState(p, k, prev, origin) = o
  <2>1. setState(p, k, prev, origin) = [p EXCEPT !.dirtyStorage = [d EXCEPT ![k] = o.dirtyStorage[k]]]
    <3> HIDE DEF d, p, prev, origin
    <3> QED BY <1>5, <1>8 DEF setState
  <2>2. [d EXCEPT ![k] = o.dirtyStorage[k]] = o.dirtyStorage
    BY <1>1
  <2> HIDE DEF d
  <2>3. [[o EXCEPT !.dirtyStorage = d] EXCEPT !.dirtyStorage = o.dirtyStorage] = o
    BY DEF StateObjects
  <2> HIDE DEF p, prev, origin
  <2> QED BY <2>1, <2>2, <2>3, <1>6
<1> QED BY <1>2, <1>4, <1>8, <1>9, <1>10

\* SetState on a live object is undone by its storage entry, which puts a slot back
\* into dirtyStorage or takes it out.
LEMMA SetStorageStep ==
  ASSUME NEW s, Good(s), NEW a \in Address, Live(s, a), NEW k \in Slot, NEW v \in Word
  PROVE  Step(s, setStorage(s, a, k, v))
<1> DEFINE o      == s.world.obj[a]
           prev   == GetState(o, k)
           origin == GetCommittedState(o, k)
           p      == setState(o, k, v, origin)
           e      == [type |-> "storage", addr |-> a, key |-> k, prev |-> prev, origin |-> origin]
<1>0. SUFFICES ASSUME prev # v PROVE Step(s, setStorage(s, a, k, v))
  BY StepRefl DEF setStorage
<1>1. o \in StateObjects /\ Layered(a, o) /\ s.world \in Worlds
  BY GoodObj
<1>2. /\ prev \in Word /\ origin \in Word
      /\ p \in StateObjects /\ DirtyDiffers(p) /\ p.base = o.base
      /\ setState(p, k, prev, origin) = o
  BY <1>1, SetStateFacts DEF Layered, Fits
<1> HIDE DEF prev, origin, p
<1>3. e \in Entries /\ Dirtied(e, a) /\ Layered(a, p)
  <2>1. e \in Entries /\ Dirtied(e, a)
    BY <1>2 DEF Entries, Dirtied, DirtyingTypes
  <2> QED BY <1>1, <1>2, <2>1, SameStorage
<1>4. \A x : Undo(e, x) = WithObj(x, a, setState(x.obj[a], k, prev, origin))
  BY DEF Undo
<1>5. WithObj(s.world, a, p).obj[a] = p
  BY <1>1, WithObjSame, SMT
<1>6. Undo(e, WithObj(s.world, a, p)) = WithObj(WithObj(s.world, a, p), a, o)
  BY <1>2, <1>4, <1>5
<1>7. setStorage(s, a, k, v) = Record(s, e, WithObj(s.world, a, p))
  BY <1>0 DEF setStorage, prev, origin, p
<1> HIDE DEF e
<1> QED BY <1>2, <1>3, <1>6, <1>7, ObjStep, SMT

\* touch records an entry without a change; the extra count of RIPEMD is no
\* matter for the worlds.
LEMMA TouchStep ==
  ASSUME NEW s, Good(s), NEW a \in Address
  PROVE  Step(s, touch(s, a))
<1> DEFINE e == [type |-> "touch", addr |-> a]
           j == append(s.journal, e)
           k == [j EXCEPT !.dirties[a] = @ + 1]
<1>1. s.world \in Worlds /\ Sound(s.world) /\ s.journal \in Journals
  BY GoodObj DEF Good
<1>2. e \in Entries /\ Undo(e, s.world) = s.world /\ OnlyDirties(e, s.world, s.world)
  BY DEF Entries, AddressEntries, Undo, OnlyDirties
<1>3. /\ j \in Journals
      /\ j.entries = Append(s.journal.entries, e)
      /\ j.validRevisions = s.journal.validRevisions
      /\ j.nextRevisionId = s.journal.nextRevisionId
      /\ \A b \in Address : j.dirties[b] = s.journal.dirties[b] + (IF Dirtied(e, b) THEN 1 ELSE 0)
  BY <1>1, <1>2, AppendFacts
<1> HIDE DEF j
<1>3a. s.journal.dirties \in [Address -> Int] /\ j.dirties \in [Address -> Int]
  BY <1>1, <1>3 DEF Journals
<1>3b. \A b \in Address :
        s.journal.dirties[b] + (IF Dirtied(e, b) THEN 1 ELSE 0) <= j.dirties[b]
  BY <1>3, <1>3a, SMT
<1>4. /\ k \in Journals
      /\ k.entries = Append(s.journal.entries, e)
      /\ k.validRevisions = s.journal.validRevisions
      /\ k.nextRevisionId = s.journal.nextRevisionId
      /\ \A b \in Address :
           s.journal.dirties[b] + (IF Dirtied(e, b) THEN 1 ELSE 0) <= k.dirties[b]
  <2> DEFINE f == [j.dirties EXCEPT ![a] = @ + 1]
  <2>1. f \in [Address -> Int] /\ k = [j EXCEPT !.dirties = f]
    BY <1>3, SMT DEF Journals
  <2>2. \A b \in Address : j.dirties[b] <= f[b]
    BY <1>3a, SMT
  <2> HIDE DEF f, k
  <2>3. k.dirties = f
    BY <2>1, <1>3 DEF Journals
  <2>4. \A b \in Address :
          s.journal.dirties[b] + (IF Dirtied(e, b) THEN 1 ELSE 0) <= f[b]
    BY <1>3a, <1>3b, <2>1, <2>2, SMT
  <2> QED BY <2>1, <2>3, <2>4, <1>3 DEF Journals
<1>5. touch(s, a) = [world   |-> s.world,
                     journal |-> IF a = Ripemd THEN k ELSE j,
                     trail   |-> Append(s.trail, s.world)]
  BY DEF touch, Record, j
<1> HIDE DEF k, e
<1>6. CASE a = Ripemd BY <1>1, <1>2, <1>4, <1>5, <1>6, RecordStep
<1>7. CASE a # Ripemd BY <1>1, <1>2, <1>3, <1>3b, <1>5, <1>7, RecordStep
<1> QED BY <1>6, <1>7

\* AddBalance is a step: of balance, or a touch of an empty object for zero.
LEMMA AddBalanceStep ==
  ASSUME NEW s, Good(s), NEW a \in Address, Live(s, a), NEW n \in Nat
  PROVE  Step(s, addBalance(s, a, n))
<1>1. s.world.obj[a].balance \in Nat
  BY GoodObj DEF StateObjects
<1>2. Step(s, setBalance(s, a, s.world.obj[a].balance + n))
  BY <1>1, SetBalanceStep, SMT
<1> QED BY <1>2, TouchStep, StepRefl DEF addBalance

\* SelfDestruct clears the balance first, unless it is zero.
LEMMA ClearBalanceStep ==
  ASSUME NEW s, Good(s), NEW a \in Address, Live(s, a)
  PROVE  Step(s, clearBalance(s, a)) /\ Live(clearBalance(s, a), a)
BY SetBalanceStep, StepRefl DEF clearBalance
-----------------------------------------------------------------------------
(* The setters of the rest of the world.                                   *)

\* Soundness looks at the objects and the access list only.
LEMMA SoundSame ==
  ASSUME NEW w, NEW v, Sound(w), v.obj = w.obj, v.accessList = w.accessList
  PROVE  Sound(v)
BY DEF Sound

\* A change of the refund counter is undone by its entry.
LEMMA SetRefundStep ==
  ASSUME NEW s, Good(s), NEW n \in Nat
  PROVE  Step(s, setRefund(s, n))
<1> DEFINE w == s.world
           v == [w EXCEPT !.refund = n]
           e == [type |-> "refund", prev |-> w.refund]
<1>1. w \in Worlds /\ Sound(w)
  BY GoodWorld
<1>2. /\ v \in Worlds /\ v.obj = w.obj /\ v.accessList = w.accessList
      /\ w.refund \in Nat /\ [v EXCEPT !.refund = w.refund] = w
  BY <1>1 DEF Worlds
<1>3. e \in Entries
  BY <1>2 DEF Entries
<1>4. \A x : Undo(e, x) = [x EXCEPT !.refund = w.refund]
  BY DEF Undo
<1>5. Sound(v)
  BY <1>1, <1>2, SoundSame
<1>6. setRefund(s, n) = Record(s, e, v)
  BY DEF setRefund
<1> HIDE DEF e, v
<1> QED BY <1>2, <1>3, <1>4, <1>5, <1>6, SameObjects, Recorded, SMT

\* A change of transient storage is undone by its entry.
LEMMA SetTransientStep ==
  ASSUME NEW s, Good(s), NEW a \in Address, NEW k \in Slot, NEW x \in Word
  PROVE  Step(s, setTransient(s, a, k, x))
<1> DEFINE w == s.world
           v == [w EXCEPT !.transient[a][k] = x]
           e == [type |-> "transient", addr |-> a, key |-> k, prev |-> w.transient[a][k]]
<1>0. SUFFICES ASSUME w.transient[a][k] # x PROVE Step(s, setTransient(s, a, k, x))
  BY StepRefl DEF setTransient
<1>1. w \in Worlds /\ Sound(w)
  BY GoodWorld
<1>2. /\ v \in Worlds /\ v.obj = w.obj /\ v.accessList = w.accessList
      /\ w.transient[a][k] \in Word
      /\ [v EXCEPT !.transient[a][k] = w.transient[a][k]] = w
  <2> DEFINE f == [w.transient EXCEPT ![a][k] = x]
  <2>1. /\ w.transient \in [Address -> [Slot -> Word]]
        /\ f \in [Address -> [Slot -> Word]]
        /\ [f EXCEPT ![a][k] = w.transient[a][k]] = w.transient
    BY <1>1 DEF Worlds
  <2>2. v = [w EXCEPT !.transient = f]
    OBVIOUS
  <2> HIDE DEF f
  <2>3. [v EXCEPT !.transient[a][k] = w.transient[a][k]]
          = [w EXCEPT !.transient = [f EXCEPT ![a][k] = w.transient[a][k]]]
    BY <2>2, <1>1 DEF Worlds
  <2> HIDE DEF v
  <2>4. v \in Worlds /\ v.obj = w.obj /\ v.accessList = w.accessList
    BY <1>1, <2>1, <2>2 DEF Worlds
  <2>5. [w EXCEPT !.transient = w.transient] = w /\ w.transient[a][k] \in Word
    BY <1>1, <2>1, SMT DEF Worlds
  <2> QED BY <2>1, <2>3, <2>4, <2>5
<1>3. e \in Entries
  BY <1>2 DEF Entries
<1>4. \A y : Undo(e, y) = [y EXCEPT !.transient[a][k] = w.transient[a][k]]
  BY DEF Undo
<1>5. Sound(v)
  BY <1>1, <1>2, SoundSame
<1>6. setTransient(s, a, k, x) = Record(s, e, v)
  BY <1>0 DEF setTransient
<1> HIDE DEF e, v
<1>7. Undo(e, v) = w
  BY <1>2, <1>4
<1> QED BY <1>2, <1>3, <1>5, <1>6, <1>7, SameObjects, Recorded, SMT

\* Taking the last element off again.
LEMMA FrontOfAppend ==
  ASSUME NEW S, NEW q \in Seq(S), NEW x \in S
  PROVE  SubSeq(Append(q, x), 1, Len(Append(q, x)) - 1) = q
BY SMT

\* AddLog is undone by its entry: the last log of the transaction goes, and its
\* number with it.
LEMMA AddLogStep ==
  ASSUME NEW s, Good(s), thash \in Tx
  PROVE  Step(s, addLog(s))
<1> DEFINE w == s.world
           n == w.logSize
           f == [w.logs EXCEPT ![thash] = Append(@, n)]
           v == [w EXCEPT !.logs[thash] = Append(@, n), !.logSize = @ + 1]
           e == [type |-> "addLog", tx |-> thash]
<1>1. w \in Worlds /\ Sound(w)
  BY GoodWorld
<1>2. n \in Nat /\ w.logs \in [Tx -> Seq(Nat)] /\ w.logs[thash] \in Seq(Nat)
  BY <1>1 DEF Worlds
<1>3. /\ Append(w.logs[thash], n) \in Seq(Nat)
      /\ SubSeq(Append(w.logs[thash], n), 1, Len(Append(w.logs[thash], n)) - 1) = w.logs[thash]
  BY <1>2, AppendProps, FrontOfAppend, SMT
<1>4. /\ f \in [Tx -> Seq(Nat)]
      /\ [f EXCEPT ![thash] = SubSeq(f[thash], 1, Len(f[thash]) - 1)] = w.logs
  <2>1. f[thash] = Append(w.logs[thash], n) /\ f \in [Tx -> Seq(Nat)]
    BY <1>2, <1>3
  <2>2. [f EXCEPT ![thash] = w.logs[thash]] = w.logs
    BY <1>2
  <2> HIDE DEF f
  <2> QED BY <1>3, <2>1, <2>2
<1>5. v = [w EXCEPT !.logs = f, !.logSize = n + 1]
  BY <1>1 DEF Worlds
<1> HIDE DEF f
<1>6. /\ v \in Worlds /\ v.obj = w.obj /\ v.accessList = w.accessList
      /\ v.logs = f /\ v.logSize = n + 1
  <2> HIDE DEF v
  <2>1. n + 1 \in Nat
    BY <1>2, SMT
  <2> QED BY <1>1, <1>4, <1>5, <2>1 DEF Worlds
<1>7. undoLog(v, thash) = w
  <2>1. undoLog(v, thash) = [v EXCEPT !.logs = [f EXCEPT ![thash] = SubSeq(f[thash], 1, Len(f[thash]) - 1)],
                                      !.logSize = n]
    <3> HIDE DEF v, n
    <3>1. v.logSize - 1 = n /\ v.logs = f
      BY <1>2, <1>6, SMT
    <3>2. undoLog(v, thash)
            = [v EXCEPT !.logs = [v.logs EXCEPT ![thash] = SubSeq(@, 1, Len(@) - 1)],
                        !.logSize = v.logSize - 1]
      BY <1>6 DEF undoLog, Worlds
    <3> QED BY <3>1, <3>2
  <2>2. undoLog(v, thash) = [v EXCEPT !.logs = w.logs, !.logSize = n]
    BY <2>1, <1>4
  <2> QED BY <2>2, <1>1, <1>5 DEF Worlds
<1>8. e \in Entries
  BY DEF Entries
<1>9. \A x : Undo(e, x) = undoLog(x, thash)
  BY DEF Undo
<1>10. Sound(v)
  BY <1>1, <1>6, SoundSame
<1>11. addLog(s) = Record(s, e, v)
  BY DEF addLog
<1> HIDE DEF e, v
<1> QED BY <1>6, <1>7, <1>8, <1>9, <1>10, <1>11, SameObjects, Recorded

\* ActivateWasm is undone by its entry.
LEMMA ActivateWasmStep ==
  ASSUME NEW s, Good(s), NEW m \in Module, NEW asm \in AsmMap
  PROVE  Step(s, activateWasm(s, m, asm))
<1> DEFINE w == s.world
           v == [w EXCEPT !.wasms[m] = asm]
           e == [type |-> "wasm", module |-> m]
<1>0. SUFFICES ASSUME w.wasms[m] = NoEntry PROVE Step(s, activateWasm(s, m, asm))
  BY StepRefl DEF activateWasm
<1>1. w \in Worlds /\ Sound(w)
  BY GoodWorld
<1>2. /\ v \in Worlds /\ v.obj = w.obj /\ v.accessList = w.accessList
      /\ [v EXCEPT !.wasms[m] = NoEntry] = w
  BY <1>0, <1>1 DEF Worlds
<1>3. e \in Entries
  BY DEF Entries
<1>4. \A y : Undo(e, y) = [y EXCEPT !.wasms[m] = NoEntry]
  BY DEF Undo
<1>5. Sound(v)
  BY <1>1, <1>2, SoundSame
<1>6. activateWasm(s, m, asm) = Record(s, e, v)
  BY <1>0 DEF activateWasm
<1> HIDE DEF e, v
<1>7. Undo(e, v) = w
  BY <1>2, <1>4
<1> QED BY <1>2, <1>3, <1>5, <1>6, <1>7, SameObjects, Recorded, SMT
-----------------------------------------------------------------------------
(* The access list.                                                        *)

\* The slot sets of the access list and its addresses refer to each other.
ListSound(al) == WellIndexed(al) /\ Packed(al)

\* Adding an address to the access list and deleting it.
LEMMA AddAddressFacts ==
  ASSUME NEW al \in AccessLists, ListSound(al), NEW a \in Address, ~ContainsAddress(al, a)
  PROVE  /\ AddAddress(al, a) \in AccessLists
         /\ ListSound(AddAddress(al, a))
         /\ DeleteAddress(AddAddress(al, a), a) = al
<1> DEFINE f == [al.addresses EXCEPT ![a] = NoSlots]
           bl == AddAddress(al, a)
<1>1. /\ al.addresses \in [Address -> Nat \cup {NoSlots, NotListed}]
      /\ al.slots \in Seq(SUBSET Slot)
      /\ al.addresses[a] = NotListed
  BY DEF AccessLists, ContainsAddress
<1>2. bl = [al EXCEPT !.addresses = f]
  BY DEF AddAddress
<1>3. /\ f \in [Address -> Nat \cup {NoSlots, NotListed}]
      /\ [f EXCEPT ![a] = NotListed] = al.addresses
      /\ \A b \in Address : f[b] \in Nat => f[b] = al.addresses[b]
  BY <1>1, SMT DEF NoSlots
<1> HIDE DEF f, bl
<1>4. bl \in AccessLists /\ bl.addresses = f /\ bl.slots = al.slots
  BY <1>2, <1>3 DEF AccessLists
<1>5. ListSound(bl)
  <2>1. WellIndexed(bl)
    BY <1>3, <1>4, SMT DEF WellIndexed, ListSound
  <2>2. ASSUME NEW i \in 1 .. Len(al.slots) PROVE \E b \in Address : f[b] = i - 1
    <3>1. PICK b \in Address : al.addresses[b] = i - 1
      BY DEF ListSound, Packed
    <3>2. i - 1 \in Nat /\ NotListed \notin Nat
      BY <1>1, SMT DEF NotListed
    <3> QED BY <1>1, <3>1, <3>2 DEF f
  <2> QED BY <2>1, <2>2, <1>4 DEF ListSound, Packed
<1>6. DeleteAddress(bl, a) = al
  <2>1. DeleteAddress(bl, a) = [bl EXCEPT !.addresses = [f EXCEPT ![a] = NotListed]]
    BY <1>4 DEF DeleteAddress
  <2>2. DeleteAddress(bl, a) = [bl EXCEPT !.addresses = al.addresses]
    BY <2>1, <1>3
  <2>3. al = [addresses |-> al.addresses, slots |-> al.slots]
    BY DEF AccessLists
  <2>4. DeleteAddress(bl, a) = [addresses |-> al.addresses, slots |-> al.slots]
    BY <2>2, <1>4 DEF AccessLists
  <2> QED BY <2>3, <2>4
<1> QED BY <1>4, <1>5, <1>6 DEF bl

\* Adding a slot and deleting it: when it was the first slot of its address the
\* slice is cut back to what it was, which is why entries must be undone in
\* reverse order.
LEMMA AddSlotFacts ==
  ASSUME NEW al \in AccessLists, ListSound(al), NEW a \in Address, NEW k \in Slot,
         ContainsAddress(al, a), ~Contains(al, a, k)
  PROVE  /\ AddSlot(al, a, k) \in AccessLists
         /\ ListSound(AddSlot(al, a, k))
         /\ DeleteSlot(AddSlot(al, a, k), a, k) = al
<1> DEFINE bl == AddSlot(al, a, k)
           n  == Len(al.slots)
<1>1. /\ al.addresses \in [Address -> Nat \cup {NoSlots, NotListed}]
      /\ al.slots \in Seq(SUBSET Slot)
      /\ n \in Nat
      /\ al = [addresses |-> al.addresses, slots |-> al.slots]
  BY SMT DEF AccessLists
<1>2. CASE al.addresses[a] \notin Nat
  <2> DEFINE f == [al.addresses EXCEPT ![a] = n]
             q == Append(al.slots, {k})
  <2>1. al.addresses[a] = NoSlots
    BY <1>1, <1>2 DEF ContainsAddress
  <2>2. bl = [addresses |-> f, slots |-> q]
    BY <1>2 DEF AddSlot
  <2>3. /\ f \in [Address -> Nat \cup {NoSlots, NotListed}]
        /\ [f EXCEPT ![a] = NoSlots] = al.addresses
        /\ f[a] = n
        /\ \A b \in Address : b # a => f[b] = al.addresses[b]
    BY <1>1, <2>1
  <2>4. /\ q \in Seq(SUBSET Slot)
        /\ Len(q) = n + 1
        /\ \A i \in 1 .. n : q[i] = al.slots[i]
        /\ q[n + 1] = {k}
        /\ SubSeq(q, 1, n) = al.slots
    BY <1>1, AppendProps, FrontOfAppend, SMT
  <2> HIDE DEF f, q
  <2>5. bl.addresses = f /\ bl.slots = q
    BY <2>2, SMTT(30)
  <2>6. bl \in AccessLists
    <3>1. f \in [Address -> Nat \cup {NoSlots, NotListed}] /\ q \in Seq(SUBSET Slot)
      BY <2>3, <2>4
    <3> QED BY <2>2, <3>1, SMT DEF AccessLists
  <2>7. WellIndexed(bl)
    <3>1. ASSUME NEW b \in Address, f[b] \in Nat
          PROVE  f[b] < Len(q) /\ q[f[b] + 1] # {}
      <4>1. CASE b = a BY <4>1, <1>1, <2>3, <2>4, SMTT(30)
      <4>2. CASE b # a
        <5>1. f[b] = al.addresses[b] /\ f[b] < n /\ al.slots[f[b] + 1] # {}
          BY <4>2, <3>1, <2>3 DEF WellIndexed, ListSound
        <5> QED BY <5>1, <3>1, <1>1, <2>4, SMTT(30)
      <4> QED BY <4>1, <4>2
    <3>2. ASSUME NEW b \in Address, NEW c \in Address, f[b] \in Nat, f[b] = f[c]
          PROVE  b = c
      <4>1. \A d \in Address : d # a /\ f[d] \in Nat => f[d] < n
        BY <2>3 DEF WellIndexed, ListSound
      <4>2. CASE b = a BY <4>1, <4>2, <3>2, <1>1, <2>3, SMT
      <4>3. CASE c = a BY <4>1, <4>3, <3>2, <1>1, <2>3, SMT
      <4>4. CASE b # a /\ c # a BY <4>4, <3>2, <2>3 DEF WellIndexed, ListSound
      <4> QED BY <4>2, <4>3, <4>4
    <3> QED BY <3>1, <3>2, <2>5 DEF WellIndexed, ListSound
  <2>8. DeleteSlot(bl, a, k) = al
    <3>1. bl.slots[bl.addresses[a] + 1] \ {k} = {}
      BY <2>3, <2>4, <2>5
    <3> HIDE DEF bl
    <3>2. DeleteSlot(bl, a, k)
            = [addresses |-> [bl.addresses EXCEPT ![a] = NoSlots],
               slots     |-> SubSeq(bl.slots, 1, (bl.addresses[a] + 1) - 1)]
      BY <3>1 DEF DeleteSlot
    <3>3. (bl.addresses[a] + 1) - 1 = n
      BY <1>1, <2>3, <2>5, SMT
    <3> QED BY <3>2, <3>3, <2>3, <2>4, <2>5, <1>1
  <2>9. Packed(bl)
    <3> SUFFICES ASSUME NEW i \in 1 .. n + 1 PROVE \E b \in Address : f[b] = i - 1
      BY <2>4, <2>5 DEF Packed
    <3>1. CASE i = n + 1
      <4>1. f[a] = i - 1
        BY <1>1, <2>3, <3>1, SMT
      <4> QED BY <4>1
    <3>2. CASE i \in 1 .. n
      <4>1. PICK b \in Address : al.addresses[b] = i - 1
        BY <3>2 DEF ListSound, Packed
      <4>2. i - 1 \in Nat
        BY <1>1, SMT
      <4>3. b # a /\ f[b] = i - 1
        BY <1>2, <2>3, <4>1, <4>2
      <4> QED BY <4>3
    <3> QED BY <1>1, <3>1, <3>2, SMT
  <2> QED BY <2>6, <2>7, <2>8, <2>9 DEF ListSound
<1>3. CASE al.addresses[a] \in Nat
  <2> DEFINE i == al.addresses[a] + 1
             q == [al.slots EXCEPT ![i] = @ \cup {k}]
  <2>1. i \in 1 .. n /\ al.slots[i] # {} /\ k \notin al.slots[i] /\ al.slots[i] \in SUBSET Slot
    BY <1>1, <1>3, SMT DEF WellIndexed, Contains, ListSound
  <2>2. bl = [al EXCEPT !.slots = q]
    BY <1>3 DEF AddSlot
  <2> HIDE DEF i
  <2>3. /\ q \in Seq(SUBSET Slot)
        /\ Len(q) = n
        /\ q[i] = al.slots[i] \cup {k}
        /\ \A j \in 1 .. n : al.slots[j] # {} => q[j] # {}
    BY <1>1, <2>1, SMT
  <2>4. [q EXCEPT ![i] = al.slots[i]] = al.slots
    <3>1. al.slots \in [1 .. n -> SUBSET Slot]
      BY <1>1, SMT
    <3> HIDE DEF n
    <3> QED BY <2>1, <3>1
  <2> HIDE DEF q, bl
  <2>5. bl \in AccessLists /\ bl.addresses = al.addresses /\ bl.slots = q
    BY <2>2, <2>3 DEF AccessLists
  <2>6. WellIndexed(bl)
    <3>1. ASSUME NEW b \in Address, al.addresses[b] \in Nat
          PROVE  al.addresses[b] < n /\ q[al.addresses[b] + 1] # {}
      <4>1. al.addresses[b] < n /\ al.slots[al.addresses[b] + 1] # {}
        BY <3>1 DEF WellIndexed, ListSound
      <4> QED BY <4>1, <3>1, <1>1, <2>3, SMTT(30)
    <3> QED BY <3>1, <2>3, <2>5 DEF WellIndexed, ListSound
  <2>7. DeleteSlot(bl, a, k) = al
    <3>1. q[i] \ {k} = al.slots[i]
      BY <2>1, <2>3
    <3>2. DeleteSlot(bl, a, k) = [bl EXCEPT !.slots = [q EXCEPT ![i] = al.slots[i]]]
      BY <3>1, <2>1, <2>5 DEF DeleteSlot, i
    <3> QED BY <3>2, <2>2, <2>4 DEF AccessLists
  <2>8. Packed(bl)
    BY <2>3, <2>5 DEF ListSound, Packed
  <2> QED BY <2>5, <2>6, <2>7, <2>8 DEF bl, ListSound
<1> QED BY <1>2, <1>3

\* A world whose access list is replaced by a well-indexed one.
LEMMA ListStep ==
  ASSUME NEW s, Good(s), NEW e \in Entries, NEW al \in AccessLists, ListSound(al),
         Undo(e, [s.world EXCEPT !.accessList = al])
           = [[s.world EXCEPT !.accessList = al] EXCEPT !.accessList = s.world.accessList]
  PROVE  /\ Step(s, Record(s, e, [s.world EXCEPT !.accessList = al]))
         /\ Record(s, e, [s.world EXCEPT !.accessList = al]).world.accessList = al
<1> DEFINE w == s.world
           v == [w EXCEPT !.accessList = al]
<1>1. w \in Worlds /\ Sound(w)
  BY GoodWorld
<1>2. /\ v \in Worlds /\ v.obj = w.obj /\ v.accessList = al
      /\ [v EXCEPT !.accessList = w.accessList] = w
  BY <1>1 DEF Worlds
<1>3. Sound(v)
  <2> HIDE DEF v
  <2> QED BY <1>1, <1>2 DEF Sound, ListSound
<1>4. Undo(e, v) = w
  BY <1>2
<1>5. Record(s, e, v).world = v
  BY DEF Record
<1> HIDE DEF v
<1>6. Step(s, Record(s, e, v))
  BY <1>2, <1>3, <1>4, SameObjects, Recorded
<1> QED BY <1>2, <1>5, <1>6 DEF v

\* AddAddressToAccessList is undone by its entry.
LEMMA WarmAddressStep ==
  ASSUME NEW s, Good(s), NEW a \in Address
  PROVE  Step(s, warmAddress(s, a)) /\ ContainsAddress(warmAddress(s, a).world.accessList, a)
<1> DEFINE al == s.world.accessList
           bl == AddAddress(al, a)
           v  == [s.world EXCEPT !.accessList = bl]
           e  == [type |-> "accessListAddAccount", addr |-> a]
<1>0. SUFFICES ASSUME ~ContainsAddress(al, a)
               PROVE  /\ Step(s, warmAddress(s, a))
                      /\ ContainsAddress(warmAddress(s, a).world.accessList, a)
  BY StepRefl DEF warmAddress
<1>1. s.world \in Worlds /\ al \in AccessLists /\ ListSound(al)
  BY GoodWorld DEF Worlds, Sound, ListSound
<1>2. bl \in AccessLists /\ ListSound(bl) /\ DeleteAddress(bl, a) = al
  BY <1>0, <1>1, AddAddressFacts
<1>3. ContainsAddress(bl, a)
  BY <1>0, <1>1, SMT DEF ContainsAddress, AddAddress, NoSlots, NotListed, AccessLists
<1>4. warmAddress(s, a) = Record(s, e, v)
  BY <1>0 DEF warmAddress
<1> HIDE DEF bl
<1>5. v.accessList = bl
  BY <1>1 DEF Worlds
<1>6. e \in Entries
  BY DEF Entries, AddressEntries
<1>7. \A x : Undo(e, x) = [x EXCEPT !.accessList = DeleteAddress(x.accessList, a)]
  BY DEF Undo
<1>8. Undo(e, v) = [v EXCEPT !.accessList = al]
  <2> HIDE DEF v, e
  <2>1. Undo(e, v) = [v EXCEPT !.accessList = DeleteAddress(v.accessList, a)]
    BY <1>7
  <2>2. DeleteAddress(v.accessList, a) = al
    BY <1>2, <1>5
  <2> QED BY <2>1, <2>2
<1> HIDE DEF e
<1>9. Step(s, Record(s, e, v)) /\ Record(s, e, v).world.accessList = bl
  BY <1>2, <1>6, <1>8, ListStep
<1> QED BY <1>3, <1>4, <1>9

\* AddSlotToAccessList, for an address in the list, is undone by its entry.
LEMMA WarmSlotStep ==
  ASSUME NEW s, Good(s), NEW a \in Address, NEW k \in Slot,
         ContainsAddress(s.world.accessList, a)
  PROVE  Step(s, warmSlot(s, a, k))
<1> DEFINE al == s.world.accessList
           bl == AddSlot(al, a, k)
           v  == [s.world EXCEPT !.accessList = bl]
           e  == [type |-> "accessListAddSlot", addr |-> a, key |-> k]
<1>0. SUFFICES ASSUME ~Contains(al, a, k) PROVE Step(s, warmSlot(s, a, k))
  BY StepRefl DEF warmSlot
<1>1. s.world \in Worlds /\ al \in AccessLists /\ ListSound(al)
  BY GoodWorld DEF Worlds, Sound, ListSound
<1>2. bl \in AccessLists /\ ListSound(bl) /\ DeleteSlot(bl, a, k) = al
  BY <1>0, <1>1, AddSlotFacts
<1>4. warmSlot(s, a, k) = Record(s, e, v)
  BY <1>0 DEF warmSlot
<1> HIDE DEF bl
<1>5. v.accessList = bl
  BY <1>1 DEF Worlds
<1>6. e \in Entries
  BY DEF Entries
<1>7. \A x : Undo(e, x) = [x EXCEPT !.accessList = DeleteSlot(x.accessList, a, k)]
  BY DEF Undo
<1>8. Undo(e, v) = [v EXCEPT !.accessList = al]
  <2> HIDE DEF v, e
  <2>1. Undo(e, v) = [v EXCEPT !.accessList = DeleteSlot(v.accessList, a, k)]
    BY <1>7
  <2>2. DeleteSlot(v.accessList, a, k) = al
    BY <1>2, <1>5
  <2> QED BY <2>1, <2>2
<1> HIDE DEF e
<1>9. Step(s, Record(s, e, v))
  BY <1>2, <1>6, <1>8, ListStep
<1> QED BY <1>4, <1>9
-----------------------------------------------------------------------------
(* The invariant, and the calls that change accounts.                      *)

\* The invariant that every step preserves.
IInv == TypeOK /\ JournalUndoable /\ RevisionsOrdered /\ ChangesTracked /\ BlockOk

\* The invariant says that the database, as a value, is good.
LEMMA InvGood == IInv => Good(DB)
<1> SUFFICES ASSUME IInv PROVE Good(DB)
  OBVIOUS
<1>1. DB.world = world /\ DB.journal = journal /\ DB.trail = trail
  BY DEF DB
<1> QED BY <1>1 DEF IInv, TypeOK, JournalUndoable, ChangesTracked, Good

\* Soundness and undoing read destruct, db and mutations, which no call changes.
LEMMA SameBlock ==
  ASSUME UNCHANGED <<destruct, db, mutations>>
  PROVE  /\ \A w : Sound(w)' <=> Sound(w)
         /\ \A e, w : Undo(e, w)' = Undo(e, w)
<1>1. \A a, o : Layered(a, o)' <=> Layered(a, o)
  BY DEF Layered, ParentOf
<1>2. \A a : MarkedUpdate(a)' <=> MarkedUpdate(a)
  BY DEF MarkedUpdate
<1>3. \A w : Sound(w)' <=> Sound(w)
  BY <1>1, <1>2 DEF Sound
<1>4. \A e, w : Undo(e, w)' = Undo(e, w)
  BY SMT DEF Undo, Underlying
<1> QED BY <1>3, <1>4

\* So does BlockOk, with the objects at the start of the transaction.
LEMMA SameStart ==
  ASSUME BlockOk, UNCHANGED <<destruct, db, mutations, trie>>, At(DB', 1).obj = At(DB, 1).obj
  PROVE  BlockOk'
<1>1. \A a, o, d, m, t : Settled(a, o, d, m, t)' <=> Settled(a, o, d, m, t)
  BY SMT DEF Settled
<1> QED BY <1>1 DEF BlockOk

\* The world and the journal of a good database, installed.
LEMMA GoodPrime ==
  ASSUME NEW r, Good(r), UNCHANGED <<destruct, db, mutations>>,
         world' = r.world, journal' = r.journal, trail' = r.trail
  PROVE  /\ world' \in Worlds /\ journal' \in Journals /\ trail' \in Seq(Worlds)
         /\ Len(trail') = Len(journal'.entries)
         /\ JournalUndoable' /\ ChangesTracked'
<1>1. /\ DB'.world = r.world /\ DB'.journal = r.journal /\ DB'.trail = r.trail
      /\ world' \in Worlds /\ journal' \in Journals /\ trail' \in Seq(Worlds)
      /\ Len(trail') = Len(journal'.entries)
  BY DEF DB, Good
<1>2. \A i : At(DB, i)' = At(r, i)
  BY <1>1 DEF At
<1>3. JournalUndoable'
  BY <1>1, <1>2, SameBlock, SMT DEF Good, Undoable, JournalUndoable
<1>4. ChangesTracked'
  BY <1>1, <1>2 DEF Good, Tracked, ChangesTracked
<1> QED BY <1>1, <1>3, <1>4

\* A call between two snapshots: a step of the setters preserves the invariant.
LEMMA CallPreserves ==
  ASSUME IInv, Idle, NEW r, Step(DB, r), Install(r),
         delta' \in Int, expected' \in Int, thash' \in Tx,
         UNCHANGED <<reverting, blockVars, saved, lost>>
  PROVE  IInv'
<1>1. Good(r) /\ Extends(DB, r)
  BY DEF Step
<1>2. /\ world' \in Worlds /\ journal' \in Journals /\ trail' \in Seq(Worlds)
      /\ Len(trail') = Len(journal'.entries)
      /\ JournalUndoable' /\ ChangesTracked'
  BY <1>1, GoodPrime DEF Install, blockVars
<1>3. /\ journal'.validRevisions = journal.validRevisions
      /\ journal'.nextRevisionId = journal.nextRevisionId
      /\ Len(trail) <= Len(trail')
      /\ \A i \in 1 .. Len(trail) + 1 : At(DB', i) = At(DB, i)
  <2>1. DB.trail = trail /\ DB.journal = journal /\ DB'.trail = r.trail /\ DB'.world = r.world
    BY DEF DB, Install
  <2>2. \A i : At(DB', i) = At(r, i)
    BY <2>1 DEF At
  <2> QED BY <1>1, <2>1, <2>2 DEF Extends, Install
<1>4. reverting' = 0 /\ reverting = 0
  BY DEF Idle
<1>5. TypeOK'
  BY <1>2, <1>3, <1>4 DEF IInv, TypeOK, blockVars
<1>6. RevisionsOrdered'
  <2>1. /\ saved' = saved
        /\ Open = Len(saved) /\ Open' = Len(saved)
        /\ Len(saved) = Len(journal.validRevisions)
        /\ Len(trail) \in Nat /\ Len(trail') \in Nat
        /\ journal.validRevisions \in Seq(Revisions)
    BY <1>2, <1>4, SMT DEF IInv, TypeOK, Open, Idle, Journals
  <2>2. ASSUME NEW i \in 1 .. Len(saved)
        PROVE  /\ journal.validRevisions[i].journalIndex <= Len(trail')
               /\ saved[i].world = At(DB', journal.validRevisions[i].journalIndex + 1)
    <3> DEFINE x == journal.validRevisions[i].journalIndex
    <3>1. x \in Nat
      <4>1. journal.validRevisions[i] \in Revisions
        BY <2>1, SMT
      <4> QED BY <4>1 DEF Revisions
    <3>2. x <= Len(trail) /\ saved[i].world = At(DB, x + 1)
      BY <2>1 DEF IInv, RevisionsOrdered
    <3> HIDE DEF x
    <3>3. x + 1 \in 1 .. Len(trail) + 1 /\ x <= Len(trail')
      BY <1>3, <2>1, <3>1, <3>2, SMT
    <3>4. At(DB', x + 1) = At(DB, x + 1)
      BY <1>3, <3>3
    <3> QED BY <3>2, <3>3, <3>4 DEF x
  <2> QED BY <1>3, <1>4, <2>1, <2>2 DEF IInv, RevisionsOrdered, Idle
<1>7. BlockOk'
  <2>1. 1 \in 1 .. Len(trail) + 1
    BY SMT DEF IInv, TypeOK
  <2> QED BY <1>3, <2>1, SameStart DEF IInv, blockVars
<1> QED BY <1>2, <1>5, <1>6, <1>7 DEF IInv

\* A setter that is a step preserves the invariant.
LEMMA SetPreserves ==
  ASSUME IInv, NEW r, Step(DB, r), Set(r) PROVE IInv'
<1>1. /\ Idle /\ Install(r) /\ delta' = delta
      /\ UNCHANGED <<thash, reverting, blockVars, saved, expected, lost>>
  BY DEF Set, Calling
<1>2. delta' \in Int /\ expected' \in Int /\ thash' \in Tx
  BY <1>1 DEF IInv, TypeOK
<1> QED BY <1>1, <1>2, CallPreserves

\* So does one that moves the balance delta.
LEMMA SetWithDeltaPreserves ==
  ASSUME IInv, NEW r, NEW d \in Int, Step(DB, r), SetWithDelta(r, d) PROVE IInv'
<1>1. /\ Idle /\ Install(r) /\ delta' = delta + d
      /\ UNCHANGED <<thash, reverting, blockVars, saved, expected, lost>>
  BY DEF SetWithDelta, Calling
<1>2. delta' \in Int /\ expected' \in Int /\ thash' \in Tx
  BY <1>1, SMT DEF IInv, TypeOK
<1> QED BY <1>1, <1>2, CallPreserves

\* The object a setter finds after getOrNewStateObject.
LEMMA FreshOrLive ==
  ASSUME IInv, NEW a \in Address
  PROVE  LET g == getOrNewStateObject(DB, a)
         IN  /\ Good(DB) /\ Step(DB, g) /\ Good(g) /\ Live(g, a)
             /\ g.world.obj[a].balance = Balance(a) /\ Balance(a) \in Nat
<1> DEFINE g == getOrNewStateObject(DB, a)
<1>1. Good(DB) /\ DB.world = world
  BY InvGood DEF DB
<1>2. Step(DB, g) /\ Good(g) /\ Live(g, a)
  BY <1>1, GetOrNewStep DEF Step
<1>3. Exist(a) <=> Live(DB, a)
  BY <1>1 DEF Exist, Live
<1>4. g.world.obj[a].balance = Balance(a)
  <2>1. CASE Live(DB, a)
    BY <1>1, <1>3, <2>1, GetOrNewStep DEF Balance
  <2>2. CASE ~Live(DB, a)
    <3>1. g.world.obj[a] = newObject(NoObject)
      BY <1>1, <2>2, GetOrNewStep
    <3>2. newObject(NoObject).balance = 0
      BY DEF newObject
    <3> QED BY <3>1, <3>2, <1>3, <2>2 DEF Balance
  <2> QED BY <2>1, <2>2
<1>5. g.world.obj[a].balance \in Nat
  BY <1>2, GoodObj DEF StateObjects
<1> QED BY <1>1, <1>2, <1>4, <1>5

\* AddBalance: get or create the object, then add or touch.
LEMMA AddBalancePreserves ==
  ASSUME IInv, NEW a \in Address, NEW x \in Amount, AddBalance(a, x) PROVE IInv'
<1> DEFINE g == getOrNewStateObject(DB, a)
           r == addBalance(g, a, x)
<1>1. Good(DB) /\ Step(DB, g) /\ Good(g) /\ Live(g, a)
  BY FreshOrLive
<1>2. x \in Nat /\ x \in Int
  BY DBAssumption, SMT
<1>3. SetWithDelta(r, x)
  BY DEF AddBalance
<1> HIDE DEF g
<1>4. Step(g, r)
  BY <1>1, <1>2, AddBalanceStep
<1> HIDE DEF r
<1>5. Step(DB, r)
  BY <1>1, <1>4, StepTrans
<1> QED BY <1>2, <1>3, <1>5, SetWithDeltaPreserves

\* SubBalance: get or create the object, then set the lower balance.
LEMMA SubBalancePreserves ==
  ASSUME IInv, NEW a \in Address, NEW x \in Amount, SubBalance(a, x) PROVE IInv'
<1> DEFINE g == getOrNewStateObject(DB, a)
           r == setBalance(g, a, g.world.obj[a].balance - x)
<1>1. /\ Good(DB) /\ Step(DB, g) /\ Good(g) /\ Live(g, a)
      /\ g.world.obj[a].balance = Balance(a) /\ Balance(a) \in Nat
  BY FreshOrLive
<1>2. x \in Nat /\ -x \in Int
  BY DBAssumption, SMT
<1>3. x <= Balance(a) /\ IF x = 0 THEN Set(g) ELSE SetWithDelta(r, -x)
  BY DEF SubBalance
<1> HIDE DEF g
<1>4. Step(g, r)
  <2>1. g.world.obj[a].balance - x \in Nat
    BY <1>1, <1>2, <1>3, SMT
  <2> QED BY <1>1, <2>1, SetBalanceStep
<1> HIDE DEF r
<1>5. Step(DB, r)
  BY <1>1, <1>4, StepTrans
<1>6. CASE x = 0 BY <1>1, <1>3, <1>6, SetPreserves
<1>7. CASE x # 0 BY <1>2, <1>3, <1>5, <1>7, SetWithDeltaPreserves
<1> QED BY <1>6, <1>7

\* SetBalance: get or create the object, then set the balance.
LEMMA SetBalancePreserves ==
  ASSUME IInv, NEW a \in Address, NEW x \in Amount, SetBalance(a, x) PROVE IInv'
<1> DEFINE g == getOrNewStateObject(DB, a)
           r == setBalance(g, a, x)
<1>1. /\ Good(DB) /\ Step(DB, g) /\ Good(g) /\ Live(g, a)
      /\ g.world.obj[a].balance = Balance(a) /\ Balance(a) \in Nat
  BY FreshOrLive
<1>2. x \in Nat
  BY DBAssumption
<1>3. SetWithDelta(r, x - g.world.obj[a].balance)
  BY DEF SetBalance
<1> HIDE DEF g
<1>4. Step(g, r)
  BY <1>1, <1>2, SetBalanceStep
<1> HIDE DEF r
<1>5. Step(DB, r) /\ x - g.world.obj[a].balance \in Int
  BY <1>1, <1>2, <1>4, StepTrans, SMT
<1> QED BY <1>3, <1>5, SetWithDeltaPreserves

\* SetNonce: get or create the object, then set the nonce.
LEMMA SetNoncePreserves ==
  ASSUME IInv, NEW a \in Address, NEW n \in Nonce, SetNonce(a, n) PROVE IInv'
<1> DEFINE g == getOrNewStateObject(DB, a)
           r == setNonce(g, a, n)
<1>1. Good(DB) /\ Step(DB, g) /\ Good(g) /\ Live(g, a) /\ n \in Nat
  BY FreshOrLive, DBAssumption
<1>2. Set(r)
  BY DEF SetNonce
<1> HIDE DEF g
<1>3. Step(g, r)
  BY <1>1, SetNonceStep
<1> HIDE DEF r
<1> QED BY <1>1, <1>2, <1>3, StepTrans, SetPreserves

\* SetCode: get or create the object, then set the code.
LEMMA SetCodePreserves ==
  ASSUME IInv, NEW a \in Address, NEW c \in Code, SetCode(a, c) PROVE IInv'
<1> DEFINE g == getOrNewStateObject(DB, a)
           r == setCode(g, a, c)
<1>1. Good(DB) /\ Step(DB, g) /\ Good(g) /\ Live(g, a)
  BY FreshOrLive
<1>2. Set(r)
  BY DEF SetCode
<1> HIDE DEF g
<1>3. Step(g, r)
  BY <1>1, SetCodeStep
<1> HIDE DEF r
<1> QED BY <1>1, <1>2, <1>3, StepTrans, SetPreserves

\* SetState: get or create the object, then set the slot.
LEMMA SetStatePreserves ==
  ASSUME IInv, NEW a \in Address, NEW k \in Slot, NEW v \in Word, SetState(a, k, v) PROVE IInv'
<1> DEFINE g == getOrNewStateObject(DB, a)
           r == setStorage(g, a, k, v)
<1>1. Good(DB) /\ Step(DB, g) /\ Good(g) /\ Live(g, a)
  BY FreshOrLive
<1>2. Set(r)
  BY DEF SetState
<1> HIDE DEF g
<1>3. Step(g, r)
  BY <1>1, SetStorageStep
<1> HIDE DEF r
<1> QED BY <1>1, <1>2, <1>3, StepTrans, SetPreserves

\* SelfDestruct: clear the balance, then mark the object.
LEMMA SelfDestructPreserves ==
  ASSUME IInv, NEW a \in Address, SelfDestruct(a) PROVE IInv'
<1> DEFINE g == clearBalance(DB, a)
           r == markSelfdestructed(g, a)
<1>1. Good(DB) /\ Live(DB, a) /\ Balance(a) \in Nat
  BY InvGood, FreshOrLive DEF SelfDestruct, Exist, Live, DB
<1>2. SetWithDelta(r, -Balance(a))
  BY DEF SelfDestruct
<1>3. Step(DB, g) /\ Live(g, a) /\ Good(g)
  BY <1>1, ClearBalanceStep DEF Step
<1> HIDE DEF g
<1>4. Step(g, r)
  BY <1>3, SelfdestructedStep
<1> HIDE DEF r
<1>5. Step(DB, r) /\ -Balance(a) \in Int
  BY <1>1, <1>3, <1>4, StepTrans, SMT
<1> QED BY <1>2, <1>5, SetWithDeltaPreserves

\* CreateZombieIfDeleted creates an object, if it does anything.
LEMMA ZombiePreserves ==
  ASSUME IInv, NEW a \in Address, CreateZombieIfDeleted(a) PROVE IInv'
<1>1. Good(DB) /\ ~Live(DB, a) /\ Set(createZombie(DB, a))
  BY InvGood DEF CreateZombieIfDeleted, Exist, Live, DB
<1> QED BY <1>1, CreateStep, SetPreserves

\* Create: CreateAccount, CreateContract and SetNonce of the EVM's create.
LEMMA CreatePreserves ==
  ASSUME IInv, NEW a \in Address, Create(a) PROVE IInv'
<1> DEFINE g == getOrNewStateObject(DB, a)
           c == createContract(g, a)
           r == setNonce(c, a, 1)
<1>1. Good(DB) /\ Step(DB, g) /\ Good(g) /\ Live(g, a)
  BY FreshOrLive
<1>2. Set(r)
  BY DEF Create
<1> HIDE DEF g
<1>3. Step(g, c) /\ Live(c, a) /\ Good(c)
  BY <1>1, CreateContractStep DEF Step
<1> HIDE DEF c
<1>4. Step(c, r)
  BY <1>3, SetNonceStep
<1> HIDE DEF r
<1>5. Step(DB, c)
  BY <1>1, <1>3, StepTrans
<1>6. Step(DB, r)
  BY <1>1, <1>4, <1>5, StepTrans
<1> QED BY <1>2, <1>6, SetPreserves

\* Every call that changes an account preserves the invariant.
LEMMA AccountCallPreserves == IInv /\ AccountCall => IInv'
<1> SUFFICES ASSUME IInv, AccountCall PROVE IInv'
  OBVIOUS
<1>1. ASSUME NEW a \in Address, NEW x \in Amount,
             AddBalance(a, x) \/ SubBalance(a, x) \/ SetBalance(a, x)
      PROVE  IInv'
  BY <1>1, AddBalancePreserves, SubBalancePreserves, SetBalancePreserves
<1>2. ASSUME NEW a \in Address,
             SelfDestruct(a) \/ SelfDestruct6780(a) \/ CreateZombieIfDeleted(a) \/ Create(a)
      PROVE  IInv'
  BY <1>2, SelfDestructPreserves, ZombiePreserves, CreatePreserves DEF SelfDestruct6780
<1> QED BY <1>1, <1>2, SetNoncePreserves, SetCodePreserves, SetStatePreserves DEF AccountCall
-----------------------------------------------------------------------------
(* The calls that change the rest.                                         *)

\* Steps that leave the world and the journal alone.
LEMMA QuietPreserves ==
  ASSUME IInv, Idle, delta' \in Int, expected' \in Int, thash' \in Tx,
         UNCHANGED <<world, journal, trail, reverting, blockVars, saved, lost>>
  PROVE  IInv'
<1>1. Step(DB, DB) /\ Install(DB)
  BY InvGood, StepRefl DEF Install, DB
<1> QED BY <1>1, CallPreserves

\* The announcements of burns and mints only move the two counters.
LEMMA ExpectPreserves ==
  ASSUME IInv, NEW x \in Amount, ExpectBalanceBurn(x) \/ ExpectBalanceMint(x) PROVE IInv'
<1>1. x \in Int /\ delta \in Int /\ expected \in Int /\ thash \in Tx
  BY DBAssumption, SMT DEF IInv, TypeOK
<1>2. /\ Idle /\ delta' \in Int /\ expected' \in Int /\ thash' \in Tx
      /\ UNCHANGED <<world, journal, trail, reverting, blockVars, saved, lost>>
  BY <1>1, SMT DEF ExpectBalanceBurn, ExpectBalanceMint, Calling
<1> QED BY <1>2, QuietPreserves

\* AddRefund and SubRefund are steps of the refund counter.
LEMMA RefundPreserves ==
  ASSUME IInv, NEW g \in Gas, AddRefund(g) \/ SubRefund(g) PROVE IInv'
<1>1. Good(DB) /\ g \in Nat /\ world.refund \in Nat
  BY InvGood, DBAssumption DEF IInv, TypeOK, Worlds
<1>2. CASE AddRefund(g)
  <2>1. world.refund + g \in Nat /\ Set(setRefund(DB, world.refund + g))
    BY <1>1, <1>2, SMT DEF AddRefund
  <2> QED BY <1>1, <2>1, SetRefundStep, SetPreserves
<1>3. CASE SubRefund(g)
  <2>1. world.refund - g \in Nat /\ Set(setRefund(DB, world.refund - g))
    BY <1>1, <1>3, SMT DEF SubRefund
  <2> QED BY <1>1, <2>1, SetRefundStep, SetPreserves
<1> QED BY <1>2, <1>3

\* AddSlotToAccessList: add the address, then the slot.
LEMMA WarmPreserves ==
  ASSUME IInv, NEW a \in Address, NEW k \in Slot, AddSlotToAccessList(a, k) PROVE IInv'
<1> DEFINE g == warmAddress(DB, a)
           r == warmSlot(g, a, k)
<1>1. Good(DB) /\ Set(r)
  BY InvGood DEF AddSlotToAccessList
<1>2. Step(DB, g) /\ Good(g) /\ ContainsAddress(g.world.accessList, a)
  BY <1>1, WarmAddressStep DEF Step
<1> HIDE DEF g
<1>3. Step(g, r)
  BY <1>2, WarmSlotStep
<1> HIDE DEF r
<1> QED BY <1>1, <1>2, <1>3, StepTrans, SetPreserves

\* The access list Prepare starts the transaction with.
LEMMA StartListFacts ==
  ASSUME NEW warm \in SUBSET Address, NEW list \in {<<>>} \cup (Address \X Slot)
  PROVE  startList(warm, list) \in AccessLists /\ ListSound(startList(warm, list))
<1> DEFINE f  == [a \in Address |-> IF a \in warm THEN NoSlots ELSE NotListed]
           al == [newAccessList EXCEPT !.addresses = f]
<1>1. al.addresses = f /\ al.slots = <<>> /\ al \in AccessLists
  <2>1. f \in [Address -> Nat \cup {NoSlots, NotListed}]
    OBVIOUS
  <2> HIDE DEF f
  <2>2. al = [addresses |-> f, slots |-> <<>>]
    BY SMT DEF newAccessList
  <2>3. <<>> \in Seq(SUBSET Slot)
    BY SMT
  <2> HIDE DEF al
  <2> QED BY <2>1, <2>2, <2>3 DEF AccessLists
<1>2. \A a \in Address : f[a] \notin Nat
  BY SMT DEF NoSlots, NotListed
<1>3. startList(warm, list)
        = IF list = <<>> THEN al ELSE AddSlot(AddAddress(al, list[1]), list[1], list[2])
  BY DEF startList
<1> HIDE DEF f, al
<1>4. ListSound(al)
  BY <1>1, <1>2, SMT DEF WellIndexed, Packed, ListSound
<1>5. CASE list = <<>> BY <1>1, <1>3, <1>4, <1>5
<1>6. CASE list # <<>>
  <2> DEFINE a  == list[1]
             k  == list[2]
             bl == AddAddress(al, a)
  <2>1. a \in Address /\ k \in Slot
    BY <1>6
  <2> HIDE DEF a, k
  <2>2. bl \in AccessLists /\ ListSound(bl)
    <3>1. CASE ContainsAddress(al, a) BY <3>1, <1>1, <1>4 DEF AddAddress
    <3>2. CASE ~ContainsAddress(al, a) BY <3>2, <2>1, <1>1, <1>4, AddAddressFacts
    <3> QED BY <3>1, <3>2
  <2>3. ContainsAddress(bl, a) /\ bl.addresses[a] \notin Nat
    <3>1. CASE ContainsAddress(al, a) BY <3>1, <2>1, <1>1, <1>2 DEF AddAddress
    <3>2. CASE ~ContainsAddress(al, a)
      BY <3>2, <2>1, <1>1, SMT DEF AddAddress, ContainsAddress, NoSlots, NotListed, AccessLists
    <3> QED BY <3>1, <3>2
  <2> HIDE DEF bl
  <2>4. ~Contains(bl, a, k)
    BY <2>3 DEF Contains
  <2>5. AddSlot(bl, a, k) \in AccessLists /\ ListSound(AddSlot(bl, a, k))
    BY <2>1, <2>2, <2>3, <2>4, AddSlotFacts
  <2> QED BY <1>3, <1>6, <2>5 DEF a, k, bl
<1> QED BY <1>5, <1>6

\* What Prepare makes of a world.
LEMMA PreparedFacts ==
  ASSUME NEW w \in Worlds, NEW warm \in SUBSET Address,
         NEW list \in {<<>>} \cup (Address \X Slot)
  PROVE  /\ Prepared(w, warm, list) \in Worlds
         /\ Prepared(w, warm, list).obj = w.obj
         /\ Sound(w) => Sound(Prepared(w, warm, list))
<1> DEFINE al == startList(warm, list)
           tr == [a \in Address |-> Zeroes]
           v  == [w EXCEPT !.accessList = al, !.transient = tr]
<1>1. al \in AccessLists /\ ListSound(al)
  BY StartListFacts
<1>2. tr \in [Address -> [Slot -> Word]]
  BY ObjectAssumption DEF Zeroes
<1>3. Prepared(w, warm, list) = v
  BY DEF Prepared
<1> HIDE DEF al, tr
<1>4. v \in Worlds /\ v.obj = w.obj /\ v.accessList = al
  BY <1>1, <1>2 DEF Worlds
<1> HIDE DEF v
<1>5. Sound(w) => Sound(v)
  BY <1>1, <1>4 DEF Sound, ListSound
<1> QED BY <1>3, <1>4, <1>5

\* An entry that is not about the access list or the transient storage undoes
\* the same change after Prepare as before it.
LEMMA UndoPrepared ==
  ASSUME NEW w \in Worlds, NEW warm, NEW list, NEW e \in Entries, e.type \notin WarmTypes
  PROVE  Undo(e, Prepared(w, warm, list)) = Prepared(Undo(e, w), warm, list)
<1> DEFINE al == startList(warm, list)
           tr == [a \in Address |-> Zeroes]
           P(x) == [x EXCEPT !.accessList = al, !.transient = tr]
<1>1. \A x : Prepared(x, warm, list) = P(x)
  BY DEF Prepared
<1> HIDE DEF al, tr
<1>2. /\ P(w).obj = w.obj
      /\ P(w).refund = w.refund /\ P(w).logs = w.logs /\ P(w).logSize = w.logSize
      /\ P(w).wasms = w.wasms
  BY DEF Worlds
<1>3. \A a, o : WithObj(P(w), a, o) = P(WithObj(w, a, o))
  BY DEF Worlds, WithObj
<1>4. \A n : [P(w) EXCEPT !.refund = n] = P([w EXCEPT !.refund = n])
  BY DEF Worlds
<1>5. \A f : [P(w) EXCEPT !.wasms = f] = P([w EXCEPT !.wasms = f])
  BY DEF Worlds
<1>6. CASE e.type \in {"createObject", "createZombie", "createContract", "selfDestruct",
                       "balance", "nonce", "code", "storage"}
  <2> HIDE DEF P
  <2> SUFFICES Undo(e, P(w)) = P(Undo(e, w))
    BY <1>1
  <2>1. CASE e.type \in {"createObject", "createZombie"} BY <2>1, <1>2, <1>3 DEF Undo
  <2>2. CASE e.type = "createContract" BY <2>2, <1>2, <1>3 DEF Undo
  <2>3. CASE e.type = "selfDestruct" BY <2>3, <1>2, <1>3 DEF Undo
  <2>4. CASE e.type = "balance" BY <2>4, <1>2, <1>3 DEF Undo
  <2>5. CASE e.type = "nonce" BY <2>5, <1>2, <1>3 DEF Undo
  <2>6. CASE e.type = "code" BY <2>6, <1>2, <1>3 DEF Undo
  <2>7. CASE e.type = "storage" BY <2>7, <1>2, <1>3 DEF Undo
  <2> QED BY <1>6, <2>1, <2>2, <2>3, <2>4, <2>5, <2>6, <2>7
<1>7. CASE e.type = "touch" BY <1>7 DEF Undo
<1>8. CASE e.type = "refund"
  <2> HIDE DEF P
  <2> QED BY <1>1, <1>4, <1>8 DEF Undo
<1>9. CASE e.type = "wasm"
  <2>1. \A x : Undo(e, x) = [x EXCEPT !.wasms[e.module] = NoEntry]
    BY <1>9 DEF Undo
  <2>2. /\ Undo(e, w) = [w EXCEPT !.wasms = [w.wasms EXCEPT ![e.module] = NoEntry]]
        /\ Undo(e, P(w)) = [P(w) EXCEPT !.wasms = [w.wasms EXCEPT ![e.module] = NoEntry]]
    <3> HIDE DEF P
    <3> QED BY <2>1, <1>2
  <2> HIDE DEF P
  <2> QED BY <2>2, <1>1, <1>5
<1>10. CASE e.type = "addLog"
  <2>1. \A x : Undo(e, x) = undoLog(x, e.tx)
    BY <1>10 DEF Undo
  <2>2. undoLog(P(w), e.tx) = P(undoLog(w, e.tx))
    BY DEF undoLog, Worlds
  <2> HIDE DEF P
  <2> QED BY <2>1, <2>2, <1>1
<1>11. e.type \in {"createObject", "createZombie", "createContract", "selfDestruct",
                   "balance", "nonce", "code", "storage", "touch", "refund", "wasm", "addLog"}
  BY DEF Entries, AddressEntries, WarmTypes
<1> QED BY <1>6, <1>7, <1>8, <1>9, <1>10, <1>11

\* The worlds of the transaction so far, and the revisions that point to them.
LEMMA InvFacts ==
  ASSUME IInv
  PROVE  /\ trail \in Seq(Worlds) /\ Len(trail) \in Nat
         /\ journal.entries \in Seq(Entries) /\ Len(journal.entries) = Len(trail)
         /\ journal.validRevisions \in Seq(Revisions)
         /\ saved \in Seq(SavedStates) /\ Len(saved) = Len(journal.validRevisions)
         /\ Len(saved) \in Nat
         /\ reverting \in 0 .. Len(saved)
         /\ \A i \in 1 .. Len(trail) : journal.entries[i] \in Entries
         /\ \A i \in 1 .. Len(saved) : /\ journal.validRevisions[i] \in Revisions
                                       /\ journal.validRevisions[i].journalIndex \in Nat
                                       /\ saved[i] \in SavedStates
         /\ \A i \in 1 .. Len(trail) : At(DB, i) = trail[i]
         /\ At(DB, Len(trail) + 1) = world
         /\ \A i \in 1 .. Len(trail) + 1 : At(DB, i) \in Worlds /\ Sound(At(DB, i))
<1>1. /\ trail \in Seq(Worlds) /\ Len(trail) \in Nat
      /\ journal.entries \in Seq(Entries) /\ Len(journal.entries) = Len(trail)
      /\ journal.validRevisions \in Seq(Revisions)
      /\ saved \in Seq(SavedStates) /\ Len(saved) = Len(journal.validRevisions)
      /\ Len(saved) \in Nat
      /\ reverting \in 0 .. Len(saved)
      /\ world \in Worlds
  BY SMT DEF IInv, TypeOK, Journals
<1>2. /\ \A i \in 1 .. Len(trail) : journal.entries[i] \in Entries /\ trail[i] \in Worlds
      /\ \A i \in 1 .. Len(saved) : /\ journal.validRevisions[i] \in Revisions
                                    /\ saved[i] \in SavedStates
  BY <1>1, SMT
<1>3. \A i \in 1 .. Len(saved) : journal.validRevisions[i].journalIndex \in Nat
  BY <1>2 DEF Revisions
<1>4. DB.trail = trail /\ DB.world = world
  BY DEF DB
<1>5. /\ \A i \in 1 .. Len(trail) : At(DB, i) = trail[i]
      /\ At(DB, Len(trail) + 1) = world
  BY <1>1, <1>4, SMT DEF At
<1>6. \A i \in 1 .. Len(trail) + 1 : At(DB, i) \in Worlds
  <2> SUFFICES ASSUME NEW i \in 1 .. Len(trail) + 1 PROVE At(DB, i) \in Worlds
    OBVIOUS
  <2>1. CASE i \in 1 .. Len(trail) BY <2>1, <1>2, <1>5
  <2>2. CASE i = Len(trail) + 1 BY <2>2, <1>1, <1>5
  <2> QED BY <2>1, <2>2, <1>1, SMT
<1>7. \A i \in 1 .. Len(trail) + 1 : Sound(At(DB, i))
  BY DEF IInv, JournalUndoable
<1> QED BY <1>1, <1>2, <1>3, <1>5, <1>6, <1>7

\* Each revision that may be reverted to points to its saved world.
LEMMA RevisionFacts ==
  ASSUME IInv, NEW i \in 1 .. Open
  PROVE  /\ i \in 1 .. Len(saved)
         /\ journal.validRevisions[i].journalIndex \in 0 .. Len(trail)
         /\ saved[i].world = At(DB, journal.validRevisions[i].journalIndex + 1)
<1>1. i \in 1 .. Len(saved)
  BY InvFacts, SMT DEF Open
<1>2. /\ journal.validRevisions[i].journalIndex <= Len(trail)
      /\ saved[i].world = At(DB, journal.validRevisions[i].journalIndex + 1)
  BY DEF IInv, RevisionsOrdered
<1> QED BY <1>1, <1>2, InvFacts, SMT

\* Prepare changes the world without a journal entry: every earlier world gets the
\* same access list and transient storage, which no entry so far has touched.
LEMMA PreparePreserves ==
  ASSUME IInv, NEW warm \in SUBSET Address, NEW list \in {<<>>} \cup (Address \X Slot),
         Prepare(warm, list)
  PROVE  IInv'
<1> DEFINE P(x) == Prepared(x, warm, list)
           n == Len(trail)
           Q == [i \in 1 .. Len(saved) |-> [saved[i] EXCEPT !.world = P(@)]]
<1>1. /\ world' = P(world)
      /\ trail' = [i \in 1 .. n |-> P(trail[i])]
      /\ saved' = Q
      /\ UNCHANGED <<journal, delta, thash, reverting, blockVars, expected, lost>>
      /\ Idle
      /\ \A i \in 1 .. n : journal.entries[i].type \notin WarmTypes
  BY InvFacts DEF Prepare, Calling
<1>2. \A x \in Worlds : P(x) \in Worlds /\ P(x).obj = x.obj /\ (Sound(x) => Sound(P(x)))
  BY PreparedFacts
<1>3. \A x \in Worlds, e \in Entries : e.type \notin WarmTypes => Undo(e, P(x)) = P(Undo(e, x))
  BY UndoPrepared, SMT
<1> HIDE DEF P
<1>4. /\ trail' \in Seq(Worlds) /\ Len(trail') = n
      /\ \A i \in 1 .. n : trail'[i] = P(trail[i])
      /\ n \in Nat
  BY <1>1, <1>2, InvFacts, SMT
<1>5. \A i \in 1 .. n + 1 : At(DB', i) = P(At(DB, i))
  <2>1. DB'.trail = trail' /\ DB'.world = world'
    BY DEF DB
  <2> SUFFICES ASSUME NEW i \in 1 .. n + 1 PROVE At(DB', i) = P(At(DB, i))
    OBVIOUS
  <2>2. CASE i \in 1 .. n
    BY <2>1, <2>2, <1>4, InvFacts, SMT DEF At
  <2>3. CASE i = n + 1
    <3>1. At(DB', i) = world'
      BY <2>1, <2>3, <1>4, SMT DEF At
    <3> QED BY <3>1, <2>3, <1>1, InvFacts
  <2> QED BY <2>2, <2>3, <1>4, SMT
<1>6. /\ \A w : Sound(w)' <=> Sound(w)
      /\ \A e, w : Undo(e, w)' = Undo(e, w)
  BY <1>1, SameBlock DEF blockVars
<1>7. JournalUndoable'
  <2>1. \A i \in 1 .. n + 1 : Sound(At(DB', i))
    BY <1>2, <1>5, InvFacts
  <2>2. ASSUME NEW i \in 1 .. n
        PROVE  Undo(journal.entries[i], At(DB', i + 1)) = At(DB', i)
    <3>1. i \in 1 .. n + 1 /\ i + 1 \in 1 .. n + 1
      BY <1>4, SMT
    <3>2. Undo(journal.entries[i], At(DB, i + 1)) = At(DB, i)
      BY DEF IInv, JournalUndoable, Undoable, DB
    <3>3. Undo(journal.entries[i], P(At(DB, i + 1))) = P(Undo(journal.entries[i], At(DB, i + 1)))
      BY <3>1, <1>1, <1>3, InvFacts
    <3> QED BY <3>1, <3>2, <3>3, <1>5
  <2>3. DB'.trail = trail' /\ DB'.journal = journal
    BY <1>1 DEF DB
  <2> QED BY <2>1, <2>2, <2>3, <1>4, <1>6 DEF JournalUndoable, Undoable
<1>8. /\ saved' \in Seq(SavedStates) /\ Len(saved') = Len(saved)
      /\ \A i \in 1 .. Len(saved) : /\ saved'[i].world = P(saved[i].world)
                                    /\ saved'[i].delta = saved[i].delta
  <2>1. \A x \in SavedStates : /\ [x EXCEPT !.world = P(@)] \in SavedStates
                               /\ [x EXCEPT !.world = P(@)].world = P(x.world)
                               /\ [x EXCEPT !.world = P(@)].delta = x.delta
    BY <1>2 DEF SavedStates
  <2> DEFINE F(x) == [x EXCEPT !.world = P(@)]
             m == Len(saved)
  <2>2. m \in Nat /\ \A i \in 1 .. m : saved[i] \in SavedStates
    BY InvFacts
  <2>3. saved' = [i \in 1 .. m |-> F(saved[i])]
    BY <1>1
  <2>4. \A x \in SavedStates : F(x) \in SavedStates /\ F(x).world = P(x.world) /\ F(x).delta = x.delta
    BY <2>1
  <2> HIDE DEF F, m
  <2>5. /\ saved' \in Seq(SavedStates) /\ Len(saved') = m
        /\ \A i \in 1 .. m : saved'[i] = F(saved[i])
    <3>1. \A i \in 1 .. m : F(saved[i]) \in SavedStates
      BY <2>2, <2>4
    <3> QED BY <2>2, <2>3, <3>1, SMT
  <2> QED BY <2>2, <2>4, <2>5 DEF m
<1>9. TypeOK'
  <2>1. world' \in Worlds
    <3>1. world \in Worlds
      BY DEF IInv, TypeOK
    <3>2. world' = P(world)
      BY <1>1
    <3> QED BY <3>1, <3>2, <1>2
  <2> HIDE DEF Q
  <2> QED BY <2>1, <1>1, <1>4, <1>8 DEF IInv, TypeOK, blockVars
<1>10. RevisionsOrdered'
  <2>1. reverting = 0 /\ reverting' = 0 /\ Open = Len(saved) /\ Open' = Len(saved)
    BY <1>1, <1>8 DEF Idle, Open
  <2>2. ASSUME NEW i \in 1 .. Len(saved)
        PROVE  /\ journal.validRevisions[i].journalIndex <= Len(trail')
               /\ saved'[i].world = At(DB', journal.validRevisions[i].journalIndex + 1)
    <3> DEFINE x == journal.validRevisions[i].journalIndex
    <3>1. x \in 0 .. n /\ saved[i].world = At(DB, x + 1)
      BY <2>1, RevisionFacts
    <3> HIDE DEF x
    <3>2. x + 1 \in 1 .. n + 1 /\ x <= n
      BY <3>1, <1>4, SMT
    <3> QED BY <3>1, <3>2, <1>4, <1>5, <1>8 DEF x
  <2>3. Len(saved) = Len(journal.validRevisions)
    BY InvFacts
  <2> HIDE DEF Q
  <2> QED BY <2>1, <2>2, <2>3, <1>1, <1>8 DEF IInv, RevisionsOrdered, Idle
<1>11. \A i \in 1 .. n + 1 : At(DB', i).obj = At(DB, i).obj
  BY <1>2, <1>5, InvFacts
<1>12. ChangesTracked'
  <2>1. DB'.trail = trail' /\ DB'.journal = journal /\ DB.trail = trail /\ DB.journal = journal
    BY <1>1 DEF DB
  <2>2. 1 \in 1 .. n + 1
    BY <1>4, SMT
  <2>3. Tracked(DB) /\ Counted(journal)
    BY DEF IInv, ChangesTracked
  <2>4. Tracked(DB')
    BY <2>1, <2>2, <2>3, <1>4, <1>11 DEF Tracked
  <2> QED BY <1>1, <2>3, <2>4 DEF ChangesTracked
<1>13. BlockOk'
  <2>1. 1 \in 1 .. n + 1
    BY <1>4, SMT
  <2> QED BY <1>1, <1>11, <2>1, SameStart DEF IInv, blockVars
<1> QED BY <1>7, <1>9, <1>10, <1>12, <1>13 DEF IInv

\* Every call that changes something else preserves the invariant.
LEMMA OtherCallPreserves == IInv /\ OtherCall => IInv'
<1> SUFFICES ASSUME IInv, OtherCall PROVE IInv'
  OBVIOUS
<1>1. Good(DB) /\ thash \in Tx
  BY InvGood DEF IInv, TypeOK
<1>2. ASSUME NEW a \in Address, NEW k \in Slot, NEW v \in Word, SetTransientState(a, k, v)
      PROVE  IInv'
  BY <1>1, <1>2, SetTransientStep, SetPreserves DEF SetTransientState
<1>3. ASSUME AddLog PROVE IInv'
  BY <1>1, <1>3, AddLogStep, SetPreserves DEF AddLog
<1>4. ASSUME NEW a \in Address, AddAddressToAccessList(a) PROVE IInv'
  BY <1>1, <1>4, WarmAddressStep, SetPreserves DEF AddAddressToAccessList
<1>5. ASSUME NEW m \in Module, NEW asm \in AsmMap, ActivateWasm(m, asm) PROVE IInv'
  BY <1>1, <1>5, ActivateWasmStep, SetPreserves DEF ActivateWasm
<1> QED BY <1>2, <1>3, <1>4, <1>5, ExpectPreserves, RefundPreserves, WarmPreserves, PreparePreserves
           DEF OtherCall
=============================================================================
