---------------------------- MODULE PathDBReads -----------------------------
(***************************************************************************)
(* What the buffers of the path database hold, and what its readers get.   *)
(***************************************************************************)
EXTENDS PathDBLine, WellFoundedInduction

\* Zenon is the prover of a leaf that names none: it is enough for first-order steps,
\* and the leaves that need arithmetic, records or sequences name SMT.
USE Zenon

-----------------------------------------------------------------------------
(* Sets of numbers.                                                        *)

\* A nonempty set of naturals has a least element.
LEMMA LeastIs ==
    ASSUME NEW S, S \subseteq Nat, S # {}
    PROVE  Least(S) \in S /\ \A m \in S : Least(S) <= m
  <1> DEFINE R == OpToRel(<, Nat)
  <1>1. IsWellFoundedOn(R, Nat)
    BY NatLessThanWellFounded
  <1>2. \A x, y \in Nat : x < y => <<x, y>> \in R
    BY DEF OpToRel
  <1> HIDE DEF R
  <1>3. PICK x \in S : \A y \in S : ~ (<<y, x>> \in R)
    BY <1>1, WFMin
  <1>4. \A y \in S : y \in Nat
    OBVIOUS
  <1>5. \A y \in S : ~(y < x)
    BY <1>2, <1>3, <1>4
  <1>6. \A y \in S : x <= y
    BY <1>4, <1>5, SMT
  <1> QED BY <1>6 DEF Least

\* So has a nonempty set of naturals with a bound a greatest one.
LEMMA GreatestIs ==
    ASSUME NEW n \in Nat, NEW S, S \subseteq 0..n, S # {}
    PROVE  Greatest(S) \in S /\ \A m \in S : m <= Greatest(S)
  <1> DEFINE T == {x \in Nat : n - x \in S}
  <1>1. \A m \in S : m \in 0..n /\ n - m \in Nat /\ n - (n - m) = m
    BY SMT
  <1>2. T \subseteq Nat /\ T # {} /\ \A m \in S : n - m \in T
    BY <1>1
  <1> DEFINE l == Least(T)
  <1>3. l \in T /\ \A m \in T : l <= m
    BY <1>2, LeastIs
  <1> HIDE DEF l
  <1>4. n - l \in S
    BY <1>3
  <1>5. \A m \in S : l <= n - m
    BY <1>2, <1>3
  <1> HIDE DEF T
  <1>6. l \in Nat
    BY <1>2, <1>3
  <1>7. \A m \in S : m <= n - l
    BY <1>1, <1>5, <1>6, SMT
  <1> QED BY <1>4, <1>7 DEF Greatest

-----------------------------------------------------------------------------
(* The states.                                                             *)

\* Key k of state r was written at depth i.
WrittenAt(r, k, i) ==
    /\ StateOf[r][k] = At(r, i)
    /\ i = 0 \/ k \in Changed[At(r, i)]
    /\ \A m \in (i + 1)..Depth[r] : k \notin Changed[At(r, m)]

\* Every key was written at some depth.
LEMMA Written ==
    ASSUME NEW r \in Root, NEW k \in Key
    PROVE  \E i \in 0..Depth[r] : WrittenAt(r, k, i)
  <1> DEFINE line == Line[r]
             S == {n \in 1..Len(line) : n = Len(line) \/ k \in Changed[line[n]]}
             n == Least(S)
  <1>1. Len(line) \in Nat /\ Len(line) > 0 /\ Depth[r] = Len(line) - 1
    BY TreeAssumption, SMT DEF Depth
  <1>2. StateOf[r][k] = line[n]
    BY DEF StateOf, Writer
  <1>3. S \subseteq Nat /\ Len(line) \in S
    BY <1>1, SMT
  <1>4. n \in S /\ \A m \in S : n <= m
    BY <1>3, LeastIs
  <1> HIDE DEF n
  <1> DEFINE i == Len(line) - n
  <1>5. n \in 1..Len(line) /\ (n = Len(line) \/ k \in Changed[line[n]])
    BY <1>4
  <1>6. i \in 0..Depth[r] /\ At(r, i) = line[n] /\ (i = 0 <=> n = Len(line))
    BY <1>1, <1>5, SMT DEF At
  <1>7. ASSUME NEW m \in (i + 1)..Depth[r] PROVE k \notin Changed[At(r, m)]
    <2> DEFINE x == Len(line) - m
    <2>1. x \in 1..Len(line) /\ x < n /\ At(r, m) = line[x]
      BY <1>1, <1>5, SMT DEF At
    <2>2. x \notin S
      BY <1>1, <1>4, <1>5, <2>1, SMT
    <2> QED BY <2>1, <2>2
  <1> QED BY <1>2, <1>5, <1>6, <1>7 DEF WrittenAt

\* It was written at only one.
LEMMA WrittenOnce ==
    ASSUME NEW r \in Root, NEW k \in Key, NEW i \in 0..Depth[r],
           i = 0 \/ k \in Changed[At(r, i)],
           \A m \in (i + 1)..Depth[r] : k \notin Changed[At(r, m)]
    PROVE  StateOf[r][k] = At(r, i)
  <1>1. PICK j \in 0..Depth[r] : WrittenAt(r, k, j)
    BY Written
  <1>2. Depth[r] \in Nat
    BY AtSelf
  <1>3. ~(i < j)
    BY <1>1, <1>2, SMT DEF WrittenAt
  <1>4. ~(j < i)
    BY <1>1, <1>2, SMT DEF WrittenAt
  <1>5. i = j
    BY <1>2, <1>3, <1>4, SMT
  <1> QED BY <1>1, <1>5 DEF WrittenAt

\* A state agrees with an ancestor on a key that no state between changed.
LEMMA Agreement ==
    ASSUME NEW r \in Root, NEW k \in Key, NEW i \in 0..Depth[r],
           \A m \in (i + 1)..Depth[r] : k \notin Changed[At(r, m)]
    PROVE  Agree(r, At(r, i), k)
  <1> DEFINE a == At(r, i)
  <1>1. a \in Root /\ Depth[a] = i /\ (\A j \in 0..i : At(a, j) = At(r, j)) /\ Depth[r] \in Nat
    BY AtAt, AtSelf
  <1> HIDE DEF a
  <1>2. PICK j \in 0..i : WrittenAt(a, k, j)
    BY <1>1, Written
  <1>3. j \in 0..Depth[r] /\ At(r, j) = At(a, j)
    BY <1>1, SMT
  <1>4. j = 0 \/ k \in Changed[At(r, j)]
    BY <1>2, <1>3 DEF WrittenAt
  <1>5. ASSUME NEW m \in (j + 1)..Depth[r] PROVE k \notin Changed[At(r, m)]
    <2>1. CASE m <= i
      BY <1>1, <1>2, <2>1, SMT DEF WrittenAt
    <2>2. CASE m > i
      BY <1>1, <2>2, SMT
    <2> QED BY <1>1, <2>1, <2>2, SMT
  <1>6. StateOf[r][k] = At(r, j)
    BY <1>3, <1>4, <1>5, WrittenOnce
  <1> QED BY <1>2, <1>3, <1>6 DEF WrittenAt, Agree, a

\* What a state holds.
LEMMA Content ==
    ASSUME NEW r \in Root
    PROVE  /\ StateOf[r] = [k \in Key |-> StateOf[r][k]]
           /\ \A k \in Key :
                 /\ StateOf[r][k] \in Root /\ StateOf[r][k] # None
                 /\ k \in Changed[r] => StateOf[r][k] = r
                 /\ r # Genesis /\ k \notin Changed[r] => StateOf[r][k] = StateOf[Parent[r]][k]
  <1>1. StateOf[r] = [k \in Key |-> StateOf[r][k]]
    BY DEF StateOf
  <1>2. Depth[r] \in Nat /\ At(r, Depth[r]) = r
    BY AtSelf
  <1> SUFFICES ASSUME NEW k \in Key
               PROVE  /\ StateOf[r][k] \in Root /\ StateOf[r][k] # None
                      /\ k \in Changed[r] => StateOf[r][k] = r
                      /\ r # Genesis /\ k \notin Changed[r] => StateOf[r][k] = StateOf[Parent[r]][k]
    BY <1>1
  <1>3. PICK i \in 0..Depth[r] : WrittenAt(r, k, i)
    BY Written
  <1>4. StateOf[r][k] \in Root /\ StateOf[r][k] # None
    BY <1>3, AtAt, PathDBAssumption, SMT DEF WrittenAt
  <1>5. ASSUME k \in Changed[r] PROVE StateOf[r][k] = r
    <2>1. Depth[r] \in 0..Depth[r] /\ (Depth[r] + 1)..Depth[r] = {}
      BY <1>2, SMT
    <2> QED BY <1>2, <1>5, <2>1, WrittenOnce
  <1>6. ASSUME r # Genesis, k \notin Changed[r] PROVE StateOf[r][k] = StateOf[Parent[r]][k]
    <2> DEFINE p == Depth[r] - 1
    <2>1. Parent[r] = At(r, p) /\ Depth[r] # 0
      BY <1>6, AtParent
    <2>2. p \in 0..Depth[r] /\ \A m \in (p + 1)..Depth[r] : m = Depth[r]
      BY <1>2, <2>1, SMT
    <2> QED BY <1>2, <1>6, <2>1, <2>2, Agreement, SMT DEF Agree
  <1> QED BY <1>4, <1>5, <1>6

-----------------------------------------------------------------------------
(* The buffers.                                                            *)

\* What is written joins the contents a power failure may bring back.
LEMMA PutVersions ==
    ASSUME NEW new, Put(new)
    PROVE  kv' = new /\ Versions' \subseteq Versions \cup {new}
  BY DEF Put, Versions

\* A buffer without values hides nothing; values of a state do not change it.
LEMMA OverSame ==
    ASSUME NEW r \in Root, NEW buf \in Values, Within(buf, r)
    PROVE  Over(buf, StateOf[r]) = StateOf[r]
  <1>1. StateOf[r] = [k \in Key |-> StateOf[r][k]]
    BY Content
  <1>2. \A k \in Key : (IF buf[k] # None THEN buf[k] ELSE StateOf[r][k]) = StateOf[r][k]
    BY DEF Within
  <1> QED BY <1>1, <1>2 DEF Over

\* Nothing is a buffer within every state.
LEMMA NothingHolds == Nothing \in Values /\ \A r : Within(Nothing, r)
  BY DEF Nothing, Values, Within

\* The bottom layer over the buffer is the state of the layer.
LEMMA MergeHolds ==
    ASSUME NEW r \in Root, r # Genesis, NEW b \in Root, NEW buf \in Values,
           Over(buf, StateOf[b]) = StateOf[Parent[r]]
    PROVE  Merge(buf, r) \in Values /\ Over(Merge(buf, r), StateOf[b]) = StateOf[r]
  <1>1. Merge(buf, r) \in Values /\ \A k \in Key : Merge(buf, r)[k] = IF k \in Changed[r] THEN r ELSE buf[k]
    BY DEF Merge, Values
  <1>2. r # None
    BY PathDBAssumption
  <1>3. ASSUME NEW k \in Key PROVE Over(Merge(buf, r), StateOf[b])[k] = StateOf[r][k]
    <2>1. Over(buf, StateOf[b])[k] = IF buf[k] # None THEN buf[k] ELSE StateOf[b][k]
      BY DEF Over
    <2>2. Over(Merge(buf, r), StateOf[b])[k]
            = IF Merge(buf, r)[k] # None THEN Merge(buf, r)[k] ELSE StateOf[b][k]
      BY DEF Over
    <2>3. CASE k \in Changed[r]
      BY <1>1, <1>2, <2>2, <2>3, Content
    <2>4. CASE k \notin Changed[r]
      <3>1. StateOf[r][k] = StateOf[Parent[r]][k]
        BY <2>4, Content
      <3> QED BY <1>1, <2>1, <2>2, <2>4, <3>1
    <2> QED BY <2>3, <2>4
  <1>4. StateOf[r] = [k \in Key |-> StateOf[r][k]]
    BY Content
  <1>5. Over(Merge(buf, r), StateOf[b]) = [k \in Key |-> Over(Merge(buf, r), StateOf[b])[k]]
    BY DEF Over
  <1> QED BY <1>1, <1>3, <1>4, <1>5

\* With the values that a transition replaced, a buffer gives the state before.
LEMMA OriginHolds ==
    ASSUME NEW r \in Root, r # Genesis, NEW b \in Root, NEW buf \in Values,
           Over(buf, StateOf[b]) = StateOf[r]
    PROVE  Origin(buf, r) \in Values /\ Over(Origin(buf, r), StateOf[b]) = StateOf[Parent[r]]
  <1>1. Parent[r] \in Root
    BY AtParent
  <1>2. /\ \A k \in Key : Origin(buf, r)[k] = IF k \in Changed[r] THEN StateOf[Parent[r]][k] ELSE buf[k]
        /\ Origin(buf, r) = [k \in Key |-> Origin(buf, r)[k]]
    BY DEF Origin
  <1>3. Origin(buf, r) \in Values
    <2>1. \A k \in Key : Origin(buf, r)[k] \in Root \cup {None}
      BY <1>1, <1>2, Content DEF Values
    <2> QED BY <1>2, <2>1 DEF Values
  <1>4. ASSUME NEW k \in Key PROVE Over(Origin(buf, r), StateOf[b])[k] = StateOf[Parent[r]][k]
    <2>1. Over(buf, StateOf[b])[k] = IF buf[k] # None THEN buf[k] ELSE StateOf[b][k]
      BY DEF Over
    <2>2. Over(Origin(buf, r), StateOf[b])[k]
            = IF Origin(buf, r)[k] # None THEN Origin(buf, r)[k] ELSE StateOf[b][k]
      BY DEF Over
    <2>3. CASE k \in Changed[r]
      <3>1. StateOf[Parent[r]][k] # None
        BY <1>1, Content
      <3> QED BY <1>2, <2>2, <2>3, <3>1
    <2>4. CASE k \notin Changed[r]
      <3>1. StateOf[r][k] = StateOf[Parent[r]][k]
        BY <2>4, Content
      <3> QED BY <1>2, <2>1, <2>2, <2>4, <3>1
    <2> QED BY <2>3, <2>4
  <1>5. StateOf[Parent[r]] = [k \in Key |-> StateOf[Parent[r]][k]]
    BY <1>1, Content
  <1>6. Over(Origin(buf, r), StateOf[b]) = [k \in Key |-> Over(Origin(buf, r), StateOf[b])[k]]
    BY DEF Over
  <1> QED BY <1>3, <1>4, <1>5, <1>6

\* The values that a transition replaced turn a state into the one before, and
\* values of the one into values of the other.
LEMMA OriginState ==
    ASSUME NEW r \in Root, r # Genesis, NEW buf \in Values, Within(buf, r)
    PROVE  /\ Origin(StateOf[r], r) = StateOf[Parent[r]]
           /\ Origin(buf, r) \in Values /\ Within(Origin(buf, r), Parent[r])
  <1>1. Parent[r] \in Root
    BY AtParent
  <1>2. \A k \in Key : /\ StateOf[Parent[r]][k] \in Root
                       /\ k \notin Changed[r] => StateOf[r][k] = StateOf[Parent[r]][k]
    BY <1>1, Content
  <1>3. StateOf[Parent[r]] = [k \in Key |-> StateOf[Parent[r]][k]]
    BY <1>1, Content
  <1>4. Origin(StateOf[r], r) = StateOf[Parent[r]]
    BY <1>2, <1>3 DEF Origin
  <1>5. Origin(buf, r) \in Values /\ Within(Origin(buf, r), Parent[r])
    BY <1>2 DEF Origin, Values, Within
  <1> QED BY <1>4, <1>5

\* A step that leaves the buffers alone leaves them right.
LEMMA SameContent ==
    ASSUME BuffersHold, JournalHolds, UNCHANGED <<kv, base, frozen, cache, up>>,
           Versions' \subseteq Versions
    PROVE  BuffersHold' /\ JournalHolds'
  BY DEF BuffersHold, JournalHolds, Below, Buffered

\* writeStateHistory stores ids, which are no part of the states.
LEMMA PruneHistoryContent ==
    ASSUME IInv, BuffersHold, JournalHolds, PruneHistory PROVE BuffersHold' /\ JournalHolds'
  <1> DEFINE new == [kv EXCEPT !.ids = StoredIds]
  <1>1. Put(new)
    BY DEF PruneHistory
  <1>2. kv' = new /\ Versions' \subseteq Versions \cup {new} /\ VersionOk(kv)
    BY <1>1, PutVersions, BaseFacts
  <1>3. new.data = kv.data /\ new.root = kv.root /\ new.journal = kv.journal
    BY <1>2 DEF VersionOk
  <1>4. UNCHANGED <<base, frozen, cache, up>>
    BY DEF PruneHistory
  <1>5. \A v \in Versions' : v.data = StateOf[v.root]
    BY <1>2, <1>3, ZenonT(30) DEF BuffersHold, Versions
  <1> HIDE DEF new
  <1> QED BY <1>2, <1>3, <1>4, <1>5 DEF BuffersHold, JournalHolds, Below, Buffered

\* The bottom layer is merged into the live buffer, which may be frozen.
LEMMA MergeLayerContent ==
    ASSUME IInv, BuffersHold, JournalHolds, MergeLayer PROVE BuffersHold' /\ JournalHolds'
  <1> DEFINE r == Bottom
             buf == Merge(base.buf, r)
  <1>1. /\ job.pc = "merge" /\ job.todo # <<>> /\ job.todo \in Seq(Root) /\ Parent[r] = base.root
        /\ r # Genesis /\ up
    BY DEF MergeLayer, Running, IInv, JobOk, Consecutive
  <1>2. r \in Root
    BY <1>1, SMT DEF Bottom
  <1>3. kv.root \in Root /\ (Buffered => frozen.root \in Root)
    BY BaseFacts DEF IInv, BuffersOk, IsAncestor
  <1>4. buf \in Values /\ Over(buf, StateOf[Below]) = StateOf[r]
    BY <1>1, <1>2, <1>3, MergeHolds, SMT DEF BuffersHold, Below
  <1>5. UNCHANGED <<kv, older, cache, up>>
    BY DEF MergeLayer, histories
  <1>6. PICK full \in BOOLEAN :
          LET freeze == full \/ job.flush
          IN  /\ freeze => Flushed
              /\ frozen' = IF freeze THEN [phase |-> "frozen", buf |-> buf, layers |-> base.layers + 1,
                                           id |-> Depth[r], root |-> r]
                           ELSE frozen
              /\ base' = [root |-> r, id |-> Depth[r], buf |-> IF freeze THEN Nothing ELSE buf,
                          layers |-> IF freeze THEN 0 ELSE base.layers + 1]
    BY DEF MergeLayer
  <1> HIDE DEF r, buf
  <1>7. JournalHolds' /\ \A v \in Versions' : v.data = StateOf[v.root]
    BY <1>5 DEF JournalHolds, BuffersHold, Versions
  <1>8. CASE full \/ job.flush
    <2>1. ~Buffered /\ Below = kv.root
      BY <1>6, <1>8 DEF Flushed, Buffered, Below
    <2>2. /\ frozen'.phase = "frozen" /\ frozen'.buf = buf /\ frozen'.root = r
          /\ base'.root = r /\ base'.buf = Nothing
      BY <1>6, <1>8
    <2>3. Buffered' /\ Below' = r
      BY <2>2 DEF Buffered, Below
    <2>4. Over(base'.buf, StateOf[Below']) = StateOf[base'.root] /\ base'.buf \in Values
      BY <1>2, <2>2, <2>3, NothingHolds, OverSame
    <2> QED BY <1>4, <1>5, <1>7, <2>1, <2>2, <2>3, <2>4 DEF BuffersHold
  <1>9. CASE ~(full \/ job.flush)
    <2>1. frozen' = frozen /\ base'.root = r /\ base'.buf = buf /\ base'.layers = base.layers + 1
      BY <1>6, <1>9
    <2>2. base'.layers # 0
      BY <2>1, BaseFacts, SMT
    <2>3. Buffered' = Buffered /\ Below' = Below
      BY <1>5, <2>1 DEF Buffered, Below
    <2> QED BY <1>4, <1>5, <1>7, <2>1, <2>2, <2>3 DEF BuffersHold
  <1> QED BY <1>8, <1>9

\* The histories are synced; the frozen buffer is the same.
LEMMA FlushSyncContent ==
    ASSUME IInv, BuffersHold, JournalHolds, FlushSync PROVE BuffersHold' /\ JournalHolds'
  <1>1. /\ frozen.phase = "frozen" /\ UNCHANGED <<kv, older, up, base, cache>>
        /\ frozen' \in {[frozen EXCEPT !.phase = "failed"], [frozen EXCEPT !.phase = "synced"]}
        /\ kv.id + frozen.layers # frozen.id => frozen' = [frozen EXCEPT !.phase = "failed"]
        /\ kv.id + frozen.layers = frozen.id => frozen' = [frozen EXCEPT !.phase = "synced"]
    BY DEF FlushSync
  <1>2. Buffered /\ frozen.id = kv.id + frozen.layers
    BY <1>1 DEF Buffered, IInv, BuffersOk
  <1>3. frozen = [phase |-> frozen.phase, buf |-> frozen.buf, layers |-> frozen.layers,
                  id |-> frozen.id, root |-> frozen.root]
    BY DEF IInv, BuffersOk
  <1>4. frozen'.phase = "synced" /\ frozen'.buf = frozen.buf /\ frozen'.root = frozen.root
    BY <1>1, <1>2, <1>3
  <1>5. Buffered' /\ Below' = Below
    BY <1>2, <1>4 DEF Buffered, Below
  <1> QED BY <1>1, <1>2, <1>4, <1>5 DEF BuffersHold, JournalHolds, Versions

\* The frozen buffer is written to disk.
LEMMA FlushWriteContent ==
    ASSUME IInv, BuffersHold, JournalHolds, FlushWrite PROVE BuffersHold' /\ JournalHolds'
  <1> DEFINE new == [kv EXCEPT !.data = Over(frozen.buf, @), !.root = frozen.root, !.id = frozen.id]
  <1>1. /\ frozen.phase = "synced" /\ frozen' = [frozen EXCEPT !.phase = "done"]
        /\ cache' = Over(frozen.buf, cache) /\ Put(new) /\ UNCHANGED <<base, up>> /\ up
    BY DEF FlushWrite, histories, Running
  <1>2. kv' = new /\ Versions' \subseteq Versions \cup {new} /\ VersionOk(kv) /\ kv \in Versions
    BY <1>1, PutVersions, BaseFacts, SMT DEF Versions
  <1>3. kv.data = StateOf[kv.root] /\ kv.root \in Root
    BY <1>2, BaseFacts DEF BuffersHold
  <1>4. Buffered /\ frozen.root \in Root
    BY <1>1 DEF Buffered, IInv, BuffersOk, IsAncestor
  <1>5. new.data = StateOf[frozen.root] /\ new.root = frozen.root /\ new.journal = kv.journal
    BY <1>2, <1>3, <1>4 DEF VersionOk, BuffersHold
  <1>6. frozen = [phase |-> frozen.phase, buf |-> frozen.buf, layers |-> frozen.layers,
                  id |-> frozen.id, root |-> frozen.root]
    BY DEF IInv, BuffersOk
  <1>7. frozen'.phase = "done" /\ frozen'.buf = frozen.buf
    BY <1>1, <1>6
  <1>8. ~Buffered' /\ Below' = frozen.root /\ Below = frozen.root
    BY <1>2, <1>4, <1>5, <1>7 DEF Buffered, Below
  <1>9. \A v \in Versions' : v.data = StateOf[v.root]
    BY <1>2, <1>5 DEF BuffersHold
  <1>10. Within(frozen.buf, frozen.root)
    BY <1>4, SMT DEF BuffersHold, Over, Within
  <1>11. cache' \in Values /\ Within(cache', frozen.root)
    <2>1. \A k \in Key : /\ cache'[k] = IF frozen.buf[k] # None THEN frozen.buf[k] ELSE cache[k]
                         /\ StateOf[frozen.root][k] = IF frozen.buf[k] # None THEN frozen.buf[k]
                                                      ELSE StateOf[kv.root][k]
      BY <1>1, <1>4 DEF BuffersHold, Over
    <2>2. \A k \in Key : cache'[k] \in {None, StateOf[frozen.root][k]}
      BY <2>1 DEF BuffersHold, Within
    <2>3. cache' \in Values
      BY <1>1 DEF BuffersHold, Values, Over
    <2> QED BY <2>2, <2>3 DEF Within
  <1> HIDE DEF new
  <1>12. BuffersHold'
    BY <1>1, <1>2, <1>4, <1>5, <1>7, <1>8, <1>9, <1>10, <1>11 DEF BuffersHold
  <1> QED BY <1>2, <1>5, <1>12 DEF JournalHolds

\* A transition is undone in the live buffer or on disk.
LEMMA RevertContent ==
    ASSUME IInv, BuffersHold, JournalHolds, Revert PROVE BuffersHold' /\ JournalHolds'
  <1> DEFINE to == Parent[base.root]
  <1>1. UNCHANGED up /\ up
    BY DEF Revert, Running, histories
  <1>2. CASE base.id = 0 \/ items[base.id] # base.root
    <2>1. UNCHANGED <<kv, older, base, frozen, cache>>
      BY <1>2 DEF Revert
    <2> QED BY <1>1, <2>1, SameContent DEF Versions
  <1>3. CASE ~(base.id = 0 \/ items[base.id] # base.root)
    <2>1. /\ base.root \in Root /\ base.id = Depth[base.root] /\ base.root # Genesis /\ base.id \in Nat
          /\ kv.root \in Root /\ kv.id = Depth[kv.root] /\ base.layers \in Nat /\ kv.id \in Nat
      BY <1>3, BaseFacts, AtParent
    <2>2. to \in Root /\ to = At(base.root, base.id - 1) /\ Depth[to] = base.id - 1
      BY <2>1, AtParent
    <2>3. Below \in Root /\ IsAncestor(Below, base.root) /\ base.id = Depth[Below] + base.layers
      <3>1. CASE Buffered
        <4>1. /\ IsAncestor(frozen.root, base.root) /\ frozen.id = Depth[frozen.root]
              /\ frozen.id = kv.id + frozen.layers
              /\ base.id = kv.id + base.layers + frozen.layers /\ frozen.layers \in Nat
          BY <1>1, <3>1 DEF IInv, BuffersOk
        <4>2. frozen.root \in Root /\ base.id = frozen.id + base.layers
          BY <2>1, <4>1, SMT DEF IsAncestor
        <4> QED BY <3>1, <4>1, <4>2 DEF Below
      <3>2. CASE ~Buffered
        <4>1. IsAncestor(kv.root, base.root) /\ base.id = kv.id + base.layers + 0
          BY <1>1, <3>2 DEF IInv, BuffersOk
        <4> QED BY <2>1, <3>2, <4>1, SMT DEF Below
      <3> QED BY <3>1, <3>2
    <2>5. /\ base.layers = 0 => Below = base.root
          /\ base.layers = 1 => Below = to
      <3>1. Depth[Below] \in Nat /\ At(base.root, Depth[Below]) = Below
        BY <2>3, AtSelf DEF IsAncestor
      <3>2. At(base.root, base.id) = base.root
        BY <2>1, AtSelf
      <3>3. base.layers = 0 => Depth[Below] = base.id
        BY <2>1, <2>3, <3>1, SMT
      <3>4. base.layers = 1 => Depth[Below] = base.id - 1
        BY <2>1, <2>3, <3>1, SMT
      <3> QED BY <2>2, <3>1, <3>2, <3>3, <3>4
    <2>6. Over(base.buf, StateOf[Below]) = StateOf[base.root] /\ base.buf \in Values
      BY <1>1 DEF BuffersHold
    <2>7. Origin(base.buf, base.root) \in Values
          /\ Over(Origin(base.buf, base.root), StateOf[Below]) = StateOf[to]
      BY <2>1, <2>3, <2>6, OriginHolds
    <2>8. CASE base.layers > 0
      <3> DEFINE buf == IF base.layers <= 1 THEN Nothing ELSE Origin(base.buf, base.root)
      <3>1. /\ base' = [root |-> to, id |-> base.id - 1, buf |-> buf, layers |-> base.layers - 1]
            /\ UNCHANGED <<kv, older, frozen, cache>>
        BY <1>3, <2>8 DEF Revert
      <3>2. buf \in Values /\ Over(buf, StateOf[Below]) = StateOf[to]
        <4>1. CASE base.layers <= 1
          <5>1. Below = to /\ buf = Nothing
            BY <2>1, <2>5, <2>8, <4>1, SMT
          <5> QED BY <2>2, <5>1, NothingHolds, OverSame
        <4>2. CASE ~(base.layers <= 1)
          BY <2>7, <4>2
        <4> QED BY <4>1, <4>2
      <3>3. base'.layers = 0 => buf = Nothing
        BY <2>1, <3>1, SMT
      <3> HIDE DEF buf
      <3>4. base'.root = to /\ base'.buf = buf
        BY <3>1
      <3>5. Below' = Below /\ Buffered' = Buffered
        BY <3>1 DEF Below, Buffered
      <3>6. Versions' = Versions
        BY <3>1 DEF Versions
      <3> QED BY <1>1, <3>1, <3>2, <3>3, <3>4, <3>5, <3>6 DEF BuffersHold, JournalHolds
    <2>9. CASE base.layers = 0
      <3> DEFINE new == [kv EXCEPT !.data = Origin(@, base.root), !.root = to, !.id = base.id - 1]
      <3>1. /\ Flushed /\ frozen' = NotFrozen /\ Put(new)
            /\ cache' = Origin(cache, base.root)
            /\ base' = [base EXCEPT !.root = to, !.id = @ - 1]
        BY <1>3, <2>9, SMT DEF Revert
      <3>2. kv' = new /\ Versions' \subseteq Versions \cup {new} /\ VersionOk(kv) /\ kv \in Versions
        BY <3>1, PutVersions, BaseFacts, SMT DEF Versions
      <3>3. ~Buffered /\ kv.root = base.root
        BY <2>5, <2>9, <3>1 DEF Flushed, Buffered, Below
      <3>4. kv.data = StateOf[base.root]
        BY <3>2, <3>3 DEF BuffersHold
      <3>5. cache \in Values /\ Within(cache, base.root) /\ base.buf = Nothing
        BY <2>9, <3>3 DEF BuffersHold
      <3>6. /\ Origin(StateOf[base.root], base.root) = StateOf[to]
            /\ cache' \in Values /\ Within(cache', to)
        BY <2>1, <3>1, <3>5, OriginState
      <3>7. new.data = StateOf[to] /\ new.root = to /\ new.journal = kv.journal
        BY <3>2, <3>4, <3>6 DEF VersionOk
      <3>8. base'.root = to /\ base'.buf = Nothing
        <4>1. base = [root |-> base.root, id |-> base.id, buf |-> base.buf, layers |-> base.layers]
          BY DEF IInv, BuffersOk
        <4> QED BY <3>1, <3>5, <4>1
      <3>9. ~Buffered' /\ frozen'.buf = Nothing /\ Below' = to
        <4>1. frozen'.phase = "none" /\ frozen'.buf = Nothing
          BY <3>1 DEF NotFrozen
        <4> QED BY <3>2, <3>7, <4>1 DEF Buffered, Below
      <3>10. \A v \in Versions' : v.data = StateOf[v.root]
        BY <3>2, <3>7 DEF BuffersHold
      <3>11. Over(Nothing, StateOf[to]) = StateOf[to] /\ Nothing \in Values /\ Within(Nothing, to)
        BY <2>2, NothingHolds, OverSame
      <3> HIDE DEF new
      <3>12. BuffersHold'
        BY <1>1, <3>2, <3>6, <3>7, <3>8, <3>9, <3>10, <3>11 DEF BuffersHold
      <3> QED BY <3>2, <3>7, <3>12 DEF JournalHolds
    <2> QED BY <2>1, <2>8, <2>9, SMT
  <1> QED BY <1>2, <1>3

\* While the node is down nothing is buffered.
LEMMA ForgetContent ==
    ASSUME IInv, Forget, \A v \in Versions' : v.data = StateOf[v.root], kv'.root \in Root,
           JournalHolds'
    PROVE  BuffersHold' /\ JournalHolds'
  <1>1. /\ ~up' /\ base'.buf = Nothing /\ frozen' = NotFrozen /\ cache' = Nothing
    BY DEF Forget
  <1>2. frozen'.phase = "none" /\ frozen'.buf = Nothing
    BY <1>1 DEF NotFrozen
  <1>3. ~Buffered'
    BY <1>2 DEF Buffered
  <1> QED BY <1>1, <1>2, <1>3, NothingHolds DEF BuffersHold

\* What a failure leaves holds the state it is said to hold.
LEMMA CrashContent ==
    ASSUME IInv, BuffersHold, JournalHolds, Crash PROVE BuffersHold' /\ JournalHolds'
  <1>1. PICK v \in Versions : kv' = v
    BY DEF Crash, Versions
  <1>2. older' = {} /\ Forget
    BY DEF Crash
  <1>3. v.data = StateOf[v.root] /\ v.root \in Root /\ v.journal = kv.journal
    BY <1>1 DEF BuffersHold, IInv, VersionOk, On
  <1>4. \A w \in Versions' : w = v
    BY <1>1, <1>2 DEF Versions
  <1>5. JournalHolds'
    BY <1>1, <1>3 DEF JournalHolds
  <1> QED BY <1>1, <1>2, <1>3, <1>4, <1>5, ForgetContent

\* The journal takes the live buffer over the persistent state.
LEMMA StopContent ==
    ASSUME IInv, BuffersHold, JournalHolds, NEW r \in Root, Stop(r) PROVE BuffersHold' /\ JournalHolds'
  <1> DEFINE new == [kv EXCEPT !.journal = JournalOf(r)]
  <1>1. /\ up /\ Flushed /\ kv' \in {kv, new} /\ older' = {} /\ Forget
    BY DEF Stop, Running
  <1>2. VersionOk(kv) /\ kv \in Versions /\ kv.root \in Root /\ kv.data = StateOf[kv.root]
    BY BaseFacts DEF BuffersHold
  <1>3. new.data = kv.data /\ new.root = kv.root /\ new.journal = JournalOf(r)
    BY <1>2 DEF VersionOk
  <1>4. ~Buffered /\ Below = kv.root
    BY <1>1 DEF Flushed, Buffered, Below
  <1>5. Over(base.buf, StateOf[kv.root]) = StateOf[base.root] /\ base.buf \in Values
    BY <1>1, <1>4 DEF BuffersHold
  <1>6. base.id = Depth[kv.root] => base.buf = Nothing
    <2>1. base.id = kv.id + base.layers + 0
      BY <1>1, <1>4 DEF IInv, BuffersOk
    <2>2. base.id = Depth[kv.root] => base.layers = 0
      BY <2>1, BaseFacts, SMT
    <2> QED BY <2>2 DEF BuffersHold
  <1> HIDE DEF new
  <1>7. JournalHolds'
    <2>1. CASE kv' = kv
      BY <2>1 DEF JournalHolds
    <2>2. CASE kv' = new
      BY <1>2, <1>3, <1>5, <1>6, <2>2, SMT DEF JournalHolds, JournalOf
    <2> QED BY <1>1, <2>1, <2>2
  <1>8. kv'.data = kv.data /\ kv'.root = kv.root
    BY <1>1, <1>3
  <1>9. \A v \in Versions' : v = kv'
    BY <1>1 DEF Versions
  <1> QED BY <1>1, <1>2, <1>7, <1>8, <1>9, ForgetContent

\* The disk layer of the journal, or of the persistent state alone.
LEMMA OpenContent ==
    ASSUME IInv, BuffersHold, JournalHolds, Open PROVE BuffersHold' /\ JournalHolds'
  <1> DEFINE j == kv.journal
             load == j # None /\ j.disk = kv.root /\ kv.id <= j.id
  <1>1. /\ ~up /\ up' /\ UNCHANGED <<kv, older, frozen, cache>>
        /\ load => base' = LoadDiskLayer(j)
        /\ ~load => base' = [root |-> kv.root, id |-> kv.id, buf |-> Nothing, layers |-> 0]
    BY DEF Open
  <1>2. frozen = NotFrozen /\ cache = Nothing /\ kv.root \in Root /\ kv.id = Depth[kv.root]
    BY <1>1, BaseFacts DEF IInv, DownOk, BuffersHold
  <1>3. frozen.phase = "none" /\ frozen.buf = Nothing
    BY <1>2 DEF NotFrozen
  <1>4. ~Buffered /\ ~Buffered' /\ Below' = kv.root
    BY <1>1, <1>3 DEF Buffered, Below
  <1>5. Versions' = Versions /\ JournalHolds'
    BY <1>1 DEF Versions, JournalHolds
  <1>6. /\ base'.buf \in Values
        /\ Over(base'.buf, StateOf[kv.root]) = StateOf[base'.root]
        /\ base'.layers = 0 => base'.buf = Nothing
    <2>1. CASE load
      <3>1. base'.buf = j.buf /\ base'.root = j.root /\ base'.layers = j.id - kv.id
        BY <1>1, <2>1, SMT DEF LoadDiskLayer
      <3>2. j.id \in Nat /\ kv.id \in Nat
        BY <2>1, BaseFacts, AtSelf DEF IInv, JournalOk
      <3>3. base'.layers = 0 => j.id = Depth[j.disk]
        BY <1>2, <2>1, <3>1, <3>2, SMT
      <3> QED BY <2>1, <3>1, <3>3 DEF JournalHolds
    <2>2. CASE ~load
      <3>1. base'.buf = Nothing /\ base'.root = kv.root
        BY <1>1, <2>2, SMT
      <3> QED BY <1>2, <3>1, NothingHolds, OverSame
    <2> QED BY <2>1, <2>2
  <1> QED BY <1>1, <1>2, <1>3, <1>4, <1>5, <1>6, NothingHolds DEF BuffersHold

\* A reader puts what it read from disk into the clean cache.
LEMMA FillCacheContent ==
    ASSUME IInv, BuffersHold, JournalHolds, ReaderOk, FillCache PROVE BuffersHold' /\ JournalHolds'
  <1>1. /\ rd.pc = "fill" /\ cache' = [cache EXCEPT ![rd.key] = rd.val] /\ up
        /\ UNCHANGED <<kv, older, base, frozen, up>>
    BY DEF FillCache, Running, histories
  <1>2. rd.key \in Key /\ rd.val = kv.data[rd.key] /\ kv.data = StateOf[kv.root] /\ kv.root \in Root
    BY <1>1, BaseFacts DEF ReaderOk, BuffersHold
  <1>3. rd.val = StateOf[kv.root][rd.key] /\ rd.val \in Root
    <2>1. \A k \in Key : StateOf[kv.root][k] \in Root
      BY <1>2, Content
    <2> QED BY <1>2, <2>1
  <1>4. cache \in Values /\ Within(cache, kv.root)
    BY DEF BuffersHold
  <1>5. cache' \in Values /\ Within(cache', kv.root)
    BY <1>1, <1>2, <1>3, <1>4 DEF Values, Within
  <1>6. Versions' = Versions /\ Buffered' = Buffered /\ Below' = Below
    BY <1>1 DEF Versions, Buffered, Below
  <1> QED BY <1>1, <1>5, <1>6 DEF BuffersHold, JournalHolds

\* The buffers over the cache over the disk are the state of the disk layer.
LEMMA ContentHolds == IInv /\ BuffersHold => DiskContent
  <1> SUFFICES ASSUME IInv, BuffersHold PROVE DiskContent
    OBVIOUS
  <1>1. kv.data = StateOf[kv.root] /\ kv.root \in Root
    BY BaseFacts DEF BuffersHold
  <1>2. Over(cache, kv.data) = StateOf[kv.root]
    BY <1>1, OverSame, SMT DEF BuffersHold
  <1>3. Over(frozen.buf, StateOf[kv.root]) = StateOf[Below]
    BY <1>1, OverSame DEF BuffersHold, Below
  <1> QED BY <1>1, <1>2, <1>3 DEF DiskContent, BuffersHold

\* The buffers, the disk and the journal hold what they are said to.
LEMMA ContentInv ==
    ASSUME IInv, BuffersHold, JournalHolds, ReaderOk, [Next]_vars PROVE BuffersHold' /\ JournalHolds'
  <1>1. CASE \/ PruneHistory \/ MergeLayer \/ FlushSync \/ FlushWrite \/ Revert \/ Crash
             \/ (\E r \in Root : Stop(r)) \/ Open \/ FillCache
    BY <1>1, PruneHistoryContent, MergeLayerContent, FlushSyncContent, FlushWriteContent,
       RevertContent, CrashContent, StopContent, OpenContent, FillCacheContent
  <1>2. CASE SyncRecovered
    <2>1. UNCHANGED <<kv, base, frozen, cache, up>> /\ Versions' \subseteq Versions
      BY <1>2 DEF SyncRecovered, histories, Versions
    <2> QED BY <2>1, SameContent
  <1>3. CASE \/ \E r \in Root : Update(r) \/ Commit(r) \/ Recover(r)
             \/ \E r \in Root, k \in Key, flat \in BOOLEAN : OpenReader(r, k, flat)
             \/ WriteHistory \/ FinishCap \/ FinishCommit \/ FinishRecover \/ Repair
             \/ LookupLayer \/ ReadBase \/ WalkLayers \/ LoadValue \/ CloseReader \/ UNCHANGED vars
    <2>1. UNCHANGED <<kv, older, base, frozen, cache, up>>
      BY <1>3 DEF Update, Commit, Recover, OpenReader, WriteHistory, FinishCap, FinishCommit,
         FinishRecover, Repair, LookupLayer, ReadBase, WalkLayers, LoadValue, CloseReader, vars,
         histories
    <2>2. Versions' \subseteq Versions
      BY <2>1 DEF Versions
    <2> QED BY <2>1, <2>2, SameContent
  <1> QED BY <1>1, <1>2, <1>3 DEF Next, Operation, OperationStep, FlushStep, ReaderStep, StartStep

\* What reading the disk layer gives.
LEMMA DiskValue ==
    ASSUME IInv, BuffersHold, up, NEW k \in Key
    PROVE  LET v == Over(base.buf, Over(frozen.buf, cache))[k]
           IN  /\ v # None => v = StateOf[base.root][k]
               /\ v = None => base.buf[k] = None /\ frozen.buf[k] = None
               /\ base.buf[k] = None /\ frozen.buf[k] = None => kv.data[k] = StateOf[base.root][k]
  <1> DEFINE v == Over(base.buf, Over(frozen.buf, cache))[k]
             w == Over(base.buf, Over(frozen.buf, Over(cache, kv.data)))[k]
  <1>1. kv.data = StateOf[kv.root] /\ w = StateOf[base.root][k]
    BY ContentHolds DEF DiskContent
  <1>2. /\ v = IF base.buf[k] # None THEN base.buf[k]
               ELSE IF frozen.buf[k] # None THEN frozen.buf[k] ELSE cache[k]
        /\ w = IF base.buf[k] # None THEN base.buf[k]
               ELSE IF frozen.buf[k] # None THEN frozen.buf[k]
               ELSE IF cache[k] # None THEN cache[k] ELSE kv.data[k]
    BY DEF Over
  <1>3. cache[k] \in {None, StateOf[kv.root][k]}
    BY DEF BuffersHold, Within
  <1> HIDE DEF v, w
  <1> QED BY <1>1, <1>2, <1>3 DEF v

-----------------------------------------------------------------------------
(* The readers.                                                            *)

\* Steps that leave the reader, the disk layer and the values below it alone.
LEMMA SameReader ==
    ASSUME ReaderOk, UNCHANGED <<rd, up, base>>, kv'.data = kv.data, frozen'.buf = frozen.buf,
           DiskRead => ~DiskLocked'
    PROVE  ReaderOk'
  BY DEF ReaderOk, DiskRead, ReadsRight

\* A reader that ends with a value of its state, or as stale, is right.
LEMMA AnswerOk ==
    ASSUME ReaderOk, rd.pc # "idle", NEW v, v \in {"stale", StateOf[rd.root][rd.key]},
           rd' = Answer(v), UNCHANGED <<up, base>>
    PROVE  ReaderOk'
  <1>1. rd' = [pc |-> "answered", root |-> rd.root, entry |-> rd.entry, found |-> rd.found,
               key |-> rd.key, val |-> v]
    BY DEF ReaderOk, Answer
  <1>2. /\ rd'.pc = "answered" /\ rd'.root = rd.root /\ rd'.entry = rd.entry /\ rd'.found = rd.found
        /\ rd'.key = rd.key /\ rd'.val = v
    BY <1>1, SMT
  <1> QED BY <1>1, <1>2 DEF ReaderOk, DiskRead, ReadsRight

\* A reader goes on to its next step.
LEMMA GoOn ==
    ASSUME ReaderOk, rd.pc # "idle", NEW pc \in {"lookup", "walk", "base", "disk"}, NEW found,
           rd' = [rd EXCEPT !.pc = pc, !.found = found], UNCHANGED <<up, base>>,
           pc = "base" /\ found = "disk" => Agree(base.root, rd.root, rd.key),
           pc = "disk" => /\ ~DiskLocked' /\ Agree(base.root, rd.root, rd.key)
                          /\ base.buf[rd.key] = None /\ frozen'.buf[rd.key] = None
    PROVE  ReaderOk'
  <1>1. rd' = [pc |-> pc, root |-> rd.root, entry |-> rd.entry, found |-> found,
               key |-> rd.key, val |-> rd.val]
    BY DEF ReaderOk
  <1>2. /\ rd'.pc = pc /\ rd'.root = rd.root /\ rd'.entry = rd.entry /\ rd'.found = found
        /\ rd'.key = rd.key /\ rd'.val = rd.val
    BY <1>1
  <1> QED BY <1>1, <1>2 DEF ReaderOk, DiskRead, ReadsRight

\* Reading the disk layer gives a value of its state.
LEMMA ReadDiskOk ==
    ASSUME IInv, BuffersHold, ReaderOk, rd.pc # "idle", Agree(base.root, rd.root, rd.key), ReadDisk,
           UNCHANGED <<frozen, base, job, up>>
    PROVE  ReaderOk'
  <1> DEFINE v == Over(base.buf, Over(frozen.buf, cache))[rd.key]
  <1>1. up /\ rd.root \in Root /\ rd.key \in Key
    BY DEF ReaderOk
  <1>2. ~DiskLocked /\ rd' = IF v # None THEN Answer(v) ELSE [rd EXCEPT !.pc = "disk"]
    BY DEF ReadDisk
  <1>3. \A k \in Key :
          LET x == Over(base.buf, Over(frozen.buf, cache))[k]
          IN  /\ x # None => x = StateOf[base.root][k]
              /\ x = None => base.buf[k] = None /\ frozen.buf[k] = None
    BY <1>1, DiskValue
  <1>4. /\ v # None => v = StateOf[base.root][rd.key]
        /\ v = None => base.buf[rd.key] = None /\ frozen.buf[rd.key] = None
    BY <1>1, <1>3
  <1> HIDE DEF v
  <1>5. CASE v # None
    <2>1. v = StateOf[rd.root][rd.key]
      BY <1>4, <1>5 DEF Agree
    <2> QED BY <1>2, <1>5, <2>1, AnswerOk
  <1>6. CASE v = None
    <2>1. rd' = [rd EXCEPT !.pc = "disk", !.found = rd.found]
      BY <1>2, <1>6 DEF ReaderOk
    <2>2. ~DiskLocked' /\ frozen'.buf[rd.key] = None
      BY <1>2, <1>4, <1>6 DEF DiskLocked
    <2> QED BY <1>4, <1>6, <2>1, <2>2, GoOn
  <1> QED BY <1>5, <1>6

\* The layer found in the indexes is the one that wrote the key.
LEMMA TipRight ==
    ASSUME IInv, TreeOk, ~Flattening, NEW r \in Root, NEW k \in Key
    PROVE  \/ Tip(k, r) = None
           \/ Tip(k, r) \in layers /\ Tip(k, r) = StateOf[r][k]
           \/ Tip(k, r) = base.root /\ Tip(k, r) \notin layers /\ Agree(base.root, r, k)
  <1> DEFINE list == lookup[k]
             b == base.root
             Hit(i) == list[i] = r \/ <<r, list[i]>> \in descendants
             hits == {i \in 1..Len(list) : Hit(i)}
  <1>1. /\ b \in Root /\ Depth[b] \in Nat /\ Floor = b /\ LayersClosed /\ DescendantsOk
        /\ Depth[r] \in Nat
    BY FloorFacts, AtSelf DEF TreeOk
  <1>2. Lists(list, k, layers) /\ list \in Seq(Root) /\ Len(list) \in Nat
    BY SMT DEF TreeOk, LookupOk
  <1>3. Tip(k, r) = IF hits # {} THEN list[Greatest(hits)]
                    ELSE IF b = r \/ <<r, b>> \in descendants THEN b ELSE None
    BY DEF Tip
  <1>4. hits \subseteq 1..Len(list) /\ \A i \in 1..Len(list) : i \in hits <=> Hit(i)
    OBVIOUS
  <1>5. \A l \in layers : /\ l \in Root /\ Depth[l] \in Nat /\ Depth[l] > Depth[b]
                          /\ \A a : Above(l, a) /\ Depth[a] > Depth[b] => a \in layers
    BY <1>1, LayerFacts
  <1> HIDE DEF list, hits
  <1>6. \A d \in descendants : Above(d[1], d[2]) /\ (Depth[d[2]] >= Depth[b] => d[1] \in layers)
    BY <1>1 DEF DescendantsOk
  <1>7. \A l \in layers, a \in Root : Above(l, a) /\ Depth[a] >= Depth[b] => <<l, a>> \in descendants
    BY <1>1 DEF DescendantsOk
  <1>8. ASSUME NEW a, <<r, a>> \in descendants, Depth[a] >= Depth[b] PROVE Above(r, a) /\ r \in layers
    <2> DEFINE d == <<r, a>>
    <2>1. d \in descendants /\ d[1] = r /\ d[2] = a
      BY <1>8
    <2> HIDE DEF d
    <2> QED BY <1>6, <1>8, <2>1
  \* A layer on the line of r that changed k is among the hits.
  <1>9. ASSUME r \in layers, NEW m \in (Depth[b] + 1)..Depth[r], k \in Changed[At(r, m)]
        PROVE  \E i \in hits : list[i] = At(r, m)
    <2> DEFINE c == At(r, m)
    <2>1. c \in layers
      BY <1>1, <1>9 DEF LayersClosed
    <2>2. PICK i \in 1..Len(list) : list[i] = c
      BY <1>2, <1>9, <2>1 DEF Lists
    <2>3. c = r \/ (Above(r, c) /\ Depth[c] >= Depth[b] /\ c \in Root)
      <3>1. CASE m = Depth[r]
        BY <3>1, AtSelf
      <3>2. CASE m # Depth[r]
        <4>1. m \in Nat /\ m < Depth[r] /\ m >= Depth[b]
          BY <1>1, <3>2, SMT
        <4> QED BY <4>1, AboveAt
      <3> QED BY <3>1, <3>2
    <2> HIDE DEF c
    <2>4. Hit(i)
      BY <1>7, <1>9, <2>2, <2>3
    <2>5. i \in hits
      BY <1>4, <2>2, <2>4
    <2> QED BY <2>2, <2>5 DEF c
  <1>10. CASE hits # {}
    <2> DEFINE g == Greatest(hits)
               a == list[g]
    <2>1. \A i \in 1..Len(list) : i \in 0..Len(list)
      BY <1>2, SMT
    <2>2. g \in hits /\ \A m \in hits : m <= g
      BY <1>2, <1>4, <1>10, <2>1, GreatestIs
    <2> HIDE DEF g
    <2>3. a \in layers /\ k \in Changed[a] /\ Hit(g) /\ g \in 1..Len(list)
      BY <1>2, <1>4, <2>2 DEF Lists
    <2>4. a \in Root /\ Depth[a] \in Nat /\ Depth[a] > Depth[b]
      BY <1>5, <2>3
    <2>5. a = StateOf[r][k]
      <3>1. CASE a = r
        <4>1. k \in Changed[r] => StateOf[r][k] = r
          BY Content
        <4> QED BY <2>3, <3>1, <4>1
      <3>2. CASE a # r
        <4>1. <<r, a>> \in descendants /\ Depth[a] >= Depth[b]
          BY <1>1, <2>3, <2>4, <3>2, SMT
        <4>2. Above(r, a) /\ r \in layers
          BY <1>8, <4>1
        <4>3. Depth[a] < Depth[r] /\ At(r, Depth[a]) = a /\ Depth[a] \in 0..Depth[r]
          BY <2>4, <4>2, AboveFacts, SMT
        <4>4. ASSUME NEW m \in (Depth[a] + 1)..Depth[r], k \in Changed[At(r, m)] PROVE FALSE
          <5> DEFINE c == At(r, m)
          <5>1. m \in (Depth[b] + 1)..Depth[r] /\ m \in 0..Depth[r] /\ Depth[a] \in 0..m
                /\ Depth[a] < m
            BY <1>1, <2>4, SMT
          <5>2. PICK i \in hits : list[i] = c
            BY <1>9, <4>2, <4>4, <5>1
          <5>3. c \in Root /\ Depth[c] = m /\ At(c, Depth[a]) = a
            BY <4>3, <5>1, AtAt
          <5> HIDE DEF c
          <5>4. Above(c, a)
            BY <2>4, <5>1, <5>3, AboveAt
          <5>5. i \in 1..Len(list) /\ Above(list[i], list[g])
            BY <1>4, <5>2, <5>4
          <5>6. g < i
            BY <1>2, <2>3, <5>5 DEF Lists
          <5>7. i <= g
            BY <2>2, <5>2
          <5> QED BY <1>2, <2>3, <5>5, <5>6, <5>7, SMTT(30)
        <4>5. Depth[a] \in 0..Depth[r] /\ k \in Changed[At(r, Depth[a])]
          BY <2>3, <4>3
        <4>6. StateOf[r][k] = At(r, Depth[a])
          BY <4>4, <4>5, WrittenOnce
        <4> QED BY <4>3, <4>6
      <3> QED BY <3>1, <3>2
    <2>6. Tip(k, r) = a
      BY <1>3, <1>10 DEF g
    <2> QED BY <2>3, <2>5, <2>6
  <1>11. CASE hits = {}
    <2>1. b \notin layers
      BY <1>1, <1>5, SMT
    <2>2. CASE b = r
      BY <1>3, <1>11, <2>1, <2>2 DEF Agree
    <2>3. CASE b # r /\ <<r, b>> \in descendants
      <3>1. Above(r, b) /\ r \in layers
        BY <1>1, <1>8, <2>3, SMT
      <3>2. Depth[b] \in 0..Depth[r] /\ At(r, Depth[b]) = b
        BY <1>1, <3>1, AboveFacts, SMT
      <3>3. \A m \in (Depth[b] + 1)..Depth[r] : k \notin Changed[At(r, m)]
        BY <1>9, <1>11, <3>1
      <3>4. Agree(r, At(r, Depth[b]), k)
        BY <3>2, <3>3, Agreement
      <3>5. Agree(b, r, k)
        BY <3>2, <3>4 DEF Agree
      <3> QED BY <1>3, <1>11, <2>1, <2>3, <3>5
    <2>4. CASE b # r /\ <<r, b>> \notin descendants
      BY <1>3, <1>11, <2>4
    <2> QED BY <2>2, <2>3, <2>4
  <1> QED BY <1>10, <1>11

\* AccountRLP takes the layer from the indexes.
LEMMA LookupLayerReader == ASSUME IInv, TreeOk, ReaderOk, LookupLayer PROVE ReaderOk'
  <1> DEFINE tip == Tip(rd.key, rd.root)
  <1>1. /\ rd.pc = "lookup" /\ ~Flattening /\ UNCHANGED <<up, base>>
        /\ rd' = IF tip = None THEN Answer("stale")
                 ELSE IF tip \in layers THEN Answer(tip)
                 ELSE IF tip = base.root THEN [rd EXCEPT !.pc = "base", !.found = "disk"]
                 ELSE Answer("missing")
    BY DEF LookupLayer, TreeLocked, Flattening, histories
  <1>2. rd.root \in Root /\ rd.key \in Key
    BY <1>1 DEF ReaderOk
  <1>3. \A r \in Root, k \in Key :
           \/ Tip(k, r) = None
           \/ Tip(k, r) \in layers /\ Tip(k, r) = StateOf[r][k]
           \/ Tip(k, r) = base.root /\ Tip(k, r) \notin layers /\ Agree(base.root, r, k)
    BY <1>1, TipRight
  <1>4. \/ tip = None
        \/ tip \in layers /\ tip = StateOf[rd.root][rd.key]
        \/ tip = base.root /\ tip \notin layers /\ Agree(base.root, rd.root, rd.key)
    BY <1>2, <1>3
  <1>5. layers \subseteq Root /\ None \notin Root /\ base.root \in Root
    BY PathDBAssumption, BaseFacts DEF IInv, JobOk
  <1> HIDE DEF tip
  <1>6. CASE tip = None
    BY <1>1, <1>6, AnswerOk
  <1>7. CASE tip \in layers /\ tip = StateOf[rd.root][rd.key]
    <2>1. rd' = Answer(tip)
      BY <1>1, <1>5, <1>7
    <2> QED BY <1>1, <1>7, <2>1, AnswerOk
  <1>8. CASE tip = base.root /\ tip \notin layers /\ Agree(base.root, rd.root, rd.key)
    <2>1. rd' = [rd EXCEPT !.pc = "base", !.found = "disk"]
      BY <1>1, <1>5, <1>8
    <2> QED BY <1>1, <1>8, <2>1, GoOn
  <1> QED BY <1>4, <1>6, <1>7, <1>8

\* The disk layer that was found is read, or the layers are walked.
LEMMA ReadBaseReader == ASSUME IInv, BuffersHold, ReaderOk, ReadBase PROVE ReaderOk'
  <1>1. rd.pc = "base" /\ UNCHANGED <<up, base, frozen, job>>
    BY DEF ReadBase, histories
  <1>2. CASE rd.found = "disk"
    <2>1. ReadDisk
      BY <1>2 DEF ReadBase
    <2>2. Agree(base.root, rd.root, rd.key)
      BY <1>1, <1>2 DEF ReaderOk
    <2> QED BY <1>1, <2>1, <2>2, ReadDiskOk
  <1>3. CASE rd.found # "disk"
    <2>1. rd' = [rd EXCEPT !.pc = "walk", !.found = rd.found]
      BY <1>3 DEF ReadBase, ReaderOk
    <2> QED BY <1>1, <2>1, GoOn
  <1> QED BY <1>2, <1>3

\* The parent pointers lead from every state down to one that is not a diff layer.
LEMMA PathExists ==
    ASSUME PtrOk, NEW r \in Root
    PROVE  \E n \in 1..Len(Line[r]) : /\ Path(r) = SubSeq(Line[r], 1, n) /\ Len(Path(r)) = n
                                      /\ \A i \in 1..n : ptr[At(r, Depth[r] + 1 - i)] = "diff" <=> i < n
                                      /\ \A i \in 1..n : Path(r)[i] = At(r, Depth[r] + 1 - i)
  <1> DEFINE N == Len(Line[r])
             S == {n \in 1..N : ptr[Line[r][n]] # "diff"}
  <1>1. Line[r] \in Seq(Root) /\ N \in Nat /\ N > 0 /\ Depth[r] = N - 1
    BY TreeAssumption, SMT DEF Depth
  <1>2. \A i \in 1..N : Line[r][i] = At(r, Depth[r] + 1 - i)
    <2> SUFFICES ASSUME NEW i \in 1..N PROVE Line[r][i] = At(r, Depth[r] + 1 - i)
      OBVIOUS
    <2>1. N - (Depth[r] + 1 - i) = i
      BY <1>1, SMT
    <2> QED BY <2>1 DEF At
  <1>3. N \in S
    <2>1. Line[r][N] = At(r, 0) /\ N \in 1..N
      BY <1>1, SMT DEF At
    <2>2. At(r, 0) = Genesis
      BY AtZero
    <2>3. ptr[Genesis] # "diff"
      BY PathDBAssumption DEF PtrOk
    <2> QED BY <2>1, <2>2, <2>3
  <1> DEFINE l == Least(S)
  <1>4. l \in S /\ \A m \in S : l <= m
    <2>1. S \subseteq Nat
      BY <1>1, SMT
    <2> QED BY <1>3, <2>1, LeastIs
  <1> HIDE DEF l
  <1>5. \A n \in 1..N : Len(SubSeq(Line[r], 1, n)) = n /\ \A i \in 1..n : SubSeq(Line[r], 1, n)[i] = Line[r][i]
    <2> SUFFICES ASSUME NEW n \in 1..N
                 PROVE  Len(SubSeq(Line[r], 1, n)) = n /\ \A i \in 1..n : SubSeq(Line[r], 1, n)[i] = Line[r][i]
      OBVIOUS
    <2> QED BY <1>1, ElementOfSeq, SubSeqProperties, SMT
  <1>6. \A n \in 1..N : IsPath(SubSeq(Line[r], 1, n)) <=> \A i \in 1..n : ptr[Line[r][i]] = "diff" <=> i < n
    BY <1>5 DEF IsPath
  <1>7. l \in 1..N /\ \A i \in 1..l : ptr[Line[r][i]] = "diff" <=> i < l
    <2>1. l \in 1..N /\ ptr[Line[r][l]] # "diff"
      BY <1>4
    <2>2. ASSUME NEW i \in 1..l PROVE ptr[Line[r][i]] = "diff" <=> i < l
      <3>1. CASE i = l
        BY <2>1, <3>1, SMT
      <3>2. CASE i < l
        <4>1. i \in 1..N /\ ~(l <= i)
          BY <1>1, <2>1, <3>2, SMT
        <4> QED BY <1>4, <3>2, <4>1
      <3> QED BY <1>1, <2>1, <3>1, <3>2, SMT
    <2> QED BY <2>1, <2>2
  <1> HIDE DEF S
  <1>8. \E n \in 1..N : IsPath(SubSeq(Line[r], 1, n))
    BY <1>6, <1>7
  <1> DEFINE n == CHOOSE n \in 1..N : IsPath(SubSeq(Line[r], 1, n))
  <1>9. n \in 1..N /\ IsPath(SubSeq(Line[r], 1, n))
    BY <1>8
  <1>10. Path(r) = SubSeq(Line[r], 1, n)
    BY DEF Path
  <1> HIDE DEF n
  <1>11. \A i \in 1..n : i \in 1..N
    BY <1>1, <1>9, SMT
  <1>12. Len(Path(r)) = n /\ \A i \in 1..n : Path(r)[i] = At(r, Depth[r] + 1 - i)
    BY <1>2, <1>5, <1>9, <1>10, <1>11
  <1>13. \A i \in 1..n : ptr[At(r, Depth[r] + 1 - i)] = "diff" <=> i < n
    <2>1. \A i \in 1..n : ptr[Line[r][i]] = "diff" <=> i < n
      BY <1>6, <1>9
    <2> QED BY <1>2, <1>11, <2>1
  <1> QED BY <1>9, <1>10, <1>12, <1>13

\* The first layer from the top that has the key wrote its value; if none has it,
\* its value is that of the disk layer.
LEMMA WalkLayersReader == ASSUME IInv, BuffersHold, TreeOk, ReaderOk, WalkLayers PROVE ReaderOk'
  <1> DEFINE path == IF rd.entry = "diff" THEN Path(rd.root) ELSE <<>>
             hits == {i \in 1..Len(path) : rd.key \in Changed[path[i]]}
             seen == IF hits = {} THEN path ELSE SubSeq(path, 1, Least(hits))
             end == IF path = <<>> THEN rd.entry ELSE ptr[Last(path)]
  <1>1. /\ rd.pc = "walk" /\ UNCHANGED <<up, base, frozen, job>>
        /\ IF hits # {} THEN rd' = Answer(Last(seen))
           ELSE IF end = "stale" THEN rd' = Answer("stale")
           ELSE ReadDisk
    BY DEF WalkLayers, histories
  <1>2. /\ rd.root \in Root /\ rd.key \in Key /\ rd.entry \in {"diff", "disk", "stale"}
        /\ rd.entry = "disk" => rd.root = base.root
    BY <1>1 DEF ReaderOk
  <1>3. PICK r \in Root, k \in Key : r = rd.root /\ k = rd.key
    BY <1>2
  <1>4. CASE rd.entry # "diff"
    <2>1. path = <<>> /\ hits = {} /\ end = rd.entry
      BY <1>4, SMT
    <2> HIDE DEF path, hits, seen, end
    <2>2. CASE rd.entry = "stale"
      BY <1>1, <2>1, <2>2, AnswerOk
    <2>3. CASE rd.entry = "disk"
      <3>1. ReadDisk /\ Agree(base.root, rd.root, rd.key)
        BY <1>1, <1>2, <2>1, <2>3 DEF Agree
      <3> QED BY <1>1, <3>1, ReadDiskOk
    <2> QED BY <1>2, <1>4, <2>2, <2>3
  <1>5. CASE rd.entry = "diff"
    <2>1. PtrOk
      BY DEF TreeOk
    <2>2. path = Path(r)
      BY <1>3, <1>5
    <2>3. PICK n \in 1..Len(Line[r]) :
             /\ Path(r) = SubSeq(Line[r], 1, n) /\ Len(Path(r)) = n
             /\ \A i \in 1..n : ptr[At(r, Depth[r] + 1 - i)] = "diff" <=> i < n
             /\ \A i \in 1..n : Path(r)[i] = At(r, Depth[r] + 1 - i)
      BY <2>1, PathExists
    <2>4. /\ Line[r] \in Seq(Root) /\ Depth[r] \in Nat /\ n \in Nat /\ n \in 1..n /\ n <= Depth[r] + 1
      <3>1. Line[r] \in Seq(Root) /\ Depth[r] = Len(Line[r]) - 1 /\ Len(Line[r]) \in Nat
        BY TreeAssumption, SMT DEF Depth
      <3>2. Depth[r] \in Nat
        BY AtSelf
      <3> QED BY <3>1, <3>2, SMT
    <2>5. /\ path \in Seq(Root) /\ Len(path) = n
          /\ \A i \in 1..n : path[i] = At(r, Depth[r] + 1 - i)
      <3>1. SubSeq(Line[r], 1, n) \in Seq(Root)
        BY <2>4, ElementOfSeq, SubSeqProperties, SMT
      <3> QED BY <2>2, <2>3, <3>1
    <2>6. \A i \in 1..n : i \in hits <=> k \in Changed[At(r, Depth[r] + 1 - i)]
      BY <1>3, <2>5
    <2>7. hits \subseteq 1..n
      BY <2>5
    <2>8. path # <<>>
      BY <2>4, <2>5, SMT
    <2>9. seen = IF hits = {} THEN path ELSE SubSeq(path, 1, Least(hits))
      OBVIOUS
    <2>10. end = ptr[Last(path)]
      BY <2>8
    <2> HIDE DEF path, hits, seen, end
    <2>11. CASE hits # {}
      <3> DEFINE l == Least(hits)
                 i == Depth[r] + 1 - l
      <3>1. hits \subseteq Nat
        BY <2>4, <2>7, SMT
      <3>2. l \in hits /\ \A m \in hits : l <= m
        BY <2>11, <3>1, LeastIs
      <3>3. Last(seen) = path[l]
        <4>1. l \in 1..Len(path)
          BY <2>5, <2>7, <3>2
        <4> HIDE DEF l
        <4>2. Len(SubSeq(path, 1, l)) = l /\ SubSeq(path, 1, l)[l] = path[l]
          BY <2>5, <4>1, ElementOfSeq, SubSeqProperties, SMT
        <4>3. seen = SubSeq(path, 1, l)
          BY <2>9, <2>11 DEF l
        <4> QED BY <4>2, <4>3 DEF Last
      <3> HIDE DEF l
      <3>4. l \in 1..n /\ i \in 0..Depth[r]
        <4>1. l \in 1..n
          BY <2>7, <3>2
        <4>2. i \in 0..Depth[r]
          BY <2>4, <4>1, SMT
        <4> QED BY <4>1, <4>2
      <3>5. path[l] = At(r, i) /\ k \in Changed[At(r, i)]
        BY <2>5, <2>6, <3>2, <3>4
      <3>6. ASSUME NEW m \in (i + 1)..Depth[r] PROVE k \notin Changed[At(r, m)]
        <4> DEFINE x == Depth[r] + 1 - m
        <4>1. x \in 1..n /\ x < l /\ Depth[r] + 1 - x = m
          BY <2>4, <3>4, SMTT(30)
        <4> HIDE DEF x
        <4>2. x \notin hits
          BY <2>4, <3>2, <3>4, <4>1, SMT
        <4> QED BY <2>6, <4>1, <4>2
      <3> HIDE DEF i
      <3>7. StateOf[r][k] = At(r, i)
        BY <3>4, <3>5, <3>6, WrittenOnce
      <3>8. rd' = Answer(Last(seen)) /\ Last(seen) = StateOf[rd.root][rd.key]
        BY <1>1, <1>3, <2>11, <3>3, <3>5, <3>7
      <3> QED BY <1>1, <3>8, AnswerOk
    <2>12. CASE hits = {} /\ end = "stale"
      BY <1>1, <2>12, AnswerOk
    <2>13. CASE hits = {} /\ end # "stale"
      <3> DEFINE e == At(r, Depth[r] + 1 - n)
                 i == Depth[r] - n
      <3>1. Last(path) = e /\ ptr[e] # "diff"
        BY <2>3, <2>4, <2>5, SMT DEF Last
      <3>2. Depth[r] + 1 - n \in 0..Depth[r]
        BY <2>4, SMT
      <3>3. e \in Root /\ Depth[e] = Depth[r] + 1 - n /\ \A j \in 0..(Depth[r] + 1 - n) : At(e, j) = At(r, j)
        BY <3>2, AtAt
      <3> HIDE DEF e
      <3>4. ptr[e] = "disk"
        BY <2>1, <2>10, <2>13, <3>1, <3>3 DEF PtrOk
      <3>5. e # Genesis /\ Parent[e] = base.root
        BY <2>1, <3>3, <3>4 DEF PtrOk
      <3>6. Parent[e] = At(e, Depth[e] - 1) /\ Depth[e] # 0
        BY <3>3, <3>5, AtParent
      <3>7. i \in 0..Depth[r] /\ i \in 0..(Depth[r] + 1 - n) /\ Depth[e] - 1 = i
        BY <2>4, <3>3, <3>6, SMT
      <3>8. At(r, i) = base.root
        BY <3>3, <3>5, <3>6, <3>7
      <3>9. ASSUME NEW m \in (i + 1)..Depth[r] PROVE k \notin Changed[At(r, m)]
        <4> DEFINE x == Depth[r] + 1 - m
        <4>1. x \in 1..n /\ Depth[r] + 1 - x = m
          BY <2>4, SMTT(30)
        <4> HIDE DEF x
        <4> QED BY <2>6, <2>13, <4>1
      <3> HIDE DEF i
      <3>10. Agree(r, At(r, i), k)
        BY <3>7, <3>9, Agreement
      <3>11. ReadDisk /\ Agree(base.root, rd.root, rd.key)
        BY <1>1, <1>3, <2>13, <3>8, <3>10 DEF Agree
      <3> QED BY <1>1, <3>11, ReadDiskOk
    <2> QED BY <2>11, <2>12, <2>13
  <1> QED BY <1>4, <1>5

\* The value on disk is read while the disk layer cannot change.
LEMMA LoadValueReader == ASSUME ReaderOk, LoadValue PROVE ReaderOk'
  <1>1. rd.pc = "disk" /\ UNCHANGED <<kv, up, base, frozen, job>>
    BY DEF LoadValue, histories
  <1>2. rd' = [pc |-> "fill", root |-> rd.root, entry |-> rd.entry, found |-> rd.found,
               key |-> rd.key, val |-> kv.data[rd.key]]
    BY DEF LoadValue, ReaderOk
  <1>3. /\ rd'.pc = "fill" /\ rd'.root = rd.root /\ rd'.entry = rd.entry /\ rd'.found = rd.found
        /\ rd'.key = rd.key /\ rd'.val = kv.data[rd.key]
    BY <1>2
  <1>4. ~DiskLocked /\ (DiskLocked' <=> DiskLocked)
    BY <1>1 DEF ReaderOk, DiskRead, DiskLocked
  <1> HIDE DEF DiskLocked
  <1> QED BY <1>1, <1>2, <1>3, <1>4 DEF ReaderOk, DiskRead, ReadsRight

\* It is the value of the disk layer, and goes to the clean cache and the caller.
LEMMA FillCacheReader == ASSUME IInv, BuffersHold, ReaderOk, FillCache PROVE ReaderOk'
  <1>1. rd.pc = "fill" /\ UNCHANGED <<up, base>> /\ rd' = Answer(rd.val)
    BY DEF FillCache, histories
  <1>2. /\ up /\ rd.key \in Key /\ Agree(base.root, rd.root, rd.key) /\ rd.val = kv.data[rd.key]
        /\ base.buf[rd.key] = None /\ frozen.buf[rd.key] = None
    BY <1>1 DEF ReaderOk, DiskRead
  <1>3. \A k \in Key : base.buf[k] = None /\ frozen.buf[k] = None => kv.data[k] = StateOf[base.root][k]
    BY <1>2, DiskValue
  <1>4. rd.val = StateOf[rd.root][rd.key]
    BY <1>2, <1>3 DEF Agree
  <1> QED BY <1>1, <1>4, AnswerOk

\* A reader that has, or had found, the disk layer has a stale one from now on.
LEMMA MarkedReader ==
    ASSUME ReaderOk, ~DiskRead, MarkReader, UNCHANGED up
    PROVE  ReaderOk'
  <1> DEFINE Mark(l) == IF l = "disk" THEN "stale" ELSE l
             entry == Mark(rd.entry)
             found == Mark(rd.found)
  <1>0. /\ entry # "disk" /\ found # "disk"
        /\ rd.entry \in {"diff", "disk", "stale"} => entry \in {"diff", "disk", "stale"}
    OBVIOUS
  <1>1. rd' = [rd EXCEPT !.entry = entry, !.found = found]
    BY DEF MarkReader
  <1> HIDE DEF entry, found
  <1>2. rd' = [pc |-> rd.pc, root |-> rd.root, entry |-> entry, found |-> found,
               key |-> rd.key, val |-> rd.val]
    BY <1>1 DEF ReaderOk
  <1>3. /\ rd'.pc = rd.pc /\ rd'.root = rd.root /\ rd'.entry = entry /\ rd'.found = found
        /\ rd'.key = rd.key /\ rd'.val = rd.val
    BY <1>2
  <1> QED BY <1>0, <1>2, <1>3 DEF ReaderOk, DiskRead, ReadsRight

\* Without a reader there is nothing to ask.
LEMMA NoReaderOk == rd' = NoReader => ReaderOk'
  <1> SUFFICES ASSUME rd' = NoReader PROVE ReaderOk'
    OBVIOUS
  <1>1. /\ NoReader.pc = "idle"
        /\ NoReader = [pc |-> NoReader.pc, root |-> NoReader.root, entry |-> NoReader.entry,
                       found |-> NoReader.found, key |-> NoReader.key, val |-> NoReader.val]
    BY DEF NoReader
  <1> QED BY <1>1 DEF ReaderOk, DiskRead, ReadsRight

\* A new reader begins with the layer of its state.
LEMMA OpenReaderOk ==
    ASSUME ReaderOk, NEW r \in Root, NEW k \in Key, NEW flat \in BOOLEAN, OpenReader(r, k, flat)
    PROVE  ReaderOk'
  <1>1. /\ up /\ r \in layers \cup {base.root} /\ UNCHANGED <<up, base>>
        /\ rd' = [NoReader EXCEPT !.pc = IF flat THEN "lookup" ELSE "walk", !.root = r, !.key = k,
                                  !.entry = IF r \in layers THEN "diff" ELSE "disk"]
    BY DEF OpenReader, Running, histories
  <1>2. PICK pc \in {"lookup", "walk"}, entry \in {"diff", "disk"} :
          /\ rd' = [pc |-> pc, root |-> r, entry |-> entry, found |-> "", key |-> k, val |-> None]
          /\ entry = "disk" => r = base.root
    BY <1>1 DEF NoReader
  <1>3. /\ rd'.pc = pc /\ rd'.root = r /\ rd'.entry = entry /\ rd'.found = "" /\ rd'.key = k
        /\ rd'.val = None
    BY <1>2
  <1> QED BY <1>1, <1>2, <1>3 DEF ReaderOk, DiskRead, ReadsRight

\* The flush leaves a value alone that was not in the frozen buffer.
LEMMA FlushWriteReader == ASSUME IInv, BuffersHold, ReaderOk, FlushWrite PROVE ReaderOk'
  <1>1. /\ UNCHANGED <<rd, up, base, job>> /\ frozen'.buf = frozen.buf
        /\ kv'.data = Over(frozen.buf, kv.data)
    BY SMT DEF FlushWrite, Put, histories, IInv, BuffersOk, Versions, VersionOk
  <1>2. \A k \in Key : frozen.buf[k] = None => kv'.data[k] = kv.data[k]
    BY <1>1 DEF Over
  <1>3. DiskLocked' <=> DiskLocked
    BY <1>1 DEF DiskLocked
  <1> HIDE DEF DiskLocked
  <1> QED BY <1>1, <1>2, <1>3 DEF ReaderOk, DiskRead, ReadsRight

\* Every step keeps the readers right.
LEMMA ReadersInv ==
    ASSUME IInv, BuffersHold, TreeOk, ReaderOk, [Next]_vars PROVE ReaderOk'
  <1>1. /\ job = [op |-> job.op, todo |-> job.todo, top |-> job.top, pc |-> job.pc,
                  old |-> job.old, flush |-> job.flush]
        /\ kv = [data |-> kv.data, root |-> kv.root, id |-> kv.id, ids |-> kv.ids, journal |-> kv.journal]
        /\ frozen = [phase |-> frozen.phase, buf |-> frozen.buf, layers |-> frozen.layers,
                     id |-> frozen.id, root |-> frozen.root]
    BY DEF IInv, JobOk, BuffersOk, Versions, VersionOk
  <1>2. CASE \E r \in Root : Update(r) \/ Commit(r) \/ Recover(r)
    <2>1. UNCHANGED <<rd, up, base, kv, frozen>>
      BY <1>2 DEF Update, Commit, Recover, histories
    <2>2. job'.pc \in {"", "history", "revert"}
      <3>1. NoJob.pc = ""
        BY DEF NoJob
      <3>2. CASE \E r \in Root : Update(r)
        <4>1. job' = NoJob \/ \E todo, top, old :
                job' = [NoJob EXCEPT !.op = "cap", !.todo = todo, !.pc = "history", !.top = top, !.old = old]
          <5>0. PICK r \in Root : Update(r)
            BY <3>2
          <5>1. PICK n \in 1..Len(Line[r]) :
                  LET path == SubSeq(Line[r], 1, n)
                  IN  job' = IF Excess(path) = <<>> THEN NoJob
                             ELSE [NoJob EXCEPT !.op = "cap", !.todo = Excess(path), !.pc = "history",
                                                !.top = path[MaxDiffLayers], !.old = base.root]
            BY <5>0 DEF Update
          <5> DEFINE todo == Excess(SubSeq(Line[r], 1, n))
                     top == SubSeq(Line[r], 1, n)[MaxDiffLayers]
          <5>2. \/ job' = NoJob
                \/ job' = [NoJob EXCEPT !.op = "cap", !.todo = todo, !.pc = "history", !.top = top,
                                        !.old = base.root]
            BY <5>1
          <5> HIDE DEF todo, top
          <5> QED BY <5>2
        <4>2. CASE job' = NoJob
          BY <3>1, <4>2
        <4>3. CASE job' # NoJob
          BY <4>1, <4>3 DEF NoJob
        <4> QED BY <4>2, <4>3
      <3>3. CASE \E r \in Root : Commit(r) \/ Recover(r)
        BY <3>3 DEF Commit, Recover, NoJob
      <3> QED BY <1>2, <3>2, <3>3
    <2>3. ~DiskLocked'
      BY <2>2 DEF DiskLocked
    <2> QED BY <2>1, <2>3, SameReader
  <1>3. CASE WriteHistory
    <2>1. /\ UNCHANGED <<rd, up, base, kv, frozen>>
          /\ \/ ~DiskRead \/ job' = NoJob
      BY <1>3 DEF WriteHistory
    <2>2. job' = NoJob => ~DiskLocked'
      <3>1. NoJob.pc = ""
        BY DEF NoJob
      <3> QED BY <3>1 DEF DiskLocked
    <2> QED BY <2>1, <2>2, SameReader
  <1>4. CASE PruneHistory
    <2>1. UNCHANGED <<rd, up, base, frozen>> /\ kv'.data = kv.data /\ DiskLocked
      BY <1>1, <1>4 DEF PruneHistory, Put, DiskLocked
    <2>2. ~DiskRead
      BY <2>1 DEF ReaderOk
    <2> QED BY <2>1, <2>2, SameReader
  <1>5. CASE MergeLayer
    <2>1. MarkReader /\ UNCHANGED up /\ DiskLocked
      BY <1>5 DEF MergeLayer, DiskLocked, histories
    <2>2. ~DiskRead
      BY <2>1 DEF ReaderOk
    <2> QED BY <2>1, <2>2, MarkedReader
  <1>6. CASE FinishCap \/ FinishCommit \/ FinishRecover \/ SyncRecovered \/ Repair
    <2>1. UNCHANGED <<rd, up, base, kv, frozen>>
      BY <1>6 DEF FinishCap, FinishCommit, FinishRecover, SyncRecovered, Repair, histories
    <2>2. \/ job' = NoJob \/ job' = [job EXCEPT !.pc = "cut"] \/ job' = [job EXCEPT !.pc = "crit"]
      BY <1>6 DEF FinishCap, FinishCommit, FinishRecover, SyncRecovered, Repair
    <2>3. job'.pc \in {"", "cut", "crit"}
      <3>1. CASE job' = NoJob
        BY <3>1 DEF NoJob
      <3>2. CASE job' = [job EXCEPT !.pc = "cut"]
        BY <1>1, <3>2
      <3>3. CASE job' = [job EXCEPT !.pc = "crit"]
        BY <1>1, <3>3
      <3> QED BY <2>2, <3>1, <3>2, <3>3
    <2>4. ~DiskLocked'
      BY <2>3 DEF DiskLocked
    <2> QED BY <2>1, <2>4, SameReader
  <1>7. CASE Revert
    <2>1. ~DiskRead /\ UNCHANGED up
      BY <1>7 DEF Revert, histories
    <2>2. MarkReader \/ UNCHANGED <<rd, base, kv, frozen>>
      BY <1>7 DEF Revert
    <2> QED BY <2>1, <2>2, MarkedReader, SameReader
  <1>8. CASE FlushSync
    <2>1. UNCHANGED <<rd, up, base, kv, job>> /\ frozen'.buf = frozen.buf
      BY <1>1, <1>8 DEF FlushSync
    <2>2. DiskRead => ~DiskLocked'
      BY <2>1 DEF ReaderOk, DiskLocked
    <2> QED BY <2>1, <2>2, SameReader
  <1>9. CASE FlushWrite
    BY <1>9, FlushWriteReader
  <1>10. CASE \E r \in Root, k \in Key, flat \in BOOLEAN : OpenReader(r, k, flat)
    BY <1>10, OpenReaderOk
  <1>11. CASE ReaderStep
    BY <1>11, LookupLayerReader, ReadBaseReader, WalkLayersReader, LoadValueReader, FillCacheReader,
       NoReaderOk DEF ReaderStep, CloseReader
  <1>12. CASE Crash \/ \E r \in Root : Stop(r)
    BY <1>12, NoReaderOk DEF Crash, Stop, Forget
  <1>13. CASE Open
    <2>1. ~up /\ UNCHANGED rd
      BY <1>13 DEF Open
    <2>2. rd.pc = "idle"
      BY <2>1 DEF ReaderOk
    <2> QED BY <2>1, <2>2 DEF ReaderOk, DiskRead, ReadsRight
  <1>14. CASE UNCHANGED vars
    <2>1. UNCHANGED <<rd, up, base, kv, frozen, job>>
      BY <1>14 DEF vars, histories
    <2>2. DiskRead => ~DiskLocked'
      BY <2>1 DEF ReaderOk, DiskLocked
    <2> QED BY <2>1, <2>2, SameReader
  <1> QED BY <1>2, <1>3, <1>4, <1>5, <1>6, <1>7, <1>8, <1>9, <1>10, <1>11, <1>12, <1>13, <1>14 DEF
             Next, Operation, OperationStep, FlushStep, StartStep
=============================================================================
