----------------------------- MODULE PathDBLine -----------------------------
(***************************************************************************)
(* Lines of states: the lemmas on which all proofs about the path database *)
(* rest.                                                                   *)
(***************************************************************************)
EXTENDS PathDBInvariant, TLAPS

\* Zenon is the prover of a leaf that names none: it is enough for first-order steps,
\* and the leaves that need arithmetic, records or sequences name SMT.
USE Zenon

-----------------------------------------------------------------------------
(* Sequences.                                                              *)

\* What is proved of sequences: their elements,
LEMMA ElementOfSeq ==
    ASSUME NEW S, NEW q \in Seq(S), NEW i \in 1..Len(q)
    PROVE  q[i] \in S
  BY SMT

\* the empty sequence,
LEMMA EmptySeq ==
    ASSUME NEW S
    PROVE  /\ <<>> \in Seq(S) /\ Len(<<>>) = 0
           /\ \A q \in Seq(S) : q # <<>> => Len(q) \in Nat \ {0}
  BY SMT

\* a sequence with one more element,
LEMMA AppendProperties ==
    ASSUME NEW S, NEW q \in Seq(S), NEW x \in S
    PROVE  /\ Append(q, x) \in Seq(S) /\ Len(Append(q, x)) = Len(q) + 1
           /\ \A i \in 1..Len(q) : Append(q, x)[i] = q[i]
           /\ Append(q, x)[Len(q) + 1] = x
  BY SMT

\* a part of a sequence,
LEMMA SubSeqProperties ==
    ASSUME NEW S, NEW q, NEW m \in Int, NEW n \in Int, \A i \in m..n : q[i] \in S
    PROVE  /\ SubSeq(q, m, n) \in Seq(S)
           /\ Len(SubSeq(q, m, n)) = IF m <= n THEN n - m + 1 ELSE 0
           /\ \A i \in 1..(n - m + 1) : SubSeq(q, m, n)[i] = q[m + i - 1]
  BY SMT

\* the whole of it,
LEMMA SubSeqFull ==
    ASSUME NEW S, NEW q \in Seq(S)
    PROVE  SubSeq(q, 1, Len(q)) = q
  BY SMT

\* and a sequence without its first element.
LEMMA HeadTailProperties ==
    ASSUME NEW S, NEW q \in Seq(S), q # <<>>
    PROVE  /\ Head(q) \in S /\ Tail(q) \in Seq(S) /\ Len(Tail(q)) = Len(q) - 1
           /\ \A i \in 1..Len(Tail(q)) : Tail(q)[i] = q[i + 1]
  BY SMT

-----------------------------------------------------------------------------
(* States and their ancestors.                                             *)

\* A state is its own ancestor at its own depth.
LEMMA AtSelf ==
    ASSUME NEW r \in Root
    PROVE  /\ Depth[r] \in Nat
           /\ At(r, Depth[r]) = r
  BY TreeAssumption, SMT DEF At, Depth

\* The ancestors of an ancestor are those of the state itself.
LEMMA AtAt ==
    ASSUME NEW r \in Root, NEW i \in 0..Depth[r]
    PROVE  /\ At(r, i) \in Root
           /\ Depth[At(r, i)] = i
           /\ \A j \in 0..i : At(At(r, i), j) = At(r, j)
  <1> DEFINE k == Len(Line[r]) - i
             a == Line[r][k]
  <1>1. /\ Line[r] \in Seq(Root) /\ Len(Line[r]) \in Nat /\ Depth[r] = Len(Line[r]) - 1
        /\ Len(Line[r]) > 0 /\ i \in Nat
    BY TreeAssumption, SMT DEF Depth
  <1>2. k \in 1..Len(Line[r])
    BY <1>1, SMT
  <1>3. a \in Root /\ Line[a] = SubSeq(Line[r], k, Len(Line[r]))
    <2>1. a \in Root
      BY <1>1, <1>2, ElementOfSeq
    <2> QED BY <1>2, <2>1, TreeAssumption
  <1> HIDE DEF a
  <1>4. Len(Line[a]) = i + 1 /\ \A n \in 1..(i + 1) : Line[a][n] = Line[r][k + n - 1]
    BY <1>1, <1>2, <1>3, SubSeqProperties, SMT
  <1>5. Depth[a] = i
    BY <1>3, <1>4, <1>1, SMT DEF Depth
  <1>6. ASSUME NEW j \in 0..i PROVE At(a, j) = At(r, j)
    BY <1>1, <1>4, SMT DEF At
  <1>7. a = At(r, i)
    BY DEF a, At
  <1> QED BY <1>3, <1>5, <1>6, <1>7

\* The parent of a state is its ancestor one below; only Genesis has depth 0.
LEMMA AtParent ==
    ASSUME NEW r \in Root
    PROVE  /\ r = Genesis <=> Depth[r] = 0
           /\ r # Genesis => /\ Parent[r] = At(r, Depth[r] - 1)
                             /\ Parent[r] \in Root
                             /\ Depth[Parent[r]] = Depth[r] - 1
  <1>1. Line[r] \in Seq(Root) /\ Len(Line[r]) \in Nat /\ Depth[r] = Len(Line[r]) - 1
    BY TreeAssumption, SMT DEF Depth
  <1>2. r = Genesis => Len(Line[r]) = 1
    <2>1. Len(<<Genesis>>) = 1
      OBVIOUS
    <2> QED BY <2>1, TreeAssumption
  <1>3. ASSUME r # Genesis
        PROVE  /\ Depth[r] > 0 /\ Parent[r] = At(r, Depth[r] - 1)
    BY <1>1, <1>3, TreeAssumption, SMT DEF At
  <1>4. ASSUME r # Genesis
        PROVE  Parent[r] \in Root /\ Depth[Parent[r]] = Depth[r] - 1
    BY <1>1, <1>3, <1>4, AtAt, SMT
  <1>5. r = Genesis => Depth[r] = 0
    BY <1>1, <1>2, SMT
  <1>6. r # Genesis => Depth[r] # 0
    BY <1>3, SMT
  <1> QED BY <1>3, <1>4, <1>5, <1>6

\* Every state descends from Genesis.
LEMMA AtZero ==
    ASSUME NEW r \in Root
    PROVE  At(r, 0) = Genesis
  BY AtAt, AtParent, AtSelf, SMT

\* An ancestor is the one at its own depth.
LEMMA AtAncestor ==
    ASSUME NEW r \in Root, NEW a \in Ancestors[r]
    PROVE  a \in Root /\ Depth[a] \in 0..Depth[r] /\ At(r, Depth[a]) = a
  <1>1. /\ Line[r] \in Seq(Root) /\ Len(Line[r]) \in Nat /\ Depth[r] = Len(Line[r]) - 1
    BY TreeAssumption, SMT DEF Depth
  <1>2. PICK n \in 1..Len(Line[r]) : a = Line[r][n]
    BY <1>1, SMT DEF Ancestors, Range
  <1> DEFINE i == Len(Line[r]) - n
  <1>3. i \in 0..Depth[r] /\ a = At(r, i)
    BY <1>1, <1>2, SMT DEF At
  <1> HIDE DEF i
  <1> QED BY <1>3, AtAt

\* What a state was derived from is on its line, below it.
LEMMA AboveFacts ==
    ASSUME NEW r, NEW a, Above(r, a)
    PROVE  /\ r \in Root /\ a \in Root /\ Depth[r] \in Nat /\ Depth[a] \in Nat
           /\ Depth[a] < Depth[r] /\ At(r, Depth[a]) = a
  <1>1. r \in Root /\ a \in Root /\ Depth[a] \in 0..Depth[r] /\ a = At(r, Depth[a]) /\ a # r
    BY DEF Above, IsAncestor
  <1>2. Depth[r] \in Nat /\ Depth[a] \in Nat /\ At(r, Depth[r]) = r
    BY <1>1, AtSelf
  <1> QED BY <1>1, <1>2, SMT

\* A state is above those at a lower depth of its line.
LEMMA AboveAt ==
    ASSUME NEW r \in Root, NEW i \in Nat, i < Depth[r]
    PROVE  Above(r, At(r, i)) /\ At(r, i) \in Root /\ Depth[At(r, i)] = i
  <1>1. Depth[r] \in Nat
    BY AtSelf
  <1>2. i \in 0..Depth[r]
    BY <1>1, SMT
  <1>3. At(r, i) \in Root /\ Depth[At(r, i)] = i
    BY <1>2, AtAt
  <1> QED BY <1>1, <1>2, <1>3, SMT DEF Above, IsAncestor

-----------------------------------------------------------------------------
(* The line of the histories.                                              *)

\* Below an ancestor a state has what the ancestor has.
LEMMA AncestorFacts ==
    ASSUME NEW r \in Root, NEW a, IsAncestor(a, r)
    PROVE  /\ a \in Root /\ Depth[a] \in Nat /\ Depth[a] <= Depth[r]
           /\ \A i \in 0..Depth[a] : At(a, i) = At(r, i)
  <1>1. a \in Root /\ Depth[a] \in 0..Depth[r] /\ a = At(r, Depth[a])
    BY DEF IsAncestor
  <1>2. Depth[r] \in Nat /\ Depth[a] \in Nat /\ Depth[a] <= Depth[r]
    BY <1>1, AtSelf, SMT
  <1>3. \A i \in 0..Depth[a] : At(At(r, Depth[a]), i) = At(r, i)
    BY <1>1, AtAt
  <1> QED BY <1>1, <1>2, <1>3

\* An ancestor of an ancestor is one.
LEMMA AncestorOf ==
    ASSUME NEW r \in Root, NEW a, IsAncestor(a, r), NEW b, IsAncestor(b, a)
    PROVE  IsAncestor(b, r)
  <1>1. /\ a \in Root /\ Depth[a] \in Nat /\ Depth[a] <= Depth[r] /\ Depth[r] \in Nat
        /\ \A i \in 0..Depth[a] : At(a, i) = At(r, i)
    BY AncestorFacts, AtSelf
  <1>2. b \in Root /\ Depth[b] \in 0..Depth[a] /\ b = At(a, Depth[b])
    BY DEF IsAncestor
  <1>3. Depth[b] \in 0..Depth[r]
    BY <1>1, <1>2, SMT
  <1> QED BY <1>1, <1>2, <1>3 DEF IsAncestor

\* A state and its parent are among its ancestors.
LEMMA OwnAncestor ==
    ASSUME NEW r \in Root
    PROVE  IsAncestor(r, r) /\ (r # Genesis => IsAncestor(Parent[r], r))
  <1>1. Depth[r] \in Nat /\ At(r, Depth[r]) = r
    BY AtSelf
  <1>2. IsAncestor(r, r)
    BY <1>1, SMT DEF IsAncestor
  <1>3. ASSUME r # Genesis PROVE IsAncestor(Parent[r], r)
    <2>1. /\ Parent[r] = At(r, Depth[r] - 1) /\ Parent[r] \in Root
          /\ Depth[Parent[r]] = Depth[r] - 1 /\ Depth[Parent[r]] \in Nat
      BY <1>3, AtParent, AtSelf
    <2>2. Depth[Parent[r]] \in 0..Depth[r]
      BY <1>1, <2>1, SMT
    <2> QED BY <2>1, <2>2 DEF IsAncestor
  <1> QED BY <1>2, <1>3

\* Of two ancestors the one at the lower depth is an ancestor of the other.
LEMMA AncestorBetween ==
    ASSUME NEW r \in Root, NEW a, NEW b, IsAncestor(a, r), IsAncestor(b, r), Depth[b] <= Depth[a]
    PROVE  IsAncestor(b, a)
  <1>1. /\ Depth[a] \in Nat /\ \A i \in 0..Depth[a] : At(a, i) = At(r, i)
    BY AncestorFacts
  <1>2. b \in Root /\ b = At(r, Depth[b]) /\ Depth[b] \in Nat
    BY AtSelf DEF IsAncestor
  <1>3. Depth[b] \in 0..Depth[a]
    BY <1>1, <1>2, SMT
  <1> QED BY <1>1, <1>2, <1>3 DEF IsAncestor

\* The last state with a history, if the histories are one line.
LEMMA NewestFacts ==
    ASSUME HistoryIsLine
    PROVE  /\ Newest \in Root /\ Len(items) \in Nat /\ items \in Seq(Root)
           /\ ~misled => /\ Depth[Newest] = Len(items)
                         /\ \A i \in 1..Len(items) : items[i] = At(Newest, i)
  <1>1. items \in Seq(Root) /\ Len(items) \in Nat /\ Genesis \in Root
    BY PathDBAssumption, SMT DEF HistoryIsLine
  <1>2. Newest \in Root
    BY <1>1, SMT DEF Newest
  <1> QED BY <1>1, <1>2 DEF HistoryIsLine, IsLine

\* The history with the id of a reached state is that of the state.
LEMMA OnItem ==
    ASSUME HistoryIsLine, ~misled, NEW r, On(r), Depth[r] > 0
    PROVE  items[Depth[r]] = r
  BY AtSelf, NewestFacts, SMT DEF On

\* The ancestors of a reached state are reached.
LEMMA OnAncestor ==
    ASSUME HistoryIsLine, NEW r, On(r), NEW a, IsAncestor(a, r)
    PROVE  On(a)
  <1>1. r \in Root /\ Depth[r] \in Nat /\ Depth[r] <= Len(items)
    BY AtSelf DEF On
  <1>2. Newest \in Root /\ Len(items) \in Nat
    BY NewestFacts
  <1>3. /\ a \in Root /\ Depth[a] \in Nat /\ Depth[a] <= Depth[r]
    BY <1>1, AncestorFacts
  <1>4. Depth[a] <= Len(items)
    BY <1>1, <1>2, <1>3, SMT
  <1>5. ASSUME ~misled PROVE At(Newest, Depth[a]) = a
    <2>1. At(Newest, Depth[r]) = r /\ Depth[Newest] = Len(items)
      BY <1>5, NewestFacts DEF On
    <2>2. Depth[r] \in 0..Depth[Newest]
      BY <1>1, <1>2, <2>1, SMT
    <2>3. IsAncestor(r, Newest)
      BY <1>1, <2>1, <2>2 DEF IsAncestor
    <2>4. IsAncestor(a, Newest)
      BY <1>2, <2>3, AncestorOf
    <2> QED BY <2>4 DEF IsAncestor
  <1> QED BY <1>3, <1>4, <1>5 DEF On

\* Genesis is always reached.
LEMMA GenesisOn == HistoryIsLine => On(Genesis) /\ Depth[Genesis] = 0
  <1> SUFFICES ASSUME HistoryIsLine PROVE On(Genesis) /\ Depth[Genesis] = 0
    OBVIOUS
  <1>1. Genesis \in Root /\ Depth[Genesis] = 0
    BY PathDBAssumption, AtParent
  <1>2. Newest \in Root /\ At(Newest, 0) = Genesis /\ Len(items) \in Nat
    BY AtZero, NewestFacts
  <1>3. 0 <= Len(items)
    BY <1>2, SMT
  <1> QED BY <1>1, <1>2, <1>3 DEF On

\* Facts that every step of an operation starts from.
LEMMA BaseFacts ==
    IInv => /\ base.root \in Root /\ base.id = Depth[base.root] /\ base.id \in Nat
            /\ base.layers \in Nat /\ frozen.layers \in Nat
            /\ kv.id = Depth[kv.root] /\ kv.root \in Root /\ kv.id \in Nat
            /\ Len(items) \in Nat /\ safe \in Nat /\ tail \in Nat /\ tail <= safe /\ kv.id <= safe
            /\ safe <= Len(items)
            /\ Newest \in Root
            /\ kv \in Versions /\ VersionOk(kv)
            /\ up => kv.id <= base.id /\ IsAncestor(kv.root, base.root)
            /\ job.op # "open" => On(base.root) /\ base.id <= Len(items)
  <1> SUFFICES ASSUME IInv
               PROVE  /\ base.root \in Root /\ base.id = Depth[base.root] /\ base.id \in Nat
                      /\ base.layers \in Nat /\ frozen.layers \in Nat
                      /\ kv.id = Depth[kv.root] /\ kv.root \in Root /\ kv.id \in Nat
                      /\ Len(items) \in Nat /\ safe \in Nat /\ tail \in Nat
                      /\ tail <= safe /\ kv.id <= safe
                      /\ safe <= Len(items)
                      /\ Newest \in Root
                      /\ kv \in Versions /\ VersionOk(kv)
                      /\ up => kv.id <= base.id /\ IsAncestor(kv.root, base.root)
                      /\ job.op # "open" => On(base.root) /\ base.id <= Len(items)
    OBVIOUS
  <1>1. kv \in Versions /\ VersionOk(kv)
    BY DEF IInv, Versions
  <1>2. kv.root \in Root /\ kv.id = Depth[kv.root] /\ kv.id <= safe
    BY <1>1 DEF VersionOk, On
  <1>3. /\ base.root \in Root /\ base.id = Depth[base.root]
        /\ base.layers \in Nat /\ frozen.layers \in Nat
        /\ up => /\ base.id = kv.id + base.layers + IF Buffered THEN frozen.layers ELSE 0
                 /\ IsAncestor(kv.root, base.root)
        /\ job.op # "open" => On(base.root) /\ base.id <= Len(items)
    BY DEF IInv, BuffersOk, On
  <1>4. base.id \in Nat /\ kv.id \in Nat
    BY <1>2, <1>3, AtSelf
  <1>5. /\ Newest \in Root /\ Len(items) \in Nat
    BY NewestFacts DEF IInv
  <1>6. safe \in Nat /\ tail \in Nat /\ safe <= Len(items) /\ tail <= safe
    BY <1>5, SMT DEF IInv, HistoryIsLine
  <1>7. up => kv.id <= base.id
    BY <1>3, <1>4, SMT
  <1> QED BY <1>1, <1>2, <1>3, <1>4, <1>5, <1>6, <1>7

-----------------------------------------------------------------------------
(* The layers that go to disk.                                             *)

\* A sequence read from its end.
LEMMA ReverseProperties ==
    ASSUME NEW S, NEW s \in Seq(S)
    PROVE  /\ Reverse(s) \in Seq(S) /\ Len(Reverse(s)) = Len(s)
           /\ \A i \in 1..Len(s) : Reverse(s)[i] = s[Len(s) - i + 1]
  <1>1. Len(s) \in Nat
    BY SMT
  <1>2. \A i \in 1..Len(s) : s[Len(s) - i + 1] \in S
    BY SMT
  <1> QED BY <1>1, <1>2, SMT DEF Reverse

\* The positions of a segment m..n of a sequence of length l, from its last.
LEMMA CountingDown ==
    ASSUME NEW l \in Nat, NEW n \in 1..l, NEW m \in 1..n, NEW i \in 1..(n - m + 1)
    PROVE  /\ n - i + 1 \in 1..n /\ n - i + 1 \in 1..l
           /\ l - (n - i + 1) = (l - 1) - n + i
           /\ (n - m + 1) - i + 1 \in 1..(n - m + 1)
           /\ m + ((n - m + 1) - i + 1) - 1 = n - i + 1
  BY SMT

\* The part of a line below its first m - 1 states, the oldest first.
LEMMA Descending ==
    ASSUME NEW r \in Root, NEW n \in 1..Len(Line[r]), NEW m \in 1..n, NEW todo,
           todo = Reverse(SubSeq(SubSeq(Line[r], 1, n), m, n))
    PROVE  /\ Consecutive(todo) /\ todo # <<>> /\ IsAncestor(Head(todo), r)
           /\ Len(todo) = n - m + 1
           /\ \A i \in 1..(n - m + 1) : todo[i] = At(r, Depth[r] - n + i)
  <1> DEFINE path == SubSeq(Line[r], 1, n)
             part == SubSeq(path, m, n)
  <1>1. Line[r] \in Seq(Root) /\ Len(Line[r]) \in Nat /\ Depth[r] = Len(Line[r]) - 1
    BY TreeAssumption, SMT DEF Depth
  <1>2. \A k \in 1..Len(Line[r]) : /\ Line[r][k] \in Root /\ Line[r][k] = At(r, Len(Line[r]) - k)
                                   /\ Depth[Line[r][k]] = Len(Line[r]) - k
    <2> SUFFICES ASSUME NEW k \in 1..Len(Line[r])
                 PROVE  /\ Line[r][k] \in Root /\ Line[r][k] = At(r, Len(Line[r]) - k)
                        /\ Depth[Line[r][k]] = Len(Line[r]) - k
      OBVIOUS
    <2>1. Line[r][k] = At(r, Len(Line[r]) - k)
      BY <1>1, SMT DEF At
    <2>2. Len(Line[r]) - k \in 0..Depth[r]
      BY <1>1, SMT
    <2> QED BY <2>1, <2>2, AtAt
  <1>3. \A k \in 1..(Len(Line[r]) - 1) : Parent[Line[r][k]] = Line[r][k + 1] /\ Line[r][k] # Genesis
    <2> SUFFICES ASSUME NEW k \in 1..(Len(Line[r]) - 1)
                 PROVE  Parent[Line[r][k]] = Line[r][k + 1] /\ Line[r][k] # Genesis
      OBVIOUS
    <2> DEFINE d == Len(Line[r]) - k
    <2>1. d \in 1..Depth[r] /\ d - 1 \in 0..Depth[r] /\ Len(Line[r]) - (k + 1) = d - 1
          /\ k + 1 \in 1..Len(Line[r]) /\ k \in 1..Len(Line[r])
      BY <1>1, SMT
    <2>2. Line[r][k] \in Root /\ Line[r][k] = At(r, d) /\ Depth[Line[r][k]] = d
          /\ Line[r][k + 1] = At(r, d - 1)
      BY <1>2, <2>1
    <2>3. Line[r][k] # Genesis /\ Parent[Line[r][k]] = At(Line[r][k], d - 1)
      BY <2>1, <2>2, AtParent, SMT
    <2>4. At(At(r, d), d - 1) = At(r, d - 1)
      BY <2>1, AtAt, SMT
    <2> QED BY <2>2, <2>3, <2>4
  <1>4. path \in Seq(Root) /\ Len(path) = n /\ \A i \in 1..n : path[i] = Line[r][i]
    BY <1>1, <1>2, SubSeqProperties, SMT
  <1> HIDE DEF path
  <1>5. part \in Seq(Root) /\ Len(part) = n - m + 1 /\ \A i \in 1..(n - m + 1) : part[i] = path[m + i - 1]
    BY <1>4, SubSeqProperties, SMTT(30)
  <1>6. todo = Reverse(part)
    BY DEF path
  <1> HIDE DEF part
  <1>7. /\ todo \in Seq(Root) /\ Len(todo) = n - m + 1
        /\ \A i \in 1..(n - m + 1) : todo[i] = Line[r][n - i + 1]
    <2>0. /\ todo \in Seq(Root) /\ Len(todo) = Len(part)
          /\ \A i \in 1..Len(part) : todo[i] = part[Len(part) - i + 1]
      BY <1>5, <1>6, ReverseProperties
    <2>1. /\ todo \in Seq(Root) /\ Len(todo) = n - m + 1
          /\ \A i \in 1..(n - m + 1) : todo[i] = part[(n - m + 1) - i + 1]
      BY <1>5, <2>0
    <2>2. ASSUME NEW i \in 1..(n - m + 1) PROVE todo[i] = Line[r][n - i + 1]
      <3>1. /\ n - i + 1 \in 1..n /\ (n - m + 1) - i + 1 \in 1..(n - m + 1)
            /\ m + ((n - m + 1) - i + 1) - 1 = n - i + 1
        BY <1>1, CountingDown
      <3>2. PICK k : k = (n - m + 1) - i + 1
        OBVIOUS
      <3>3. k \in 1..(n - m + 1) /\ m + k - 1 = n - i + 1
        BY <3>1, <3>2
      <3>4. part[k] = path[m + k - 1]
        BY <1>5, <3>3
      <3>5. part[(n - m + 1) - i + 1] = path[n - i + 1]
        BY <3>2, <3>3, <3>4
      <3> QED BY <1>4, <2>1, <3>1, <3>5
    <2> QED BY <2>1, <2>2
  <1>8. todo # <<>> /\ Head(todo) = Line[r][n]
    BY <1>1, <1>7, SMT
  <1>9. ASSUME NEW i \in 1..(Len(todo) - 1)
        PROVE  Parent[todo[i + 1]] = todo[i] /\ todo[i + 1] # Genesis
    <2> DEFINE k == n - i
    <2>1. k \in 1..(Len(Line[r]) - 1) /\ n - i + 1 = k + 1 /\ n - (i + 1) + 1 = k
          /\ i \in 1..(n - m + 1) /\ i + 1 \in 1..(n - m + 1)
      BY <1>1, <1>7, SMT
    <2>2. todo[i + 1] = Line[r][k] /\ todo[i] = Line[r][k + 1]
      BY <1>7, <2>1
    <2> QED BY <1>3, <2>1, <2>2
  <1>10. Consecutive(todo) /\ todo # <<>> /\ IsAncestor(Head(todo), r)
    BY <1>1, <1>2, <1>7, <1>8, <1>9, SMTT(30) DEF Consecutive, IsAncestor
  <1>11. ASSUME NEW i \in 1..(n - m + 1) PROVE todo[i] = At(r, Depth[r] - n + i)
    <2>1. n - i + 1 \in 1..Len(Line[r]) /\ Len(Line[r]) - (n - i + 1) = (Len(Line[r]) - 1) - n + i
      BY <1>1, CountingDown
    <2> QED BY <1>1, <1>2, <1>7, <2>1
  <1> QED BY <1>7, <1>10, <1>11

\* While layers go to disk, Bottom is the first of them.
LEMMA BottomInTodo ==
    IInv /\ job.todo # <<>> => /\ Bottom \in Root /\ Depth[Bottom] \in Nat
                               /\ Len(job.todo) \in Nat \ {0} /\ Bottom = job.todo[1]
  <1> SUFFICES ASSUME IInv, job.todo # <<>>
               PROVE  /\ Bottom \in Root /\ Depth[Bottom] \in Nat
                      /\ Len(job.todo) \in Nat \ {0} /\ Bottom = job.todo[1]
    OBVIOUS
  <1>1. job.todo \in Seq(Root)
    BY DEF IInv, JobOk, Consecutive
  <1>2. Bottom \in Root /\ Len(job.todo) \in Nat \ {0} /\ Bottom = job.todo[1]
    BY <1>1, HeadTailProperties, EmptySeq, SMT DEF Bottom
  <1> QED BY <1>2, AtSelf

\* The rest of consecutive states is consecutive.
LEMMA TailConsecutive ==
    ASSUME NEW todo, Consecutive(todo), todo # <<>>
    PROVE  /\ Consecutive(Tail(todo))
           /\ Len(todo) > 1 => Tail(todo) # <<>> /\ Head(Tail(todo)) = todo[2]
  <1>1. todo \in Seq(Root)
    BY DEF Consecutive
  <1>2. /\ Tail(todo) \in Seq(Root) /\ Len(todo) \in Nat \ {0} /\ Len(Tail(todo)) = Len(todo) - 1
        /\ \A i \in 1..Len(Tail(todo)) : Tail(todo)[i] = todo[i + 1]
    BY <1>1, HeadTailProperties, EmptySeq
  <1>3. ASSUME NEW i \in 1..(Len(Tail(todo)) - 1)
        PROVE  Parent[Tail(todo)[i + 1]] = Tail(todo)[i] /\ Tail(todo)[i + 1] # Genesis
    <2>1. /\ i \in 1..Len(Tail(todo)) /\ i + 1 \in 1..Len(Tail(todo)) /\ i + 1 \in 1..(Len(todo) - 1)
      BY <1>2, SMT
    <2>2. Tail(todo)[i] = todo[i + 1] /\ Tail(todo)[i + 1] = todo[(i + 1) + 1]
      BY <1>2, <2>1
    <2> QED BY <2>1, <2>2 DEF Consecutive
  <1>4. ASSUME Len(todo) > 1
        PROVE  Tail(todo) # <<>> /\ Head(Tail(todo)) = todo[2]
    <2>1. Len(Tail(todo)) # 0 /\ 1 \in 1..Len(Tail(todo))
      BY <1>2, <1>4, SMTT(30)
    <2>2. Tail(todo) # <<>>
      BY <1>2, <2>1, EmptySeq
    <2>3. Tail(todo)[1] = todo[1 + 1]
      BY <1>2, <2>1
    <2> QED BY <2>2, <2>3, <1>2, SMT
  <1> QED BY <1>2, <1>3, <1>4 DEF Consecutive

\* The floor is a state, not above the disk layer.
LEMMA FloorFacts ==
    ASSUME IInv, TreeOk
    PROVE  /\ Floor \in Root /\ Depth[Floor] \in Nat /\ Depth[Floor] <= base.id
           /\ ~Flattening => Floor = base.root
  <1>1. base.root \in Root /\ base.id = Depth[base.root] /\ base.id \in Nat
    BY BaseFacts
  <1>2. CASE Flattening
    <2>1. Floor = job.old /\ job.old \in Root
      BY <1>2 DEF Floor, TreeOk, FlatteningOk
    <2>2. base.root = job.old \/ Depth[base.root] > Depth[job.old]
      BY <1>2 DEF TreeOk, FlatteningOk
    <2> QED BY <1>1, <1>2, <2>1, <2>2, AtSelf, SMT
  <1>3. CASE ~Flattening
    BY <1>1, <1>3, SMT DEF Floor
  <1> QED BY <1>2, <1>3

\* A layer is above every state between it and the floor, and these are layers.
LEMMA LayerFacts ==
    ASSUME LayersClosed, Floor \in Root, Depth[Floor] \in Nat, NEW r \in layers
    PROVE  /\ r \in Root /\ Depth[r] \in Nat /\ Depth[r] > Depth[Floor] /\ r # Genesis /\ r # Floor
           /\ \A a : Above(r, a) /\ Depth[a] > Depth[Floor] => a \in layers
  <1>1. /\ r \in Root /\ Depth[r] \in Nat /\ Depth[r] > Depth[Floor]
        /\ \A i \in (Depth[Floor] + 1)..Depth[r] : At(r, i) \in layers
    BY AtSelf DEF LayersClosed
  <1>2. ASSUME NEW a, Above(r, a), Depth[a] > Depth[Floor] PROVE a \in layers
    <2>1. Depth[a] \in Nat /\ Depth[a] < Depth[r] /\ At(r, Depth[a]) = a
      BY <1>2, AboveFacts
    <2>2. Depth[a] \in (Depth[Floor] + 1)..Depth[r]
      BY <1>1, <1>2, <2>1, SMT
    <2> QED BY <1>1, <2>1, <2>2
  <1>3. r # Genesis
    BY <1>1, AtParent, SMT
  <1> QED BY <1>1, <1>2, <1>3, SMT
=============================================================================
