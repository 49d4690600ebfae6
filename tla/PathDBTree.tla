----------------------------- MODULE PathDBTree -----------------------------
(***************************************************************************)
(* The layer tree of the path database: every step keeps the indexes, the  *)
(* links between the layers and the layers themselves in order.            *)
(***************************************************************************)
EXTENDS PathDBLine, WellFoundedInduction

\* Zenon is the prover of a leaf that names none: it is enough for first-order steps,
\* and the leaves that need arithmetic, records or sequences name SMT.
USE Zenon

-----------------------------------------------------------------------------
(* Lists from which states are removed.                                    *)

\* t holds, in their order, the kept ones of the first n states of the list.
Filtered(t, list, n, kept) ==
    /\ t \in Seq(Root)
    /\ \A i \in 1..Len(t) : t[i] \in kept /\ \E m \in 1..n : list[m] = t[i]
    /\ \A m \in 1..n : list[m] \in kept => \E i \in 1..Len(t) : t[i] = list[m]
    /\ \A i, j \in 1..Len(t) : i < j => \E p, q \in 1..n : p < q /\ list[p] = t[i] /\ list[q] = t[j]

\* What Filter makes of the first n states of the list.
FilterStep(f, n, list, kept) ==
    IF n = 0 THEN <<>> ELSE IF list[n] \in kept THEN Append(f[n - 1], list[n]) ELSE f[n - 1]

\* A set of naturals that has 0, and n + 1 with every n, has all.
LEMMA Induction ==
    ASSUME NEW S, 0 \in S, \A n \in Nat : n \in S => n + 1 \in S
    PROVE  Nat \subseteq S
  <1> DEFINE Bad == {n \in Nat : n \notin S}
             R   == OpToRel(<, Nat)
  <1> SUFFICES ASSUME Bad # {} PROVE FALSE
    OBVIOUS
  <1>1. IsWellFoundedOn(R, Nat)
    BY NatLessThanWellFounded
  <1>2. \A x, y \in Nat : x < y => <<x, y>> \in R
    BY DEF OpToRel
  <1> HIDE DEF R
  <1>3. PICK x \in Bad : \A y \in Bad : ~ (<<y, x>> \in R)
    BY <1>1, WFMin
  <1>4. x \in Nat /\ x # 0 /\ x \notin S
    BY <1>3
  <1>5. x - 1 \in Nat /\ x - 1 < x
    BY <1>4, SMT
  <1>6. x - 1 \notin Bad
    BY <1>2, <1>3, <1>4, <1>5
  <1>7. (x - 1) + 1 \in S
    BY <1>5, <1>6
  <1> QED BY <1>4, <1>7, SMT

\* There is a function that Filter is defined by.
LEMMA FilterFunction ==
    ASSUME NEW list, NEW kept, Len(list) \in Nat
    PROVE  \E f : /\ f = [n \in 0..Len(list) |-> FilterStep(f, n, list, kept)]
                  /\ Filter(list, kept) = f[Len(list)]
  <1> DEFINE Ok(n) == \E f : f = [m \in 0..n |-> FilterStep(f, m, list, kept)]
             S == {n \in Nat : Ok(n)}
  <1>1. Ok(0)
    <2> DEFINE f == [m \in 0..0 |-> <<>>]
    <2>1. f = [m \in 0..0 |-> FilterStep(f, m, list, kept)]
      BY SMT DEF FilterStep
    <2> QED BY <2>1
  <1>2. ASSUME NEW n \in Nat, Ok(n) PROVE Ok(n + 1)
    <2>1. PICK g : g = [m \in 0..n |-> FilterStep(g, m, list, kept)]
      BY <1>2
    <2> DEFINE f == [m \in 0..(n + 1) |-> IF m = n + 1 THEN FilterStep(g, n + 1, list, kept) ELSE g[m]]
    <2>2. ASSUME NEW m \in 0..(n + 1) PROVE f[m] = FilterStep(f, m, list, kept)
      <3>1. CASE m = 0
        BY <2>1, <3>1, SMT DEF FilterStep
      <3>2. CASE m # 0
        <4>1. m - 1 \in 0..n /\ m - 1 \in 0..(n + 1) /\ m - 1 # n + 1
          BY <3>2, SMT
        <4>2. f[m - 1] = g[m - 1]
          BY <4>1
        <4>3. FilterStep(f, m, list, kept) = FilterStep(g, m, list, kept)
          BY <3>2, <4>2, SMT DEF FilterStep
        <4>4. f[m] = FilterStep(g, m, list, kept)
          BY <2>1, SMT
        <4> QED BY <4>3, <4>4
      <3> QED BY <3>1, <3>2
    <2>3. f = [m \in 0..(n + 1) |-> f[m]]
      OBVIOUS
    <2> HIDE DEF f
    <2>4. f = [m \in 0..(n + 1) |-> FilterStep(f, m, list, kept)]
      BY <2>2, <2>3
    <2> QED BY <2>4
  <1> HIDE DEF Ok
  <1>3. 0 \in S /\ \A n \in Nat : n \in S => n + 1 \in S
    BY <1>1, <1>2, SMT
  <1> HIDE DEF S
  <1>4. Len(list) \in S
    BY <1>3, Induction
  <1>5. \E f : f = [m \in 0..Len(list) |-> FilterStep(f, m, list, kept)]
    BY <1>4 DEF S, Ok
  <1> QED BY <1>5 DEF Filter, FilterStep

\* One more state of the list is looked at.
LEMMA FilteredStep ==
    ASSUME NEW list \in Seq(Root), NEW kept, NEW n \in Nat, n + 1 \in 1..Len(list), NEW t,
           Filtered(t, list, n, kept)
    PROVE  Filtered(IF list[n + 1] \in kept THEN Append(t, list[n + 1]) ELSE t, list, n + 1, kept)
  <1> DEFINE e == list[n + 1]
             u == Append(t, e)
  <1>1. e \in Root /\ t \in Seq(Root) /\ Len(t) \in Nat
    BY ElementOfSeq, SMT DEF Filtered
  <1>2. CASE e \notin kept
    <2>1. \A m \in 1..(n + 1) : list[m] \in kept => m \in 1..n
      BY <1>2, SMT
    <2>2. \A m \in 1..n : m \in 1..(n + 1)
      BY SMT
    <2>3. \A i \in 1..Len(t) : t[i] \in kept /\ \E m \in 1..(n + 1) : list[m] = t[i]
      BY <2>2 DEF Filtered
    <2>4. \A m \in 1..(n + 1) : list[m] \in kept => \E i \in 1..Len(t) : t[i] = list[m]
      BY <2>1 DEF Filtered
    <2>5. \A i, j \in 1..Len(t) : i < j => \E p, q \in 1..(n + 1) : p < q /\ list[p] = t[i] /\ list[q] = t[j]
      BY <2>2, SMT DEF Filtered
    <2> QED BY <1>1, <1>2, <2>3, <2>4, <2>5, SMT DEF Filtered
  <1>3. CASE e \in kept
    <2>1. /\ u \in Seq(Root) /\ Len(u) = Len(t) + 1 /\ u[Len(t) + 1] = e
          /\ \A i \in 1..Len(t) : u[i] = t[i]
      BY <1>1, AppendProperties, SMT
    <2> HIDE DEF u, e
    <2>2. n + 1 \in 1..(n + 1) /\ \A m \in 1..n : m \in 1..(n + 1) /\ m < n + 1
      BY SMT
    <2>3. \A i \in 1..Len(u) : i \in 1..Len(t) \/ i = Len(t) + 1
      BY <1>1, <2>1, SMT
    <2>4. \A i \in 1..Len(t) : i \in 1..Len(u)
      BY <1>1, <2>1, SMT
    <2>5. Len(t) + 1 \in 1..Len(u)
      BY <1>1, <2>1, SMT
    <2>6. list[n + 1] = e
      BY DEF e
    <2>7. ASSUME NEW i \in 1..Len(u)
          PROVE  u[i] \in kept /\ \E m \in 1..(n + 1) : list[m] = u[i]
      <3>1. CASE i = Len(t) + 1
        BY <1>3, <2>1, <2>2, <2>6, <3>1
      <3>2. CASE i \in 1..Len(t)
        <4>1. t[i] \in kept /\ \E m \in 1..n : list[m] = t[i]
          BY <3>2 DEF Filtered
        <4> QED BY <2>1, <2>2, <3>2, <4>1
      <3> QED BY <2>3, <3>1, <3>2
    <2>8. ASSUME NEW m \in 1..(n + 1), list[m] \in kept
          PROVE  \E i \in 1..Len(u) : u[i] = list[m]
      <3>1. CASE m = n + 1
        BY <2>1, <2>5, <2>6, <3>1
      <3>2. CASE m \in 1..n
        BY <2>1, <2>4, <2>8, <3>2, SMT DEF Filtered
      <3> QED BY <3>1, <3>2, SMT
    <2>9. ASSUME NEW i \in 1..Len(u), NEW j \in 1..Len(u), i < j
          PROVE  \E p, q \in 1..(n + 1) : p < q /\ list[p] = u[i] /\ list[q] = u[j]
      <3>1. i \in 1..Len(t) /\ u[i] = t[i]
        BY <1>1, <2>1, <2>9, SMT
      <3>2. CASE j \in 1..Len(t)
        <4>1. PICK p \in 1..n, q \in 1..n : p < q /\ list[p] = t[i] /\ list[q] = t[j]
          BY <2>9, <3>1, <3>2 DEF Filtered
        <4> QED BY <2>1, <2>2, <3>1, <3>2, <4>1
      <3>3. CASE j = Len(t) + 1
        <4>1. PICK p \in 1..n : list[p] = t[i]
          BY <3>1 DEF Filtered
        <4> QED BY <2>1, <2>2, <2>6, <3>1, <3>3, <4>1
      <3> QED BY <2>3, <3>2, <3>3
    <2>10. Filtered(u, list, n + 1, kept)
      BY <2>1, <2>7, <2>8, <2>9 DEF Filtered
    <2> QED BY <1>3, <2>10 DEF u, e
  <1> QED BY <1>2, <1>3

\* Filter leaves the kept states of a list in their order.
LEMMA FilterIs ==
    ASSUME NEW list \in Seq(Root), NEW kept
    PROVE  Filtered(Filter(list, kept), list, Len(list), kept)
  <1>1. Len(list) \in Nat
    BY SMT
  <1>2. PICK f : /\ f = [n \in 0..Len(list) |-> FilterStep(f, n, list, kept)]
                 /\ Filter(list, kept) = f[Len(list)]
    BY <1>1, FilterFunction
  <1> DEFINE S == {n \in Nat : n <= Len(list) => Filtered(f[n], list, n, kept)}
  <1>3. 0 \in S
    <2>1. f[0] = <<>>
      BY <1>1, <1>2, SMT DEF FilterStep
    <2>2. <<>> \in Seq(Root) /\ Len(<<>>) = 0
      BY SMT
    <2>3. Filtered(<<>>, list, 0, kept)
      BY <2>2, SMT DEF Filtered
    <2> QED BY <2>1, <2>3
  <1>4. ASSUME NEW n \in Nat, n \in S PROVE n + 1 \in S
    <2> SUFFICES ASSUME n + 1 <= Len(list) PROVE Filtered(f[n + 1], list, n + 1, kept)
      BY SMT
    <2>1. n + 1 \in 0..Len(list) /\ n + 1 \in 1..Len(list) /\ n + 1 # 0 /\ (n + 1) - 1 = n
      BY <1>1, SMT
    <2>2. Filtered(f[n], list, n, kept)
      BY <1>1, <1>4, SMT
    <2>3. f[n + 1] = FilterStep(f, n + 1, list, kept)
      BY <1>2, <2>1
    <2>4. f[n + 1] = IF list[n + 1] \in kept THEN Append(f[n], list[n + 1]) ELSE f[n]
      BY <2>1, <2>3 DEF FilterStep
    <2> QED BY <2>1, <2>2, <2>4, FilteredStep, SMT
  <1> HIDE DEF S
  <1>5. Len(list) \in S
    BY <1>1, <1>3, <1>4, Induction
  <1> QED BY <1>1, <1>2, <1>5, SMT DEF S

-----------------------------------------------------------------------------
(* The layer tree.                                                         *)

\* Ancestors are the states on the line.
LEMMA InAncestors ==
    ASSUME NEW r \in Root, NEW a \in Root
    PROVE  a \in Ancestors[r] <=> Depth[a] <= Depth[r] /\ At(r, Depth[a]) = a
  <1>1. ASSUME a \in Ancestors[r] PROVE Depth[a] <= Depth[r] /\ At(r, Depth[a]) = a
    BY <1>1, AtAncestor, AtSelf, SMT
  <1>2. ASSUME Depth[a] <= Depth[r], At(r, Depth[a]) = a PROVE a \in Ancestors[r]
    <2>1. Line[r] \in Seq(Root) /\ Len(Line[r]) \in Nat /\ Depth[r] = Len(Line[r]) - 1 /\ Depth[a] \in Nat
      BY AtSelf, TreeAssumption, SMT DEF Depth
    <2>2. Len(Line[r]) - Depth[a] \in 1..Len(Line[r])
      BY <1>2, <2>1, SMT
    <2> QED BY <1>2, <2>1, <2>2, SMT DEF At, Ancestors, Range
  <1> QED BY <1>1, <1>2

\* The three indexes depend on the layers and the floor.
LEMMA SameTree ==
    ASSUME LayersClosed, DescendantsOk, LookupOk, UNCHANGED <<layers, descendants, lookup>>,
           Floor' = Floor
    PROVE  LayersClosed' /\ DescendantsOk' /\ LookupOk'
  BY DEF LayersClosed, DescendantsOk, LookupOk, Lists

\* An empty tree is in order.
LEMMA EmptyTreeOk == EmptyTree => LayersClosed' /\ DescendantsOk' /\ LookupOk'
  <1> SUFFICES ASSUME EmptyTree PROVE LayersClosed' /\ DescendantsOk' /\ LookupOk'
    OBVIOUS
  <1>1. layers' = {} /\ descendants' = {} /\ lookup' = [k \in Key |-> <<>>]
    BY DEF EmptyTree, NoLookup
  <1>2. <<>> \in Seq(Root) /\ Len(<<>>) = 0
    BY SMT
  <1>3. lookup' \in [Key -> Seq(Root)]
    BY <1>1, <1>2
  <1>4. \A k \in Key : lookup'[k] = <<>>
    BY <1>1
  <1>5. \A k \in Key : Lists(lookup'[k], k, layers')
    BY <1>1, <1>2, <1>4, SMT DEF Lists
  <1> QED BY <1>1, <1>3, <1>5 DEF LayersClosed, DescendantsOk, LookupOk

\* With no layers committed nothing more is asked.
LEMMA NotFlattening == job'.op \notin {"cap", "full"} => FlatteningOk' /\ Floor' = base'.root
  BY DEF FlatteningOk, Flattening, Floor

\* The links stay right while the disk layer does.
LEMMA SamePtr ==
    ASSUME PtrOk, UNCHANGED <<ptr, base, up>>, layers' \subseteq layers
    PROVE  PtrOk'
  BY DEF PtrOk

\* Steps that leave the tree, the disk layer and the operation alone.
LEMMA IdleTree ==
    ASSUME TreeOk, UNCHANGED <<layers, ptr, descendants, lookup, base, up, job>>
    PROVE  TreeOk'
  <1>1. Floor' = Floor /\ FlatteningOk'
    BY DEF TreeOk, FlatteningOk, Floor, Flattening, Bottom
  <1> QED BY <1>1, SameTree, SamePtr DEF TreeOk

\* Steps of an operation that leave the tree and the disk layer alone.
LEMMA NextTree ==
    ASSUME TreeOk, UNCHANGED <<layers, ptr, descendants, lookup, base, up>>,
           Floor' = Floor, FlatteningOk'
    PROVE  TreeOk'
  BY SameTree, SamePtr DEF TreeOk

\* A new layer is added to the list of a key that it changed.
LEMMA ListAppend ==
    ASSUME NEW L \in SUBSET Root, NEW k, NEW list, Lists(list, k, L), NEW r \in Root,
           k \in Changed[r], \A l \in L : ~Above(l, r)
    PROVE  Lists(Append(list, r), k, L \cup {r})
  <1> DEFINE u == Append(list, r)
             n == Len(list)
  <1>1. list \in Seq(Root) /\ n \in Nat
    BY SMT DEF Lists
  <1>2. u \in Seq(Root) /\ Len(u) = n + 1 /\ u[n + 1] = r /\ \A i \in 1..n : u[i] = list[i]
    BY <1>1, AppendProperties, SMT
  <1> HIDE DEF u
  <1>3. \A i \in 1..(n + 1) : i \in 1..n \/ i = n + 1
    BY <1>1, SMT
  <1>4. n + 1 \in 1..(n + 1) /\ \A i \in 1..n : i \in 1..(n + 1) /\ i < n + 1
    BY <1>1, SMT
  <1>5. \A i \in 1..n : list[i] \in L /\ k \in Changed[list[i]]
    BY DEF Lists
  <1>6. \A i \in 1..(n + 1) : u[i] \in L \cup {r} /\ k \in Changed[u[i]]
    BY <1>2, <1>3, <1>5
  <1>7. ASSUME NEW l \in L \cup {r}, k \in Changed[l] PROVE \E i \in 1..(n + 1) : u[i] = l
    <2>1. CASE l = r
      BY <1>2, <1>4, <2>1
    <2>2. CASE l \in L
      <3>1. PICK i \in 1..n : list[i] = l
        BY <1>7, <2>2 DEF Lists
      <3> QED BY <1>2, <1>4, <3>1
    <2> QED BY <2>1, <2>2
  <1>8. ASSUME NEW i \in 1..(n + 1), NEW j \in 1..(n + 1), Above(u[j], u[i]) PROVE i < j
    <2>1. CASE i \in 1..n /\ j \in 1..n
      BY <1>2, <1>8, <2>1 DEF Lists
    <2>2. CASE i = n + 1 /\ j \in 1..n
      BY <1>2, <1>5, <1>8, <2>2
    <2>3. CASE j = n + 1 /\ i \in 1..n
      BY <1>4, <2>3
    <2>4. CASE i = n + 1 /\ j = n + 1
      BY <1>8, <2>4 DEF Above
    <2> QED BY <1>3, <2>1, <2>2, <2>3, <2>4
  <1>9. Lists(u, k, L \cup {r})
    BY <1>2, <1>6, <1>7, <1>8 DEF Lists
  <1> QED BY <1>9 DEF u

\* Update adds the layer to the tree and to its indexes.
LEMMA UpdateTree == ASSUME IInv, TreeOk, NEW r \in Root, Update(r) PROVE TreeOk'
  <1> DEFINE p == Parent[r]
  <1>1. /\ up /\ job.op = "none" /\ r \notin layers /\ r # Genesis /\ p \in layers \cup {base.root}
        /\ layers' = layers \cup {r} /\ UNCHANGED <<base, up>>
        /\ ptr' = [ptr EXCEPT ![r] = IF p \in layers THEN "diff" ELSE "disk"]
        /\ lookup' = [k \in Key |-> IF k \in Changed[r] THEN Append(lookup[k], r) ELSE lookup[k]]
    BY DEF Update, Running, histories
  <1>2. PICK n \in 1..Len(Line[r]) :
          LET path == SubSeq(Line[r], 1, n)
          IN  /\ IsPath(path)'
              /\ descendants' = descendants \cup {<<r, Parent[a]>> : a \in Range(path)}
              /\ job' = IF Excess(path) = <<>> THEN NoJob
                        ELSE [NoJob EXCEPT !.op = "cap", !.todo = Excess(path), !.pc = "history",
                                           !.top = path[MaxDiffLayers], !.old = base.root]
    BY DEF Update
  <1> DEFINE path == SubSeq(Line[r], 1, n)
  <1>3. /\ base.root \in Root /\ base.id = Depth[base.root] /\ base.id \in Nat /\ ~Flattening
        /\ Floor = base.root
    BY <1>1, BaseFacts DEF Flattening, Floor
  <1>4. LayersClosed /\ DescendantsOk /\ LookupOk /\ PtrOk
    BY DEF TreeOk
  <1>5. /\ p \in Root /\ p # r /\ Depth[r] \in Nat /\ Depth[p] = Depth[r] - 1 /\ Depth[p] \in Nat
        /\ p = At(r, Depth[p]) /\ \A i \in 0..Depth[p] : At(p, i) = At(r, i)
    <2>1. p \in Root /\ Depth[r] \in Nat /\ Depth[p] = Depth[r] - 1 /\ p = At(r, Depth[r] - 1) /\ Depth[p] \in Nat
      BY <1>1, AtParent, AtSelf
    <2>2. Depth[r] - 1 \in 0..Depth[r]
      BY <2>1, SMT
    <2>3. \A i \in 0..(Depth[r] - 1) : At(At(r, Depth[r] - 1), i) = At(r, i)
      BY <2>2, AtAt
    <2> QED BY <2>1, <2>3, SMT
  <1>6. /\ Depth[p] >= base.id /\ At(r, base.id) = base.root /\ Depth[r] > base.id
        /\ \A i \in (base.id + 1)..Depth[p] : At(r, i) \in layers
    <2>1. CASE p = base.root
      BY <1>3, <1>5, <2>1, SMT
    <2>2. CASE p \in layers
      <3>1. /\ Depth[p] > base.id /\ At(p, base.id) = base.root
            /\ \A i \in (base.id + 1)..Depth[p] : At(p, i) \in layers
        BY <1>3, <1>4, <2>2 DEF LayersClosed
      <3>2. base.id \in 0..Depth[p] /\ \A i \in (base.id + 1)..Depth[p] : i \in 0..Depth[p]
        BY <1>3, <1>5, <3>1, SMT
      <3> QED BY <1>3, <1>5, <3>1, <3>2, SMT
    <2> QED BY <1>1, <2>1, <2>2
  <1>7. \A l \in layers : /\ l \in Root /\ l # Genesis /\ ~Above(l, r) /\ Depth[l] > base.id
                          /\ Depth[l] \in Nat
    BY <1>1, <1>3, <1>4, <1>6, LayerFacts
  <1>8. Floor' = Floor
    BY <1>1, <1>2, <1>3 DEF Floor, Flattening, NoJob
  <1>9. \A i \in (base.id + 1)..Depth[r] : At(r, i) \in layers'
    <2>1. \A i \in (base.id + 1)..Depth[r] : i = Depth[r] \/ i \in (base.id + 1)..Depth[p]
      BY <1>3, <1>5, SMT
    <2>2. At(r, Depth[r]) = r
      BY AtSelf
    <2> QED BY <1>1, <1>6, <2>1, <2>2
  <1>10. LayersClosed'
    <2>1. ASSUME NEW l \in layers'
          PROVE  /\ l \in Root /\ Depth[l] > Depth[Floor] /\ At(l, Depth[Floor]) = Floor
                 /\ \A i \in (Depth[Floor] + 1)..Depth[l] : At(l, i) \in layers'
      <3>1. CASE l = r
        BY <1>3, <1>6, <1>9, <3>1
      <3>2. CASE l \in layers
        BY <1>1, <1>4, <3>2 DEF LayersClosed
      <3> QED BY <1>1, <3>1, <3>2
    <2> QED BY <1>8, <2>1 DEF LayersClosed
  <1>11. PtrOk'
    <2>1. ptr' \in [Root -> {"diff", "disk", "stale"}]
      BY <1>1, <1>4 DEF PtrOk
    <2>2. ptr'[r] = (IF p \in layers THEN "diff" ELSE "disk") /\ \A x \in Root \ {r} : ptr'[x] = ptr[x]
      BY <1>1, <1>4 DEF PtrOk
    <2>3. ASSUME NEW x \in Root
          PROVE  /\ ptr'[x] = "diff" => x # Genesis /\ Parent[x] # Genesis
                 /\ ptr'[x] = "disk" => up' /\ x # Genesis /\ Parent[x] = base'.root
      <3>1. CASE x = r
        BY <1>1, <1>7, <2>2, <3>1, SMT
      <3>2. CASE x # r
        BY <1>1, <1>4, <2>2, <3>2 DEF PtrOk
      <3> QED BY <3>1, <3>2
    <2>4. ASSUME NEW x \in layers', Parent[x] \in layers', Depth[Parent[x]] > base'.id
          PROVE  ptr'[x] = "diff"
      <3>1. CASE x = r
        BY <1>1, <1>5, <2>2, <2>4, <3>1
      <3>2. CASE x \in layers /\ x # r
        <4>1. x \in Root /\ x # Genesis
          BY <1>7, <3>2
        <4>2. Above(x, Parent[x])
          <5>1. Depth[x] \in Nat /\ Depth[x] # 0 /\ Parent[x] = At(x, Depth[x] - 1)
            BY <4>1, AtParent, AtSelf
          <5>2. Depth[x] - 1 \in Nat /\ Depth[x] - 1 < Depth[x]
            BY <5>1, SMT
          <5> QED BY <4>1, <5>1, <5>2, AboveAt
        <4>3. Parent[x] # r
          BY <1>7, <3>2, <4>2
        <4> QED BY <1>1, <1>4, <2>2, <2>4, <3>2, <4>1, <4>3 DEF PtrOk
      <3> QED BY <1>1, <2>4, <3>1, <3>2
    <2> QED BY <2>1, <2>3, <2>4 DEF PtrOk
  <1>12. /\ Line[r] \in Seq(Root) /\ Len(Line[r]) = Depth[r] + 1 /\ path \in Seq(Root) /\ Len(path) = n
         /\ \A i \in 1..n : path[i] = At(r, Depth[r] + 1 - i)
    <2>1. Line[r] \in Seq(Root) /\ Len(Line[r]) = Depth[r] + 1 /\ Len(Line[r]) \in Nat
      BY <1>5, TreeAssumption, SMT DEF Depth
    <2>2. path \in Seq(Root) /\ Len(path) = n /\ \A i \in 1..n : path[i] = Line[r][i]
      BY <2>1, ElementOfSeq, SubSeqProperties, SMT
    <2>3. \A i \in 1..n : (Depth[r] + 1) - (Depth[r] + 1 - i) = i
      BY <1>5, SMT
    <2> QED BY <2>1, <2>2, <2>3 DEF At
  <1>13. \A i \in 1..n : ptr'[path[i]] = "diff" <=> i < n
    <2>1. IsPath(path)'
      BY <1>2
    <2> QED BY <1>12, <2>1 DEF IsPath
  <1> HIDE DEF path
  <1>14. \A i \in 1..n : path[i] \in Root /\ path[i] # Genesis /\ Depth[path[i]] = Depth[r] + 1 - i
    <2> SUFFICES ASSUME NEW i \in 1..n
                 PROVE  path[i] \in Root /\ path[i] # Genesis /\ Depth[path[i]] = Depth[r] + 1 - i
      OBVIOUS
    <2>1. n \in Nat /\ n <= Depth[r] + 1
      BY <1>5, <1>12, SMT
    <2>2. Depth[r] + 1 - i \in 0..Depth[r]
      BY <1>5, <2>1, SMTT(30)
    <2>3. path[i] \in Root /\ Depth[path[i]] = Depth[r] + 1 - i
      BY <1>12, <2>2, AtAt, SMT
    <2>4. CASE i = 1
      <3>1. path[i] = r
        BY <1>5, <1>12, <2>4, AtSelf, SMT
      <3> QED BY <1>1, <2>3, <3>1
    <2>5. CASE i > 1
      <3> DEFINE c == path[i - 1]
      <3>1. i - 1 \in 1..n /\ i - 1 < n
        BY <2>1, <2>5, SMT
      <3>2. Depth[r] + 1 - (i - 1) \in 0..Depth[r]
        BY <1>5, <2>1, <2>5, SMT
      <3>3. c \in Root /\ Depth[c] = Depth[r] + 1 - (i - 1) /\ c = At(r, Depth[r] + 1 - (i - 1))
            /\ \A j \in 0..(Depth[r] + 1 - (i - 1)) : At(c, j) = At(r, j)
        BY <1>12, <3>1, <3>2, AtAt, SMT
      <3>4. c # Genesis /\ Parent[c] # Genesis
        BY <1>11, <1>13, <3>1, <3>3 DEF PtrOk
      <3>5. Parent[c] = At(c, Depth[c] - 1)
        BY <3>3, <3>4, AtParent
      <3>6. Depth[c] - 1 = Depth[r] + 1 - i /\ Depth[r] + 1 - i \in 0..(Depth[r] + 1 - (i - 1))
        BY <1>5, <2>2, <3>3, SMTT(30)
      <3>7. Parent[c] = path[i]
        BY <1>12, <3>3, <3>5, <3>6
      <3> QED BY <2>3, <3>4, <3>7
    <2> QED BY <2>4, <2>5, SMT
  <1>15. \A i \in 1..n : /\ Parent[path[i]] = At(r, Depth[r] - i) /\ Depth[r] - i \in 0..Depth[r]
    <2> SUFFICES ASSUME NEW i \in 1..n
                 PROVE  Parent[path[i]] = At(r, Depth[r] - i) /\ Depth[r] - i \in 0..Depth[r]
      OBVIOUS
    <2>1. path[i] \in Root /\ path[i] # Genesis /\ Depth[path[i]] = Depth[r] + 1 - i
          /\ Depth[path[i]] \in Nat /\ Depth[path[i]] # 0
      BY <1>14, AtSelf, AtParent
    <2>2. Parent[path[i]] = At(path[i], Depth[r] - i) /\ Depth[r] - i \in 0..Depth[r]
          /\ Depth[r] - i \in 0..(Depth[r] + 1 - i) /\ Depth[r] + 1 - i \in 0..Depth[r]
      <3>1. Depth[path[i]] - 1 = Depth[r] - i
        BY <1>5, <2>1, SMT
      <3> QED BY <1>5, <2>1, <3>1, AtParent, SMTT(30)
    <2>3. path[i] = At(r, Depth[r] + 1 - i)
      BY <1>12
    <2> QED BY <2>2, <2>3, AtAt, SMT
  <1>16. DescendantsOk'
    <2>1. descendants' = descendants \cup {<<r, Parent[path[i]]>> : i \in 1..n}
      BY <1>2, <1>12, SMTT(30) DEF Range, path
    <2>2. ASSUME NEW d \in descendants'
          PROVE  /\ d = <<d[1], d[2]>> /\ Above(d[1], d[2])
                 /\ Depth[d[2]] >= Depth[Floor] => d[1] \in layers'
      <3>1. CASE d \in descendants
        BY <1>1, <1>4, <3>1 DEF DescendantsOk
      <3>2. CASE d \notin descendants
        <4>1. PICK i \in 1..n : d = <<r, Parent[path[i]]>>
          BY <2>1, <3>2
        <4>2. Depth[r] - i \in Nat /\ Depth[r] - i < Depth[r] /\ d = <<r, At(r, Depth[r] - i)>>
          BY <1>5, <1>15, <4>1, SMTT(30)
        <4> QED BY <1>1, <4>2, AboveAt
      <3> QED BY <3>1, <3>2
    <2>3. ASSUME NEW l \in layers', NEW a \in Root, Above(l, a), Depth[a] >= Depth[Floor]
          PROVE  <<l, a>> \in descendants'
      <3>1. CASE l \in layers
        BY <1>4, <2>1, <2>3, <3>1 DEF DescendantsOk
      <3>2. CASE l = r
        <4> DEFINE m == Depth[r] - Depth[a]
        <4>1. Depth[a] \in Nat /\ Depth[a] < Depth[r] /\ At(r, Depth[a]) = a /\ Depth[a] >= base.id
          BY <1>3, <2>3, <3>2, AboveFacts
        <4>2. m <= n
          <5> SUFFICES ASSUME m > n PROVE FALSE
            BY <1>5, <4>1, SMT
          <5> DEFINE e == path[n]
          <5>1. n \in 1..n /\ n \in Nat
            BY <1>12, SMT
          <5>2. e \in Root /\ e # Genesis /\ Depth[e] = Depth[r] + 1 - n /\ e = At(r, Depth[r] + 1 - n)
                /\ Parent[e] = At(r, Depth[r] - n)
            BY <1>12, <1>14, <1>15, <5>1
          <5>3. /\ Depth[r] + 1 - n \in (base.id + 1)..Depth[r] /\ Depth[r] - n \in (base.id + 1)..Depth[r]
                /\ Depth[r] - n > base.id /\ Depth[r] - n \in 0..Depth[r]
            <6>1. Depth[r] - n > Depth[a] /\ Depth[r] \in Nat /\ n >= 1
              BY <1>5, <4>1, <5>1, SMT
            <6>2. Depth[r] - n > base.id /\ Depth[r] - n \in Nat
              BY <1>3, <4>1, <5>1, <6>1, SMT
            <6> QED BY <1>3, <5>1, <6>1, <6>2, SMT
          <5>4. e \in layers' /\ Parent[e] \in layers'
            BY <1>9, <5>2, <5>3
          <5>5. Depth[Parent[e]] = Depth[r] - n
            BY <5>2, <5>3, AtAt, SMTT(30)
          <5>6. ptr'[e] = "diff"
            BY <1>1, <1>11, <5>3, <5>4, <5>5, SMTT(30) DEF PtrOk
          <5> QED BY <1>13, <5>1, <5>6, SMT
        <4>3. m \in 1..n /\ Depth[r] - m = Depth[a]
          BY <1>5, <1>12, <4>1, <4>2, SMTT(30)
        <4>4. Parent[path[m]] = a
          BY <1>15, <4>1, <4>3
        <4> QED BY <2>1, <3>2, <4>3, <4>4
      <3> QED BY <1>1, <3>1, <3>2
    <2> QED BY <1>8, <2>2, <2>3 DEF DescendantsOk
  <1>17. LookupOk'
    <2>1. ASSUME NEW k \in Key PROVE lookup'[k] \in Seq(Root) /\ Lists(lookup'[k], k, layers')
      <3>1. Lists(lookup[k], k, layers) /\ lookup[k] \in Seq(Root)
        BY <1>4 DEF LookupOk
      <3>2. CASE k \in Changed[r]
        <4>1. layers \in SUBSET Root /\ \A l \in layers : ~Above(l, r)
          BY <1>7
        <4>2. Lists(Append(lookup[k], r), k, layers \cup {r})
          BY <3>1, <3>2, <4>1, ListAppend
        <4>3. lookup'[k] = Append(lookup[k], r)
          BY <1>1, <3>2
        <4> QED BY <1>1, <4>2, <4>3, SMT DEF Lists
      <3>3. CASE k \notin Changed[r]
        <4>1. lookup'[k] = lookup[k]
          BY <1>1, <3>3
        <4> QED BY <1>1, <3>1, <3>3, <4>1 DEF Lists
      <3> QED BY <3>2, <3>3
    <2>2. lookup' = [k \in Key |-> lookup'[k]]
      BY <1>1
    <2> QED BY <2>1, <2>2 DEF LookupOk
  <1>18. FlatteningOk'
    <2>1. CASE Excess(path) = <<>>
      <3>1. job' = NoJob
        BY <1>2, <2>1 DEF path
      <3> QED BY <3>1, NotFlattening DEF NoJob
    <2>2. CASE Excess(path) # <<>>
      <3> DEFINE todo == Excess(path)
                 m == MaxDiffLayers + 1
      <3>1. job' = [op |-> "cap", todo |-> todo, top |-> path[MaxDiffLayers], pc |-> "history",
                    old |-> base.root, flush |-> FALSE]
        BY <1>2, <2>2 DEF NoJob, path
      <3>2. m \in 1..n /\ todo = Reverse(SubSeq(path, m, n)) /\ n \in Nat /\ m - 1 \in 1..n
        BY <1>12, <2>2, PathDBAssumption, SMT DEF Excess
      <3> HIDE DEF todo, m
      <3>3. /\ todo # <<>> /\ todo \in Seq(Root) /\ Len(todo) = n - m + 1
            /\ \A i \in 1..(n - m + 1) : todo[i] = At(r, Depth[r] - n + i)
        <4>1. todo = Reverse(SubSeq(SubSeq(Line[r], 1, n), m, n))
          BY <3>2 DEF path
        <4>2. /\ Consecutive(todo) /\ todo # <<>> /\ Len(todo) = n - m + 1
              /\ \A i \in 1..(n - m + 1) : todo[i] = At(r, Depth[r] - n + i)
          BY <3>2, <4>1, Descending, SMTT(30)
        <4> QED BY <4>2 DEF Consecutive
      <3>4. Bottom' = todo[1] /\ 1 \in 1..(n - m + 1)
        BY <3>1, <3>2, <3>3, SMT DEF Bottom
      <3>5. ASSUME Depth[Bottom'] = base.id + 1 PROVE Range(todo) \subseteq layers'
        <4>1. Depth[r] - n + 1 \in 0..Depth[r]
          <5>1. n \in 1..(Depth[r] + 1) /\ Depth[r] \in Nat
            BY <1>5, <1>12
          <5> QED BY <5>1, SMT
        <4>2. Depth[r] - n + 1 = base.id + 1
          BY <3>3, <3>4, <3>5, <4>1, AtAt
        <4>3. ASSUME NEW i \in 1..(n - m + 1) PROVE todo[i] \in layers'
          <5>1. Depth[r] - n + i \in (base.id + 1)..Depth[r]
            BY <1>3, <1>5, <3>2, <4>2, SMTT(30)
          <5> QED BY <1>9, <3>3, <5>1
        <4> QED BY <3>3, <4>3, SMTT(30) DEF Range
      <3>6. /\ path[m - 1] \in Root \ {Genesis} /\ Parent[path[m - 1]] = Last(todo)
        <4>1. Parent[path[m - 1]] = At(r, Depth[r] - (m - 1))
          BY <1>15, <3>2
        <4>2. n - m + 1 \in 1..(n - m + 1) /\ Depth[r] - n + (n - m + 1) = Depth[r] - (m - 1)
          BY <1>5, <3>2, SMTT(30)
        <4>3. Last(todo) = At(r, Depth[r] - (m - 1))
          BY <3>3, <4>2 DEF Last
        <4> QED BY <1>14, <3>2, <4>1, <4>3
      <3>7. path[MaxDiffLayers] = path[m - 1]
        BY PathDBAssumption, SMT DEF m
      <3>8. /\ job'.op = "cap" /\ job'.pc = "history" /\ job'.todo = todo /\ job'.old = base.root
            /\ job'.top = path[m - 1]
        BY <3>1, <3>7
      <3> QED BY <1>1, <1>3, <3>5, <3>6, <3>8 DEF FlatteningOk, Flattening
    <2> QED BY <2>1, <2>2
  <1> QED BY <1>10, <1>11, <1>16, <1>17, <1>18 DEF TreeOk

\* Commit leaves the tree alone; what it commits are layers down to the disk layer.
LEMMA CommitTree == ASSUME IInv, TreeOk, NEW r \in Root, Commit(r) PROVE TreeOk'
  <1>1. /\ up /\ job.op = "none" /\ r \in layers
        /\ UNCHANGED <<layers, ptr, descendants, lookup, base, up>>
    BY DEF Commit, Running, tree, histories
  <1>2. PICK n \in 1..Len(Line[r]) :
          job' = [NoJob EXCEPT !.op = "full", !.todo = Reverse(SubSeq(Line[r], 1, n)),
                               !.pc = "history", !.old = base.root, !.flush = TRUE]
    BY DEF Commit
  <1> DEFINE path == SubSeq(Line[r], 1, n)
             todo == Reverse(path)
  <1>3. job' = [op |-> "full", todo |-> todo, top |-> None, pc |-> "history",
                old |-> base.root, flush |-> TRUE]
    BY <1>2 DEF NoJob
  <1>4. todo = Reverse(SubSeq(SubSeq(Line[r], 1, n), 1, n)) /\ 1 \in 1..n /\ n \in Nat
        /\ n <= Depth[r] + 1 /\ Depth[r] \in Nat
    <2>1. Line[r] \in Seq(Root) /\ Len(Line[r]) \in Nat /\ Depth[r] = Len(Line[r]) - 1
      BY TreeAssumption, SMT DEF Depth
    <2>2. path \in Seq(Root) /\ Len(path) = n
      BY <2>1, ElementOfSeq, SubSeqProperties, SMT
    <2>3. path = SubSeq(path, 1, n)
      BY <2>2, SubSeqFull
    <2> HIDE DEF path
    <2>4. 1 \in 1..n /\ n \in Nat /\ n <= Depth[r] + 1
      BY <2>1, SMT
    <2>5. Depth[r] \in Nat
      BY AtSelf
    <2> QED BY <2>3, <2>4, <2>5 DEF path
  <1> HIDE DEF todo, path
  <1>5. /\ Consecutive(todo) /\ todo # <<>> /\ Len(todo) = n
        /\ \A i \in 1..n : todo[i] = At(r, Depth[r] - n + i)
    BY <1>4, Descending, SMT
  <1>6. /\ base.root \in Root /\ base.id = Depth[base.root] /\ base.id \in Nat /\ ~Flattening
        /\ Floor = base.root
    BY <1>1, BaseFacts DEF Flattening, Floor
  <1>7. Floor' = Floor
    BY <1>1, <1>3, <1>6 DEF Floor, Flattening
  <1>8. Bottom' = todo[1] /\ todo[1] = At(r, Depth[r] - n + 1) /\ Depth[todo[1]] = Depth[r] - n + 1
    <2>1. Depth[r] - n + 1 \in 0..Depth[r]
      BY <1>4, SMT
    <2> QED BY <1>3, <1>4, <1>5, <2>1, AtAt, SMT DEF Bottom, Consecutive
  <1>9. ASSUME Depth[Bottom'] = base.id + 1 PROVE Range(todo) \subseteq layers
    <2>1. Depth[r] - n + 1 = base.id + 1
      BY <1>8, <1>9
    <2>2. ASSUME NEW i \in 1..n PROVE todo[i] \in layers
      <3>1. Depth[r] - n + i \in (base.id + 1)..Depth[r]
        <4>1. Depth[r] = base.id + n
          BY <1>4, <1>6, <2>1, SMT
        <4>2. \A x, y \in Nat : \A z \in 1..y : (x + y) - y + z \in (x + 1)..(x + y)
          BY SMT
        <4> QED BY <1>4, <1>6, <4>1, <4>2
      <3> QED BY <1>1, <1>5, <1>6, <3>1 DEF TreeOk, LayersClosed
    <2> QED BY <1>5, <2>2, SMT DEF Range, Consecutive
  <1>10. /\ job'.op = "full" /\ job'.pc = "history" /\ job'.todo = todo /\ job'.old = base.root
         /\ job'.top = None
    BY <1>3
  <1>11. FlatteningOk'
    BY <1>1, <1>6, <1>9, <1>10 DEF FlatteningOk, Flattening
  <1> QED BY <1>1, <1>7, <1>11, NextTree

\* The history of the bottom layer is appended, or the operation fails before it
\* changed anything.
LEMMA WriteHistoryTree == ASSUME IInv, TreeOk, WriteHistory PROVE TreeOk'
  <1>1. /\ up /\ job.op \in {"cap", "full"} /\ job.pc = "history" /\ job.todo # <<>>
        /\ base.id = Len(items)
    BY DEF IInv, WriteHistory, Running, JobOk
  <1>2. UNCHANGED <<up, base, layers, ptr, descendants, lookup>>
    BY DEF WriteHistory, tree
  <1>4. Flattening /\ FlatteningOk
    BY <1>1 DEF Flattening, TreeOk
  <1>5. CASE NextHistory
    <2>1. job' = [job EXCEPT !.pc = "prune"]
      BY <1>5 DEF WriteHistory
    <2>2. /\ job'.op = job.op /\ job'.pc = "prune" /\ job'.todo = job.todo /\ job'.old = job.old
          /\ job'.top = job.top
      BY <2>1 DEF IInv, JobOk
    <2>3. Range(job.todo) \subseteq layers
      BY <1>1, <1>4, <1>5 DEF FlatteningOk, NextHistory
    <2>4. FlatteningOk' /\ Floor' = Floor
      BY <1>2, <1>4, <2>2, <2>3 DEF FlatteningOk, Flattening, Floor
    <2> QED BY <1>2, <2>4, NextTree
  <1>6. CASE ~NextHistory
    <2>1. job' = NoJob
      BY <1>6 DEF WriteHistory
    <2>2. base.root = job.old
      BY <1>1, <1>4, <1>6 DEF FlatteningOk, NextHistory
    <2>3. FlatteningOk' /\ Floor' = base'.root
      BY <2>1, NotFlattening DEF NoJob
    <2>4. Floor' = Floor
      BY <1>2, <1>4, <2>2, <2>3 DEF Floor
    <2> QED BY <1>2, <2>3, <2>4, NextTree
  <1> QED BY <1>5, <1>6

\* writeStateHistory leaves the tree alone.
LEMMA PruneHistoryTree == ASSUME IInv, TreeOk, PruneHistory PROVE TreeOk'
  <1>1. /\ job.op \in {"cap", "full"} /\ job.pc = "prune"
        /\ UNCHANGED <<up, base, layers, ptr, descendants, lookup>>
    BY DEF IInv, PruneHistory, Running, JobOk, tree
  <1>2. PICK flush : job' = [job EXCEPT !.pc = "merge", !.flush = flush]
    BY DEF PruneHistory
  <1>3. /\ job'.op = job.op /\ job'.pc = "merge" /\ job'.todo = job.todo /\ job'.old = job.old
        /\ job'.top = job.top
    BY <1>2 DEF IInv, JobOk
  <1>4. FlatteningOk' /\ Floor' = Floor
    BY <1>1, <1>3 DEF TreeOk, FlatteningOk, Flattening, Floor
  <1> QED BY <1>1, <1>4, NextTree

\* The bottom layer becomes the disk layer, and the layer above it is linked to it.
LEMMA MergeLayerTree == ASSUME IInv, TreeOk, MergeLayer PROVE TreeOk'
  <1> DEFINE next == IF Len(job.todo) > 1 THEN job.todo[2] ELSE job.top
  <1>1. /\ up /\ job.op \in {"cap", "full"} /\ job.pc = "merge" /\ job.todo # <<>>
        /\ Parent[Bottom] = base.root /\ Bottom # Genesis /\ Consecutive(job.todo)
    BY DEF IInv, MergeLayer, Running, JobOk
  <1>2. /\ UNCHANGED <<up, layers, descendants, lookup>> /\ Relink(next)
        /\ base'.root = Bottom /\ base'.id = Depth[Bottom]
        /\ job' = [job EXCEPT !.todo = Tail(@),
                              !.pc = IF Len(job.todo) > 1 THEN "history" ELSE "finish",
                              !.flush = job.op = "full"]
    BY SMT DEF MergeLayer, histories
  <1>3. Bottom \in Root /\ Depth[Bottom] \in Nat /\ Len(job.todo) \in Nat \ {0} /\ Bottom = job.todo[1]
    BY <1>1, BottomInTodo
  <1>4. /\ base.root \in Root /\ base.id = Depth[base.root] /\ base.id \in Nat
        /\ Depth[Bottom] = base.id + 1
    <2>1. base.root \in Root /\ base.id = Depth[base.root] /\ base.id \in Nat
      BY BaseFacts
    <2>2. Depth[base.root] = Depth[Bottom] - 1
      BY <1>1, <1>3, AtParent
    <2> QED BY <1>3, <2>1, <2>2, SMT
  <1>5. /\ job'.op = job.op /\ job'.todo = Tail(job.todo) /\ job'.old = job.old /\ job'.top = job.top
        /\ job'.pc = IF Len(job.todo) > 1 THEN "history" ELSE "finish"
    BY <1>2 DEF IInv, JobOk
  <1>6. Flattening /\ FlatteningOk /\ Floor = job.old /\ Floor' = Floor
    BY <1>1, <1>5 DEF Flattening, TreeOk, Floor
  <1>7. job.old \in Root /\ Depth[job.old] \in Nat /\ Depth[job.old] <= base.id
        /\ Range(job.todo) \subseteq layers
    BY <1>1, <1>6, FloorFacts DEF FlatteningOk
  <1>8. ASSUME Len(job.todo) > 1
        PROVE  /\ Parent[job.todo[2]] = Bottom /\ job.todo[2] # Genesis /\ job.todo[2] \in Root
               /\ Depth[job.todo[2]] = Depth[Bottom] + 1 /\ Tail(job.todo) # <<>>
               /\ Head(Tail(job.todo)) = job.todo[2] /\ Range(Tail(job.todo)) \subseteq Range(job.todo)
               /\ Last(Tail(job.todo)) = Last(job.todo)
    <2>1. 1 \in 1..(Len(job.todo) - 1) /\ 2 \in 1..Len(job.todo) /\ job.todo \in Seq(Root)
      BY <1>1, <1>3, <1>8, SMT DEF Consecutive
    <2>2. Parent[job.todo[1 + 1]] = job.todo[1] /\ job.todo[1 + 1] # Genesis
      BY <1>1, <2>1 DEF Consecutive
    <2>3. Parent[job.todo[2]] = Bottom /\ job.todo[2] # Genesis /\ job.todo[2] \in Root
      BY <1>3, <2>1, <2>2, ElementOfSeq, SMT
    <2>4. Depth[job.todo[2]] = Depth[Bottom] + 1
      <3>1. Depth[Bottom] = Depth[job.todo[2]] - 1 /\ Depth[job.todo[2]] \in Nat
        BY <2>3, AtParent, AtSelf
      <3> QED BY <3>1, SMT
    <2>5. Tail(job.todo) # <<>> /\ Head(Tail(job.todo)) = job.todo[2]
      BY <1>1, <1>8, TailConsecutive
    <2>6. /\ Len(Tail(job.todo)) = Len(job.todo) - 1
          /\ \A i \in 1..(Len(job.todo) - 1) : Tail(job.todo)[i] = job.todo[i + 1]
      BY <1>1, <2>1, SMT
    <2>7. \A i \in 1..(Len(job.todo) - 1) : i + 1 \in 1..Len(job.todo)
      BY <1>3, SMT
    <2>8. Range(Tail(job.todo)) \subseteq Range(job.todo)
      <3> SUFFICES ASSUME NEW i \in 1..(Len(job.todo) - 1) PROVE Tail(job.todo)[i] \in Range(job.todo)
        BY <2>1, <2>6, SMT DEF Range
      <3> QED BY <2>1, <2>6, <2>7, SMT DEF Range
    <2>9. Last(Tail(job.todo)) = Last(job.todo)
      <3>1. Len(job.todo) - 1 \in 1..(Len(job.todo) - 1) /\ (Len(job.todo) - 1) + 1 = Len(job.todo)
        BY <1>3, <1>8, SMT
      <3> QED BY <2>6, <3>1 DEF Last
    <2> QED BY <2>3, <2>4, <2>5, <2>8, <2>9
  <1>9. Bottom \in layers
    <2>1. 1 \in 1..Len(job.todo) /\ job.todo \in Seq(Root)
      BY <1>1, <1>3, SMT DEF Consecutive
    <2> QED BY <1>3, <1>7, <2>1, SMT DEF Range
  <1>10. next \in Root => next # Genesis /\ Parent[next] = Bottom
    <2>1. CASE Len(job.todo) > 1
      BY <1>8, <2>1
    <2>2. CASE ~(Len(job.todo) > 1)
      <3>1. Last(job.todo) = Bottom
        BY <1>3, <2>2, SMT DEF Last
      <3>2. ASSUME job.top \in Root PROVE job.top # Genesis /\ Parent[job.top] = Bottom
        BY <1>1, <1>6, <3>1, <3>2, PathDBAssumption DEF FlatteningOk
      <3> QED BY <2>2, <3>2
    <2> QED BY <2>1, <2>2
  <1> HIDE DEF next
  <1>11. PtrOk'
    <2>1. PtrOk
      BY DEF TreeOk
    <2>2. \A r \in Root : ptr'[r] = IF r = next THEN "disk" ELSE IF ptr[r] = "disk" THEN "stale" ELSE ptr[r]
      BY <1>2 DEF Relink
    <2>3. ptr' \in [Root -> {"diff", "disk", "stale"}]
      BY <1>2, <2>1 DEF Relink, PtrOk
    <2>4. ASSUME NEW r \in Root
          PROVE  /\ ptr'[r] = "diff" => r # Genesis /\ Parent[r] # Genesis
                 /\ ptr'[r] = "disk" => up' /\ r # Genesis /\ Parent[r] = base'.root
      BY <1>1, <1>2, <1>10, <2>1, <2>2, SMT DEF PtrOk
    <2>5. ASSUME NEW r \in layers, Parent[r] \in layers, Depth[Parent[r]] > base'.id
          PROVE  ptr'[r] = "diff"
      <3>1. r \in Root /\ Parent[r] \in Root
        BY <2>5 DEF TreeOk, LayersClosed
      <3>2. r # next
        BY <1>2, <1>4, <1>10, <2>5, <3>1, SMT
      <3>3. Depth[Parent[r]] > base.id
        BY <1>2, <1>4, <2>5, <3>1, AtSelf, SMT
      <3> QED BY <2>1, <2>2, <2>5, <3>1, <3>2, <3>3 DEF PtrOk
    <2> QED BY <1>2, <2>3, <2>4, <2>5 DEF PtrOk
  <1>12. FlatteningOk'
    <2>1. base'.root \in layers' /\ Depth[base'.root] > Depth[job'.old] /\ job'.old \in Root
      BY <1>2, <1>4, <1>5, <1>7, <1>9, SMT
    <2>2. CASE Len(job.todo) > 1
      <3>1. job'.pc = "history" /\ Bottom' = job.todo[2] /\ job'.todo # <<>>
            /\ Depth[Bottom'] = base'.id + 1 /\ Range(job'.todo) \subseteq layers'
            /\ Last(job'.todo) = Last(job.todo)
        BY <1>2, <1>5, <1>7, <1>8, <2>2 DEF Bottom
      <3>2. job.top # None => job.top \in Root \ {Genesis} /\ Parent[job.top] = Last(job.todo)
        BY <1>1, <1>6 DEF FlatteningOk
      <3> QED BY <1>5, <2>1, <3>1, <3>2 DEF FlatteningOk
    <2>3. CASE ~(Len(job.todo) > 1)
      <3>1. job'.pc = "finish" /\ job'.todo = <<>>
        <4>1. job.todo \in Seq(Root)
          BY <1>1 DEF Consecutive
        <4>2. Len(job.todo) = 1
          <5>1. \A x \in Nat \ {0} : ~(x > 1) => x = 1
            BY SMT
          <5> QED BY <1>3, <2>3, <5>1
        <4>3. Tail(job.todo) \in Seq(Root) /\ Len(Tail(job.todo)) = 0
          BY <1>1, <4>1, <4>2, SMT
        <4>4. Tail(job.todo) = <<>>
          BY <4>3, EmptySeq
        <4> QED BY <1>5, <2>3, <4>4
      <3> QED BY <1>5, <2>1, <3>1 DEF FlatteningOk
    <2> QED BY <2>2, <2>3
  <1> QED BY <1>2, <1>6, <1>11, <1>12, SameTree DEF TreeOk

\* A list without the layers that are gone lists the others.
LEMMA ListFilter ==
    ASSUME NEW L, NEW kept \in SUBSET L, NEW k, NEW list, Lists(list, k, L)
    PROVE  Lists(Filter(list, kept), k, kept)
  <1> DEFINE t == Filter(list, kept)
             n == Len(list)
  <1>1. list \in Seq(Root) /\ n \in Nat
    BY SMT DEF Lists
  <1>2. Filtered(t, list, n, kept)
    BY <1>1, FilterIs
  <1> HIDE DEF t
  <1>3. t \in Seq(Root) /\ Len(t) \in Nat
    BY <1>2, SMT DEF Filtered
  <1>4. \A i \in 1..Len(t) : t[i] \in kept /\ k \in Changed[t[i]]
    <2> SUFFICES ASSUME NEW i \in 1..Len(t) PROVE t[i] \in kept /\ k \in Changed[t[i]]
      OBVIOUS
    <2>1. t[i] \in kept /\ \E m \in 1..n : list[m] = t[i]
      BY <1>2 DEF Filtered
    <2> QED BY <2>1 DEF Lists
  <1>5. \A r \in kept : k \in Changed[r] => \E i \in 1..Len(t) : t[i] = r
    <2> SUFFICES ASSUME NEW r \in kept, k \in Changed[r] PROVE \E i \in 1..Len(t) : t[i] = r
      OBVIOUS
    <2>1. PICK m \in 1..n : list[m] = r
      BY DEF Lists
    <2> QED BY <1>2, <2>1 DEF Filtered
  <1>6. ASSUME NEW i \in 1..Len(t), NEW j \in 1..Len(t), Above(t[j], t[i]) PROVE i < j
    <2>1. i # j
      BY <1>6 DEF Above
    <2>2. ASSUME j < i PROVE FALSE
      <3>1. PICK p \in 1..n, q \in 1..n : p < q /\ list[p] = t[j] /\ list[q] = t[i]
        BY <1>2, <2>2 DEF Filtered
      <3>2. q < p
        BY <1>6, <3>1 DEF Lists
      <3> QED BY <1>1, <3>1, <3>2, SMT
    <2> QED BY <1>3, <2>1, <2>2, SMT
  <1>7. Lists(t, k, kept)
    BY <1>3, <1>4, <1>5, <1>6 DEF Lists
  <1> QED BY <1>7 DEF t

\* The end of cap keeps the layers above the new disk layer.
LEMMA FinishCapTree == ASSUME IInv, TreeOk, FinishCap PROVE TreeOk'
  <1> DEFINE b == base.root
             kept == {r \in layers : r # b /\ b \in Ancestors[r]}
             gone == (layers \ (kept \cup {b})) \cup {job.old}
  <1>1. /\ job.op = "cap" /\ job.pc = "finish" /\ job' = NoJob /\ UNCHANGED <<base, ptr, up>>
        /\ layers' = kept /\ descendants' = {d \in descendants : d[2] \notin gone}
        /\ lookup' = [k \in Key |-> Filter(lookup[k], kept)]
    BY DEF FinishCap, histories
  <1>2. LayersClosed /\ DescendantsOk /\ LookupOk /\ PtrOk /\ FlatteningOk
    BY DEF TreeOk
  <1>3. /\ b \in Root /\ Depth[b] \in Nat /\ b \in layers /\ Flattening /\ Floor = job.old
        /\ Depth[b] > Depth[job.old] /\ job.old \in Root /\ Depth[job.old] \in Nat
    <2>1. Flattening /\ Floor = job.old /\ b \in layers
      BY <1>1, <1>2 DEF Flattening, Floor, FlatteningOk
    <2>2. Floor \in Root /\ Depth[Floor] \in Nat
      BY FloorFacts
    <2>3. b \in Root /\ Depth[b] \in Nat /\ Depth[b] > Depth[Floor]
      BY <1>2, <2>1, <2>2, LayerFacts
    <2> QED BY <2>1, <2>2, <2>3
  <1>4. FlatteningOk' /\ Floor' = b
    BY <1>1, NotFlattening DEF NoJob
  <1>5. PtrOk'
    BY <1>1, <1>2, SamePtr
  <1>6. \A r \in layers : /\ r \in Root /\ Depth[r] \in Nat
                          /\ \A a : Above(r, a) /\ Depth[a] > Depth[job.old] => a \in layers
    BY <1>2, <1>3, LayerFacts
  <1>7. \A r \in layers : r \in kept <=> Above(r, b)
    <2> SUFFICES ASSUME NEW r \in layers PROVE r # b /\ b \in Ancestors[r] <=> Above(r, b)
      OBVIOUS
    <2>1. r \in Root /\ Depth[r] \in Nat
      BY <1>6
    <2>2. b \in Ancestors[r] <=> Depth[b] <= Depth[r] /\ At(r, Depth[b]) = b
      BY <1>3, <2>1, InAncestors
    <2>3. Depth[b] \in 0..Depth[r] <=> Depth[b] <= Depth[r]
      BY <1>3, <2>1, SMT
    <2> QED BY <1>3, <2>1, <2>2, <2>3 DEF Above, IsAncestor
  <1>8. kept \subseteq layers
    OBVIOUS
  <1> HIDE DEF kept
  <1>9. \A r \in layers, a \in Root : Above(r, a) /\ Above(a, b) => Above(r, b)
    <2> SUFFICES ASSUME NEW r \in layers, NEW a \in Root, Above(r, a), Above(a, b) PROVE Above(r, b)
      OBVIOUS
    <2>1. /\ Depth[a] < Depth[r] /\ At(r, Depth[a]) = a /\ Depth[b] < Depth[a] /\ At(a, Depth[b]) = b
          /\ Depth[a] \in Nat /\ Depth[r] \in Nat /\ r \in Root
      BY AboveFacts
    <2>2. Depth[a] \in 0..Depth[r] /\ Depth[b] \in 0..Depth[a] /\ Depth[b] < Depth[r]
      BY <1>3, <2>1, SMTT(30)
    <2>3. At(r, Depth[b]) = b
      BY <2>1, <2>2, AtAt, SMT
    <2> QED BY <1>3, <2>1, <2>2, <2>3, AboveAt, SMT
  <1>10. \A r \in kept, a \in Root :
            Above(r, a) /\ Depth[a] >= Depth[b] => a = b \/ a \in kept
    <2> SUFFICES ASSUME NEW r \in kept, NEW a \in Root, Above(r, a), Depth[a] >= Depth[b]
                 PROVE  a = b \/ a \in kept
      OBVIOUS
    <2>1. /\ r \in layers /\ r \in Root /\ Depth[r] \in Nat /\ Depth[a] \in Nat
          /\ Depth[a] < Depth[r] /\ At(r, Depth[a]) = a /\ At(r, Depth[b]) = b
      BY <1>7, <1>8, AboveFacts
    <2>2. Depth[a] \in 0..Depth[r] /\ Depth[b] \in 0..Depth[a] /\ Depth[a] > Depth[job.old]
      BY <1>3, <2>1, SMT
    <2>3. a \in layers /\ At(a, Depth[b]) = b
      BY <1>6, <2>1, <2>2, AtAt, SMT
    <2>4. CASE Depth[a] = Depth[b]
      BY <2>1, <2>4
    <2>5. CASE Depth[b] < Depth[a]
      <3>1. Above(a, b)
        BY <1>3, <2>3, <2>5, AboveAt
      <3> QED BY <1>7, <2>3, <3>1
    <2> QED BY <1>3, <2>1, <2>4, <2>5, SMT
  <1>11. LayersClosed'
    <2> SUFFICES ASSUME NEW r \in kept
                 PROVE  /\ r \in Root /\ Depth[r] > Depth[b] /\ At(r, Depth[b]) = b
                        /\ \A i \in (Depth[b] + 1)..Depth[r] : At(r, i) \in kept
      BY <1>1, <1>4 DEF LayersClosed
    <2>1. r \in Root /\ Depth[r] \in Nat /\ Depth[r] > Depth[b] /\ At(r, Depth[b]) = b
      BY <1>7, <1>8, AboveFacts
    <2>2. ASSUME NEW i \in (Depth[b] + 1)..Depth[r] PROVE At(r, i) \in kept
      <3>1. CASE i = Depth[r]
        BY <2>1, <3>1, AtSelf
      <3>2. CASE i # Depth[r]
        <4>1. i \in Nat /\ i < Depth[r] /\ i > Depth[b]
          BY <1>3, <2>1, <3>2, SMT
        <4>2. Above(r, At(r, i)) /\ At(r, i) \in Root /\ Depth[At(r, i)] = i
          BY <2>1, <4>1, AboveAt
        <4> QED BY <1>3, <1>10, <4>1, <4>2, SMTT(30)
      <3> QED BY <3>1, <3>2
    <2> QED BY <2>1, <2>2
  <1>12. DescendantsOk'
    <2>1. ASSUME NEW d \in descendants'
          PROVE  /\ d = <<d[1], d[2]>> /\ Above(d[1], d[2])
                 /\ Depth[d[2]] >= Depth[b] => d[1] \in kept
      <3>1. /\ d \in descendants /\ d[2] \notin gone /\ d = <<d[1], d[2]>> /\ Above(d[1], d[2])
            /\ Depth[d[2]] >= Depth[job.old] => d[1] \in layers
        BY <1>1, <1>2, <1>3 DEF DescendantsOk
      <3>2. ASSUME Depth[d[2]] >= Depth[b] PROVE d[1] \in kept
        <4>1. d[2] \in Root /\ Depth[d[2]] \in Nat
          BY <3>1, AboveFacts
        <4>2. Depth[d[2]] > Depth[job.old] /\ Depth[d[2]] >= Depth[job.old]
          BY <1>3, <3>2, <4>1, SMT
        <4>3. d[1] \in layers /\ d[2] \in layers
          BY <1>6, <3>1, <4>2
        <4>4. d[2] = b \/ d[2] \in kept
          BY <3>1, <4>3
        <4>5. Above(d[1], b)
          BY <1>7, <1>8, <1>9, <3>1, <4>1, <4>3, <4>4
        <4> QED BY <1>7, <4>3, <4>5
      <3> QED BY <3>1, <3>2
    <2>2. ASSUME NEW r \in kept, NEW a \in Root, Above(r, a), Depth[a] >= Depth[b]
          PROVE  <<r, a>> \in descendants'
      <3>1. Depth[a] \in Nat /\ Depth[a] >= Depth[job.old] /\ a # job.old
        BY <1>3, <2>2, AboveFacts, SMT
      <3>2. <<r, a>> \in descendants
        BY <1>2, <1>3, <1>8, <2>2, <3>1 DEF DescendantsOk
      <3>3. a \notin gone
        BY <1>10, <2>2, <3>1
      <3> HIDE DEF gone
      <3> QED BY <1>1, <3>2, <3>3
    <2> QED BY <1>1, <1>4, <2>1, <2>2 DEF DescendantsOk
  <1>13. LookupOk'
    <2>1. ASSUME NEW k \in Key PROVE lookup'[k] \in Seq(Root) /\ Lists(lookup'[k], k, kept)
      <3>1. Lists(lookup[k], k, layers) /\ lookup'[k] = Filter(lookup[k], kept)
        BY <1>1, <1>2 DEF LookupOk
      <3>2. kept \in SUBSET layers
        BY <1>8
      <3>3. Lists(Filter(lookup[k], kept), k, kept)
        BY <3>1, <3>2, ListFilter
      <3> QED BY <3>1, <3>3 DEF Lists
    <2>2. lookup' = [k \in Key |-> lookup'[k]]
      BY <1>1
    <2> QED BY <1>1, <2>1, <2>2 DEF LookupOk
  <1> QED BY <1>4, <1>5, <1>11, <1>12, <1>13 DEF TreeOk

\* The tree is emptied at the end of Commit.
LEMMA FinishCommitTree == ASSUME TreeOk, FinishCommit PROVE TreeOk'
  <1>1. EmptyTree /\ job' = NoJob /\ UNCHANGED <<base, ptr, up>>
    BY DEF FinishCommit, histories
  <1>2. FlatteningOk'
    BY <1>1, NotFlattening DEF NoJob
  <1>3. PtrOk'
    BY <1>1, SamePtr DEF TreeOk, EmptyTree
  <1> QED BY <1>1, <1>2, <1>3, EmptyTreeOk DEF TreeOk

\* Revert empties the tree, or fails and changes nothing.
LEMMA RevertTree == ASSUME IInv, TreeOk, Revert PROVE TreeOk'
  <1>1. job.pc = "revert" /\ UNCHANGED up
    BY DEF Revert, histories
  <1>2. job.op = "recover"
    BY <1>1 DEF IInv, JobOk
  <1>3. ~Flattening /\ Floor = base.root
    BY <1>2 DEF Flattening, Floor
  <1>4. CASE base.id = 0 \/ items[base.id] # base.root
    <2>1. job' = NoJob /\ UNCHANGED <<base, layers, ptr, descendants, lookup>>
      BY <1>4 DEF Revert, tree
    <2>2. FlatteningOk' /\ Floor' = base'.root
      BY <2>1, NotFlattening DEF NoJob
    <2> QED BY <1>1, <1>3, <2>1, <2>2, NextTree
  <1>5. CASE ~(base.id = 0 \/ items[base.id] # base.root)
    <2>1. Relink(None) /\ EmptyTree /\ UNCHANGED job
      BY <1>5 DEF Revert
    <2>2. FlatteningOk'
      BY <1>2, <2>1, NotFlattening
    <2>3. LayersClosed' /\ DescendantsOk' /\ LookupOk'
      BY <2>1, EmptyTreeOk
    <2>4. \A r \in Root : ptr'[r] = IF ptr[r] = "disk" THEN "stale" ELSE ptr[r]
      BY <2>1, PathDBAssumption DEF Relink
    <2>5. ptr' \in [Root -> {"diff", "disk", "stale"}]
      BY <2>1 DEF Relink, TreeOk, PtrOk
    <2>6. PtrOk'
      BY <2>1, <2>4, <2>5 DEF TreeOk, PtrOk, EmptyTree
    <2> QED BY <2>2, <2>3, <2>6 DEF TreeOk
  <1> QED BY <1>4, <1>5

\* Nothing of the tree is left when the node stops.
LEMMA ForgetTree == Forget => TreeOk'
  <1> SUFFICES ASSUME Forget PROVE TreeOk'
    OBVIOUS
  <1>1. EmptyTree /\ ptr' = [r \in Root |-> "stale"] /\ job' = NoJob
    BY DEF Forget
  <1>2. FlatteningOk'
    BY <1>1, NotFlattening DEF NoJob
  <1>3. PtrOk'
    BY <1>1 DEF PtrOk, EmptyTree
  <1> QED BY <1>1, <1>2, <1>3, EmptyTreeOk DEF TreeOk

\* A state on the line of another one is its ancestor, and is above the earlier ones.
LEMMA OnLine ==
    ASSUME NEW h \in Root, NEW r \in Root, NEW a \in Root, r \in Ancestors[h], a \in Ancestors[h]
    PROVE  /\ Depth[r] \in Nat /\ r = At(h, Depth[r]) /\ Depth[r] \in 0..Depth[h]
           /\ \A i \in 0..Depth[r] : At(r, i) = At(h, i) /\ At(r, i) \in Ancestors[h]
           /\ Above(r, a) <=> Depth[a] < Depth[r]
  <1>1. /\ Depth[r] \in 0..Depth[h] /\ At(h, Depth[r]) = r
        /\ Depth[a] \in 0..Depth[h] /\ At(h, Depth[a]) = a
        /\ Depth[r] \in Nat /\ Depth[a] \in Nat /\ Depth[h] \in Nat
    BY AtAncestor, AtSelf
  <1>2. \A i \in 0..Depth[r] : At(r, i) = At(h, i)
    BY <1>1, AtAt, SMT
  <1>3. ASSUME NEW i \in 0..Depth[r] PROVE At(h, i) \in Ancestors[h]
    <2>1. i \in 0..Depth[h] /\ i <= Depth[h]
      BY <1>1, SMT
    <2>2. At(h, i) \in Root /\ Depth[At(h, i)] = i
      BY <2>1, AtAt
    <2> QED BY <2>1, <2>2, InAncestors, SMT
  <1>4. Above(r, a) => Depth[a] < Depth[r]
    BY AboveFacts
  <1>5. ASSUME Depth[a] < Depth[r] PROVE Above(r, a)
    <2>1. Depth[a] \in 0..Depth[r]
      BY <1>1, <1>5, SMT
    <2>2. At(r, Depth[a]) = a
      BY <1>1, <1>2, <2>1
    <2> QED BY <1>1, <1>5, <2>2, AboveAt
  <1> QED BY <1>1, <1>2, <1>3, <1>4, <1>5

\* The layers above state b on the line of state h.
Chain(h, b) == {r \in Ancestors[h] : Depth[r] > Depth[b]}

\* What is known of them.
LEMMA ChainFacts ==
    ASSUME NEW h \in Root, NEW b \in Root, Depth[b] <= Depth[h], At(h, Depth[b]) = b
    PROVE  /\ b \in Ancestors[h] /\ Depth[b] \in Nat
           /\ \A r \in Chain(h, b) :
                /\ r \in Root /\ r \in Ancestors[h] /\ Depth[r] \in Nat /\ Depth[r] > Depth[b]
                /\ At(r, Depth[b]) = b /\ r # Genesis /\ Parent[r] \in Ancestors[h] /\ Parent[r] \in Root
                /\ Depth[Parent[r]] = Depth[r] - 1
                /\ \A i \in (Depth[b] + 1)..Depth[r] : At(r, i) \in Chain(h, b)
                /\ \A a \in Root : Above(r, a) <=> a \in Ancestors[h] /\ Depth[a] < Depth[r]
                /\ \A a \in Root : Above(r, a) <=> a # r /\ a \in Ancestors[r]
  <1>1. b \in Ancestors[h] /\ Depth[b] \in Nat /\ Depth[h] \in Nat
    BY InAncestors, AtSelf
  <1> SUFFICES ASSUME NEW r \in Chain(h, b)
               PROVE  /\ r \in Root /\ r \in Ancestors[h] /\ Depth[r] \in Nat /\ Depth[r] > Depth[b]
                      /\ At(r, Depth[b]) = b /\ r # Genesis /\ Parent[r] \in Ancestors[h] /\ Parent[r] \in Root
                      /\ Depth[Parent[r]] = Depth[r] - 1
                      /\ \A i \in (Depth[b] + 1)..Depth[r] : At(r, i) \in Chain(h, b)
                      /\ \A a \in Root : Above(r, a) <=> a \in Ancestors[h] /\ Depth[a] < Depth[r]
                      /\ \A a \in Root : Above(r, a) <=> a # r /\ a \in Ancestors[r]
    BY <1>1
  <1>2. r \in Ancestors[h] /\ Depth[r] > Depth[b] /\ r \in Root
    BY AtAncestor DEF Chain
  <1>3. /\ Depth[r] \in Nat /\ r = At(h, Depth[r]) /\ Depth[r] \in 0..Depth[h]
        /\ \A i \in 0..Depth[r] : At(r, i) = At(h, i) /\ At(r, i) \in Ancestors[h]
    BY <1>1, <1>2, OnLine
  <1>4. At(r, Depth[b]) = b
    <2>1. Depth[b] \in 0..Depth[r]
      BY <1>1, <1>2, <1>3, SMTT(30)
    <2> QED BY <1>3, <2>1
  <1>5. r # Genesis
    BY <1>1, <1>2, <1>3, AtParent, SMT
  <1>6. Parent[r] = At(r, Depth[r] - 1) /\ Parent[r] \in Root /\ Depth[Parent[r]] = Depth[r] - 1
    BY <1>2, <1>5, AtParent
  <1>7. Parent[r] \in Ancestors[h]
    <2>1. Depth[r] - 1 \in 0..Depth[r]
      BY <1>1, <1>2, <1>3, SMT
    <2> QED BY <1>3, <1>6, <2>1
  <1>8. ASSUME NEW i \in (Depth[b] + 1)..Depth[r] PROVE At(r, i) \in Chain(h, b)
    <2>1. i \in 0..Depth[r] /\ i > Depth[b]
      BY <1>1, <1>3, SMT
    <2>2. Depth[At(r, i)] = i
      BY <1>2, <2>1, AtAt
    <2> QED BY <1>3, <2>1, <2>2 DEF Chain
  <1>9. ASSUME NEW a \in Root, Above(r, a) PROVE a \in Ancestors[h] /\ Depth[a] < Depth[r]
    <2>1. Depth[a] \in Nat /\ Depth[a] < Depth[r] /\ At(r, Depth[a]) = a
      BY <1>9, AboveFacts
    <2>2. Depth[a] \in 0..Depth[r]
      BY <1>3, <2>1, SMT
    <2> QED BY <1>3, <2>1, <2>2
  <1>10. ASSUME NEW a \in Root, a \in Ancestors[h], Depth[a] < Depth[r] PROVE Above(r, a)
    BY <1>2, <1>10, OnLine
  <1>11. ASSUME NEW a \in Root PROVE Above(r, a) <=> a # r /\ a \in Ancestors[r]
    <2>1. a \in Ancestors[r] <=> Depth[a] <= Depth[r] /\ At(r, Depth[a]) = a
      BY <1>2, InAncestors
    <2>2. Depth[a] \in 0..Depth[r] <=> Depth[a] <= Depth[r]
      BY <1>3, AtSelf, SMT
    <2> QED BY <1>2, <2>1, <2>2 DEF Above, IsAncestor
  <1> QED BY <1>2, <1>3, <1>4, <1>5, <1>6, <1>7, <1>8, <1>9, <1>10, <1>11

\* The line from the oldest state on, without the states below the disk layer and
\* those that left key k alone, lists the layers that changed it.
LEMMA ListChain ==
    ASSUME NEW h \in Root, NEW b \in Root, Depth[b] <= Depth[h], At(h, Depth[b]) = b, NEW k \in Key
    PROVE  Lists(Filter(Reverse(Line[h]), {r \in Chain(h, b) : k \in Changed[r]}), k, Chain(h, b))
  <1> DEFINE list == Reverse(Line[h])
             kept == {r \in Chain(h, b) : k \in Changed[r]}
             t == Filter(list, kept)
             n == Len(list)
  <1>1. Line[h] \in Seq(Root) /\ Len(Line[h]) \in Nat /\ Depth[h] = Len(Line[h]) - 1
    BY TreeAssumption, SMT DEF Depth
  <1>2. list \in Seq(Root) /\ n = Len(Line[h])
    BY <1>1, SMT DEF Reverse
  <1>3. n \in Nat /\ n = Depth[h] + 1
    BY <1>1, <1>2, SMT
  <1>4. \A m \in 1..n : list[m] = At(h, m - 1)
    <2> SUFFICES ASSUME NEW m \in 1..n PROVE list[m] = At(h, m - 1)
      OBVIOUS
    <2>1. list[m] = Line[h][Len(Line[h]) - m + 1]
      BY <1>1, <1>2 DEF Reverse
    <2>2. Len(Line[h]) - m + 1 = Len(Line[h]) - (m - 1)
      BY <1>1, <1>2, SMT
    <2> QED BY <2>1, <2>2 DEF At
  <1> HIDE DEF list
  <1>5. Filtered(t, list, n, kept)
    BY <1>2, FilterIs
  <1> HIDE DEF t, n
  <1>6. t \in Seq(Root) /\ Len(t) \in Nat
    BY <1>5, SMT DEF Filtered
  <1>7. \A i \in 1..Len(t) : t[i] \in kept
    BY <1>5 DEF Filtered
  <1>8. \A i \in 1..Len(t) : t[i] \in Chain(h, b) /\ k \in Changed[t[i]]
    BY <1>7
  <1>9. ASSUME NEW r \in Chain(h, b), k \in Changed[r] PROVE \E i \in 1..Len(t) : t[i] = r
    <2>1. /\ b \in Root /\ r \in Root /\ r \in Ancestors[h]
      BY ChainFacts
    <2>2. Depth[r] \in Nat /\ r = At(h, Depth[r]) /\ Depth[r] \in 0..Depth[h]
      BY <2>1, OnLine
    <2>3. Depth[r] + 1 \in 1..n /\ (Depth[r] + 1) - 1 = Depth[r]
      <3>1. \A x, y \in Nat : x \in 0..y => x + 1 \in 1..(y + 1) /\ (x + 1) - 1 = x
        BY SMT
      <3>2. Depth[h] \in Nat
        BY AtSelf
      <3> QED BY <1>3, <2>2, <3>1, <3>2
    <2>4. list[Depth[r] + 1] = r
      BY <1>4, <2>2, <2>3
    <2>5. r \in kept
      BY <1>9
    <2> HIDE DEF kept
    <2>6. \A m \in 1..n : list[m] \in kept => \E i \in 1..Len(t) : t[i] = list[m]
      BY <1>5 DEF Filtered
    <2> DEFINE m == Depth[r] + 1
    <2>7. m \in 1..n /\ list[m] = r
      BY <2>3, <2>4
    <2> HIDE DEF m
    <2> QED BY <2>5, <2>6, <2>7
  <1> HIDE DEF kept
  <1>10. ASSUME NEW i \in 1..Len(t), NEW j \in 1..Len(t), Above(t[j], t[i]) PROVE i < j
    <2>1. i # j
      BY <1>10 DEF Above
    <2>2. ASSUME j < i PROVE FALSE
      <3>1. PICK p \in 1..n, q \in 1..n : p < q /\ list[p] = t[j] /\ list[q] = t[i]
        BY <1>5, <2>2 DEF Filtered
      <3>2. p - 1 \in 0..Depth[h] /\ q - 1 \in 0..Depth[h] /\ p - 1 < q - 1
        <4>1. \A x \in Nat : \A y, z \in 1..(x + 1) : y < z => y - 1 \in 0..x /\ z - 1 \in 0..x /\ y - 1 < z - 1
          BY SMT
        <4>2. Depth[h] \in Nat
          BY AtSelf
        <4> QED BY <1>3, <3>1, <4>1, <4>2
      <3>3. t[j] = At(h, p - 1) /\ t[i] = At(h, q - 1)
        BY <1>4, <3>1
      <3>4. Depth[t[j]] = p - 1 /\ Depth[t[i]] = q - 1
        BY <3>2, <3>3, AtAt, SMT
      <3>5. Depth[t[i]] < Depth[t[j]]
        BY <1>10, AboveFacts
      <3> QED BY <3>2, <3>4, <3>5, SMTT(30)
    <2> QED BY <1>6, <2>1, <2>2, SMT
  <1>11. Lists(t, k, Chain(h, b))
    BY <1>6, <1>8, <1>9, <1>10 DEF Lists
  <1> QED BY <1>11 DEF t, list, kept

\* The layers of the journal are loaded with their indexes, or the tree is empty.
LEMMA OpenTree == ASSUME IInv, TreeOk, Open PROVE TreeOk'
  <1> DEFINE j == kv.journal
             load == j # None /\ j.disk = kv.root /\ kv.id <= j.id
  <1>1. ~up /\ up' /\ job' = [NoJob EXCEPT !.op = "open", !.pc = "repair"]
    BY DEF Open
  <1>2. FlatteningOk' /\ Floor' = base'.root
    <2>1. job'.op = "open"
      BY <1>1 DEF NoJob
    <2> QED BY <2>1, NotFlattening
  <1>3. CASE ~load
    <2>1. UNCHANGED <<layers, ptr, descendants, lookup>>
      BY <1>3 DEF Open, tree
    <2>2. layers = {} /\ job = NoJob /\ base.root = Genesis
      BY <1>1 DEF IInv, DownOk
    <2>3. Floor = Genesis /\ Depth[Genesis] = 0
      BY <2>2, AtParent, PathDBAssumption DEF Floor, Flattening, NoJob
    <2>4. descendants = {}
      <3> SUFFICES ASSUME NEW d \in descendants PROVE FALSE
        OBVIOUS
      <3>1. Above(d[1], d[2]) /\ (Depth[d[2]] >= Depth[Floor] => d[1] \in layers)
        BY DEF TreeOk, DescendantsOk
      <3>2. Depth[d[2]] \in Nat
        BY <3>1, AboveFacts
      <3> QED BY <2>2, <2>3, <3>1, <3>2, SMT
    <2>5. LayersClosed' /\ DescendantsOk' /\ LookupOk'
      BY <2>1, <2>2, <2>4 DEF LayersClosed, DescendantsOk, LookupOk, TreeOk
    <2>6. PtrOk'
      BY <1>1, <2>1, <2>2 DEF PtrOk, TreeOk
    <2> QED BY <1>2, <2>5, <2>6 DEF TreeOk
  <1>4. CASE load
    <2> DEFINE h == j.head
               b == j.root
               chain == Chain(h, b)
    <2>1. h \in Root /\ b \in Root /\ Depth[b] <= Depth[h] /\ At(h, Depth[b]) = b /\ j.id = Depth[b]
      BY <1>4, ZenonT(30) DEF IInv, JournalOk
    <2>2. /\ base'.root = b /\ base'.id = Depth[b] /\ layers' = chain
          /\ ptr' = [r \in Root |-> IF r \notin chain THEN "stale"
                                    ELSE IF Parent[r] \in chain THEN "diff" ELSE "disk"]
          /\ descendants' = {d \in chain \X (chain \cup {b}) : d[1] # d[2] /\ d[2] \in Ancestors[d[1]]}
          /\ lookup' = [k \in Key |-> Filter(Reverse(Line[h]), {r \in chain : k \in Changed[r]})]
      BY <1>4, <2>1, SMT DEF Open, LoadDiskLayer, Chain
    <2> HIDE DEF h, b
    <2>3. b \in Ancestors[h] /\ Depth[b] \in Nat
      BY <2>1, ChainFacts
    <2>4. \A r \in chain :
                /\ r \in Root /\ r \in Ancestors[h] /\ Depth[r] \in Nat /\ Depth[r] > Depth[b]
                /\ At(r, Depth[b]) = b /\ r # Genesis /\ Parent[r] \in Ancestors[h] /\ Parent[r] \in Root
                /\ Depth[Parent[r]] = Depth[r] - 1
                /\ \A i \in (Depth[b] + 1)..Depth[r] : At(r, i) \in chain
                /\ \A a \in Root : Above(r, a) <=> a \in Ancestors[h] /\ Depth[a] < Depth[r]
                /\ \A a \in Root : Above(r, a) <=> a # r /\ a \in Ancestors[r]
      BY <2>1, ChainFacts, SMT
    <2>5. \A k \in Key : Lists(Filter(Reverse(Line[h]), {r \in chain : k \in Changed[r]}), k, chain)
      BY <2>1, ListChain
    <2>6. \A r \in Ancestors[h] : r \in chain <=> Depth[r] > Depth[b]
      BY DEF Chain
    <2>7. \A a \in Ancestors[h] : a \in Root /\ (Depth[a] = Depth[b] => a = b)
      BY <2>1, AtAncestor
    <2> HIDE DEF chain
    <2>8. LayersClosed'
      BY <1>2, <2>2, <2>4 DEF LayersClosed
    <2>9. PtrOk'
      <3>1. ptr' \in [Root -> {"diff", "disk", "stale"}]
        BY <2>2
      <3>2. ASSUME NEW r \in Root, ptr'[r] = "diff" PROVE r # Genesis /\ Parent[r] # Genesis
        BY <2>2, <2>4, <3>2
      <3>3. ASSUME NEW r \in Root, ptr'[r] = "disk" PROVE up' /\ r # Genesis /\ Parent[r] = base'.root
        <4>1. r \in chain /\ Parent[r] \notin chain
          BY <2>2, <3>3
        <4>2. /\ r # Genesis /\ Parent[r] \in Ancestors[h] /\ Depth[Parent[r]] = Depth[r] - 1
              /\ Depth[r] \in Nat /\ Depth[r] > Depth[b]
          BY <2>4, <4>1
        <4>3. ~(Depth[Parent[r]] > Depth[b])
          BY <2>6, <4>1, <4>2
        <4>4. Depth[Parent[r]] = Depth[b]
          BY <2>3, <4>2, <4>3, SMT
        <4> QED BY <1>1, <2>2, <2>7, <4>2, <4>4
      <3>4. ASSUME NEW r \in chain, Parent[r] \in chain PROVE ptr'[r] = "diff"
        BY <2>2, <2>4, <3>4
      <3> QED BY <2>2, <3>1, <3>2, <3>3, <3>4 DEF PtrOk
    <2>10. DescendantsOk'
      <3>1. ASSUME NEW d \in descendants'
            PROVE  d = <<d[1], d[2]>> /\ Above(d[1], d[2]) /\ d[1] \in chain
        <4>1. /\ d \in chain \X (chain \cup {b}) /\ d[1] # d[2] /\ d[2] \in Ancestors[d[1]]
          BY <2>2
        <4>2. d = <<d[1], d[2]>> /\ d[1] \in chain /\ d[2] \in Root
          BY <2>1, <2>4, <4>1, SMT
        <4> QED BY <2>4, <4>1, <4>2
      <3>2. ASSUME NEW r \in chain, NEW a \in Root, Above(r, a), Depth[a] >= Depth[b]
            PROVE  <<r, a>> \in descendants'
        <4>1. a \in Ancestors[h] /\ a # r /\ a \in Ancestors[r] /\ Depth[a] \in Nat
          BY <2>4, <3>2, AtSelf
        <4>2. a \in chain \/ a = b
          BY <2>3, <2>6, <2>7, <3>2, <4>1, SMTT(30)
        <4> QED BY <2>2, <4>1, <4>2
      <3> QED BY <1>2, <2>2, <3>1, <3>2 DEF DescendantsOk
    <2>11. LookupOk'
      <3>1. \A k \in Key :
              lookup'[k] = Filter(Reverse(Line[h]), {r \in chain : k \in Changed[r]})
        BY <2>2
      <3>2. \A k \in Key : Lists(lookup'[k], k, chain)
        BY <2>5, <3>1
      <3>3. \A k \in Key : lookup'[k] \in Seq(Root)
        BY <3>2 DEF Lists
      <3>4. lookup' = [k \in Key |-> lookup'[k]] /\ layers' = chain
        BY <2>2
      <3> QED BY <3>2, <3>3, <3>4 DEF LookupOk
    <2> QED BY <1>2, <2>8, <2>9, <2>10, <2>11 DEF TreeOk
  <1> QED BY <1>3, <1>4

\* The steps of an operation that neither move layers nor the disk layer.
LEMMA QuietTree ==
    ASSUME IInv, TreeOk,
           UNCHANGED <<layers, ptr, descendants, lookup, base, up>>,
           job.op \notin {"cap", "full"}, job'.op \notin {"cap", "full"}
    PROVE  TreeOk'
  <1>1. Floor = base.root
    BY DEF Floor, Flattening
  <1>2. FlatteningOk' /\ Floor' = base'.root
    BY NotFlattening
  <1> QED BY <1>1, <1>2, NextTree

\* The tree stays in order.
LEMMA TreeInv == ASSUME IInv, TreeOk, [Next]_vars PROVE TreeOk'
  <1>1. CASE \E r \in Root : Update(r)
    BY <1>1, UpdateTree
  <1>2. CASE \E r \in Root : Commit(r)
    BY <1>2, CommitTree
  <1>3. CASE \E r \in Root : Recover(r)
    <2>1. /\ UNCHANGED <<layers, ptr, descendants, lookup, base, up>>
          /\ job.op = "none" /\ job'.op = "recover"
      BY <1>3 DEF Recover, tree, histories, NoJob
    <2> QED BY <2>1, QuietTree
  <1>4. CASE Crash \/ \E r \in Root : Stop(r)
    BY <1>4, ForgetTree DEF Crash, Stop
  <1>5. CASE \/ \E r \in Root, k \in Key, flat \in BOOLEAN : OpenReader(r, k, flat)
             \/ ReaderStep \/ FlushStep \/ UNCHANGED vars
    <2>1. UNCHANGED <<layers, ptr, descendants, lookup, base, up, job>>
      BY <1>5 DEF OpenReader, ReaderStep, LookupLayer, ReadBase, WalkLayers, LoadValue, FillCache,
         CloseReader, FlushStep, FlushSync, FlushWrite, vars, tree, histories
    <2> QED BY <2>1, IdleTree
  <1>6. CASE WriteHistory \/ PruneHistory \/ MergeLayer \/ FinishCap \/ FinishCommit \/ Revert
    BY <1>6, WriteHistoryTree, PruneHistoryTree, MergeLayerTree, FinishCapTree, FinishCommitTree,
       RevertTree
  <1>7. CASE SyncRecovered \/ FinishRecover \/ Repair
    <2>1. /\ UNCHANGED <<layers, ptr, descendants, lookup, base, up>>
          /\ job.pc \in {"revert", "cut", "repair"}
          /\ \/ job' = NoJob \/ job' = [job EXCEPT !.pc = "cut"] \/ job' = [job EXCEPT !.pc = "crit"]
      BY <1>7 DEF SyncRecovered, FinishRecover, Repair, tree, histories
    <2>2. job.op \notin {"cap", "full"}
      BY <2>1 DEF IInv, JobOk
    <2>3. job = [op |-> job.op, todo |-> job.todo, top |-> job.top, pc |-> job.pc,
                 old |-> job.old, flush |-> job.flush]
      BY DEF IInv, JobOk
    <2>4. job'.op = "none" \/ job'.op = job.op
      <3>1. CASE job' = NoJob
        BY <3>1 DEF NoJob
      <3>2. CASE job' = [job EXCEPT !.pc = "cut"]
        BY <2>3, <3>2
      <3>3. CASE job' = [job EXCEPT !.pc = "crit"]
        BY <2>3, <3>3
      <3> QED BY <2>1, <3>1, <3>2, <3>3
    <2> QED BY <2>1, <2>2, <2>4, QuietTree
  <1>8. CASE Open
    BY <1>8, OpenTree
  <1> QED BY <1>1, <1>2, <1>3, <1>4, <1>5, <1>6, <1>7, <1>8 DEF Next, Operation, OperationStep,
             StartStep
=============================================================================
