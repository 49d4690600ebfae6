------------------------ MODULE StateDBSupplyProofs -------------------------
(***************************************************************************)
(* The balance delta of StateDB: sums over all accounts, and that every    *)
(* step keeps the delta, and the one saved with each snapshot, equal to    *)
(* the change of the supply.                                               *)
(***************************************************************************)
EXTENDS StateDBProofs, FiniteSetTheorems

\* Zenon is the prover of a leaf that names none: it is enough for first-order steps,
\* and the leaves that need arithmetic, records or sequences name SMT.
USE Zenon

-----------------------------------------------------------------------------
(* Sums over all accounts.                                                 *)

\* A set of naturals that has 0, and n + 1 with every n, has all.
LEMMA Induction ==
  ASSUME NEW S, 0 \in S, \A n \in Nat : n \in S => n + 1 \in S
  PROVE  Nat \subseteq S
<1> DEFINE Bad == {n \in Nat : n \notin S}
           R   == OpToRel(<, Nat)
<1> SUFFICES ASSUME Bad # {} PROVE FALSE
  OBVIOUS
<1>1. IsWellFoundedOn(R, Nat)
  BY NatLessThanWellFounded
<1>2. \A x, y \in Nat : x < y => <<x, y>> \in R
  BY DEF OpToRel
<1> HIDE DEF R
<1>3. PICK x \in Bad : \A y \in Bad : ~ (<<y, x>> \in R)
  BY <1>1, WFMin
<1>4. x \in Nat /\ x # 0 /\ x \notin S
  BY <1>3
<1>5. x - 1 \in Nat /\ x - 1 < x
  BY <1>4, SMTT(30)
<1>6. x - 1 \notin Bad
  BY <1>2, <1>3, <1>4, <1>5
<1>7. (x - 1) + 1 \in S
  BY <1>5, <1>6
<1> QED BY <1>4, <1>7, SMTT(30)

\* The sum over s from the sums over smaller sets.
SumStep(g, s, f) == IF s = {} THEN 0
                    ELSE f[CHOOSE x \in s : TRUE] + g[s \ {CHOOSE x \in s : TRUE}]

\* A part of the accounts that is not empty is one account more than another.
LEMMA Remove ==
  ASSUME NEW s \in SUBSET Address, s # {}
  PROVE  LET x == CHOOSE x \in s : TRUE
         IN  /\ x \in s /\ x \in Address /\ s \ {x} \in SUBSET Address
             /\ Cardinality(s) \in Nat /\ Cardinality(s) # 0
             /\ Cardinality(s \ {x}) = Cardinality(s) - 1
<1> DEFINE x == CHOOSE x \in s : TRUE
<1>1. x \in s
  OBVIOUS
<1> HIDE DEF x
<1>2. IsFiniteSet(s)
  BY FS_Subset, FiniteAddresses
<1>3. Cardinality(s) \in Nat /\ (Cardinality(s) = 0 <=> s = {})
  BY <1>2, FS_CardinalityType, FS_EmptySet
<1>4. Cardinality(s \ {x}) = Cardinality(s) - 1
  BY <1>1, <1>2, FS_RemoveElement
<1>5. x \in s /\ x \in Address /\ s \ {x} \in SUBSET Address
      /\ Cardinality(s) \in Nat /\ Cardinality(s) # 0
      /\ Cardinality(s \ {x}) = Cardinality(s) - 1
  BY <1>1, <1>3, <1>4
<1> QED BY <1>5 DEF x

\* What holds of no account, and of a part of the accounts if it does without one of
\* them, holds of all parts.
LEMMA OverAccounts ==
  ASSUME NEW Done, {} \in Done,
         \A s \in SUBSET Address :
           s # {} /\ s \ {CHOOSE x \in s : TRUE} \in Done => s \in Done
  PROVE  SUBSET Address \subseteq Done
<1> DEFINE S == {n \in Nat : \A s \in SUBSET Address : Cardinality(s) = n => s \in Done}
<1>1. \A s \in SUBSET Address : Cardinality(s) \in Nat /\ (Cardinality(s) = 0 <=> s = {})
  BY FS_Subset, FS_CardinalityType, FS_EmptySet, FiniteAddresses
<1>2. 0 \in S
  BY <1>1
<1>3. ASSUME NEW n \in Nat, n \in S PROVE n + 1 \in S
  <2> SUFFICES ASSUME NEW s \in SUBSET Address, Cardinality(s) = n + 1 PROVE s \in Done
    BY SMT
  <2>1. s # {}
    BY <1>1, SMTT(30)
  <2> DEFINE t == s \ {CHOOSE x \in s : TRUE}
  <2>2. t \in SUBSET Address /\ Cardinality(t) = Cardinality(s) - 1
    BY <2>1, Remove
  <2> HIDE DEF t
  <2>3. t \in Done
    BY <1>3, <2>2, SMTT(30)
  <2> QED BY <2>1, <2>3 DEF t
<1> HIDE DEF S
<1>4. Nat \subseteq S
  BY <1>2, <1>3, Induction
<1> QED BY <1>1, <1>4 DEF S

\* There is a function that the sum is defined by.
LEMMA TotalFunction ==
  ASSUME NEW f
  PROVE  \E g : /\ g = [s \in SUBSET Address |-> SumStep(g, s, f)]
                /\ Total(f) = g[Address]
<1> DEFINE Small(n) == {s \in SUBSET Address : Cardinality(s) <= n}
           Ok(n)    == \E g : g = [s \in Small(n) |-> SumStep(g, s, f)]
           S        == {n \in Nat : Ok(n)}
<1>1. \A s \in SUBSET Address : Cardinality(s) \in Nat /\ (Cardinality(s) = 0 <=> s = {})
  BY FS_Subset, FS_CardinalityType, FS_EmptySet, FiniteAddresses
<1>2. Ok(0)
  <2> DEFINE g == [s \in Small(0) |-> 0]
  <2>1. \A s \in Small(0) : s = {}
    BY <1>1, SMTT(30)
  <2>2. g = [s \in Small(0) |-> SumStep(g, s, f)]
    BY <2>1 DEF SumStep
  <2> QED BY <2>2
<1>3. ASSUME NEW n \in Nat, Ok(n) PROVE Ok(n + 1)
  <2>1. PICK h : h = [s \in Small(n) |-> SumStep(h, s, f)]
    BY <1>3
  <2> DEFINE g == [s \in Small(n + 1) |-> SumStep(h, s, f)]
  <2>2. ASSUME NEW s \in Small(n + 1) PROVE g[s] = SumStep(g, s, f)
    <3>1. CASE s = {}
      BY <3>1 DEF SumStep
    <3>2. CASE s # {}
      <4> DEFINE t == s \ {CHOOSE x \in s : TRUE}
      <4>1. t \in SUBSET Address /\ Cardinality(t) = Cardinality(s) - 1
        BY <3>2, Remove
      <4>2. Cardinality(s) \in Nat /\ Cardinality(s) <= n + 1
        BY <1>1
      <4>3. Cardinality(t) <= n /\ Cardinality(t) <= n + 1
        BY <4>1, <4>2, SMTT(30)
      <4> HIDE DEF t
      <4>4. t \in Small(n) /\ t \in Small(n + 1)
        BY <4>1, <4>3
      <4>5. g[t] = h[t]
        BY <2>1, <4>4
      <4>6. g[s] = SumStep(h, s, f)
        OBVIOUS
      <4> HIDE DEF g
      <4> QED BY <3>2, <4>5, <4>6 DEF SumStep, t
    <3> QED BY <3>1, <3>2
  <2>3. g = [s \in Small(n + 1) |-> g[s]]
    OBVIOUS
  <2> HIDE DEF g
  <2>4. g = [s \in Small(n + 1) |-> SumStep(g, s, f)]
    BY <2>2, <2>3
  <2> QED BY <2>4
<1> HIDE DEF Ok
<1>4. 0 \in S /\ \A n \in Nat : n \in S => n + 1 \in S
  BY <1>2, <1>3, SMTT(30)
<1> HIDE DEF S
<1>5. Cardinality(Address) \in Nat /\ \A s \in SUBSET Address : Cardinality(s) <= Cardinality(Address)
  BY FS_CardinalityType, FS_Subset, FiniteAddresses
<1>6. Ok(Cardinality(Address))
  BY <1>4, <1>5, Induction DEF S
<1>7. Small(Cardinality(Address)) = SUBSET Address
  BY <1>5
<1> HIDE DEF Small
<1>8. \E g : g = [s \in SUBSET Address |-> SumStep(g, s, f)]
  BY <1>6, <1>7 DEF Ok
<1> QED BY <1>8 DEF Total, SumFunctionOnSet, FoldFunctionOnSet, MapThenFoldSet, SumStep

\* The sum of integers is one.
LEMMA TotalType == ASSUME NEW f \in [Address -> Int] PROVE Total(f) \in Int
<1>1. PICK g : g = [s \in SUBSET Address |-> SumStep(g, s, f)] /\ Total(f) = g[Address]
  BY TotalFunction
<1> DEFINE Done == {s \in SUBSET Address : g[s] \in Int}
<1>2. {} \in Done
  BY <1>1, SMTT(30) DEF SumStep
<1>3. ASSUME NEW s \in SUBSET Address, s # {}, s \ {CHOOSE x \in s : TRUE} \in Done
      PROVE  s \in Done
  <2>1. PICK x : x = CHOOSE y \in s : TRUE
    OBVIOUS
  <2>2. x \in Address /\ f[x] \in Int /\ g[s \ {x}] \in Int
    BY <1>3, <2>1, Remove
  <2>3. g[s] = SumStep(g, s, f)
    BY <1>1
  <2>4. g[s] = f[x] + g[s \ {x}]
    BY <1>3, <2>1, <2>3 DEF SumStep
  <2> QED BY <2>2, <2>4, SMTT(30)
<1> HIDE DEF Done
<1>4. SUBSET Address \subseteq Done
  BY <1>2, <1>3, OverAccounts
<1> QED BY <1>1, <1>4 DEF Done

\* The sum of a value that is the sum of two.
LEMMA TotalAdd ==
  ASSUME NEW f \in [Address -> Int], NEW h \in [Address -> Int], NEW k \in [Address -> Int],
         \A a \in Address : k[a] = f[a] + h[a]
  PROVE  Total(k) = Total(f) + Total(h)
<1>1. PICK F : F = [s \in SUBSET Address |-> SumStep(F, s, f)] /\ Total(f) = F[Address]
  BY TotalFunction
<1>2. PICK H : H = [s \in SUBSET Address |-> SumStep(H, s, h)] /\ Total(h) = H[Address]
  BY TotalFunction
<1>3. PICK K : K = [s \in SUBSET Address |-> SumStep(K, s, k)] /\ Total(k) = K[Address]
  BY TotalFunction
<1> DEFINE Done == {s \in SUBSET Address : F[s] \in Int /\ H[s] \in Int /\ K[s] = F[s] + H[s]}
<1>4. {} \in Done
  <2>1. F[{}] = 0 /\ H[{}] = 0 /\ K[{}] = 0
    BY <1>1, <1>2, <1>3 DEF SumStep
  <2> QED BY <2>1, SMTT(30)
<1>5. ASSUME NEW s \in SUBSET Address, s # {}, s \ {CHOOSE x \in s : TRUE} \in Done
      PROVE  s \in Done
  <2>1. PICK x : x = CHOOSE y \in s : TRUE
    OBVIOUS
  <2>2. PICK t : t = s \ {x}
    OBVIOUS
  <2>3. F[t] \in Int /\ H[t] \in Int /\ K[t] = F[t] + H[t]
    BY <1>5, <2>1, <2>2
  <2>4. x \in Address
    BY <1>5, <2>1, Remove
  <2>5. f[x] \in Int /\ h[x] \in Int /\ k[x] = f[x] + h[x]
    BY <2>4
  <2>6. F[s] = f[x] + F[t]
    <3>1. F[s] = SumStep(F, s, f)
      BY <1>1
    <3> QED BY <1>5, <2>1, <2>2, <3>1 DEF SumStep
  <2>7. H[s] = h[x] + H[t]
    <3>1. H[s] = SumStep(H, s, h)
      BY <1>2
    <3> QED BY <1>5, <2>1, <2>2, <3>1 DEF SumStep
  <2>8. K[s] = k[x] + K[t]
    <3>1. K[s] = SumStep(K, s, k)
      BY <1>3
    <3> QED BY <1>5, <2>1, <2>2, <3>1 DEF SumStep
  <2> QED BY <2>3, <2>5, <2>6, <2>7, <2>8, SMTT(30)
<1> HIDE DEF Done
<1>6. SUBSET Address \subseteq Done
  BY <1>4, <1>5, OverAccounts
<1> QED BY <1>1, <1>2, <1>3, <1>6 DEF Done

\* The sum of a value that only account a has.
LEMMA TotalPoint ==
  ASSUME NEW f \in [Address -> Int], NEW a \in Address,
         \A b \in Address : b # a => f[b] = 0
  PROVE  Total(f) = f[a]
<1>1. PICK F : F = [s \in SUBSET Address |-> SumStep(F, s, f)] /\ Total(f) = F[Address]
  BY TotalFunction
<1> DEFINE Done == {s \in SUBSET Address : F[s] = IF a \in s THEN f[a] ELSE 0}
<1>2. {} \in Done
  BY <1>1 DEF SumStep
<1>3. ASSUME NEW s \in SUBSET Address, s # {}, s \ {CHOOSE x \in s : TRUE} \in Done
      PROVE  s \in Done
  <2>1. PICK x : x = CHOOSE y \in s : TRUE
    OBVIOUS
  <2>2. x \in s /\ x \in Address /\ f[a] \in Int
    BY <1>3, <2>1, Remove
  <2>3. F[s] = f[x] + F[s \ {x}]
    <3>1. F[s] = SumStep(F, s, f)
      BY <1>1
    <3> QED BY <1>3, <2>1, <3>1 DEF SumStep
  <2>4. F[s \ {x}] = IF a \in s \ {x} THEN f[a] ELSE 0
    BY <1>3, <2>1
  <2>5. CASE x = a
    <3>1. F[s \ {x}] = 0
      BY <2>4, <2>5
    <3> QED BY <2>2, <2>3, <2>5, <3>1, SMTT(30)
  <2>6. CASE x # a
    <3>1. f[x] = 0 /\ F[s \ {x}] = IF a \in s THEN f[a] ELSE 0
      BY <2>2, <2>4, <2>6
    <3> QED BY <2>2, <2>3, <3>1, SMTT(30)
  <2> QED BY <2>5, <2>6
<1> HIDE DEF Done
<1>4. SUBSET Address \subseteq Done
  BY <1>2, <1>3, OverAccounts
<1> QED BY <1>1, <1>4 DEF Done

\* A change of one account moves the sum by as much.
LEMMA TotalChange ==
  ASSUME NEW f \in [Address -> Int], NEW k \in [Address -> Int], NEW a \in Address,
         \A b \in Address : b # a => k[b] = f[b]
  PROVE  Total(k) = Total(f) + (k[a] - f[a])
<1>1. PICK h : h = [b \in Address |-> IF b = a THEN k[a] - f[a] ELSE 0]
  OBVIOUS
<1>2. h \in [Address -> Int] /\ h[a] = k[a] - f[a] /\ \A b \in Address : b # a => h[b] = 0
  BY <1>1, SMTT(30)
<1>3. \A b \in Address : k[b] = f[b] + h[b]
  BY <1>2, SMTT(30)
<1>4. f[a] \in Int /\ k[a] \in Int
  OBVIOUS
<1>5. Total(h) = h[a]
  BY <1>2, TotalPoint
<1>6. Total(k) = Total(f) + Total(h)
  BY <1>2, <1>3, TotalAdd
<1> QED BY <1>2, <1>5, <1>6

\* Nothing adds up to nothing.
LEMMA TotalZero == Total([a \in Address |-> 0]) = 0
<1>1. PICK f : f = [a \in Address |-> 0]
  OBVIOUS
<1>2. f \in [Address -> Int] /\ \A a \in Address : f[a] = f[a] + f[a]
  BY <1>1, SMTT(30)
<1>3. Total(f) = Total(f) + Total(f) /\ Total(f) \in Int
  BY <1>2, TotalAdd, TotalType
<1>4. \A x \in Int : x = x + x => x = 0
  BY SMT
<1> QED BY <1>1, <1>3, <1>4

-----------------------------------------------------------------------------
(* The setters.                                                            *)

\* The balances add up to d more in r than in s.
Moved(s, r, d) == Total(Balances(r.world.obj)) = Total(Balances(s.world.obj)) + d

\* The balances of a world are numbers with a sum.
LEMMA WorldTotal ==
  ASSUME NEW w \in Worlds
  PROVE  /\ w.obj \in [Address -> StateObjects \cup {NoObject}]
         /\ Balances(w.obj) \in [Address -> Int]
         /\ Total(Balances(w.obj)) \in Int
<1>1. w.obj \in [Address -> StateObjects \cup {NoObject}]
  BY DEF Worlds
<1>2. \A o \in StateObjects : o.balance \in Int
  BY SMTT(30) DEF StateObjects
<1>3. Balances(w.obj) \in [Address -> Int]
  BY <1>1, <1>2, SMTT(30) DEF Balances
<1> QED BY <1>1, <1>3, TotalType

\* A call that leaves the objects alone leaves the balances alone.
LEMMA NotMoved == ASSUME NEW s, Good(s), NEW r, r.world.obj = s.world.obj PROVE Moved(s, r, 0)
<1>1. Total(Balances(s.world.obj)) \in Int
  BY GoodWorld, WorldTotal
<1> QED BY <1>1, SMTT(30) DEF Moved

\* Two calls, one after the other.
LEMMA MovedTwice ==
  ASSUME NEW s, Good(s), NEW r, NEW t, NEW c \in Int, NEW d \in Int, Moved(s, r, c), Moved(r, t, d)
  PROVE  Moved(s, t, c + d)
<1>1. Total(Balances(s.world.obj)) \in Int
  BY GoodWorld, WorldTotal
<1>2. \A x \in Int : x + c + d = x + (c + d)
  BY SMT
<1> QED BY <1>1, <1>2 DEF Moved

\* A call that replaces one object.
LEMMA ObjectMoved ==
  ASSUME NEW s, Good(s), NEW a \in Address, NEW p \in StateObjects, NEW r,
         r.world = WithObj(s.world, a, p)
  PROVE  Moved(s, r, p.balance - IF Live(s, a) THEN s.world.obj[a].balance ELSE 0)
<1>1. s.world \in Worlds
  BY GoodWorld
<1>2. r.world \in Worlds /\ r.world.obj = [s.world.obj EXCEPT ![a] = p]
  BY <1>1, WithObjFacts, SMTT(30)
<1> DEFINE f == Balances(s.world.obj)
           k == Balances(r.world.obj)
<1>3. f \in [Address -> Int] /\ k \in [Address -> Int]
  BY <1>1, <1>2, WorldTotal
<1>4. s.world.obj \in [Address -> StateObjects \cup {NoObject}]
  BY <1>1, WorldTotal
<1>5. p # NoObject
  BY ObjectAssumption
<1>6. /\ k[a] = p.balance
      /\ f[a] = IF Live(s, a) THEN s.world.obj[a].balance ELSE 0
      /\ \A b \in Address : b # a => k[b] = f[b]
  BY <1>2, <1>4, <1>5 DEF Balances, Live
<1> HIDE DEF f, k
<1>7. Total(k) = Total(f) + (k[a] - f[a])
  BY <1>3, <1>6, TotalChange
<1> QED BY <1>6, <1>7 DEF Moved, f, k

\* A new object has no balance.
LEMMA CreateMoved ==
  ASSUME NEW s, Good(s), NEW a \in Address
  PROVE  /\ ~Live(s, a) => Moved(s, createObject(s, a), 0) /\ Moved(s, createZombie(s, a), 0)
         /\ Moved(s, getOrNewStateObject(s, a), 0)
<1>1. newObject(NoObject) \in StateObjects /\ newObject(NoObject).balance = 0
  BY NewObjectFacts DEF newObject
<1>2. /\ createObject(s, a).world = WithObj(s.world, a, newObject(NoObject))
      /\ createZombie(s, a).world = WithObj(s.world, a, newObject(NoObject))
  BY DEF createObject, createZombie, Record
<1>3. ~Live(s, a) => Moved(s, createObject(s, a), 0) /\ Moved(s, createZombie(s, a), 0)
  BY <1>1, <1>2, ObjectMoved, SMTT(30)
<1>4. Moved(s, s, 0)
  BY NotMoved
<1> QED BY <1>3, <1>4 DEF getOrNewStateObject, Live

\* Of the setters of an account only setBalance moves the balances.
LEMMA SettersMoved ==
  ASSUME NEW s, Good(s), NEW a \in Address, Live(s, a)
  PROVE  /\ s.world.obj[a].balance \in Nat
         /\ \A n \in Nat : Moved(s, setBalance(s, a, n), n - s.world.obj[a].balance)
         /\ \A n \in Nat : Moved(s, setNonce(s, a, n), 0)
         /\ \A c \in Code : Moved(s, setCode(s, a, c), 0)
         /\ \A k \in Slot, v \in Word : Moved(s, setStorage(s, a, k, v), 0)
         /\ Moved(s, markSelfdestructed(s, a), 0)
         /\ Moved(s, createContract(s, a), 0)
<1> DEFINE o == s.world.obj[a]
<1>1. o \in StateObjects /\ Layered(a, o)
  BY GoodObj
<1>2. o.balance \in Nat /\ o.balance - o.balance = 0
  BY <1>1, SMT DEF StateObjects
<1>3. Moved(s, s, 0)
  BY NotMoved
<1>4. ASSUME NEW p \in StateObjects, p.balance = o.balance, NEW r, r.world = WithObj(s.world, a, p)
      PROVE  Moved(s, r, 0)
  BY <1>2, <1>4, ObjectMoved
<1>5. ASSUME NEW n \in Nat PROVE Moved(s, setBalance(s, a, n), n - o.balance)
  <2>1. PICK p : p = [o EXCEPT !.balance = n]
    OBVIOUS
  <2>2. p \in StateObjects /\ p.balance = n
    BY <1>1, <2>1 DEF StateObjects
  <2>3. setBalance(s, a, n).world = WithObj(s.world, a, p)
    BY <2>1 DEF setBalance, Record
  <2> QED BY <2>2, <2>3, ObjectMoved
<1>6. ASSUME NEW n \in Nat PROVE Moved(s, setNonce(s, a, n), 0)
  <2>1. PICK p : p = [o EXCEPT !.nonce = n]
    OBVIOUS
  <2>2. p \in StateObjects /\ p.balance = o.balance
    BY <1>1, <2>1 DEF StateObjects
  <2>3. setNonce(s, a, n).world = WithObj(s.world, a, p)
    BY <2>1 DEF setNonce, Record
  <2> QED BY <1>4, <2>2, <2>3
<1>7. ASSUME NEW c \in Code PROVE Moved(s, setCode(s, a, c), 0)
  <2>1. PICK p : p = [o EXCEPT !.code = c]
    OBVIOUS
  <2>2. p \in StateObjects /\ p.balance = o.balance
    BY <1>1, <2>1 DEF StateObjects
  <2>3. setCode(s, a, c).world = WithObj(s.world, a, p)
    BY <2>1 DEF setCode, Record
  <2> QED BY <1>4, <2>2, <2>3
<1>8. ASSUME NEW k \in Slot, NEW v \in Word PROVE Moved(s, setStorage(s, a, k, v), 0)
  <2>1. PICK p : p = setState(o, k, v, GetCommittedState(o, k))
    OBVIOUS
  <2>2. p \in StateObjects
    BY <1>1, <2>1, SetStateFacts DEF Layered, Fits
  <2>3. p.balance = o.balance
    BY <1>1, <2>1 DEF setState, StateObjects
  <2>4. setStorage(s, a, k, v) = s \/ setStorage(s, a, k, v).world = WithObj(s.world, a, p)
    BY <2>1 DEF setStorage, Record
  <2> QED BY <1>3, <1>4, <2>2, <2>3, <2>4
<1>9. Moved(s, markSelfdestructed(s, a), 0)
  <2>1. PICK p : p = [o EXCEPT !.selfDestructed = TRUE]
    OBVIOUS
  <2>2. p \in StateObjects /\ p.balance = o.balance
    BY <1>1, <2>1 DEF StateObjects
  <2>3. markSelfdestructed(s, a) = s \/ markSelfdestructed(s, a).world = WithObj(s.world, a, p)
    BY <2>1 DEF markSelfdestructed, Record
  <2> QED BY <1>3, <1>4, <2>2, <2>3
<1>10. Moved(s, createContract(s, a), 0)
  <2>1. PICK p : p = [o EXCEPT !.newContract = TRUE]
    OBVIOUS
  <2>2. p \in StateObjects /\ p.balance = o.balance
    BY <1>1, <2>1 DEF StateObjects
  <2>3. createContract(s, a) = s \/ createContract(s, a).world = WithObj(s.world, a, p)
    BY <2>1 DEF createContract, Record
  <2> QED BY <1>3, <1>4, <2>2, <2>3
<1> QED BY <1>2, <1>5, <1>6, <1>7, <1>8, <1>9, <1>10

-----------------------------------------------------------------------------
(* The calls.                                                              *)

\* The three sums are integers.
LEMMA TotalsType == IInv => Supply \in Int /\ Lost \in Int /\ BlockSupply \in Int
<1> SUFFICES ASSUME IInv PROVE Supply \in Int /\ Lost \in Int /\ BlockSupply \in Int
  OBVIOUS
<1>1. world \in Worlds /\ lost \in [Address -> Nat] /\ db \in [Address -> Account \cup {NoObject}]
  BY DEF IInv, TypeOK
<1>2. Supply \in Int
  BY <1>1, WorldTotal DEF Supply
<1>3. lost \in [Address -> Int]
  BY <1>1, SMTT(30)
<1>4. Lost \in Int
  BY <1>3, TotalType DEF Lost
<1>5. \A c \in Account : c.balance \in Int
  BY SMT DEF Account
<1>6. Balances(db) \in [Address -> Int]
  BY <1>1, <1>5, SMTT(30) DEF Balances
<1>7. BlockSupply \in Int
  BY <1>6, TotalType DEF BlockSupply
<1> QED BY <1>2, <1>4, <1>7

\* A call that moves the balances and the delta by the same amount.
LEMMA CallTracked ==
  ASSUME IInv, SupplyTracked, Idle, NEW r, NEW d \in Int, Moved(DB, r, d), world' = r.world,
         delta' - expected' = delta - expected + d,
         UNCHANGED <<reverting, db, saved, lost>>
  PROVE  SupplyTracked'
<1>1. Idle' /\ Open' = Open /\ Lost' = Lost /\ BlockSupply' = BlockSupply
  BY DEF Idle, Open, Lost, BlockSupply
<1>2. Supply' = Supply + d
  BY DEF Moved, DB, Supply
<1>3. delta - expected = Supply + Lost - BlockSupply
  BY DEF SupplyTracked, DeltaTracksSupply
<1>4. delta' - expected' = Supply' + Lost' - BlockSupply'
  <2>1. Supply \in Int /\ Lost \in Int /\ BlockSupply \in Int
    BY TotalsType
  <2>2. \A x, y, z \in Int : x + y - z + d = x + d + y - z
    BY SMT
  <2> QED BY <1>1, <1>2, <1>3, <2>1, <2>2, SMTT(30)
<1>5. SavedTracks'
  BY <1>1 DEF SupplyTracked, SavedTracks
<1> QED BY <1>4, <1>5 DEF SupplyTracked, DeltaTracksSupply

\* The calls that leave the delta alone.
LEMMA SetTracked ==
  ASSUME IInv, SupplyTracked, NEW r, Set(r), Moved(DB, r, 0) PROVE SupplyTracked'
<1>1. /\ Idle /\ world' = r.world /\ UNCHANGED <<delta, expected, reverting, db, saved, lost>>
  BY DEF Set, Calling, Install, blockVars
<1>2. delta \in Int /\ expected \in Int
  BY DEF IInv, TypeOK
<1>3. delta' - expected' = delta - expected + 0
  BY <1>1, <1>2, SMTT(30)
<1> QED BY <1>1, <1>3, CallTracked, SMTT(30)

\* The calls that move it.
LEMMA SetWithDeltaTracked ==
  ASSUME IInv, SupplyTracked, NEW r, NEW d \in Int, SetWithDelta(r, d), Moved(DB, r, d)
  PROVE  SupplyTracked'
<1>1. /\ Idle /\ world' = r.world /\ delta' = delta + d
      /\ UNCHANGED <<expected, reverting, db, saved, lost>>
  BY DEF SetWithDelta, Calling, Install, blockVars
<1>2. delta \in Int /\ expected \in Int
  BY DEF IInv, TypeOK
<1>3. delta' - expected' = delta - expected + d
  BY <1>1, <1>2, SMTT(30)
<1> QED BY <1>1, <1>3, CallTracked

\* The object that a setter works on, and what it does to it.
LEMMA FreshMoved ==
  ASSUME IInv, NEW a \in Address, NEW r, NEW d \in Int,
         Moved(getOrNewStateObject(DB, a), r, d)
  PROVE  Moved(DB, r, d)
<1>1. Good(DB)
  BY InvGood
<1>2. Moved(DB, getOrNewStateObject(DB, a), 0)
  BY <1>1, CreateMoved
<1>3. 0 + d = d
  BY SMT
<1> QED BY <1>1, <1>2, <1>3, MovedTwice, SMTT(30)

\* The calls that change a balance.
LEMMA BalanceTracked ==
  ASSUME IInv, SupplyTracked, NEW a \in Address, NEW x \in Amount,
         AddBalance(a, x) \/ SubBalance(a, x) \/ SetBalance(a, x)
  PROVE  SupplyTracked'
<1> DEFINE g == getOrNewStateObject(DB, a)
           b == Balance(a)
<1>1. Good(DB) /\ Good(g) /\ Live(g, a) /\ g.world.obj[a].balance = b /\ b \in Nat
  BY FreshOrLive
<1>2. x \in Nat /\ x \in Int /\ -x \in Int
  BY DBAssumption, SMTT(30)
<1>3. CASE AddBalance(a, x)
  <2> DEFINE r == addBalance(g, a, x)
  <2>1. SetWithDelta(r, x)
    BY <1>3 DEF AddBalance
  <2> HIDE DEF g, b
  <2>2. Moved(g, r, x)
    <3>1. CASE x = 0
      <4>1. addBalance(g, a, x) = touch(g, a) \/ addBalance(g, a, x) = g
        BY <3>1 DEF addBalance
      <4>2. touch(g, a).world = g.world
        BY DEF touch, Record
      <4> QED BY <1>1, <3>1, <4>1, <4>2, NotMoved
    <3>2. CASE x # 0
      <4>1. r = setBalance(g, a, b + x)
        BY <1>1, <3>2 DEF addBalance
      <4>2. b + x \in Nat /\ (b + x) - b = x
        BY <1>1, <1>2, SMTT(30)
      <4>3. Moved(g, setBalance(g, a, b + x), (b + x) - b)
        BY <1>1, <4>2, SettersMoved
      <4> QED BY <4>1, <4>2, <4>3
    <3> QED BY <3>1, <3>2
  <2> HIDE DEF r
  <2>3. Moved(DB, r, x)
    BY <1>2, <2>2, FreshMoved DEF g
  <2> QED BY <1>2, <2>1, <2>3, SetWithDeltaTracked
<1>4. CASE SubBalance(a, x)
  <2>1. x <= b /\ (x = 0 => Set(g)) /\ (x # 0 => SetWithDelta(setBalance(g, a, b - x), -x))
    BY <1>1, <1>4 DEF SubBalance
  <2> HIDE DEF g, b
  <2>2. CASE x = 0
    <3>1. Moved(g, g, 0)
      BY <1>1, NotMoved
    <3>2. Moved(DB, g, 0)
      BY <3>1, FreshMoved, SMTT(30) DEF g
    <3> QED BY <2>1, <2>2, <3>2, SetTracked
  <2>3. CASE x # 0
    <3>1. b - x \in Nat /\ (b - x) - b = -x
      BY <1>1, <1>2, <2>1, SMTT(30)
    <3>2. Moved(g, setBalance(g, a, b - x), (b - x) - b)
      BY <1>1, <3>1, SettersMoved
    <3>3. Moved(g, setBalance(g, a, b - x), -x)
      BY <3>1, <3>2
    <3>4. Moved(DB, setBalance(g, a, b - x), -x)
      BY <1>2, <3>3, FreshMoved DEF g
    <3> QED BY <1>2, <2>1, <2>3, <3>4, SetWithDeltaTracked
  <2> QED BY <2>2, <2>3
<1>5. CASE SetBalance(a, x)
  <2>1. SetWithDelta(setBalance(g, a, x), x - b)
    BY <1>1, <1>5 DEF SetBalance
  <2> HIDE DEF g, b
  <2>2. x - b \in Int
    BY <1>1, <1>2, SMTT(30)
  <2>3. Moved(g, setBalance(g, a, x), x - b)
    BY <1>1, <1>2, SettersMoved
  <2>4. Moved(DB, setBalance(g, a, x), x - b)
    BY <2>2, <2>3, FreshMoved DEF g
  <2> QED BY <2>1, <2>2, <2>4, SetWithDeltaTracked
<1> QED BY <1>3, <1>4, <1>5

\* SelfDestruct takes the balance out of the account and out of the delta.
LEMMA SelfDestructTracked ==
  ASSUME IInv, SupplyTracked, NEW a \in Address, SelfDestruct(a) PROVE SupplyTracked'
<1> DEFINE c == clearBalance(DB, a)
           r == markSelfdestructed(c, a)
           b == Balance(a)
<1>1. Good(DB) /\ Live(DB, a) /\ DB.world.obj[a].balance = b
  BY InvGood DEF SelfDestruct, Exist, Live, DB, Balance
<1>2. SetWithDelta(r, -b)
  BY DEF SelfDestruct
<1>3. b \in Nat
  BY <1>1, SettersMoved
<1>4. Good(c) /\ Live(c, a)
  BY <1>1, ClearBalanceStep DEF Step
<1> HIDE DEF b
<1>5. -b \in Int /\ 0 - b = -b /\ -b + 0 = -b
  BY <1>3, SMTT(30)
<1>6. Moved(DB, c, -b)
  <2>1. CASE b = 0
    <3>1. c = DB
      BY <1>1, <2>1 DEF clearBalance
    <3>2. Moved(DB, DB, 0)
      BY <1>1, NotMoved
    <3> QED BY <2>1, <3>1, <3>2, SMTT(30)
  <2>2. CASE b # 0
    <3>1. c = setBalance(DB, a, 0)
      BY <1>1, <2>2 DEF clearBalance
    <3>2. Moved(DB, setBalance(DB, a, 0), 0 - b)
      BY <1>1, SettersMoved
    <3> QED BY <1>5, <3>1, <3>2, ZenonT(30)
  <2> QED BY <2>1, <2>2
<1> HIDE DEF c
<1>7. Moved(c, r, 0)
  BY <1>4, SettersMoved, ZenonT(30)
<1> HIDE DEF r
<1>8. Moved(DB, r, -b + 0)
  BY <1>1, <1>5, <1>6, <1>7, MovedTwice, SMTT(30)
<1> QED BY <1>2, <1>5, <1>8, SetWithDeltaTracked

\* The calls that change an account and no balance.
LEMMA AccountTracked ==
  ASSUME IInv, SupplyTracked, NEW a \in Address
  PROVE  /\ \A n \in Nonce : SetNonce(a, n) => SupplyTracked'
         /\ \A c \in Code : SetCode(a, c) => SupplyTracked'
         /\ \A k \in Slot, v \in Word : SetState(a, k, v) => SupplyTracked'
         /\ CreateZombieIfDeleted(a) => SupplyTracked'
         /\ Create(a) => SupplyTracked'
<1> DEFINE g == getOrNewStateObject(DB, a)
<1>1. Good(DB) /\ Good(g) /\ Live(g, a)
  BY FreshOrLive
<1>2. \A r : Set(r) /\ Moved(g, r, 0) => SupplyTracked'
  <2>1. \A r : Moved(g, r, 0) => Moved(DB, r, 0)
    BY FreshMoved, SMTT(30)
  <2> HIDE DEF g
  <2> QED BY <2>1, SetTracked
<1>3. \A n \in Nonce : n \in Nat
  BY DBAssumption
<1>4. ASSUME NEW n \in Nonce, SetNonce(a, n) PROVE SupplyTracked'
  <2>1. Set(setNonce(g, a, n))
    BY <1>4 DEF SetNonce
  <2> HIDE DEF g
  <2> QED BY <1>1, <1>2, <1>3, <2>1, SettersMoved
<1>5. ASSUME NEW c \in Code, SetCode(a, c) PROVE SupplyTracked'
  <2>1. Set(setCode(g, a, c))
    BY <1>5 DEF SetCode
  <2> HIDE DEF g
  <2> QED BY <1>1, <1>2, <2>1, SettersMoved
<1>6. ASSUME NEW k \in Slot, NEW v \in Word, SetState(a, k, v) PROVE SupplyTracked'
  <2>1. Set(setStorage(g, a, k, v))
    BY <1>6 DEF SetState
  <2> HIDE DEF g
  <2> QED BY <1>1, <1>2, <2>1, SettersMoved
<1>7. ASSUME CreateZombieIfDeleted(a) PROVE SupplyTracked'
  <2>1. ~Live(DB, a) /\ Set(createZombie(DB, a))
    BY <1>7 DEF CreateZombieIfDeleted, Exist, Live, DB
  <2>2. Moved(DB, createZombie(DB, a), 0)
    BY <1>1, <2>1, CreateMoved
  <2> QED BY <2>1, <2>2, SetTracked
<1>8. ASSUME Create(a) PROVE SupplyTracked'
  <2> DEFINE c == createContract(g, a)
             r == setNonce(c, a, 1)
  <2>1. Set(r)
    BY <1>8 DEF Create
  <2> HIDE DEF g
  <2>2. Moved(g, c, 0)
    BY <1>1, SettersMoved
  <2>3. Good(c) /\ Live(c, a)
    BY <1>1, CreateContractStep, ZenonT(30) DEF Step
  <2> HIDE DEF c
  <2>4. Moved(c, r, 0)
    BY <2>3, SettersMoved, ZenonT(30)
  <2> HIDE DEF r
  <2>5. Moved(g, r, 0 + 0)
    BY <1>1, <2>2, <2>4, MovedTwice, SMTT(30)
  <2> QED BY <1>2, <2>1, <2>5, SMTT(30)
<1> QED BY <1>4, <1>5, <1>6, <1>7, <1>8, ZenonT(30)

\* The calls that change an account.
LEMMA AccountCallTracked == ASSUME IInv, SupplyTracked, AccountCall PROVE SupplyTracked'
<1>1. ASSUME NEW a \in Address, NEW x \in Amount,
             AddBalance(a, x) \/ SubBalance(a, x) \/ SetBalance(a, x)
      PROVE  SupplyTracked'
  BY <1>1, BalanceTracked
<1>2. ASSUME NEW a \in Address,
             SelfDestruct(a) \/ SelfDestruct6780(a) \/ CreateZombieIfDeleted(a) \/ Create(a)
      PROVE  SupplyTracked'
  BY <1>2, SelfDestructTracked, AccountTracked DEF SelfDestruct6780
<1> QED BY <1>1, <1>2, AccountTracked, ZenonT(30) DEF AccountCall

\* The calls that leave the objects alone.
LEMMA ObjectsKept ==
  ASSUME NEW s, Good(s), NEW r,
         \/ \E n : r = setRefund(s, n)
         \/ \E a \in Address, k \in Slot, v \in Word : r = setTransient(s, a, k, v)
         \/ r = addLog(s)
         \/ \E a \in Address : r = warmAddress(s, a)
         \/ \E a \in Address, k \in Slot : r = warmSlot(s, a, k)
         \/ \E m \in Module, asm \in AsmMap : r = activateWasm(s, m, asm)
  PROVE  r.world.obj = s.world.obj
<1>1. s.world \in Worlds
  BY GoodWorld
<1> DEFINE w == s.world
<1>2. w = [obj |-> w.obj, transient |-> w.transient, refund |-> w.refund, logs |-> w.logs,
           logSize |-> w.logSize, accessList |-> w.accessList, wasms |-> w.wasms]
  BY <1>1, ZenonT(30) DEF Worlds
<1>3. CASE \E n : r = setRefund(s, n)
  BY <1>2, <1>3, SMTT(30) DEF setRefund, Record
<1>4. CASE \E a \in Address, k \in Slot, v \in Word : r = setTransient(s, a, k, v)
  <2>1. PICK a \in Address, k \in Slot, v \in Word : r = setTransient(s, a, k, v)
    BY <1>4
  <2>2. [w EXCEPT !.transient[a][k] = v].obj = w.obj
    BY <1>2
  <2> QED BY <2>1, <2>2 DEF setTransient, Record
<1>5. CASE r = addLog(s)
  BY <1>2, <1>5, ZenonT(30) DEF addLog, Record
<1>6. CASE \E a \in Address : r = warmAddress(s, a)
  BY <1>2, <1>6, SMTT(30) DEF warmAddress, Record
<1>7. CASE \E a \in Address, k \in Slot : r = warmSlot(s, a, k)
  BY <1>2, <1>7, SMTT(30) DEF warmSlot, Record
<1>8. CASE \E m \in Module, asm \in AsmMap : r = activateWasm(s, m, asm)
  <2>1. PICK m \in Module, asm \in AsmMap : r = activateWasm(s, m, asm)
    BY <1>8
  <2>2. [w EXCEPT !.wasms[m] = asm].obj = w.obj
    BY <1>2
  <2> QED BY <2>1, <2>2 DEF activateWasm, Record
<1> QED BY <1>3, <1>4, <1>5, <1>6, <1>7, <1>8, ZenonT(30)

\* Prepare changes the worlds that were saved, but not their objects.
LEMMA PrepareTracked ==
  ASSUME IInv, SupplyTracked, NEW warm \in SUBSET Address,
         NEW list \in {<<>>} \cup (Address \X Slot), Prepare(warm, list)
  PROVE  SupplyTracked'
<1>1. /\ Idle /\ world' = Prepared(world, warm, list)
      /\ saved' = [i \in 1 .. Len(saved) |-> [saved[i] EXCEPT !.world = Prepared(@, warm, list)]]
      /\ UNCHANGED <<delta, expected, reverting, db, lost>>
  BY DEF Prepare, Calling, blockVars
<1>2. world'.obj = world.obj
  <2>1. world \in Worlds
    BY DEF IInv, TypeOK
  <2> QED BY <1>1, <2>1, PreparedFacts
<1>3. Len(saved) \in Nat /\ \A i \in 1 .. Len(saved) : saved[i] \in SavedStates
  BY InvFacts
<1>4. Len(saved') = Len(saved)
  BY <1>1, <1>3, SMTT(30)
<1>5. ASSUME NEW i \in 1 .. Len(saved)
      PROVE  /\ saved'[i].delta = saved[i].delta /\ saved'[i].expected = saved[i].expected
             /\ saved'[i].world.obj = saved[i].world.obj
  <2>1. PICK v : v = saved[i]
    OBVIOUS
  <2>2. v = [world |-> v.world, delta |-> v.delta, expected |-> v.expected] /\ v.world \in Worlds
    BY <1>3, <2>1 DEF SavedStates
  <2>3. saved'[i] = [v EXCEPT !.world = Prepared(v.world, warm, list)]
    BY <1>1, <2>1
  <2>4. Prepared(v.world, warm, list).obj = v.world.obj
    BY <2>2, PreparedFacts
  <2> QED BY <2>1, <2>2, <2>3, <2>4
<1>6. Idle' /\ Open = Len(saved) /\ Open' = Len(saved)
  BY <1>1, <1>4 DEF Idle, Open
<1>7. Supply' = Supply /\ Lost' = Lost /\ BlockSupply' = BlockSupply
  BY <1>1, <1>2 DEF Supply, Lost, BlockSupply
<1>8. DeltaTracksSupply'
  BY <1>1, <1>6, <1>7 DEF SupplyTracked, DeltaTracksSupply
<1>9. SavedTracks'
  BY <1>5, <1>6, <1>7 DEF SupplyTracked, SavedTracks
<1> QED BY <1>8, <1>9 DEF SupplyTracked

\* The calls that change the rest.
LEMMA OtherCallTracked == ASSUME IInv, SupplyTracked, OtherCall PROVE SupplyTracked'
<1>1. Good(DB)
  BY InvGood
<1>2. ASSUME NEW x \in Amount, ExpectBalanceBurn(x) \/ ExpectBalanceMint(x) PROVE SupplyTracked'
  <2>1. /\ Idle /\ UNCHANGED <<world, reverting, db, saved, lost>>
        /\ \/ delta' = delta + x /\ expected' = expected + x
           \/ delta' = delta - x /\ expected' = expected - x
    BY <1>2 DEF ExpectBalanceBurn, ExpectBalanceMint, Calling, blockVars
  <2>2. delta \in Int /\ expected \in Int /\ x \in Int
    BY DBAssumption, SMTT(30) DEF IInv, TypeOK
  <2>3. delta' - expected' = delta - expected + 0
    BY <2>1, <2>2, SMTT(30)
  <2>4. world' = DB.world /\ Moved(DB, DB, 0)
    BY <1>1, <2>1, NotMoved DEF DB
  <2> QED BY <2>1, <2>3, <2>4, CallTracked, SMTT(30)
<1>3. ASSUME NEW r, Set(r), r.world.obj = DB.world.obj PROVE SupplyTracked'
  BY <1>1, <1>3, NotMoved, SetTracked
<1>4. ASSUME NEW g \in Gas, AddRefund(g) \/ SubRefund(g) PROVE SupplyTracked'
  BY <1>1, <1>3, <1>4, ObjectsKept DEF AddRefund, SubRefund
<1>5. ASSUME NEW a \in Address, NEW k \in Slot, NEW v \in Word, SetTransientState(a, k, v)
      PROVE  SupplyTracked'
  BY <1>1, <1>3, <1>5, ObjectsKept DEF SetTransientState
<1>6. ASSUME AddLog PROVE SupplyTracked'
  BY <1>1, <1>3, <1>6, ObjectsKept DEF AddLog
<1>7. ASSUME NEW a \in Address, AddAddressToAccessList(a) PROVE SupplyTracked'
  BY <1>1, <1>3, <1>7, ObjectsKept DEF AddAddressToAccessList
<1>8. ASSUME NEW a \in Address, NEW k \in Slot, AddSlotToAccessList(a, k) PROVE SupplyTracked'
  <2> DEFINE s == warmAddress(DB, a)
             r == warmSlot(s, a, k)
  <2>1. Good(s) /\ s.world.obj = DB.world.obj
    BY <1>1, WarmAddressStep, ObjectsKept DEF Step
  <2>2. Set(r)
    BY <1>8 DEF AddSlotToAccessList
  <2> HIDE DEF s
  <2>3. r.world.obj = s.world.obj
    BY <2>1, ObjectsKept
  <2> HIDE DEF r
  <2> QED BY <1>3, <2>1, <2>2, <2>3
<1>9. ASSUME NEW m \in Module, NEW asm \in AsmMap, ActivateWasm(m, asm) PROVE SupplyTracked'
  BY <1>1, <1>3, <1>9, ObjectsKept DEF ActivateWasm
<1> QED BY <1>2, <1>4, <1>5, <1>6, <1>7, <1>8, <1>9, PrepareTracked DEF OtherCall
-----------------------------------------------------------------------------
(* Snapshots and reverts.                                                  *)

\* Snapshot saves a delta that accounts for the world it saves.
LEMMA SnapshotTracked == ASSUME IInv, SupplyTracked, Snapshot PROVE SupplyTracked'
<1> DEFINE m == Len(saved)
<1>1. /\ Idle /\ UNCHANGED <<world, delta, expected, reverting, db, lost>>
      /\ saved' = Append(saved, [world |-> world, delta |-> delta, expected |-> expected])
  BY DEF Snapshot, blockVars
<1>2. m \in Nat /\ saved \in Seq(SavedStates)
  BY InvFacts
<1>3. [world |-> world, delta |-> delta, expected |-> expected] \in SavedStates
  BY DEF IInv, TypeOK, SavedStates
<1>4. /\ Len(saved') = m + 1 /\ \A i \in 1 .. m : saved'[i] = saved[i]
      /\ saved'[m + 1] = [world |-> world, delta |-> delta, expected |-> expected]
  BY <1>1, <1>2, <1>3, AppendProps, SMTT(30)
<1>5. Idle' /\ Open = m /\ Open' = m + 1
  BY <1>1, <1>4 DEF Idle, Open
<1>6. Supply' = Supply /\ Lost' = Lost /\ BlockSupply' = BlockSupply
  BY <1>1 DEF Supply, Lost, BlockSupply
<1>7. DeltaTracksSupply'
  BY <1>1, <1>5, <1>6 DEF SupplyTracked, DeltaTracksSupply
<1>8. ASSUME NEW i \in 1 .. Open'
      PROVE  saved'[i].delta - saved'[i].expected
               = Total(Balances(saved'[i].world.obj)) + Lost' - BlockSupply'
  <2>1. CASE i \in 1 .. m
    BY <1>4, <1>5, <1>6, <2>1 DEF SupplyTracked, SavedTracks
  <2>2. CASE i = m + 1
    BY <1>1, <1>4, <1>6, <2>2, SMTT(30) DEF SupplyTracked, DeltaTracksSupply, Supply
  <2> QED BY <1>2, <1>5, <2>1, <2>2, SMTT(30)
<1> QED BY <1>5, <1>7, <1>8 DEF SupplyTracked, SavedTracks

\* RevertToSnapshot takes back the delta of the snapshot.
LEMMA RevertToSnapshotTracked ==
  ASSUME IInv, SupplyTracked, NEW id, RevertToSnapshot(id) PROVE SupplyTracked'
<1> DEFINE x == Search(journal.validRevisions, id)
<1>1. x \in 1 .. Len(saved)
  BY SearchFacts, InvFacts DEF RevertToSnapshot
<1>2. /\ Idle /\ reverting' = x /\ expected' = saved[x].expected
      /\ UNCHANGED <<db, saved, lost>>
  BY DEF RevertToSnapshot, blockVars
<1> HIDE DEF x
<1>3. ~Idle' /\ Open' = x /\ Open = Len(saved)
  BY <1>1, <1>2, SMTT(30) DEF Idle, Open
<1>4. \A i \in 1 .. x : i \in 1 .. Len(saved)
  BY <1>1, InvFacts, SMTT(30)
<1>5. Lost' = Lost /\ BlockSupply' = BlockSupply
  BY <1>2 DEF Lost, BlockSupply
<1>6. SavedTracks'
  BY <1>2, <1>3, <1>4, <1>5 DEF SupplyTracked, SavedTracks
<1> QED BY <1>3, <1>6 DEF SupplyTracked, DeltaTracksSupply

\* Undoing an entry leaves what was saved alone.
LEMMA RevertEntryTracked == ASSUME IInv, SupplyTracked, RevertEntry PROVE SupplyTracked'
<1>1. ~Idle /\ UNCHANGED <<expected, reverting, db, saved, lost>>
  BY DEF RevertEntry, blockVars
<1>2. ~Idle' /\ Open' = Open /\ Lost' = Lost /\ BlockSupply' = BlockSupply
  BY <1>1 DEF Idle, Open, Lost, BlockSupply
<1>3. SavedTracks'
  BY <1>1, <1>2 DEF SupplyTracked, SavedTracks
<1> QED BY <1>2, <1>3 DEF SupplyTracked, DeltaTracksSupply

\* At the end of the revert the world is the saved one, and so is the delta.
LEMMA RevertDoneTracked == ASSUME IInv, SupplyTracked, RevertDone PROVE SupplyTracked'
<1> DEFINE r == reverting
<1>1. /\ ~Idle /\ r \in 1 .. Len(saved) /\ reverting' = 0 /\ saved' = SubSeq(saved, 1, r - 1)
      /\ UNCHANGED <<expected, db, lost>>
  BY InvFacts, SMTT(30) DEF RevertDone, Idle, blockVars
<1>2. world' = saved[r].world /\ delta' = saved[r].delta
  BY RevertDonePreserves
<1>3. Len(saved) \in Nat /\ saved \in Seq(SavedStates) /\ r - 1 \in 0 .. Len(saved)
  BY <1>1, InvFacts, SMTT(30)
<1>4. Len(saved') = r - 1 /\ \A i \in 1 .. r - 1 : saved'[i] = saved[i]
  BY <1>1, <1>3, PrefixProps
<1>5. Idle' /\ Open = r /\ Open' = r - 1
  BY <1>1, <1>4 DEF Idle, Open
<1>6. Lost' = Lost /\ BlockSupply' = BlockSupply /\ Supply' = Total(Balances(saved[r].world.obj))
  BY <1>1, <1>2, ZenonT(30) DEF Supply, Lost, BlockSupply
<1>7. expected = saved[r].expected /\ r \in 1 .. r /\ \A i \in 1 .. r - 1 : i \in 1 .. r
  BY <1>1, <1>3, SMTT(30) DEF SupplyTracked, SavedTracks
<1>8. DeltaTracksSupply'
  BY <1>1, <1>2, <1>5, <1>6, <1>7 DEF SupplyTracked, SavedTracks, DeltaTracksSupply
<1>9. SavedTracks'
  BY <1>4, <1>5, <1>6, <1>7 DEF SupplyTracked, SavedTracks
<1> QED BY <1>8, <1>9, ZenonT(30) DEF SupplyTracked
-----------------------------------------------------------------------------
(* The boundaries.                                                         *)

\* Without an open snapshot the invariant is about the delta.
LEMMA NothingSaved ==
  ASSUME Idle', saved' = <<>>, DeltaTracksSupply' PROVE SupplyTracked'
<1>1. Open' = 0
  BY DEF Open
<1>2. SavedTracks'
  BY <1>1, SMTT(30) DEF SavedTracks
<1> QED BY <1>2 DEF SupplyTracked

\* The balance of an account is part of what its object holds.
LEMMA LogicalBalance ==
  ASSUME NEW F \in [Address -> StateObjects \cup {NoObject}], NEW a \in Address
  PROVE  Balances(F)[a] = IF Logical(F[a]) = NoObject THEN 0 ELSE Logical(F[a]).balance
<1>1. CASE F[a] = NoObject
  BY <1>1 DEF Balances, Logical
<1>2. CASE F[a] \in StateObjects
  <2>1. F[a] # NoObject /\ Logical(F[a]) # NoObject
    BY <1>2, LogicalType, ObjectAssumption
  <2>2. Logical(F[a]).balance = F[a].balance
    BY <2>1 DEF Logical
  <2> QED BY <2>1, <2>2 DEF Balances
<1> QED BY <1>1, <1>2

\* Finalise takes the balances it drops from the supply, and from nothing else.
LEMMA BoundaryTracked ==
  ASSUME IInv, SupplyTracked, Idle, FinaliseRest,
         NEW F \in [Address -> StateObjects \cup {NoObject}],
         \A a \in Address :
           Logical(F[a]) = IF Removed(a) THEN NoObject ELSE Logical(world.obj[a]),
         world'.obj = F
  PROVE  SupplyTracked'
<1> DEFINE W == world.obj
           d == [a \in Address |-> IF Removed(a) THEN W[a].balance ELSE 0]
<1>1. /\ UNCHANGED <<delta, expected, reverting, db>> /\ saved' = <<>>
      /\ lost' = [a \in Address |-> lost[a] + IF Removed(a) THEN W[a].balance ELSE 0]
  BY DEF FinaliseRest
<1>2. /\ W \in [Address -> StateObjects \cup {NoObject}] /\ lost \in [Address -> Nat]
      /\ \A o \in StateObjects : o.balance \in Nat
  BY DEF IInv, TypeOK, Worlds, StateObjects
<1>3. \A a \in Address : Removed(a) => W[a] \in StateObjects /\ W[a] # NoObject
  BY <1>2 DEF Removed, Dirty, Exist
<1>4. d \in [Address -> Int] /\ lost \in [Address -> Int] /\ lost' \in [Address -> Int]
  BY <1>1, <1>2, <1>3, SMTT(30)
<1>5. Balances(F) \in [Address -> Int] /\ Balances(W) \in [Address -> Int]
  BY <1>2, SMTT(30) DEF Balances
<1>6. ASSUME NEW a \in Address PROVE Balances(W)[a] = Balances(F)[a] + d[a]
  <2>1. CASE Removed(a)
    <3>1. Balances(F)[a] = 0
      BY <2>1, LogicalBalance
    <3>2. Balances(W)[a] = W[a].balance /\ W[a].balance \in Nat
      BY <1>2, <1>3, <2>1, ZenonT(30) DEF Balances
    <3> QED BY <2>1, <3>1, <3>2, SMTT(30)
  <2>2. CASE ~Removed(a)
    <3>1. Balances(F)[a] = Balances(W)[a]
      BY <1>2, <2>2, LogicalBalance, SMTT(30)
    <3> QED BY <1>5, <2>2, <3>1, SMTT(30)
  <2> QED BY <2>1, <2>2
<1>7. \A a \in Address : lost'[a] = lost[a] + d[a]
  BY <1>1
<1> HIDE DEF d
<1>8. Total(Balances(W)) = Total(Balances(F)) + Total(d)
  BY <1>4, <1>5, <1>6, TotalAdd, SMTT(30)
<1>9. Lost' = Lost + Total(d)
  BY <1>4, <1>7, TotalAdd DEF Lost
<1>10. Total(d) \in Int /\ Total(Balances(F)) \in Int /\ Lost \in Int /\ BlockSupply \in Int
  BY <1>4, <1>5, TotalType, TotalsType
<1>11. Supply = Total(Balances(W)) /\ Supply' = Total(Balances(F)) /\ BlockSupply' = BlockSupply
  BY <1>1 DEF Supply, BlockSupply
<1>12. \A s, t, l, b \in Int : (s + t) + l - b = s + (l + t) - b
  BY SMTT(30)
<1>13. Supply + Lost - BlockSupply = Supply' + Lost' - BlockSupply'
  BY <1>8, <1>9, <1>10, <1>11, <1>12, SMTT(30)
<1>14. DeltaTracksSupply' /\ Idle'
  BY <1>1, <1>13, ZenonT(30) DEF SupplyTracked, DeltaTracksSupply, Idle
<1> QED BY <1>1, <1>14, NothingSaved, ZenonT(30)

\* A StateDB opened on a state has the supply of that state.
LEMMA OpenedTracked ==
  ASSUME NEW d \in [Address -> Account \cup {NoObject}]
  PROVE  /\ Balances(freshWorld(d).obj) = Balances(d)
         /\ Total(Balances(d)) \in Int
         /\ 0 - 0 = Total(Balances(d)) + Total([a \in Address |-> 0]) - Total(Balances(d))
<1>1. /\ freshWorld(d).obj \in [Address -> StateObjects \cup {NoObject}]
      /\ \A a \in Address : Logical(freshWorld(d).obj[a]) = d[a]
  BY FreshFacts DEF Worlds
<1>2. \A a \in Address : Balances(freshWorld(d).obj)[a] = Balances(d)[a]
  BY <1>1, LogicalBalance, SMTT(30) DEF Balances
<1>3. Balances(d) \in [Address -> Int] /\ Balances(freshWorld(d).obj) \in [Address -> Int]
  BY <1>1, SMTT(30) DEF Balances, Account, StateObjects
<1>4. Total(Balances(d)) \in Int /\ Total([a \in Address |-> 0]) = 0
  BY <1>3, TotalType, TotalZero
<1>5. \A x \in Int : 0 - 0 = x + 0 - x
  BY SMTT(30)
<1> QED BY <1>2, <1>3, <1>4, <1>5, SMTT(30)

\* Commit opens a StateDB on the new state.
LEMMA CommitTracked == ASSUME IInv, SupplyTracked, Commit PROVE SupplyTracked'
<1>1. /\ world' = freshWorld(db') /\ delta' = 0 /\ expected' = 0 /\ saved' = <<>>
      /\ lost' = [a \in Address |-> 0] /\ Idle'
  BY DEF Commit, Idle
<1>2. db' \in [Address -> Account \cup {NoObject}]
  <2>1. IInv'
    BY CommitPreserves
  <2> QED BY <2>1 DEF IInv, TypeOK
<1>3. Supply' = BlockSupply' /\ BlockSupply' = Total(Balances(db'))
      /\ Lost' = Total([a \in Address |-> 0])
  BY <1>1, <1>2, OpenedTracked DEF Supply, BlockSupply, Lost
<1>4. DeltaTracksSupply'
  BY <1>1, <1>2, <1>3, OpenedTracked DEF DeltaTracksSupply
<1> QED BY <1>1, <1>4, NothingSaved

\* It holds when the first StateDB is opened.
LEMMA InitTracked == ASSUME Init PROVE SupplyTracked
<1>1. /\ world = freshWorld(db) /\ delta = 0 /\ expected = 0 /\ saved = <<>>
      /\ lost = [a \in Address |-> 0] /\ Idle
  BY DEF Init, Idle
<1>2. db \in [Address -> Account \cup {NoObject}]
  BY InitInv DEF IInv, TypeOK
<1>3. /\ Supply = BlockSupply /\ BlockSupply = Total(Balances(db))
      /\ Lost = Total([a \in Address |-> 0])
  BY <1>1, <1>2, OpenedTracked DEF Supply, BlockSupply, Lost
<1>4. DeltaTracksSupply
  BY <1>1, <1>2, <1>3, OpenedTracked, ZenonT(30) DEF DeltaTracksSupply
<1>5. Open = 0
  BY <1>1 DEF Open
<1> QED BY <1>1, <1>4, <1>5, SMTT(30) DEF SupplyTracked, SavedTracks

\* Steps that change none of it.
LEMMA UnchangedTracked ==
  ASSUME SupplyTracked, UNCHANGED <<world, delta, expected, reverting, db, saved, lost>>
  PROVE  SupplyTracked'
<1>1. Idle' = Idle /\ Open' = Open /\ Lost' = Lost /\ BlockSupply' = BlockSupply /\ Supply' = Supply
  BY DEF Idle, Open, Lost, BlockSupply, Supply
<1> QED BY <1>1 DEF SupplyTracked, DeltaTracksSupply, SavedTracks

\* Every step preserves it.
LEMMA NextTracked == IInv /\ SupplyTracked /\ [Next]_vars => SupplyTracked'
<1> SUFFICES ASSUME IInv, SupplyTracked, [Next]_vars PROVE SupplyTracked'
  OBVIOUS
<1>1. CASE AccountCall
  BY <1>1, AccountCallTracked
<1>2. CASE OtherCall
  BY <1>2, OtherCallTracked
<1>3. CASE Snapshot
  BY <1>3, SnapshotTracked
<1>4. CASE \E id \in 0 .. journal.nextRevisionId : RevertToSnapshot(id)
  BY <1>4, RevertToSnapshotTracked
<1>5. CASE RevertEntry
  BY <1>5, RevertEntryTracked
<1>6. CASE RevertDone
  BY <1>6, RevertDoneTracked
<1>7. world = [world EXCEPT !.obj = world.obj] /\ world \in Worlds
  BY DEF IInv, TypeOK, Worlds
<1>8. CASE Finalise
  <2>1. world'.obj = finalObj
    BY <1>7, <1>8 DEF Finalise, Worlds
  <2> QED BY <1>8, <2>1, FinalFacts, BoundaryTracked DEF Finalise
<1>9. CASE IntermediateRoot
  <2>1. world'.obj = rootObj
    BY <1>7, <1>9, ZenonT(30) DEF IntermediateRoot, Worlds
  <2>2. /\ rootObj \in [Address -> StateObjects \cup {NoObject}]
        /\ \A a \in Address :
             Logical(rootObj[a]) = IF Removed(a) THEN NoObject ELSE Logical(world.obj[a])
    BY FinalFacts, RootFacts
  <2> QED BY <1>9, <2>1, <2>2, BoundaryTracked DEF IntermediateRoot
<1>10. CASE Commit
  BY <1>10, CommitTracked
<1>11. CASE \E t \in Tx : SetTxContext(t)
  <2>1. UNCHANGED <<world, delta, expected, reverting, db, saved, lost>>
    BY <1>11 DEF SetTxContext, blockVars, histVars
  <2> QED BY <2>1, UnchangedTracked
<1>12. CASE UNCHANGED vars
  <2>1. UNCHANGED <<world, delta, expected, reverting, db, saved, lost>>
    BY <1>12 DEF vars, txVars, blockVars, histVars
  <2> QED BY <2>1, UnchangedTracked
<1> QED BY <1>1, <1>2, <1>3, <1>4, <1>5, <1>6, <1>8, <1>9, <1>10, <1>11, <1>12 DEF Next

\* unexpectedBalanceDelta is the change of the supply since the last commit, net of
\* the announced burns and mints and of what died with self-destructed accounts,
\* after any calls, snapshots, reverts and transactions.
THEOREM DeltaCorrect == Spec => []DeltaTracksSupply
<1>1. Init => IInv /\ SupplyTracked
  BY InitInv, InitTracked, ZenonT(30)
<1>2. (IInv /\ SupplyTracked) /\ [Next]_vars => (IInv /\ SupplyTracked)'
  BY NextInv, NextTracked
<1>3. SupplyTracked => DeltaTracksSupply
  BY DEF SupplyTracked
<1> QED BY <1>1, <1>2, <1>3, PTL DEF Spec
=============================================================================
