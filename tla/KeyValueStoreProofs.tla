------------------------- MODULE KeyValueStoreProofs -------------------------
(***************************************************************************)
(* The expiry heap stays a heap, and the store, its index, its heap and    *)
(* its cleaner stay together.                                              *)
(*                                                                         *)
(* The heap comes first: what a swap does, that up and down end (by        *)
(* Recursion), what they keep and what they put in order, and from that    *)
(* what Push, Fix, Remove and Pop return.  The inductive invariant Inv of  *)
(* the store is HeapOK with the agreement of the three structures and the  *)
(* cleaner's alarm, already between its reading of the first item and its  *)
(* sleep.                                                                  *)
(***************************************************************************)
EXTENDS KeyValueStore, Recursion, FiniteSetTheorems, TLAPS

-----------------------------------------------------------------------------
(* Heaps *)

\* Positions and items tell the same story: a heap of distinct keys, each of
\* which knows where it is.
Well(h) ==
    /\ h \in Heap
    /\ \A i \in DOMAIN h.store : h.pos[h.store[i]] = i
    /\ \A k \in Keys : h.pos[k] # 0 => /\ h.pos[k] \in DOMAIN h.store
                                       /\ h.store[h.pos[k]] = k

Items(h) == {k \in Keys : h.pos[k] # 0}

Child(a, b) == b = 2 * a \/ b = 2 * a + 1

\* When the item at i expires.
Time(h, i) == h.at[h.store[i]]

\* Nobody among the first n is later than a child.
Ordered(h, n) == \A a, b \in 1..n : Child(a, b) => Time(h, a) <= Time(h, b)

\* The parents of i are not later than the children of i.
Bridged(h, i, n) ==
    \A a, b \in 1..n : Child(a, i) /\ Child(i, b) => Time(h, a) <= Time(h, b)

\* Ordered but for i and its parent.
Rising(h, i, n) ==
    /\ \A a, b \in 1..n : Child(a, b) /\ b # i => Time(h, a) <= Time(h, b)
    /\ Bridged(h, i, n)

\* Ordered but for i and its children.
Sinking(h, i, n) ==
    /\ \A a, b \in 1..n : Child(a, b) /\ a # i => Time(h, a) <= Time(h, b)
    /\ Bridged(h, i, n)

\* Ordered but for i, its parent and its children.
Displaced(h, i, n) ==
    /\ \A a, b \in 1..n : Child(a, b) /\ a # i /\ b # i => Time(h, a) <= Time(h, b)
    /\ Bridged(h, i, n)

\* g has the items of h, those after the first n where they were.
Permuted(g, h, n) ==
    /\ Well(g)
    /\ Len(g.store) = Len(h.store)
    /\ g.at = h.at
    /\ Items(g) = Items(h)
    /\ \A j \in DOMAIN h.store : j > n => g.store[j] = h.store[j]

\* The fields of a heap.
LEMMA WellTypes ==
    ASSUME NEW h, Well(h)
    PROVE  /\ h \in Heap /\ h.store \in Seq(Keys) /\ Len(h.store) \in Nat
           /\ DOMAIN h.store = 1..Len(h.store)
           /\ h.pos \in [Keys -> Nat] /\ h.at \in [Keys -> Int]
BY DEF Well, Heap

\* The parent of a place is half of it.
LEMMA Half ==
    ASSUME NEW i \in Nat
    PROVE  /\ i \div 2 \in Nat
           /\ i = 2 * (i \div 2) \/ i = 2 * (i \div 2) + 1
OBVIOUS

\* A swap exchanges two items and nothing else.
LEMMA SwapFields ==
    ASSUME NEW h \in Heap, NEW i \in DOMAIN h.store, NEW j \in DOMAIN h.store
    PROVE  /\ Swap(h, i, j) \in Heap
           /\ Swap(h, i, j).at = h.at
           /\ Len(Swap(h, i, j).store) = Len(h.store)
           /\ DOMAIN Swap(h, i, j).store = DOMAIN h.store
           /\ Swap(h, i, j).pos = [h.pos EXCEPT ![h.store[j]] = i, ![h.store[i]] = j]
           /\ Swap(h, i, j).store[j] = h.store[i]
           /\ i # j => Swap(h, i, j).store[i] = h.store[j]
           /\ \A x \in DOMAIN h.store : x # i /\ x # j => Swap(h, i, j).store[x] = h.store[x]
<1> DEFINE s == h.store
           t == [h.store EXCEPT ![i] = h.store[j], ![j] = h.store[i]]
           p == [h.pos EXCEPT ![h.store[j]] = i, ![h.store[i]] = j]
<1>1. s \in Seq(Keys) /\ h.pos \in [Keys -> Nat] /\ h.at \in [Keys -> Int]
  BY DEF Heap
<1>2. t \in Seq(Keys) /\ Len(t) = Len(s) /\ DOMAIN t = DOMAIN s
  BY <1>1
<1>3. p \in [Keys -> Nat]
  <2>1. i \in Nat /\ j \in Nat /\ s[i] \in Keys /\ s[j] \in Keys
    BY <1>1
  <2> QED
    BY <1>1, <2>1
<1>4. /\ Swap(h, i, j) \in Heap /\ Swap(h, i, j).store = t
      /\ Swap(h, i, j).pos = p /\ Swap(h, i, j).at = h.at
  <2>1. Swap(h, i, j) = [h EXCEPT !.store = t, !.pos = p]
    BY DEF Swap
  <2> HIDE DEF t, p
  <2> QED
    BY <1>2, <1>3, <2>1 DEF Heap
<1> QED
  BY <1>1, <1>2, <1>3, <1>4

\* A swap exchanges the times at two places.
LEMMA SwapTimes ==
    ASSUME NEW h \in Heap, NEW i \in DOMAIN h.store, NEW j \in DOMAIN h.store
    PROVE  /\ Len(Swap(h, i, j).store) = Len(h.store)
           /\ Swap(h, i, j).store[j] = h.store[i]
           /\ Time(Swap(h, i, j), i) = Time(h, j)
           /\ Time(Swap(h, i, j), j) = Time(h, i)
           /\ \A x \in DOMAIN h.store : x # i /\ x # j => Time(Swap(h, i, j), x) = Time(h, x)
<1> DEFINE g == Swap(h, i, j)
<1>1. h \in Heap /\ h.store \in Seq(Keys) /\ h.pos \in [Keys -> Nat]
  BY DEF Heap
<1>2. /\ g \in Heap /\ g.at = h.at /\ Len(g.store) = Len(h.store)
      /\ DOMAIN g.store = DOMAIN h.store
      /\ g.pos = [h.pos EXCEPT ![h.store[j]] = i, ![h.store[i]] = j]
      /\ g.store[j] = h.store[i]
      /\ i # j => g.store[i] = h.store[j]
      /\ \A x \in DOMAIN h.store : x # i /\ x # j => g.store[x] = h.store[x]
  BY <1>1, SwapFields
<1> HIDE DEF g
<1>3. g.store[i] = h.store[j]
  BY <1>2
<1> QED
  BY <1>2, <1>3 DEF Time, g

\* A swap among the first n items permutes the heap.
LEMMA SwapPermutes ==
    ASSUME NEW h, Well(h), NEW i \in DOMAIN h.store, NEW j \in DOMAIN h.store,
           NEW n \in Nat, i <= n, j <= n
    PROVE  Permuted(Swap(h, i, j), h, n)
<1> DEFINE g == Swap(h, i, j)
<1>1. h \in Heap /\ h.store \in Seq(Keys) /\ h.pos \in [Keys -> Nat]
  BY DEF Well, Heap
<1>2. /\ h.store[i] \in Keys /\ h.store[j] \in Keys
      /\ i \in Nat \ {0} /\ j \in Nat \ {0}
      /\ h.pos[h.store[i]] = i /\ h.pos[h.store[j]] = j
  BY <1>1 DEF Well
<1>3. /\ g \in Heap /\ g.at = h.at /\ Len(g.store) = Len(h.store)
      /\ DOMAIN g.store = DOMAIN h.store
      /\ g.pos = [h.pos EXCEPT ![h.store[j]] = i, ![h.store[i]] = j]
      /\ g.store[j] = h.store[i]
      /\ i # j => g.store[i] = h.store[j]
      /\ \A x \in DOMAIN h.store : x # i /\ x # j => g.store[x] = h.store[x]
  BY <1>1, SwapFields
<1> HIDE DEF g
<1>4. \A x \in DOMAIN h.store : h.store[x] \in Keys
  BY <1>1
<1>5. \A x \in DOMAIN g.store : g.pos[g.store[x]] = x
  <2> SUFFICES ASSUME NEW x \in DOMAIN h.store PROVE g.pos[g.store[x]] = x
    BY <1>3
  <2>1. CASE x = j
    BY <1>1, <1>2, <1>3, <2>1
  <2>2. CASE x = i /\ i # j
    <3>1. h.store[i] # h.store[j]
      BY <1>2, <2>2
    <3> QED
      BY <1>1, <1>2, <1>3, <2>2, <3>1
  <2>3. CASE x # i /\ x # j
    <3>1. h.pos[h.store[x]] = x /\ h.store[x] \in Keys
      BY <1>4 DEF Well
    <3>2. h.store[x] # h.store[i] /\ h.store[x] # h.store[j]
      BY <1>2, <2>3, <3>1
    <3> QED
      BY <1>1, <1>3, <2>3, <3>1, <3>2
  <2> QED
    BY <2>1, <2>2, <2>3
<1>6. \A k \in Keys : /\ g.pos[k] # 0 <=> h.pos[k] # 0
                      /\ g.pos[k] # 0 => g.pos[k] \in DOMAIN g.store /\ g.store[g.pos[k]] = k
  <2> SUFFICES ASSUME NEW k \in Keys
               PROVE  /\ g.pos[k] # 0 <=> h.pos[k] # 0
                      /\ g.pos[k] # 0 => g.pos[k] \in DOMAIN g.store /\ g.store[g.pos[k]] = k
    OBVIOUS
  <2>1. CASE k = h.store[i]
    BY <1>1, <1>2, <1>3, <2>1
  <2>2. CASE k = h.store[j] /\ k # h.store[i]
    <3>1. i # j
      BY <2>2
    <3> QED
      BY <1>1, <1>2, <1>3, <2>2, <3>1
  <2>3. CASE k # h.store[i] /\ k # h.store[j]
    <3>1. g.pos[k] = h.pos[k]
      BY <1>1, <1>3, <2>3
    <3>2. h.pos[k] # 0 => /\ h.pos[k] \in DOMAIN h.store /\ h.store[h.pos[k]] = k
                          /\ h.pos[k] # i /\ h.pos[k] # j
      BY <2>3 DEF Well
    <3> QED
      BY <1>3, <3>1, <3>2
  <2> QED
    BY <2>1, <2>2, <2>3
<1>7. Well(g)
  BY <1>3, <1>5, <1>6 DEF Well
<1>8. Items(g) = Items(h)
  BY <1>6 DEF Items
<1>9. \A x \in DOMAIN h.store : x > n => g.store[x] = h.store[x]
  BY <1>1, <1>2, <1>3
<1> QED
  BY <1>3, <1>7, <1>8, <1>9 DEF Permuted, g

\* Permutations compose.
LEMMA PermutedTwice ==
    ASSUME NEW f, NEW g, NEW h, NEW m \in Nat, NEW n \in Nat, m <= n, Well(h),
           Permuted(f, g, m), Permuted(g, h, n)
    PROVE  Permuted(f, h, n)
<1>1. DOMAIN g.store = DOMAIN h.store /\ DOMAIN h.store \subseteq Nat
  BY DEF Permuted, Well, Heap
<1> QED
  BY <1>1 DEF Permuted

-----------------------------------------------------------------------------
(* Rising *)

UpArgs == {y \in [h : Heap, i : Nat] : y.i \in DOMAIN y.h.store}

UpDone(x) == x.i \div 2 = 0 \/ ~Less(x.h, x.i, x.i \div 2)
UpNext(x) == [h |-> Swap(x.h, x.i, x.i \div 2), i |-> x.i \div 2]

\* The parent is in the heap, and above.
LEMMA UpSteps ==
    ASSUME NEW x \in UpArgs, ~UpDone(x)
    PROVE  /\ UpNext(x) \in UpArgs
           /\ UpNext(x).i < x.i
           /\ x.i \div 2 \in DOMAIN x.h.store
<1> DEFINE p == x.i \div 2
<1>1. x.h \in Heap /\ x.i \in Nat /\ x.i \in DOMAIN x.h.store /\ x.h.store \in Seq(Keys)
  BY DEF UpArgs, Heap
<1>2. p \in Nat \ {0} /\ p < x.i /\ p \in DOMAIN x.h.store
  BY <1>1, Half DEF UpDone
<1> HIDE DEF p
<1>3. /\ Swap(x.h, x.i, p) \in Heap
      /\ DOMAIN Swap(x.h, x.i, p).store = DOMAIN x.h.store
  <2>1. \A h \in Heap : \A i, j \in DOMAIN h.store :
           Swap(h, i, j) \in Heap /\ DOMAIN Swap(h, i, j).store = DOMAIN h.store
    BY SwapFields, ZenonT(30)
  <2> QED
    BY <1>1, <1>2, <2>1
<1> QED
  BY <1>2, <1>3 DEF UpArgs, UpNext, p

\* The function up of the model is what its definition says.
LEMMA UpEquation ==
    \A x \in UpArgs : up[x] = IF UpDone(x) THEN x.h ELSE up[UpNext(x)]
<1> DEFINE m == [x \in UpArgs |-> x.i]
           D == {x \in UpArgs : UpDone(x)}
           r == [x \in D |-> x.h]
           next == [x \in UpArgs \ D |-> UpNext(x)]
<1>1. m \in [UpArgs -> Nat] /\ D \in SUBSET UpArgs /\ r \in [D -> Heap]
  BY DEF UpArgs
<1>2. next \in [UpArgs \ D -> UpArgs] /\ GoesDown(UpArgs, m, D, next)
  BY UpSteps DEF GoesDown
<1>3. PICK f : TailSolution(UpArgs, Heap, D, r, next, f)
  <2> HIDE DEF m, D, r, next
  <2> QED
    BY <1>1, <1>2, TailRecursionSolved
<1> DEFINE e(g) == [x \in UpArgs |-> IF UpDone(x) THEN x.h ELSE g[UpNext(x)]]
<1>4. f = e(f)
  BY <1>3 DEF TailSolution
<1>5. up = CHOOSE g : g = e(g)
  BY Zenon DEF up, UpArgs, UpDone, UpNext
<1>6. up = e(up)
  BY <1>4, <1>5, Zenon
<1> HIDE DEF m, D, r, next
<1> QED
  BY <1>6

\* Rising permutes the items.
LEMMA UpPermutes ==
    \A x \in UpArgs : Well(x.h) => Permuted(up[x], x.h, x.i)
<1> DEFINE m == [x \in UpArgs |-> x.i]
           T == {x \in UpArgs : Well(x.h) => Permuted(up[x], x.h, x.i)}
<1>1. m \in [UpArgs -> Nat] /\ T \in SUBSET UpArgs
  BY DEF UpArgs
<1>2. ASSUME NEW x \in UpArgs, Below(UpArgs, m, x) \subseteq T, Well(x.h)
      PROVE  Permuted(up[x], x.h, x.i)
  <2>1. x.i \in Nat /\ x.i \in DOMAIN x.h.store /\ x.h \in Heap
    BY DEF UpArgs
  <2>2. CASE UpDone(x)
    <3>1. up[x] = x.h
      BY <2>2, UpEquation
    <3> QED
      BY <1>2, <3>1 DEF Permuted
  <2>3. CASE ~UpDone(x)
    <3> DEFINE y == UpNext(x)
               p == x.i \div 2
    <3>1. y \in UpArgs /\ y.i < x.i /\ p \in DOMAIN x.h.store /\ y.i = p /\ p \in Nat
      BY <2>1, <2>3, UpSteps DEF UpNext
    <3>2. y \in T
      BY <1>2, <3>1 DEF Below
    <3>3. Permuted(y.h, x.h, x.i)
      <4>1. \A h : Well(h) => \A i, j \in DOMAIN h.store : \A n \in Nat :
               i <= n /\ j <= n => Permuted(Swap(h, i, j), h, n)
        BY SwapPermutes
      <4>2. p <= x.i /\ x.i <= x.i
        BY <2>1, <3>1
      <4> QED
        BY <1>2, <2>1, <3>1, <4>1, <4>2 DEF UpNext
    <3>4. Permuted(up[y], y.h, p)
      BY <3>1, <3>2, <3>3 DEF Permuted
    <3>5. up[x] = up[y]
      BY <2>3, UpEquation
    <3>6. Permuted(up[y], x.h, x.i)
      BY <1>2, <2>1, <3>1, <3>3, <3>4, PermutedTwice
    <3> QED
      BY <3>5, <3>6
  <2> QED
    BY <2>2, <2>3
<1>3. Inductive(UpArgs, m, T)
  BY <1>2 DEF Inductive
<1>4. UpArgs \subseteq T
  <2> HIDE DEF m, T
  <2> QED
    BY <1>1, <1>3, MeasureInduction
<1> QED
  BY <1>4

\* When the item has risen to its place, all are in order.
LEMMA UpDoneOrders ==
    ASSUME NEW x \in UpArgs, UpDone(x), NEW n \in Nat, n <= Len(x.h.store),
           Rising(x.h, x.i, n)
    PROVE  Ordered(x.h, n)
<1> DEFINE p == x.i \div 2
<1>1. x.i \in Nat /\ x.h \in Heap /\ x.h.store \in Seq(Keys) /\ x.h.at \in [Keys -> Int]
  BY DEF UpArgs, Heap
<1> SUFFICES ASSUME NEW a \in 1..n, NEW b \in 1..n, Child(a, b), b = x.i
             PROVE  Time(x.h, a) <= Time(x.h, b)
  BY DEF Ordered, Rising
<1>2. a = p /\ p # 0
  <2>1. p \in Nat /\ (b = 2 * p \/ b = 2 * p + 1)
    BY <1>1, Half
  <2>2. a \in Nat /\ a > 0 /\ (b = 2 * a \/ b = 2 * a + 1)
    BY DEF Child
  <2> HIDE DEF p
  <2> QED
    BY <2>1, <2>2
<1>3. /\ x.h.store[a] \in Keys /\ x.h.store[b] \in Keys
  BY <1>1
<1>4. Time(x.h, a) \in Int /\ Time(x.h, b) \in Int
  BY <1>1, <1>3 DEF Time
<1>5. ~Less(x.h, x.i, p)
  BY <1>2 DEF UpDone
<1> QED
  BY <1>2, <1>4, <1>5 DEF Less, Time

\* A step of the rise leaves only the item that rises out of order.
LEMMA UpStepRises ==
    ASSUME NEW x \in UpArgs, ~UpDone(x), NEW n \in Nat, n <= Len(x.h.store), x.i <= n,
           Rising(x.h, x.i, n)
    PROVE  Rising(UpNext(x).h, UpNext(x).i, n)
<1> DEFINE p == x.i \div 2
           i == x.i
           h == x.h
           g == UpNext(x).h
<1>1. i \in Nat /\ h \in Heap /\ h.store \in Seq(Keys) /\ h.at \in [Keys -> Int] /\ i \in DOMAIN h.store
  BY DEF UpArgs, Heap
<1>2. p \in DOMAIN h.store /\ p \in Nat /\ p < i /\ Child(p, i) /\ UpNext(x).i = p
  BY <1>1, UpSteps, Half DEF UpNext, Child
<1>3. p \in 1..n /\ i \in 1..n
  <2> HIDE DEF p
  <2> QED
    BY <1>1, <1>2
<1>4. Time(h, i) < Time(h, p)
  BY DEF UpDone, Less, Time
<1>5. \A a \in 1..n : Time(h, a) \in Int
  BY <1>1 DEF Time
<1>6. /\ Time(g, i) = Time(h, p)
      /\ Time(g, p) = Time(h, i)
      /\ \A a \in 1..n : a # i /\ a # p => Time(g, a) = Time(h, a)
  <2>1. g = Swap(h, i, p) /\ 1..n \subseteq DOMAIN h.store
    BY <1>1 DEF UpNext
  <2> HIDE DEF g, h, i, p
  <2>2. /\ Time(Swap(h, i, p), i) = Time(h, p)
        /\ Time(Swap(h, i, p), p) = Time(h, i)
        /\ \A a \in DOMAIN h.store : a # i /\ a # p => Time(Swap(h, i, p), a) = Time(h, a)
    BY <1>1, <1>2, SwapTimes
  <2> QED
    BY <2>1, <2>2
<1>7. \A a, b \in 1..n : Child(a, b) /\ b # i => Time(h, a) <= Time(h, b)
  BY DEF Rising
<1>8. \A a, b \in 1..n : Child(a, i) /\ Child(i, b) => Time(h, a) <= Time(h, b)
  BY DEF Rising, Bridged
<1> HIDE DEF g, h, p, i
<1>9. ASSUME NEW a \in 1..n, NEW b \in 1..n, Child(a, b), b # p
      PROVE  Time(g, a) <= Time(g, b)
  <2>1. a < b
    BY <1>9 DEF Child
  <2>2. CASE b = i
    <3>1. a = p
      BY <1>2, <1>9, <2>2 DEF Child
    <3> QED
      BY <1>3, <1>4, <1>5, <1>6, <2>2, <3>1
  <2>3. CASE b # i /\ a = p
    BY <1>3, <1>4, <1>5, <1>6, <1>7, <1>9, <2>3
  <2>4. CASE b # i /\ a = i
    BY <1>2, <1>3, <1>5, <1>6, <1>8, <1>9, <2>4
  <2>5. CASE b # i /\ a # i /\ a # p
    BY <1>3, <1>5, <1>6, <1>7, <1>9, <2>5
  <2> QED
    BY <2>2, <2>3, <2>4, <2>5
<1>10. ASSUME NEW a \in 1..n, NEW b \in 1..n, Child(a, p), Child(p, b)
       PROVE  Time(g, a) <= Time(g, b)
  <2>1. a < p /\ p < b
    BY <1>2, <1>3, <1>10 DEF Child
  <2>2. a # i /\ a # p /\ b # p /\ p # i
    BY <1>2, <1>3, <2>1
  <2>3. Time(h, a) <= Time(h, p)
    BY <1>3, <1>7, <1>10, <2>2
  <2>4. CASE b = i
    BY <1>6, <2>2, <2>3, <2>4
  <2>5. CASE b # i
    <3>1. Time(h, p) <= Time(h, b)
      BY <1>3, <1>7, <1>10, <2>5
    <3> QED
      BY <1>3, <1>5, <1>6, <2>2, <2>3, <2>5, <3>1
  <2> QED
    BY <2>4, <2>5
<1> QED
  BY <1>2, <1>9, <1>10 DEF Rising, Bridged, g

\* Rising puts the items in order.
LEMMA UpOrders ==
    \A x \in UpArgs : \A n \in Nat :
        n <= Len(x.h.store) /\ x.i <= n /\ Rising(x.h, x.i, n) => Ordered(up[x], n)
<1> DEFINE m == [x \in UpArgs |-> x.i]
           P(x) == \A n \in Nat : n <= Len(x.h.store) /\ x.i <= n /\ Rising(x.h, x.i, n)
                                  => Ordered(up[x], n)
           T == {x \in UpArgs : P(x)}
<1>1. m \in [UpArgs -> Nat] /\ T \in SUBSET UpArgs
  BY DEF UpArgs
<1>2. ASSUME NEW x \in UpArgs, Below(UpArgs, m, x) \subseteq T,
             NEW n \in Nat, n <= Len(x.h.store), x.i <= n, Rising(x.h, x.i, n)
      PROVE  Ordered(up[x], n)
  <2>1. CASE UpDone(x)
    BY <1>2, <2>1, UpEquation, UpDoneOrders
  <2>2. CASE ~UpDone(x)
    <3> DEFINE y == UpNext(x)
    <3>1. y \in UpArgs /\ y.i < x.i /\ y.i \in Nat /\ x.i \in Nat
      BY <2>2, UpSteps DEF UpArgs
    <3>2. y \in T
      BY <1>2, <3>1 DEF Below
    <3>3. Rising(y.h, y.i, n)
      BY <1>2, <2>2, UpStepRises
    <3>4. Len(y.h.store) = Len(x.h.store)
      <4>1. \A k \in Heap : \A u, v \in DOMAIN k.store : Len(Swap(k, u, v).store) = Len(k.store)
        BY SwapFields, ZenonT(30)
      <4> QED
        BY <2>2, <4>1, UpSteps DEF UpArgs, UpNext
    <3>5. y.i <= n
      BY <1>2, <3>1
    <3>6. Ordered(up[y], n)
      <4> HIDE DEF y
      <4> QED
        BY <1>2, <3>2, <3>3, <3>4, <3>5
    <3> QED
      BY <2>2, <3>6, UpEquation
  <2> QED
    BY <2>1, <2>2
<1>3. Inductive(UpArgs, m, T)
  BY <1>2 DEF Inductive
<1>4. UpArgs \subseteq T
  <2> HIDE DEF m, T
  <2> QED
    BY <1>1, <1>3, MeasureInduction
<1> QED
  BY <1>4

-----------------------------------------------------------------------------
(* Sinking *)

DownArgs == {y \in [h : Heap, i : Nat, n : Nat] :
               y.i \in DOMAIN y.h.store /\ y.n <= Len(y.h.store)}

DownChild(x) == IF 2 * x.i + 1 <= x.n /\ Less(x.h, 2 * x.i + 1, 2 * x.i)
                THEN 2 * x.i + 1 ELSE 2 * x.i
DownDone(x) == 2 * x.i > x.n \/ ~Less(x.h, DownChild(x), x.i)
DownNext(x) == [x EXCEPT !.h = Swap(x.h, x.i, DownChild(x)), !.i = DownChild(x)]

\* What the arguments of down are.
LEMMA DownTypes ==
    ASSUME NEW x \in DownArgs
    PROVE  /\ x.h \in Heap /\ x.h.store \in Seq(Keys) /\ x.h.pos \in [Keys -> Nat]
           /\ x.h.at \in [Keys -> Int]
           /\ x.i \in Nat /\ x.i \in 1..Len(x.h.store) /\ x.i \in DOMAIN x.h.store
           /\ x.n \in Nat /\ x.n <= Len(x.h.store)
           /\ 1..x.n \subseteq DOMAIN x.h.store
           /\ \A a \in 1..x.n : Time(x.h, a) \in Int
           /\ Time(x.h, x.i) \in Int
<1>1. /\ x.h \in Heap /\ x.h.store \in Seq(Keys) /\ x.h.pos \in [Keys -> Nat]
      /\ x.h.at \in [Keys -> Int]
      /\ x.i \in Nat /\ x.i \in DOMAIN x.h.store
      /\ x.n \in Nat /\ x.n <= Len(x.h.store)
  BY DEF DownArgs, Heap
<1>2. x.i \in 1..Len(x.h.store) /\ 1..x.n \subseteq DOMAIN x.h.store
  BY <1>1
<1>3. \A a \in DOMAIN x.h.store : x.h.store[a] \in Keys
  BY <1>1
<1>4. \A a \in DOMAIN x.h.store : Time(x.h, a) \in Int
  BY <1>1, <1>3 DEF Time
<1> QED
  BY <1>1, <1>2, <1>4

\* The child that is looked at is the earliest.
LEMMA DownChildLeast ==
    ASSUME NEW x \in DownArgs, 2 * x.i <= x.n
    PROVE  /\ DownChild(x) \in 1..x.n
           /\ x.i < DownChild(x)
           /\ x.i \in 1..x.n
           /\ Child(x.i, DownChild(x))
           /\ \A b \in 1..x.n : Child(x.i, b) => Time(x.h, DownChild(x)) <= Time(x.h, b)
<1> DEFINE l == 2 * x.i
           r == 2 * x.i + 1
           c == DownChild(x)
<1>1. x.i \in Nat /\ x.i >= 1 /\ x.n \in Nat /\ \A a \in 1..x.n : Time(x.h, a) \in Int
  BY DownTypes
<1>2. l \in 1..x.n /\ x.i \in 1..x.n /\ r > x.i /\ l > x.i
  BY <1>1
<1>3. CASE r <= x.n /\ Less(x.h, r, l)
  <2>1. c = r /\ r \in 1..x.n
    BY <1>1, <1>3 DEF DownChild
  <2>2. Time(x.h, r) < Time(x.h, l)
    BY <1>3 DEF Less, Time
  <2> HIDE DEF c
  <2>3. \A b \in 1..x.n : Child(x.i, b) => Time(x.h, r) <= Time(x.h, b)
    BY <1>1, <1>2, <2>1, <2>2 DEF Child
  <2> QED
    BY <1>1, <1>2, <2>1, <2>3 DEF Child, c
<1>4. CASE ~(r <= x.n /\ Less(x.h, r, l))
  <2>1. c = l
    BY <1>4 DEF DownChild
  <2>2. r <= x.n => Time(x.h, l) <= Time(x.h, r)
    <3>1. r <= x.n => r \in 1..x.n /\ ~(Time(x.h, r) < Time(x.h, l))
      BY <1>1, <1>4 DEF Less, Time
    <3> QED
      BY <1>1, <1>2, <3>1
  <2> HIDE DEF c
  <2>3. \A b \in 1..x.n : Child(x.i, b) => Time(x.h, l) <= Time(x.h, b)
    BY <1>1, <1>2, <2>1, <2>2 DEF Child
  <2> QED
    BY <1>1, <1>2, <2>1, <2>3 DEF Child, c
<1> QED
  BY <1>3, <1>4

\* The child is in the heap, and below.
LEMMA DownSteps ==
    ASSUME NEW x \in DownArgs, ~DownDone(x)
    PROVE  /\ DownNext(x) \in DownArgs
           /\ DownNext(x).h = Swap(x.h, x.i, DownChild(x))
           /\ DownNext(x).i = DownChild(x)
           /\ DownNext(x).n = x.n
           /\ 2 * x.i <= x.n
           /\ x.i < DownChild(x) /\ DownChild(x) <= x.n
           /\ DownChild(x) \in DOMAIN x.h.store
<1> DEFINE c == DownChild(x)
           g == Swap(x.h, x.i, c)
<1>1. /\ x.h \in Heap /\ x.h.store \in Seq(Keys) /\ x.h.pos \in [Keys -> Nat]
      /\ x.i \in DOMAIN x.h.store /\ x.n \in Nat /\ x.n <= Len(x.h.store)
      /\ x.i \in Nat /\ 1..x.n \subseteq DOMAIN x.h.store
  BY DownTypes
<1>2. 2 * x.i <= x.n
  BY <1>1 DEF DownDone
<1>3. c \in 1..x.n /\ x.i < c /\ c \in DOMAIN x.h.store
  BY <1>1, <1>2, DownChildLeast
<1> HIDE DEF c
<1>4. g \in Heap /\ Len(g.store) = Len(x.h.store) /\ DOMAIN g.store = DOMAIN x.h.store
  <2>1. \A h \in Heap : \A i, j \in DOMAIN h.store :
           /\ Swap(h, i, j) \in Heap
           /\ Len(Swap(h, i, j).store) = Len(h.store)
           /\ DOMAIN Swap(h, i, j).store = DOMAIN h.store
    BY SwapFields, ZenonT(30)
  <2> HIDE DEF g
  <2> QED
    BY <1>1, <1>3, <2>1 DEF g
<1> HIDE DEF g
<1>5. DownNext(x) = [x EXCEPT !.h = g, !.i = c]
  BY DEF DownNext, g, c
<1>6. x \in [h : Heap, i : Nat, n : Nat]
  BY DEF DownArgs
<1>7. /\ DownNext(x) \in [h : Heap, i : Nat, n : Nat]
      /\ DownNext(x).h = g /\ DownNext(x).i = c /\ DownNext(x).n = x.n
  <2>1. c \in Nat
    BY <1>1, <1>3
  <2>2. \A z : z = [x EXCEPT !.h = g, !.i = c] =>
           z \in [h : Heap, i : Nat, n : Nat] /\ z.h = g /\ z.i = c /\ z.n = x.n
    BY <1>4, <1>6, <2>1
  <2> QED
    BY <1>5, <2>2
<1>8. DownNext(x) \in DownArgs
  BY <1>1, <1>3, <1>4, <1>7 DEF DownArgs
<1> QED
  BY <1>1, <1>2, <1>3, <1>7, <1>8 DEF g, c

\* The function down of the model is what its definition says.
LEMMA DownEquation ==
    \A x \in DownArgs : down[x] = IF DownDone(x) THEN x.h ELSE down[DownNext(x)]
<1> DEFINE m == [x \in DownArgs |-> IF x.i <= x.n THEN x.n - x.i ELSE 0]
           D == {x \in DownArgs : DownDone(x)}
           r == [x \in D |-> x.h]
           next == [x \in DownArgs \ D |-> DownNext(x)]
<1>1. m \in [DownArgs -> Nat] /\ D \in SUBSET DownArgs /\ r \in [D -> Heap]
  BY DEF DownArgs
<1>2. next \in [DownArgs \ D -> DownArgs]
  BY DownSteps
<1>3. \A x \in DownArgs \ D : m[next[x]] < m[x]
  <2> SUFFICES ASSUME NEW x \in DownArgs, ~DownDone(x) PROVE m[DownNext(x)] < m[x]
    OBVIOUS
  <2>1. /\ DownNext(x) \in DownArgs /\ DownNext(x).i = DownChild(x) /\ DownNext(x).n = x.n
        /\ x.i < DownChild(x) /\ DownChild(x) <= x.n
    BY DownSteps
  <2>2. x.i \in Nat /\ x.n \in Nat /\ DownChild(x) \in Nat
    BY <2>1, DownTypes
  <2> QED
    BY <2>1, <2>2
<1>4. PICK f : TailSolution(DownArgs, Heap, D, r, next, f)
  <2>1. GoesDown(DownArgs, m, D, next)
    BY <1>3 DEF GoesDown
  <2> HIDE DEF m, D, r, next
  <2> QED
    BY <1>1, <1>2, <2>1, TailRecursionSolved
<1> DEFINE e(g) == [x \in DownArgs |-> IF DownDone(x) THEN x.h ELSE g[DownNext(x)]]
<1>5. f = e(f)
  BY <1>4 DEF TailSolution
<1>6. down = CHOOSE g : g = e(g)
  BY Zenon DEF down, DownArgs, DownDone, DownNext, DownChild
<1>7. down = e(down)
  BY <1>5, <1>6, Zenon
<1> HIDE DEF m, D, r, next
<1> QED
  BY <1>7

\* Sinking permutes the first n items.
LEMMA DownPermutes ==
    \A x \in DownArgs : Well(x.h) => Permuted(down[x], x.h, x.n)
<1> DEFINE m == [x \in DownArgs |-> IF x.i <= x.n THEN x.n - x.i ELSE 0]
           T == {x \in DownArgs : Well(x.h) => Permuted(down[x], x.h, x.n)}
<1>1. m \in [DownArgs -> Nat] /\ T \in SUBSET DownArgs
  BY DEF DownArgs
<1>2. ASSUME NEW x \in DownArgs, Below(DownArgs, m, x) \subseteq T, Well(x.h)
      PROVE  Permuted(down[x], x.h, x.n)
  <2>1. CASE DownDone(x)
    <3>1. down[x] = x.h
      BY <2>1, DownEquation
    <3> QED
      BY <1>2, <3>1 DEF Permuted
  <2>2. CASE ~DownDone(x)
    <3> DEFINE y == DownNext(x)
               c == DownChild(x)
    <3>1. /\ y \in DownArgs /\ y.h = Swap(x.h, x.i, c) /\ y.i = c /\ y.n = x.n
          /\ x.i < c /\ c <= x.n /\ c \in DOMAIN x.h.store
      BY <2>2, DownSteps
    <3> HIDE DEF y, c
    <3>2. x.i \in Nat /\ x.n \in Nat /\ x.i \in DOMAIN x.h.store /\ x.h \in Heap
      BY DownTypes
    <3>3. c \in Nat /\ x.i <= x.n
      BY <3>1, <3>2, DownTypes
    <3>4. y \in T
      BY <1>2, <3>1, <3>2, <3>3 DEF Below
    <3>5. Permuted(y.h, x.h, x.n)
      <4>1. \A h : Well(h) => \A i, j \in DOMAIN h.store : \A n \in Nat :
               i <= n /\ j <= n => Permuted(Swap(h, i, j), h, n)
        BY SwapPermutes
      <4> QED
        BY <1>2, <3>1, <3>2, <3>3, <4>1
    <3>6. Permuted(down[y], y.h, x.n)
      BY <3>1, <3>4, <3>5 DEF Permuted
    <3>7. down[x] = down[y]
      BY <2>2, DownEquation DEF y
    <3>8. Permuted(down[y], x.h, x.n)
      <4>1. x.n <= x.n
        BY <3>2
      <4> QED
        BY <1>2, <3>2, <3>5, <3>6, <4>1, PermutedTwice
    <3> QED
      BY <3>7, <3>8
  <2> QED
    BY <2>1, <2>2
<1>3. Inductive(DownArgs, m, T)
  BY <1>2 DEF Inductive
<1>4. DownArgs \subseteq T
  <2> HIDE DEF m, T
  <2> QED
    BY <1>1, <1>3, MeasureInduction
<1> QED
  BY <1>4

\* An item that does not sink is not later than its children.
LEMMA DownDoneLeast ==
    ASSUME NEW x \in DownArgs, DownDone(x), NEW b \in 1..x.n, Child(x.i, b)
    PROVE  Time(x.h, x.i) <= Time(x.h, b)
<1>1. /\ x.i \in Nat /\ x.n \in Nat /\ Time(x.h, x.i) \in Int
      /\ \A a \in 1..x.n : Time(x.h, a) \in Int
  BY DownTypes
<1>2. 2 * x.i <= x.n
  BY <1>1 DEF Child
<1>3. /\ DownChild(x) \in 1..x.n
      /\ Time(x.h, DownChild(x)) <= Time(x.h, b)
  BY <1>2, DownChildLeast
<1>4. ~(Time(x.h, DownChild(x)) < Time(x.h, x.i))
  BY <1>1, <1>2 DEF DownDone, Less, Time
<1> QED
  BY <1>1, <1>3, <1>4

\* A step down leaves only the item that sinks out of order.
LEMMA DownStepSinks ==
    ASSUME NEW x \in DownArgs, ~DownDone(x), Displaced(x.h, x.i, x.n)
    PROVE  Sinking(DownNext(x).h, DownNext(x).i, x.n)
<1> DEFINE i == x.i
           n == x.n
           h == x.h
           c == DownChild(x)
           g == DownNext(x).h
<1>1. /\ h \in Heap /\ h.store \in Seq(Keys) /\ h.pos \in [Keys -> Nat] /\ i \in Nat
      /\ i \in DOMAIN h.store /\ 1..n \subseteq DOMAIN h.store /\ n \in Nat
      /\ \A a \in 1..n : Time(h, a) \in Int
  BY DownTypes
<1>2. /\ 2 * i <= n /\ g = Swap(h, i, c) /\ DownNext(x).i = c
      /\ c \in DOMAIN h.store
  BY DownSteps
<1>3. /\ c \in 1..n /\ i < c /\ i \in 1..n /\ Child(i, c)
      /\ \A b \in 1..n : Child(i, b) => Time(h, c) <= Time(h, b)
  BY <1>2, DownChildLeast
<1>4. Time(h, c) < Time(h, i)
  BY DEF DownDone, Less, Time
<1>5. /\ \A a, b \in 1..n : Child(a, b) /\ a # i /\ b # i => Time(h, a) <= Time(h, b)
      /\ \A a, b \in 1..n : Child(a, i) /\ Child(i, b) => Time(h, a) <= Time(h, b)
  BY DEF Displaced, Bridged
<1> HIDE DEF g, h, c, i, n
<1>6. /\ Time(g, i) = Time(h, c)
      /\ Time(g, c) = Time(h, i)
      /\ \A a \in 1..n : a # i /\ a # c => Time(g, a) = Time(h, a)
  <2>1. /\ Time(Swap(h, i, c), i) = Time(h, c)
        /\ Time(Swap(h, i, c), c) = Time(h, i)
        /\ \A a \in DOMAIN h.store : a # i /\ a # c => Time(Swap(h, i, c), a) = Time(h, a)
    BY <1>1, <1>2, SwapTimes
  <2> QED
    BY <1>1, <1>2, <2>1
<1>7. ASSUME NEW a \in 1..n, NEW b \in 1..n, Child(a, b), a # c
      PROVE  Time(g, a) <= Time(g, b)
  <2>1. a < b /\ (b = c => a = i) /\ (b = i => a # i /\ a < c)
    BY <1>3, <1>7 DEF Child
  <2>2. CASE a = i /\ b = c
    BY <1>1, <1>3, <1>4, <1>6, <2>2
  <2>3. CASE a = i /\ b # c
    BY <1>1, <1>3, <1>6, <1>7, <2>1, <2>3
  <2>4. CASE a # i /\ b = i
    BY <1>1, <1>3, <1>5, <1>6, <1>7, <2>1, <2>4
  <2>5. CASE a # i /\ b # i
    BY <1>1, <1>3, <1>5, <1>6, <1>7, <2>1, <2>5
  <2> QED
    BY <2>2, <2>3, <2>4, <2>5
<1>8. ASSUME NEW a \in 1..n, NEW b \in 1..n, Child(a, c), Child(c, b)
      PROVE  Time(g, a) <= Time(g, b)
  <2>1. a = i /\ c < b /\ b # i /\ c # i
    BY <1>3, <1>8 DEF Child
  <2>2. Time(h, c) <= Time(h, b)
    BY <1>3, <1>5, <1>8, <2>1
  <2> QED
    BY <1>6, <2>1, <2>2
<1> QED
  BY <1>2, <1>7, <1>8 DEF Sinking, Bridged, g, n

\* Sinking puts the items in order.
LEMMA DownOrders ==
    \A x \in DownArgs : Sinking(x.h, x.i, x.n) => Ordered(down[x], x.n)
<1> DEFINE m == [x \in DownArgs |-> IF x.i <= x.n THEN x.n - x.i ELSE 0]
           T == {x \in DownArgs : Sinking(x.h, x.i, x.n) => Ordered(down[x], x.n)}
<1>1. m \in [DownArgs -> Nat] /\ T \in SUBSET DownArgs
  BY DEF DownArgs
<1>2. ASSUME NEW x \in DownArgs, Below(DownArgs, m, x) \subseteq T, Sinking(x.h, x.i, x.n)
      PROVE  Ordered(down[x], x.n)
  <2>1. CASE DownDone(x)
    <3>1. down[x] = x.h
      BY <2>1, DownEquation
    <3>2. \A b \in 1..x.n : Child(x.i, b) => Time(x.h, x.i) <= Time(x.h, b)
      BY <2>1, DownDoneLeast
    <3>3. \A a, b \in 1..x.n : Child(a, b) => Time(x.h, a) <= Time(x.h, b)
      BY <1>2, <3>2 DEF Sinking
    <3> QED
      BY <3>1, <3>3 DEF Ordered
  <2>2. CASE ~DownDone(x)
    <3> DEFINE y == DownNext(x)
               c == DownChild(x)
    <3>1. y \in DownArgs /\ y.i = c /\ y.n = x.n /\ x.i < c /\ c <= x.n
      BY <2>2, DownSteps
    <3>2. Sinking(y.h, y.i, x.n)
      <4>1. Displaced(x.h, x.i, x.n)
        BY <1>2 DEF Sinking, Displaced
      <4> QED
        BY <2>2, <4>1, DownStepSinks
    <3> HIDE DEF y, c
    <3>3. x.i \in Nat /\ x.n \in Nat /\ c \in Nat
      BY <3>1, DownTypes
    <3>4. y \in T
      BY <1>2, <3>1, <3>3 DEF Below
    <3>5. down[x] = down[y]
      BY <2>2, DownEquation DEF y
    <3> QED
      BY <3>1, <3>2, <3>4, <3>5
  <2> QED
    BY <2>1, <2>2
<1>3. Inductive(DownArgs, m, T)
  BY <1>2 DEF Inductive
<1>4. DownArgs \subseteq T
  <2> HIDE DEF m, T
  <2> QED
    BY <1>1, <1>3, MeasureInduction
<1> QED
  BY <1>4

-----------------------------------------------------------------------------
(* The operations *)

\* A heap in order.
HeapOK(h) == Well(h) /\ Ordered(h, Len(h.store))

\* Up, for an item that may be too early for its parent.
LEMMA UpResult ==
    ASSUME NEW h, Well(h), NEW i \in DOMAIN h.store, NEW n \in Nat,
           i <= n, n <= Len(h.store), Rising(h, i, n)
    PROVE  Permuted(Up(h, i), h, i) /\ Permuted(Up(h, i), h, n) /\ Ordered(Up(h, i), n)
<1> DEFINE x == [h |-> h, i |-> i]
<1>1. h \in Heap /\ i \in Nat /\ DOMAIN h.store \subseteq Nat
  BY DEF Well, Heap
<1>2. x \in UpArgs /\ x.h = h /\ x.i = i
  BY <1>1 DEF UpArgs
<1>3. Up(h, i) = up[x]
  BY DEF Up
<1> HIDE DEF x
<1>4. Permuted(up[x], h, i)
  BY <1>2, UpPermutes
<1>5. Ordered(up[x], n)
  BY <1>2, UpOrders
<1>6. Permuted(up[x], h, n)
  BY <1>1, <1>4 DEF Permuted
<1> QED
  BY <1>3, <1>4, <1>5, <1>6

\* DownOrUp, for an item that may be out of order with its parent and its children.
LEMMA DownOrUpResult ==
    ASSUME NEW h, Well(h), NEW i \in DOMAIN h.store, NEW n \in Nat,
           i <= n, n <= Len(h.store), Displaced(h, i, n)
    PROVE  Permuted(DownOrUp(h, i, n), h, n) /\ Ordered(DownOrUp(h, i, n), n)
<1> DEFINE x == [h |-> h, i |-> i, n |-> n]
           d == Down(h, i, n)
<1>1. h \in Heap /\ i \in Nat
  BY DEF Well, Heap
<1>2. x \in DownArgs /\ x.h = h /\ x.i = i /\ x.n = n
  BY <1>1 DEF DownArgs
<1>3. d = down[x]
  BY DEF Down
<1> HIDE DEF x, d
<1>4. Permuted(d, h, n)
  BY <1>2, <1>3, DownPermutes
<1>5. /\ \A a, b \in 1..n : Child(a, b) /\ a # i /\ b # i => Time(h, a) <= Time(h, b)
      /\ Bridged(h, i, n)
  BY DEF Displaced
<1>6. CASE DownDone(x)
  <2>1. d = h
    BY <1>2, <1>3, <1>6, DownEquation
  <2>2. \A b \in 1..n : Child(i, b) => Time(h, i) <= Time(h, b)
    BY <1>2, <1>6, DownDoneLeast
  <2>3. Rising(h, i, n)
    BY <1>5, <2>2 DEF Rising
  <2>4. DownOrUp(h, i, n) = Up(h, i)
    BY <2>1 DEF DownOrUp, d
  <2> QED
    BY <2>3, <2>4, UpResult
<1>7. CASE ~DownDone(x)
  <2> DEFINE y == DownNext(x)
  <2>1. y \in DownArgs /\ y.n = n /\ Sinking(y.h, y.i, n)
    BY <1>2, <1>7, DownSteps, DownStepSinks
  <2>2. d = down[y]
    BY <1>2, <1>3, <1>7, DownEquation
  <2> HIDE DEF y
  <2>3. Ordered(d, n)
    BY <2>1, <2>2, DownOrders
  <2>4. CASE d = h
    <3>1. Rising(h, i, n)
      BY <1>5, <2>3, <2>4 DEF Rising, Ordered
    <3>2. DownOrUp(h, i, n) = Up(h, i)
      BY <2>4 DEF DownOrUp, d
    <3> QED
      BY <3>1, <3>2, UpResult
  <2>5. CASE d # h
    <3>1. DownOrUp(h, i, n) = d
      BY <2>5 DEF DownOrUp, d
    <3> QED
      BY <1>4, <2>3, <3>1
  <2> QED
    BY <2>4, <2>5
<1> QED
  BY <1>6, <1>7

\* The last item goes, and the others stay in order.
LEMMA DropLastResult ==
    ASSUME NEW h, Well(h), h.store # << >>, Ordered(h, Len(h.store) - 1)
    PROVE  LET k == h.store[Len(h.store)]
           IN /\ k \in Items(h)
              /\ HeapOK(DropLast(h))
              /\ Items(DropLast(h)) = Items(h) \ {k}
              /\ DropLast(h).at = [h.at EXCEPT ![k] = 0]
<1> DEFINE n == Len(h.store)
           k == h.store[n]
           s == SubSeq(h.store, 1, n - 1)
           g == DropLast(h)
<1>1. /\ h \in Heap /\ h.store \in Seq(Keys) /\ h.pos \in [Keys -> Nat] /\ h.at \in [Keys -> Int]
      /\ n \in Nat /\ n > 0 /\ n \in DOMAIN h.store /\ DOMAIN h.store = 1..n
  BY DEF Well, Heap
<1>2. k \in Keys /\ h.pos[k] = n
  <2> HIDE DEF n
  <2>1. h.store[n] \in Keys
    BY <1>1
  <2>2. h.pos[h.store[n]] = n
    BY <1>1 DEF Well
  <2> QED
    BY <2>1, <2>2
<1>3. /\ s \in Seq(Keys) /\ Len(s) = n - 1 /\ DOMAIN s = 1..(n - 1)
      /\ \A x \in 1..(n - 1) : s[x] = h.store[x]
  BY <1>1
<1> HIDE DEF s
<1>4. /\ g \in Heap /\ g.store = s /\ g.pos = [h.pos EXCEPT ![k] = 0]
      /\ g.at = [h.at EXCEPT ![k] = 0]
  <2> DEFINE p == [h.pos EXCEPT ![k] = 0]
             a == [h.at EXCEPT ![k] = 0]
  <2>1. p \in [Keys -> Nat] /\ a \in [Keys -> Int]
    BY <1>1
  <2>2. g = [h EXCEPT !.store = s, !.pos = p, !.at = a]
    BY DEF DropLast, s
  <2> HIDE DEF p, a, g
  <2>3. \A z : z = [h EXCEPT !.store = s, !.pos = p, !.at = a] =>
                  z \in Heap /\ z.store = s /\ z.pos = p /\ z.at = a
    BY <1>1, <1>3, <2>1 DEF Heap
  <2> QED
    BY <2>2, <2>3 DEF p, a
<1> HIDE DEF g, n, k
<1>5. \A x \in 1..(n - 1) : /\ x \in DOMAIN h.store /\ h.store[x] \in Keys /\ h.store[x] # k
                            /\ h.pos[h.store[x]] = x
  <2> SUFFICES ASSUME NEW x \in 1..(n - 1)
               PROVE  /\ x \in DOMAIN h.store /\ h.store[x] \in Keys /\ h.store[x] # k
                      /\ h.pos[h.store[x]] = x
    OBVIOUS
  <2>1. x \in DOMAIN h.store /\ x # n
    BY <1>1
  <2>2. h.pos[h.store[x]] = x /\ h.store[x] \in Keys
    BY <1>1, <2>1 DEF Well
  <2> QED
    BY <1>2, <2>1, <2>2
<1>6. \A x \in DOMAIN g.store : g.pos[g.store[x]] = x
  <2> SUFFICES ASSUME NEW x \in 1..(n - 1) PROVE g.pos[g.store[x]] = x
    BY <1>3, <1>4
  <2>1. g.store[x] = h.store[x]
    BY <1>3, <1>4
  <2> QED
    BY <1>1, <1>4, <1>5, <2>1
<1>7. \A q \in Keys : /\ g.pos[q] # 0 <=> h.pos[q] # 0 /\ q # k
                      /\ g.pos[q] # 0 => g.pos[q] \in DOMAIN g.store /\ g.store[g.pos[q]] = q
  <2> SUFFICES ASSUME NEW q \in Keys, q # k
               PROVE  /\ g.pos[q] = h.pos[q]
                      /\ g.pos[q] # 0 => g.pos[q] \in DOMAIN g.store /\ g.store[g.pos[q]] = q
    BY <1>1, <1>2, <1>4
  <2>1. g.pos[q] = h.pos[q]
    BY <1>1, <1>4
  <2>2. h.pos[q] # 0 => h.pos[q] \in DOMAIN h.store /\ h.store[h.pos[q]] = q
    BY DEF Well
  <2>3. h.pos[q] # 0 => h.pos[q] # n
    BY <2>2 DEF k
  <2> QED
    BY <1>1, <1>3, <1>4, <2>1, <2>2, <2>3
<1>8. Well(g)
  BY <1>4, <1>6, <1>7 DEF Well
<1>9. Items(g) = Items(h) \ {k}
  BY <1>7 DEF Items
<1>10. Ordered(g, Len(g.store))
  <2>1. \A x \in 1..(n - 1) : Time(g, x) = Time(h, x)
    <3> SUFFICES ASSUME NEW x \in 1..(n - 1) PROVE Time(g, x) = Time(h, x)
      OBVIOUS
    <3>1. g.store[x] = h.store[x]
      BY <1>3, <1>4
    <3> QED
      BY <1>1, <1>4, <1>5, <3>1 DEF Time
  <2>2. Len(g.store) = n - 1
    BY <1>3, <1>4
  <2>3. \A a, b \in 1..(n - 1) : Child(a, b) => Time(h, a) <= Time(h, b)
    BY DEF Ordered, n
  <2> QED
    BY <2>1, <2>2, <2>3 DEF Ordered
<1>11. k \in Items(h)
  BY <1>1, <1>2 DEF Items
<1> QED
  BY <1>4, <1>8, <1>9, <1>10, <1>11 DEF HeapOK, g, n, k

\* Push adds an item with its time.
THEOREM PushResult ==
    ASSUME NEW h, HeapOK(h), NEW k \in Keys, k \notin Items(h), NEW e \in Int
    PROVE  /\ HeapOK(Push(h, k, e))
           /\ Items(Push(h, k, e)) = Items(h) \cup {k}
           /\ Push(h, k, e).at = [h.at EXCEPT ![k] = e]
<1> DEFINE m == Len(h.store)
           n == m + 1
           s == Append(h.store, k)
           g == [store |-> s, pos |-> [h.pos EXCEPT ![k] = n], at |-> [h.at EXCEPT ![k] = e]]
<1>1. /\ h \in Heap /\ h.store \in Seq(Keys) /\ h.pos \in [Keys -> Nat] /\ h.at \in [Keys -> Int]
      /\ m \in Nat /\ n \in Nat /\ DOMAIN h.store = 1..m /\ Well(h)
  BY DEF HeapOK, Well, Heap
<1>2. h.pos[k] = 0
  BY DEF Items
<1>3. /\ s \in Seq(Keys) /\ Len(s) = n /\ DOMAIN s = 1..n /\ s[n] = k
      /\ \A x \in 1..m : s[x] = h.store[x]
  BY <1>1
<1>4. /\ g \in Heap /\ g.store = s /\ g.pos = [h.pos EXCEPT ![k] = n]
      /\ g.at = [h.at EXCEPT ![k] = e]
  BY <1>1, <1>3 DEF Heap
<1>5. Push(h, k, e) = Up(g, n)
  BY DEF Push
<1> HIDE DEF g, s, n, m
<1>6. \A x \in 1..m : /\ h.store[x] \in Keys /\ h.pos[h.store[x]] = x /\ h.store[x] # k
  BY <1>1, <1>2 DEF Well
<1>7. \A x \in 1..n : x = n \/ x \in 1..m
  BY <1>1 DEF n
<1>8. \A x \in DOMAIN g.store : g.pos[g.store[x]] = x
  <2> SUFFICES ASSUME NEW x \in 1..n PROVE g.pos[g.store[x]] = x
    BY <1>3, <1>4
  <2>1. CASE x = n
    BY <1>1, <1>3, <1>4, <2>1
  <2>2. CASE x \in 1..m
    <3>1. g.store[x] = h.store[x]
      BY <1>3, <1>4, <2>2
    <3> QED
      BY <1>1, <1>4, <1>6, <2>2, <3>1
  <2> QED
    BY <1>7, <2>1, <2>2
<1>9. \A q \in Keys : /\ g.pos[q] # 0 <=> h.pos[q] # 0 \/ q = k
                      /\ g.pos[q] # 0 => g.pos[q] \in DOMAIN g.store /\ g.store[g.pos[q]] = q
  <2> SUFFICES ASSUME NEW q \in Keys
               PROVE  /\ g.pos[q] # 0 <=> h.pos[q] # 0 \/ q = k
                      /\ g.pos[q] # 0 => g.pos[q] \in DOMAIN g.store /\ g.store[g.pos[q]] = q
    OBVIOUS
  <2>1. n # 0 /\ n \in 1..n
    BY <1>1 DEF n
  <2>2. CASE q = k
    BY <1>1, <1>3, <1>4, <2>1, <2>2
  <2>3. CASE q # k
    <3>1. g.pos[q] = h.pos[q]
      BY <1>1, <1>4, <2>3
    <3>2. h.pos[q] # 0 => h.pos[q] \in 1..m /\ h.store[h.pos[q]] = q
      BY <1>1 DEF Well
    <3>3. 1..m \subseteq 1..n
      BY <1>1 DEF n
    <3> QED
      BY <1>3, <1>4, <2>3, <3>1, <3>2, <3>3
  <2> QED
    BY <2>2, <2>3
<1>10. Well(g) /\ Items(g) = Items(h) \cup {k}
  BY <1>4, <1>8, <1>9 DEF Well, Items
<1>11. Rising(g, n, n)
  <2>1. \A x \in 1..m : Time(g, x) = Time(h, x)
    BY <1>1, <1>3, <1>4, <1>6 DEF Time
  <2>2. \A a, b \in 1..m : Child(a, b) => Time(h, a) <= Time(h, b)
    BY DEF HeapOK, Ordered, m
  <2>3. \A a, b \in 1..n : Child(a, b) => a < b /\ a \in 1..m
    BY <1>1 DEF Child, n
  <2>4. \A b \in 1..n : ~Child(n, b)
    BY <1>1, <2>3 DEF n
  <2> QED
    BY <1>7, <2>1, <2>2, <2>3, <2>4 DEF Rising, Bridged
<1>12. n \in DOMAIN g.store /\ n <= n /\ n <= Len(g.store)
  BY <1>1, <1>3, <1>4 DEF n
<1>13. Permuted(Up(g, n), g, n) /\ Ordered(Up(g, n), n)
  BY <1>1, <1>10, <1>11, <1>12, UpResult
<1> QED
  BY <1>3, <1>4, <1>5, <1>10, <1>13 DEF Permuted, HeapOK

\* Fix changes the time of an item.
THEOREM FixResult ==
    ASSUME NEW h, HeapOK(h), NEW k \in Items(h), NEW e \in Int
    PROVE  /\ HeapOK(Fix(h, k, e))
           /\ Items(Fix(h, k, e)) = Items(h)
           /\ Fix(h, k, e).at = [h.at EXCEPT ![k] = e]
<1> DEFINE n == Len(h.store)
           i == h.pos[k]
           g == [h EXCEPT !.at[k] = e]
<1>1. /\ h \in Heap /\ h.store \in Seq(Keys) /\ h.pos \in [Keys -> Nat] /\ h.at \in [Keys -> Int]
      /\ n \in Nat /\ DOMAIN h.store = 1..n /\ Well(h) /\ k \in Keys
  BY DEF HeapOK, Well, Heap, Items
<1>2. i \in 1..n /\ h.store[i] = k
  BY <1>1 DEF Well, Items
<1>3. /\ g \in Heap /\ g.store = h.store /\ g.pos = h.pos
      /\ g.at = [h.at EXCEPT ![k] = e]
  <2> DEFINE a == [h.at EXCEPT ![k] = e]
  <2>1. a \in [Keys -> Int] /\ g = [h EXCEPT !.at = a]
    BY <1>1
  <2> HIDE DEF a, g
  <2>2. \A z : z = [h EXCEPT !.at = a] =>
                  z \in Heap /\ z.store = h.store /\ z.pos = h.pos /\ z.at = a
    BY <1>1, <2>1 DEF Heap
  <2> QED
    BY <2>1, <2>2 DEF a
<1>4. Fix(h, k, e) = DownOrUp(g, i, n)
  BY DEF Fix
<1> HIDE DEF g, i, n
<1>5. Well(g) /\ Items(g) = Items(h)
  <2>1. Items(g) = Items(h)
    BY <1>3 DEF Items
  <2>2. /\ \A x \in DOMAIN g.store : g.pos[g.store[x]] = x
        /\ \A q \in Keys : g.pos[q] # 0 => g.pos[q] \in DOMAIN g.store /\ g.store[g.pos[q]] = q
    BY <1>1, <1>3 DEF Well
  <2> QED
    BY <1>3, <2>1, <2>2 DEF Well
<1>6. \A x \in 1..n : x # i => h.store[x] \in Keys /\ h.store[x] # k
  BY <1>1, <1>2 DEF Well, i
<1>7. \A x \in 1..n : x # i => Time(g, x) = Time(h, x)
  BY <1>1, <1>3, <1>6 DEF Time
<1>8. \A a, b \in 1..n : Child(a, b) => Time(h, a) <= Time(h, b)
  BY DEF HeapOK, Ordered, n
<1>9. Displaced(g, i, n)
  <2>1. \A a, b \in 1..n : Child(a, b) /\ a # i /\ b # i => Time(g, a) <= Time(g, b)
    BY <1>7, <1>8
  <2>2. ASSUME NEW a \in 1..n, NEW b \in 1..n, Child(a, i), Child(i, b)
        PROVE  Time(g, a) <= Time(g, b)
    <3>1. a # i /\ b # i
      BY <1>1, <1>2, <2>2 DEF Child
    <3>2. Time(h, a) <= Time(h, i) /\ Time(h, i) <= Time(h, b)
      BY <1>2, <1>8, <2>2
    <3>3. \A x \in 1..n : Time(h, x) \in Int
      <4>1. \A x \in 1..n : h.store[x] \in Keys
        BY <1>1
      <4> QED
        BY <1>1, <4>1 DEF Time
    <3> QED
      BY <1>2, <1>7, <3>1, <3>2, <3>3
  <2> QED
    BY <2>1, <2>2 DEF Displaced, Bridged
<1>10. Permuted(DownOrUp(g, i, n), g, n) /\ Ordered(DownOrUp(g, i, n), n)
  <2>1. i \in DOMAIN g.store /\ i <= n /\ n <= Len(g.store)
    BY <1>1, <1>2, <1>3 DEF n
  <2> QED
    BY <1>1, <1>5, <1>9, <2>1, DownOrUpResult
<1>11. Len(g.store) = n
  BY <1>3 DEF n
<1> QED
  BY <1>3, <1>4, <1>5, <1>10, <1>11 DEF Permuted, HeapOK

\* The last item goes from a heap whose other items were put in order after an
\* item had been swapped to the end.
LEMMA SwappedOut ==
    ASSUME NEW h, HeapOK(h), NEW i \in DOMAIN h.store, NEW d,
           Permuted(d, Swap(h, i, Len(h.store)), Len(h.store) - 1),
           Ordered(d, Len(h.store) - 1)
    PROVE  /\ HeapOK(DropLast(d))
           /\ Items(DropLast(d)) = Items(h) \ {h.store[i]}
           /\ DropLast(d).at = [h.at EXCEPT ![h.store[i]] = 0]
<1> DEFINE n == Len(h.store)
           g == Swap(h, i, n)
<1>1. /\ h \in Heap /\ h.store \in Seq(Keys) /\ h.pos \in [Keys -> Nat]
      /\ n \in Nat /\ DOMAIN h.store = 1..n /\ Well(h)
  BY DEF HeapOK, Well, Heap
<1>2. i \in 1..n /\ n \in 1..n /\ n \in DOMAIN h.store /\ n > 0 /\ i <= n /\ n <= n
  BY <1>1
<1>3. Permuted(g, h, n)
  <2>1. \A k : Well(k) => \A x, y \in DOMAIN k.store : \A l \in Nat :
           x <= l /\ y <= l => Permuted(Swap(k, x, y), k, l)
    BY SwapPermutes
  <2> QED
    BY <1>1, <1>2, <2>1
<1>4. g.store[n] = h.store[i]
  BY <1>1, <1>2, SwapTimes
<1> HIDE DEF g
<1>5. /\ Well(d) /\ Len(d.store) = n /\ d.at = h.at /\ Items(d) = Items(h)
      /\ d.store[n] = h.store[i]
  <2>1. Permuted(d, g, n - 1)
    BY DEF g
  <2>2. n \in DOMAIN g.store /\ n > n - 1
    BY <1>2, <1>3 DEF Permuted, Well, Heap
  <2> QED
    BY <1>3, <1>4, <2>1, <2>2 DEF Permuted
<1>6. d.store # << >>
  BY <1>2, <1>5
<1> QED
  BY <1>5, <1>6, DropLastResult

\* A swap with the last item leaves the others in order, but for the place of the item.
LEMMA SwapDisplaces ==
    ASSUME NEW h, HeapOK(h), NEW i \in DOMAIN h.store, i # Len(h.store)
    PROVE  LET n == Len(h.store)
           IN /\ Displaced(Swap(h, i, n), i, n - 1)
              /\ i = 1 => Sinking(Swap(h, i, n), i, n - 1)
              /\ n - 1 \in Nat /\ i <= n - 1
              /\ Well(Swap(h, i, n))
              /\ i \in DOMAIN Swap(h, i, n).store
              /\ n - 1 <= Len(Swap(h, i, n).store)
<1> DEFINE n == Len(h.store)
           g == Swap(h, i, n)
<1>1. /\ h \in Heap /\ h.store \in Seq(Keys) /\ h.pos \in [Keys -> Nat] /\ h.at \in [Keys -> Int]
      /\ n \in Nat /\ DOMAIN h.store = 1..n /\ Well(h)
  BY DEF HeapOK, Well, Heap
<1>2. /\ i \in 1..n /\ n \in 1..n /\ n \in DOMAIN h.store /\ i <= n /\ n <= n
      /\ n - 1 \in Nat /\ i <= n - 1
  BY <1>1
<1>3. Permuted(g, h, n)
  <2>1. \A k : Well(k) => \A x, y \in DOMAIN k.store : \A l \in Nat :
           x <= l /\ y <= l => Permuted(Swap(k, x, y), k, l)
    BY SwapPermutes
  <2> QED
    BY <1>1, <1>2, <2>1
<1>4. \A x \in DOMAIN h.store : x # i /\ x # n => Time(g, x) = Time(h, x)
  BY <1>1, <1>2, SwapTimes
<1> HIDE DEF g, n
<1>5. \A x \in 1..(n - 1) : x # i => Time(g, x) = Time(h, x)
  <2>1. \A x \in 1..(n - 1) : x \in 1..n /\ x # n
    BY <1>1
  <2> QED
    BY <1>1, <1>4, <2>1
<1>6. \A x \in 1..(n - 1) : x \in 1..n /\ Time(h, x) \in Int
  <2>1. \A x \in 1..n : h.store[x] \in Keys
    BY <1>1
  <2>2. \A x \in 1..(n - 1) : x \in 1..n
    BY <1>1
  <2> QED
    BY <1>1, <2>1, <2>2 DEF Time
<1>7. \A a, b \in 1..n : Child(a, b) => Time(h, a) <= Time(h, b)
  BY DEF HeapOK, Ordered, n
<1>8. Bridged(g, i, n - 1)
  <2> SUFFICES ASSUME NEW a \in 1..(n - 1), NEW b \in 1..(n - 1), Child(a, i), Child(i, b)
               PROVE  Time(g, a) <= Time(g, b)
    BY DEF Bridged
  <2>1. a # i /\ b # i /\ i \in 1..(n - 1)
    BY <1>2 DEF Child
  <2>2. Time(h, a) <= Time(h, i) /\ Time(h, i) <= Time(h, b)
    BY <1>6, <1>7, <2>1
  <2> QED
    BY <1>5, <1>6, <2>1, <2>2
<1>9. \A a, b \in 1..(n - 1) : Child(a, b) /\ a # i /\ b # i => Time(g, a) <= Time(g, b)
  BY <1>5, <1>6, <1>7
<1>10. Displaced(g, i, n - 1)
  BY <1>8, <1>9 DEF Displaced
<1>11. i = 1 => Sinking(g, i, n - 1)
  <2>1. \A a, b \in 1..(n - 1) : Child(a, b) => b # 1
    BY <1>2 DEF Child
  <2> QED
    BY <1>8, <1>9, <2>1 DEF Sinking
<1>12. Well(g) /\ Len(g.store) = n /\ DOMAIN g.store = 1..n
  <2>1. Well(g) /\ Len(g.store) = n
    BY <1>3 DEF Permuted, n
  <2> QED
    BY <1>1, <2>1, WellTypes
<1>13. i \in DOMAIN g.store /\ n - 1 <= Len(g.store)
  BY <1>1, <1>2, <1>12
<1> QED
  BY <1>2, <1>10, <1>11, <1>12, <1>13 DEF g, n

\* Remove takes the item at i away.
THEOREM RemoveResult ==
    ASSUME NEW h, HeapOK(h), NEW k \in Items(h)
    PROVE  /\ HeapOK(Remove(h, h.pos[k]))
           /\ Items(Remove(h, h.pos[k])) = Items(h) \ {k}
           /\ Remove(h, h.pos[k]).at = [h.at EXCEPT ![k] = 0]
<1> DEFINE n == Len(h.store)
           i == h.pos[k]
           g == Swap(h, i, n)
           d == DownOrUp(g, i, n - 1)
<1>1. /\ h \in Heap /\ h.store \in Seq(Keys) /\ n \in Nat /\ DOMAIN h.store = 1..n /\ Well(h)
  BY DEF HeapOK, Well, Heap
<1>2. i \in DOMAIN h.store /\ h.store[i] = k /\ i \in 1..n /\ h.store # << >>
  BY <1>1 DEF Well, Items
<1> HIDE DEF i
<1>3. CASE i = n
  <2>1. Remove(h, i) = DropLast(h)
    BY <1>3 DEF Remove
  <2>2. Ordered(h, n - 1)
    BY <1>1 DEF HeapOK, Ordered
  <2>3. h.store[n] = k
    BY <1>2, <1>3
  <2> HIDE DEF n
  <2> QED
    BY <1>1, <1>2, <2>1, <2>2, <2>3, DropLastResult DEF i, n
<1>4. CASE i # n
  <2>1. /\ Displaced(g, i, n - 1) /\ n - 1 \in Nat /\ i <= n - 1 /\ Well(g)
        /\ i \in DOMAIN g.store /\ n - 1 <= Len(g.store)
    BY <1>2, <1>4, SwapDisplaces
  <2> HIDE DEF g
  <2>2. Permuted(d, g, n - 1) /\ Ordered(d, n - 1)
    BY <2>1, DownOrUpResult
  <2>3. Remove(h, i) = DropLast(d)
    BY <1>4 DEF Remove, g
  <2> HIDE DEF d
  <2>4. /\ HeapOK(DropLast(d))
        /\ Items(DropLast(d)) = Items(h) \ {h.store[i]}
        /\ DropLast(d).at = [h.at EXCEPT ![h.store[i]] = 0]
    BY <1>2, <2>2, SwappedOut DEF g
  <2> QED
    BY <1>2, <2>3, <2>4 DEF i
<1> QED
  BY <1>3, <1>4

\* Pop takes the first item away.
THEOREM PopResult ==
    ASSUME NEW h, HeapOK(h), h.store # << >>
    PROVE  /\ Head(h.store) \in Items(h)
           /\ HeapOK(Pop(h))
           /\ Items(Pop(h)) = Items(h) \ {Head(h.store)}
           /\ Pop(h).at = [h.at EXCEPT ![Head(h.store)] = 0]
<1> DEFINE n == Len(h.store)
           g == Swap(h, 1, n)
           d == Down(g, 1, n - 1)
           x == [h |-> g, i |-> 1, n |-> n - 1]
<1>1. /\ h \in Heap /\ h.store \in Seq(Keys) /\ h.pos \in [Keys -> Nat]
      /\ n \in Nat /\ DOMAIN h.store = 1..n /\ Well(h)
  BY DEF HeapOK, Well, Heap
<1>2. /\ 1 \in DOMAIN h.store /\ n \in DOMAIN h.store /\ n - 1 \in Nat /\ n > 0
      /\ Head(h.store) = h.store[1]
  BY <1>1
<1>3. h.store[1] \in Items(h)
  BY <1>1, <1>2 DEF Well, Items
<1>4. Permuted(g, h, n)
  <2>1. \A k : Well(k) => \A u, v \in DOMAIN k.store : \A l \in Nat :
           u <= l /\ v <= l => Permuted(Swap(k, u, v), k, l)
    BY SwapPermutes
  <2>2. 1 <= n /\ n <= n
    BY <1>1, <1>2
  <2> QED
    BY <1>1, <1>2, <2>1, <2>2
<1>5. Well(g) /\ g \in Heap /\ Len(g.store) = n /\ 1 \in DOMAIN g.store
  <2> HIDE DEF g
  <2>1. Well(g) /\ Len(g.store) = n
    BY <1>4 DEF Permuted
  <2> QED
    BY <1>1, <1>2, <2>1, WellTypes
<1>6. Sinking(g, 1, n - 1)
  <2>1. CASE n = 1
    BY <2>1 DEF Sinking, Bridged
  <2>2. CASE n # 1
    BY <1>2, <2>2, SwapDisplaces
  <2> QED
    BY <2>1, <2>2
<1> HIDE DEF g
<1>7. x \in DownArgs /\ x.h = g /\ x.i = 1 /\ x.n = n - 1
  BY <1>1, <1>2, <1>5 DEF DownArgs
<1>8. d = down[x]
  BY DEF Down
<1> HIDE DEF x
<1>9. Permuted(d, g, n - 1) /\ Ordered(d, n - 1)
  BY <1>5, <1>6, <1>7, <1>8, DownPermutes, DownOrders
<1>10. Pop(h) = DropLast(d)
  BY DEF Pop, g
<1> HIDE DEF d
<1>11. /\ HeapOK(DropLast(d))
       /\ Items(DropLast(d)) = Items(h) \ {h.store[1]}
       /\ DropLast(d).at = [h.at EXCEPT ![h.store[1]] = 0]
  BY <1>2, <1>9, SwappedOut DEF g
<1> QED
  BY <1>2, <1>3, <1>10, <1>11

\* The first item is the earliest.
LEMMA FirstIsEarliest ==
    ASSUME NEW h, HeapOK(h), NEW k \in Items(h)
    PROVE  h.store # << >> /\ h.at[Head(h.store)] <= h.at[k]
<1> DEFINE n == Len(h.store)
           T == {a \in 1..n : Time(h, a) < Time(h, 1)}
<1>1. /\ h \in Heap /\ h.store \in Seq(Keys) /\ h.pos \in [Keys -> Nat] /\ h.at \in [Keys -> Int]
      /\ n \in Nat /\ DOMAIN h.store = 1..n /\ Well(h)
  BY DEF HeapOK, Well, Heap
<1>2. h.pos[k] \in 1..n /\ h.store[h.pos[k]] = k
  BY <1>1 DEF Well, Items
<1>3. 1 \in 1..n /\ Head(h.store) = h.store[1] /\ h.store # << >>
  BY <1>1, <1>2
<1>4. \A a \in 1..n : Time(h, a) \in Int
  <2>1. \A a \in 1..n : h.store[a] \in Keys
    BY <1>1
  <2> QED
    BY <1>1, <2>1 DEF Time
<1>5. \A a, b \in 1..n : Child(a, b) => Time(h, a) <= Time(h, b)
  BY DEF HeapOK, Ordered
<1> HIDE DEF n
<1>6. T = {}
  <2> SUFFICES ASSUME T # {} PROVE FALSE
    OBVIOUS
  <2>1. PICK b \in T : \A a \in T : b <= a
    <3>1. T \in SUBSET Nat
      BY <1>1
    <3> HIDE DEF T
    <3> QED
      BY <3>1, LeastNumber
  <2> DEFINE a == b \div 2
  <2>2. b \in 1..n /\ b \in Nat /\ b # 1 /\ Time(h, b) < Time(h, 1)
    BY <1>1, <1>3, <1>4, <2>1
  <2>3. a \in Nat /\ Child(a, b) /\ a < b /\ a >= 1
    BY <2>2, Half DEF Child
  <2> HIDE DEF a
  <2>4. a \in 1..n
    BY <1>1, <2>2, <2>3
  <2>5. Time(h, a) <= Time(h, b)
    BY <1>5, <2>2, <2>3, <2>4
  <2>6. a \in T
    BY <1>3, <1>4, <2>2, <2>4, <2>5
  <2> HIDE DEF T
  <2> QED
    BY <2>1, <2>2, <2>3, <2>6
<1>7. ~(Time(h, h.pos[k]) < Time(h, 1))
  BY <1>2, <1>6
<1> QED
  BY <1>2, <1>3, <1>4, <1>7 DEF Time

-----------------------------------------------------------------------------
(* The store *)

\* The map, the index and the heap tell the same story.
Agrees ==
    /\ HeapOK(expiryHeap)
    /\ index = Items(expiryHeap)
    /\ \A k \in Keys : /\ k \in index <=> store[k].expires
                       /\ store[k].expires => store[k].exists
                       /\ k \in index => expiryHeap.at[k] = store[k].at

\* SleepsNoLonger holds already for the time that the cleaner has read and not
\* yet used.
Wakeable ==
    ~wakeup =>
        /\ cleaner.pc = "empty" => expiryHeap.store = << >>
        /\ cleaner.pc \in {"until", "timer"} /\ expiryHeap.store # << >> =>
              cleaner.expiresAt <= expiryHeap.at[Head(expiryHeap.store)]

Inv == TypeOK /\ Agrees /\ Wakeable

\* What the sections under the lock may do to the data.
DataOK == /\ store' \in [Keys -> Entries]
          /\ index' \subseteq Keys
          /\ expiryHeap' \in Heap
          /\ Agrees'

\* The first item is that of an entry of the map, and its time is a number.
LEMMA FirstItem ==
    ASSUME Inv, expiryHeap.store # << >>
    PROVE  LET k == Head(expiryHeap.store)
           IN /\ k \in Keys /\ k \in index
              /\ expiryHeap.at[k] = store[k].at
              /\ expiryHeap.at[k] \in Nat
              /\ store[k].exists /\ store[k].expires
<1> DEFINE k == Head(expiryHeap.store)
<1>1. k \in Items(expiryHeap)
  BY PopResult DEF Inv, Agrees
<1>2. k \in Keys /\ k \in index
  BY <1>1 DEF Inv, Agrees, Items
<1> HIDE DEF k
<1>3. expiryHeap.at[k] = store[k].at /\ store[k].expires /\ store[k].exists
  BY <1>2 DEF Inv, Agrees
<1>4. store[k].at \in Nat
  BY <1>2 DEF Inv, TypeOK, Entries
<1> QED
  BY <1>2, <1>3, <1>4 DEF k

\* An item goes together with its entry, or the entry never expires any more.
LEMMA DataRemoved ==
    ASSUME Inv, NEW k \in index, NEW e \in Entries, ~e.expires, NEW h,
           HeapOK(h), Items(h) = Items(expiryHeap) \ {k},
           h.at = [expiryHeap.at EXCEPT ![k] = 0],
           store' = [store EXCEPT ![k] = e], expiryHeap' = h, index' = index \ {k}
    PROVE  DataOK
<1>1. /\ store \in [Keys -> Entries] /\ index \subseteq Keys /\ k \in Keys
      /\ index = Items(expiryHeap) /\ expiryHeap.at \in [Keys -> Int]
  BY DEF Inv, TypeOK, Agrees, Heap
<1>2. h \in Heap
  BY DEF HeapOK, Well
<1>3. store' \in [Keys -> Entries] /\ index' \subseteq Keys
  BY <1>1
<1>4. index' = Items(h)
  BY <1>1
<1>5. \A q \in Keys : /\ q \in index' <=> store'[q].expires
                      /\ store'[q].expires => store'[q].exists
                      /\ q \in index' => h.at[q] = store'[q].at
  <2> SUFFICES ASSUME NEW q \in Keys
               PROVE  /\ q \in index' <=> store'[q].expires
                      /\ store'[q].expires => store'[q].exists
                      /\ q \in index' => h.at[q] = store'[q].at
    OBVIOUS
  <2>1. CASE q = k
    BY <1>1, <2>1
  <2>2. CASE q # k
    <3>1. store'[q] = store[q] /\ h.at[q] = expiryHeap.at[q] /\ (q \in index' <=> q \in index)
      BY <1>1, <2>2
    <3> QED
      BY <3>1 DEF Inv, Agrees
  <2> QED
    BY <2>1, <2>2
<1> QED
  BY <1>2, <1>3, <1>4, <1>5 DEF DataOK, Agrees

\* An expiring entry comes with its item.
LEMMA DataAdded ==
    ASSUME Inv, NEW k \in Keys, NEW t \in Nat, NEW h,
           HeapOK(h), Items(h) = Items(expiryHeap) \cup {k},
           h.at = [expiryHeap.at EXCEPT ![k] = t],
           store' = [store EXCEPT ![k] = Entry(TRUE, t)], expiryHeap' = h,
           index' = index \cup {k}
    PROVE  DataOK
<1>1. /\ store \in [Keys -> Entries] /\ index \subseteq Keys
      /\ index = Items(expiryHeap) /\ expiryHeap.at \in [Keys -> Int]
  BY DEF Inv, TypeOK, Agrees, Heap
<1>2. h \in Heap
  BY DEF HeapOK, Well
<1>3. Entry(TRUE, t) \in Entries /\ Entry(TRUE, t).expires /\ Entry(TRUE, t).exists
      /\ Entry(TRUE, t).at = t
  BY DEF Entry, Entries
<1>4. store' \in [Keys -> Entries] /\ index' \subseteq Keys
  BY <1>1, <1>3
<1>5. index' = Items(h)
  BY <1>1
<1>6. \A q \in Keys : /\ q \in index' <=> store'[q].expires
                      /\ store'[q].expires => store'[q].exists
                      /\ q \in index' => h.at[q] = store'[q].at
  <2> SUFFICES ASSUME NEW q \in Keys
               PROVE  /\ q \in index' <=> store'[q].expires
                      /\ store'[q].expires => store'[q].exists
                      /\ q \in index' => h.at[q] = store'[q].at
    OBVIOUS
  <2>1. CASE q = k
    BY <1>1, <1>3, <2>1
  <2>2. CASE q # k
    <3>1. store'[q] = store[q] /\ h.at[q] = expiryHeap.at[q] /\ (q \in index' <=> q \in index)
      BY <1>1, <2>2
    <3> QED
      BY <3>1 DEF Inv, Agrees
  <2> QED
    BY <2>1, <2>2
<1> QED
  BY <1>2, <1>4, <1>5, <1>6 DEF DataOK, Agrees

\* An entry without an item is replaced by another one.
LEMMA DataReplaced ==
    ASSUME Inv, NEW k \in Keys, k \notin index, NEW e \in Entries, ~e.expires,
           store' = [store EXCEPT ![k] = e], UNCHANGED <<expiryHeap, index>>
    PROVE  DataOK
<1>1. /\ store \in [Keys -> Entries] /\ index \subseteq Keys /\ expiryHeap \in Heap
      /\ HeapOK(expiryHeap) /\ index = Items(expiryHeap)
  BY DEF Inv, TypeOK, Agrees
<1>2. store' \in [Keys -> Entries]
  BY <1>1
<1>3. \A q \in Keys : /\ q \in index <=> store'[q].expires
                      /\ store'[q].expires => store'[q].exists
                      /\ q \in index => expiryHeap.at[q] = store'[q].at
  <2> SUFFICES ASSUME NEW q \in Keys
               PROVE  /\ q \in index <=> store'[q].expires
                      /\ store'[q].expires => store'[q].exists
                      /\ q \in index => expiryHeap.at[q] = store'[q].at
    OBVIOUS
  <2>1. CASE q = k
    BY <1>1, <2>1
  <2>2. CASE q # k
    <3>1. store'[q] = store[q]
      BY <1>1, <2>2
    <3> QED
      BY <3>1 DEF Inv, Agrees
  <2> QED
    BY <2>1, <2>2
<1> QED
  BY <1>1, <1>2, <1>3 DEF DataOK, Agrees

\* An erased key leaves no item, and the cleaner is told.
LEMMA EraseOK ==
    ASSUME Inv, NEW k \in Keys, Erase(k)
    PROVE  /\ DataOK
           /\ wakeup' = TRUE \/ UNCHANGED <<expiryHeap, wakeup>>
<1>1. NoEntry \in Entries /\ ~NoEntry.expires
  BY DEF NoEntry, Entries
<1>2. CASE k \in index
  <2> DEFINE h == Remove(expiryHeap, expiryHeap.pos[k])
  <2>1. k \in Items(expiryHeap) /\ HeapOK(expiryHeap)
    BY <1>2 DEF Inv, Agrees
  <2>2. /\ store' = [store EXCEPT ![k] = NoEntry] /\ expiryHeap' = h
        /\ index' = index \ {k} /\ wakeup' = TRUE
    BY <1>2 DEF Erase
  <2>3. /\ HeapOK(h) /\ Items(h) = Items(expiryHeap) \ {k}
        /\ h.at = [expiryHeap.at EXCEPT ![k] = 0]
    BY <2>1, RemoveResult
  <2> HIDE DEF h
  <2> QED
    BY <1>1, <1>2, <2>2, <2>3, DataRemoved
<1>3. CASE k \notin index
  BY <1>1, <1>3, DataReplaced DEF Erase
<1> QED
  BY <1>2, <1>3

-----------------------------------------------------------------------------
(* The invariant *)

\* The empty store.
LEMMA InitInv == Init => Inv
<1> SUFFICES ASSUME Init PROVE Inv
  OBVIOUS
<1> DEFINE h == EmptyHeap
<1>1. /\ h \in Heap /\ h.store = << >> /\ DOMAIN h.store = {} /\ Len(h.store) = 0
      /\ \A k \in Keys : h.pos[k] = 0
  BY DEF EmptyHeap, Heap
<1> HIDE DEF h
<1>2. HeapOK(h) /\ Items(h) = {}
  BY <1>1 DEF HeapOK, Well, Ordered, Items
<1>3. expiryHeap = h /\ index = {} /\ store = [k \in Keys |-> NoEntry] /\ wakeup = FALSE
      /\ now = 0 /\ shutdown = FALSE /\ cleaner = [pc |-> "peek", expiresAt |-> 0]
      /\ reader = [r \in Readers |-> [pc |-> "idle"]]
  BY DEF Init, h
<1>4. store \in [Keys -> Entries] /\ \A k \in Keys : ~store[k].expires
  BY <1>3 DEF NoEntry, Entries
<1>5. TypeOK
  <2>1. now \in 0..MaxTime
    BY <1>3, KeyValueAssumption
  <2>2. cleaner \in [pc : {"peek", "empty", "until", "pop", "timer", "stopped"},
                    expiresAt : Nat]
    BY <1>3
  <2>3. reader \in [Readers -> [pc : {"idle"}]
                    \cup [pc : {"look", "erase"}, key : Keys, entry : Entries]]
    BY <1>3
  <2> QED
    BY <1>1, <1>3, <1>4, <2>1, <2>2, <2>3 DEF TypeOK
<1>6. Agrees
  BY <1>2, <1>3, <1>4 DEF Agrees
<1>7. Wakeable
  BY <1>3 DEF Wakeable
<1> QED
  BY <1>5, <1>6, <1>7 DEF Inv

\* Set keeps the data together, and wakes the cleaner when it touches the heap.
LEMMA SetOK ==
    ASSUME Inv, NEW k \in Keys, NEW ttl \in TTLs, Set(k, ttl)
    PROVE  /\ DataOK
           /\ wakeup' = TRUE \/ UNCHANGED <<expiryHeap, wakeup>>
           /\ UNCHANGED <<now, shutdown, cleaner, reader>>
<1>1. /\ HeapOK(expiryHeap) /\ index = Items(expiryHeap) /\ now \in Nat /\ ttl \in Nat
      /\ k \in index <=> store[k].expires
  BY KeyValueAssumption DEF Inv, Agrees, TypeOK
<1>2. CASE SetForever(k)
  <2> DEFINE h == Remove(expiryHeap, expiryHeap.pos[k])
             e == Entry(FALSE, 0)
  <2>1. e \in Entries /\ ~e.expires
    BY DEF Entry, Entries
  <2>2. store' = [store EXCEPT ![k] = e]
    BY <1>2 DEF SetForever
  <2> HIDE DEF e
  <2>3. CASE k \in index
    <3>1. expiryHeap' = h /\ index' = index \ {k} /\ wakeup' = TRUE
      BY <1>1, <1>2, <2>3 DEF SetForever
    <3>2. /\ HeapOK(h) /\ Items(h) = Items(expiryHeap) \ {k}
          /\ h.at = [expiryHeap.at EXCEPT ![k] = 0]
      BY <1>1, <2>3, RemoveResult
    <3> HIDE DEF h
    <3>3. DataOK
      BY <2>1, <2>2, <2>3, <3>1, <3>2, DataRemoved
    <3> QED
      BY <1>2, <3>1, <3>3 DEF SetForever
  <2>4. CASE k \notin index
    <3>1. UNCHANGED <<expiryHeap, index, wakeup>>
      BY <1>1, <1>2, <2>4 DEF SetForever
    <3>2. DataOK
      BY <2>1, <2>2, <2>4, <3>1, DataReplaced
    <3> QED
      BY <1>2, <3>1, <3>2 DEF SetForever
  <2> QED
    BY <2>3, <2>4
<1>3. CASE SetExpiring(k, ttl)
  <2> DEFINE t == now + ttl
  <2>1. t \in Nat /\ t \in Int
    BY <1>1
  <2>2. store' = [store EXCEPT ![k] = Entry(TRUE, t)] /\ wakeup' = TRUE
    BY <1>3 DEF SetExpiring
  <2> HIDE DEF t
  <2>3. CASE k \in index
    <3> DEFINE h == Fix(expiryHeap, k, t)
    <3>1. expiryHeap' = h /\ index' = index
      BY <1>1, <1>3, <2>3 DEF SetExpiring, t
    <3>2. /\ HeapOK(h) /\ Items(h) = Items(expiryHeap)
          /\ h.at = [expiryHeap.at EXCEPT ![k] = t]
      BY <1>1, <2>1, <2>3, FixResult
    <3> HIDE DEF h
    <3>3. index' = index \cup {k} /\ Items(h) = Items(expiryHeap) \cup {k}
      BY <1>1, <2>3, <3>1, <3>2
    <3>4. DataOK
      BY <2>1, <2>2, <3>1, <3>2, <3>3, DataAdded
    <3> QED
      BY <1>3, <2>2, <3>4 DEF SetExpiring
  <2>4. CASE k \notin index
    <3> DEFINE h == Push(expiryHeap, k, t)
    <3>1. expiryHeap' = h /\ index' = index \cup {k}
      BY <1>1, <1>3, <2>4 DEF SetExpiring, t
    <3>2. /\ HeapOK(h) /\ Items(h) = Items(expiryHeap) \cup {k}
          /\ h.at = [expiryHeap.at EXCEPT ![k] = t]
      BY <1>1, <2>1, <2>4, PushResult
    <3> HIDE DEF h
    <3>3. DataOK
      BY <2>1, <2>2, <3>1, <3>2, DataAdded
    <3> QED
      BY <1>3, <2>2, <3>3 DEF SetExpiring
  <2> QED
    BY <2>3, <2>4
<1> QED
  BY <1>2, <1>3 DEF Set

\* The cleaner removes the first entry with its item, and only when it is due.
LEMMA CleanerPopOK ==
    ASSUME Inv, CleanerPop
    PROVE  /\ DataOK
           /\ \A k \in Keys : store[k].exists /\ ~store'[k].exists => Due(k)
<1>1. /\ HeapOK(expiryHeap) /\ index = Items(expiryHeap) /\ store \in [Keys -> Entries]
      /\ now \in Nat
  BY DEF Inv, Agrees, TypeOK
<1> DEFINE k == Head(expiryHeap.store)
           h == Pop(expiryHeap)
<1>2. CASE expiryHeap.store # << >> /\ expiryHeap.at[k] <= now
  <2>1. store' = [store EXCEPT ![k] = NoEntry] /\ index' = index \ {k} /\ expiryHeap' = h
    BY <1>2 DEF CleanerPop
  <2>2. /\ HeapOK(h) /\ Items(h) = Items(expiryHeap) \ {k}
        /\ h.at = [expiryHeap.at EXCEPT ![k] = 0]
    BY <1>1, <1>2, PopResult
  <2>3. /\ k \in Keys /\ k \in index /\ expiryHeap.at[k] = store[k].at
        /\ store[k].exists /\ store[k].expires
    BY <1>2, FirstItem
  <2>4. NoEntry \in Entries /\ ~NoEntry.expires
    BY DEF NoEntry, Entries
  <2>5. Due(k)
    BY <1>2, <2>3 DEF Due
  <2> HIDE DEF h, k
  <2>6. DataOK
    BY <2>1, <2>2, <2>3, <2>4, DataRemoved
  <2>7. \A q \in Keys : q # k => store'[q] = store[q]
    BY <1>1, <2>1
  <2> QED
    BY <2>5, <2>6, <2>7
<1>3. CASE ~(expiryHeap.store # << >> /\ expiryHeap.at[k] <= now)
  <2>1. UNCHANGED <<store, index, expiryHeap>>
    BY <1>3 DEF CleanerPop
  <2> QED
    BY <2>1 DEF Inv, TypeOK, Agrees, DataOK
<1> QED
  BY <1>2, <1>3

\* Nothing happens to the data.
LEMMA DataKept ==
    ASSUME Inv, UNCHANGED <<store, index, expiryHeap>>
    PROVE  DataOK
BY DEF Inv, TypeOK, Agrees, DataOK

\* A step that leaves the cleaner alone wakes it or leaves the heap alone.
LEMMA WakeableKept ==
    ASSUME Wakeable, UNCHANGED cleaner, wakeup' = TRUE \/ UNCHANGED <<expiryHeap, wakeup>>
    PROVE  Wakeable'
BY DEF Wakeable

\* Every step keeps the invariant.
LEMMA NextInv == Inv /\ [Next]_vars => Inv'
<1> SUFFICES ASSUME Inv, [Next]_vars PROVE Inv'
  OBVIOUS
<1> USE DEF DataOK
<1>1. /\ now \in 0..MaxTime /\ now \in Nat /\ MaxTime \in Nat /\ wakeup \in BOOLEAN
      /\ shutdown \in BOOLEAN
      /\ cleaner \in [pc : {"peek", "empty", "until", "pop", "timer", "stopped"},
                      expiresAt : Nat]
      /\ reader \in [Readers -> [pc : {"idle"}]
                      \cup [pc : {"look", "erase"}, key : Keys, entry : Entries]]
      /\ store \in [Keys -> Entries]
  BY KeyValueAssumption DEF Inv, TypeOK
<1>2. Wakeable
  BY DEF Inv
<1>3. ASSUME NEW k \in Keys, NEW ttl \in TTLs, Set(k, ttl) PROVE Inv'
  BY <1>1, <1>2, <1>3, SetOK, WakeableKept DEF Inv, TypeOK
<1>4. ASSUME NEW k \in Keys, Delete(k) PROVE Inv'
  <2>1. Erase(k) /\ UNCHANGED <<now, shutdown, cleaner, reader>>
    BY <1>4 DEF Delete
  <2> QED
    BY <1>1, <1>2, <2>1, EraseOK, WakeableKept DEF Inv, TypeOK
<1>5. ASSUME NEW r \in Readers, NEW k \in Keys, Read(r, k) PROVE Inv'
  <2>1. DataOK /\ Wakeable'
    BY <1>2, <1>5, DataKept, WakeableKept DEF Read
  <2>2. reader' = [reader EXCEPT ![r] = [pc |-> "look", key |-> k, entry |-> store[k]]]
    BY <1>5 DEF Read
  <2>3. [pc |-> "look", key |-> k, entry |-> store[k]]
           \in [pc : {"look", "erase"}, key : Keys, entry : Entries]
    BY <1>1
  <2>4. UNCHANGED <<now, wakeup, shutdown, cleaner>>
    BY <1>5 DEF Read
  <2> QED
    BY <1>1, <2>1, <2>2, <2>3, <2>4 DEF Inv, TypeOK
<1>6. ASSUME NEW r \in Readers, ReadAnswer(r) PROVE Inv'
  <2>1. DataOK /\ Wakeable'
    BY <1>2, <1>6, DataKept, WakeableKept DEF ReadAnswer
  <2>2. reader' = [reader EXCEPT ![r] = [pc |-> "idle"]] /\ UNCHANGED <<now, wakeup, shutdown, cleaner>>
    BY <1>6 DEF ReadAnswer
  <2>3. [pc |-> "idle"] \in [pc : {"idle"}]
    OBVIOUS
  <2> QED
    BY <1>1, <2>1, <2>2, <2>3 DEF Inv, TypeOK
<1>7. ASSUME NEW r \in Readers, ReadExpired(r) PROVE Inv'
  <2>1. DataOK /\ Wakeable'
    BY <1>2, <1>7, DataKept, WakeableKept DEF ReadExpired
  <2>2. reader' = [reader EXCEPT ![r].pc = "erase"] /\ UNCHANGED <<now, wakeup, shutdown, cleaner>>
        /\ reader[r].pc = "look"
    BY <1>7 DEF ReadExpired
  <2>3. reader[r] \in [pc : {"look", "erase"}, key : Keys, entry : Entries]
    BY <1>1, <2>2
  <2>4. [reader[r] EXCEPT !.pc = "erase"] \in [pc : {"look", "erase"}, key : Keys, entry : Entries]
    BY <2>3
  <2>5. reader' = [reader EXCEPT ![r] = [reader[r] EXCEPT !.pc = "erase"]]
    BY <2>2
  <2> QED
    BY <1>1, <2>1, <2>2, <2>4, <2>5 DEF Inv, TypeOK
<1>8. ASSUME NEW r \in Readers, ReadErase(r) PROVE Inv'
  <2>1. reader[r].key \in Keys
    BY <1>1, <1>8 DEF ReadErase
  <2>2. DataOK /\ (wakeup' = TRUE \/ UNCHANGED <<expiryHeap, wakeup>>)
    BY <1>8, <2>1, EraseOK, DataKept DEF ReadErase
  <2>3. reader' = [reader EXCEPT ![r] = [pc |-> "idle"]] /\ UNCHANGED <<now, shutdown, cleaner>>
    BY <1>8 DEF ReadErase
  <2>4. [pc |-> "idle"] \in [pc : {"idle"}]
    OBVIOUS
  <2>5. Wakeable'
    BY <1>2, <2>2, <2>3, WakeableKept
  <2> QED
    BY <1>1, <2>2, <2>3, <2>4, <2>5 DEF Inv, TypeOK
<1>9. CASE CleanerPeek
  <2>1. DataOK /\ UNCHANGED <<now, shutdown, reader, wakeup, expiryHeap>>
    BY <1>9, DataKept DEF CleanerPeek, CleanerVars
  <2>2. CASE expiryHeap.store = << >>
    <3>1. cleaner' = [cleaner EXCEPT !.pc = "empty"]
      BY <1>9, <2>2 DEF CleanerPeek
    <3> QED
      BY <1>1, <2>1, <2>2, <3>1 DEF Inv, TypeOK, Wakeable
  <2>3. CASE expiryHeap.store # << >>
    <3>1. cleaner' = [pc |-> "until", expiresAt |-> expiryHeap.at[Head(expiryHeap.store)]]
      BY <1>9, <2>3 DEF CleanerPeek
    <3>2. expiryHeap.at[Head(expiryHeap.store)] \in Nat
      BY <2>3, FirstItem
    <3> QED
      BY <1>1, <2>1, <2>3, <3>1, <3>2 DEF Inv, TypeOK, Wakeable
  <2> QED
    BY <2>2, <2>3
<1>10. CASE CleanerUntil
  <2>1. DataOK /\ UNCHANGED <<now, shutdown, reader, wakeup, expiryHeap>>
    BY <1>10, DataKept DEF CleanerUntil, CleanerVars
  <2>2. \/ cleaner' = [pc |-> "pop", expiresAt |-> 0]
        \/ cleaner.pc = "until" /\ cleaner' = [cleaner EXCEPT !.pc = "timer"]
    BY <1>10 DEF CleanerUntil
  <2> QED
    BY <1>1, <1>2, <2>1, <2>2 DEF Inv, TypeOK, Wakeable
<1>11. CASE CleanerPop
  <2>1. DataOK /\ UNCHANGED <<now, shutdown, reader, wakeup>>
        /\ cleaner' = [pc |-> "peek", expiresAt |-> 0]
    BY <1>11, CleanerPopOK DEF CleanerPop, CleanerVars
  <2> QED
    BY <1>1, <2>1 DEF Inv, TypeOK, Wakeable
<1>12. CASE CleanerTimer
  <2>1. DataOK /\ UNCHANGED <<now, shutdown, reader, wakeup>>
        /\ cleaner' = [pc |-> "peek", expiresAt |-> 0]
    BY <1>12, DataKept DEF CleanerTimer, CleanerVars
  <2> QED
    BY <1>1, <2>1 DEF Inv, TypeOK, Wakeable
<1>13. CASE CleanerWakeup
  <2>1. DataOK /\ UNCHANGED <<now, shutdown, reader>> /\ wakeup' = FALSE
        /\ cleaner' = [pc |-> "peek", expiresAt |-> 0]
    BY <1>13, DataKept DEF CleanerWakeup, CleanerVars
  <2> QED
    BY <1>1, <2>1 DEF Inv, TypeOK, Wakeable
<1>14. CASE CleanerDone
  <2>1. DataOK /\ UNCHANGED <<now, shutdown, reader, wakeup>>
        /\ cleaner' = [pc |-> "stopped", expiresAt |-> 0]
    BY <1>14, DataKept DEF CleanerDone, CleanerVars
  <2> QED
    BY <1>1, <2>1 DEF Inv, TypeOK, Wakeable
<1>15. CASE Shutdown
  <2>1. DataOK /\ Wakeable'
    BY <1>2, <1>15, DataKept, WakeableKept DEF Shutdown
  <2> QED
    BY <1>1, <1>15, <2>1 DEF Shutdown, Inv, TypeOK
<1>16. CASE Tick
  <2>1. DataOK /\ Wakeable'
    BY <1>2, <1>16, DataKept, WakeableKept DEF Tick
  <2>2. now' \in 0..MaxTime
    BY <1>1, <1>16 DEF Tick
  <2> QED
    BY <1>1, <1>16, <2>1, <2>2 DEF Tick, Inv, TypeOK
<1>17. CASE UNCHANGED vars
  <2>1. DataOK /\ Wakeable'
    BY <1>2, <1>17, DataKept, WakeableKept DEF vars
  <2> QED
    BY <1>1, <1>17, <2>1 DEF vars, Inv, TypeOK
<1> QED
  BY <1>3, <1>4, <1>5, <1>6, <1>7, <1>8, <1>9, <1>10, <1>11, <1>12, <1>13, <1>14, <1>15,
     <1>16, <1>17 DEF Next, Get, Exists, ReaderStep, CleanerStep

\* The invariant of the store: the map, the index and the heap agree, the heap is
\* in order, and the cleaner sleeps no longer than it should.
THEOREM SpecInv == Spec => []Inv
BY InitInv, NextInv, PTL DEF Spec

\* Types: every section under kv.mu, and what Get, Exists and the cleaner hold
\* between two of them, stay what they are declared to be.
THEOREM SpecTypeOK == Spec => []TypeOK
<1>1. Inv => TypeOK
  BY DEF Inv
<1> QED
  BY <1>1, SpecInv, PTL

\* As many items as expiring keys.
LEMMA AsManyItems ==
    ASSUME NEW h, Well(h), IsFiniteSet(Keys)
    PROVE  Len(h.store) = Cardinality(Items(h))
<1> DEFINE n == Len(h.store)
           f == h.store
<1>1. /\ f \in Seq(Keys) /\ n \in Nat /\ DOMAIN f = 1..n /\ h.pos \in [Keys -> Nat]
  BY WellTypes
<1>2. \A x \in 1..n : f[x] \in Items(h) /\ h.pos[f[x]] = x
  BY <1>1 DEF Well, Items
<1>3. \A k \in Items(h) : h.pos[k] \in 1..n /\ f[h.pos[k]] = k
  BY <1>1 DEF Well, Items
<1>4. f \in [1..n -> Items(h)]
  BY <1>1, <1>2
<1> HIDE DEF f, n
<1>5. f \in Bijection(1..n, Items(h))
  BY <1>2, <1>3, <1>4 DEF Bijection, Injection, Surjection, IsInjective
<1>6. ExistsBijection(1..n, Items(h))
  BY <1>5 DEF ExistsBijection
<1> QED
  BY <1>1, <1>6, FS_CountingElements DEF n

\* After any overwrites, deletions and expirations exactly the expiring entries
\* have an item, with their time, where its Position says, and the item that the
\* cleaner looks at is the earliest.
THEOREM SpecIndexAgrees == Spec => []IndexAgrees
<1>1. Inv => IndexAgrees
  <2> SUFFICES ASSUME Inv PROVE IndexAgrees
    OBVIOUS
  <2>1. /\ HeapOK(expiryHeap) /\ index = Items(expiryHeap) /\ Well(expiryHeap)
    BY DEF Inv, Agrees, HeapOK
  <2>2. Len(expiryHeap.store) = Cardinality(index)
    BY <2>1, AsManyItems, KeyValueAssumption
  <2>3. ASSUME NEW k \in Keys
        PROVE  /\ k \in index <=> store[k].exists /\ store[k].expires
               /\ k \in index => /\ expiryHeap.pos[k] \in DOMAIN expiryHeap.store
                                 /\ expiryHeap.store[expiryHeap.pos[k]] = k
                                 /\ expiryHeap.at[k] = store[k].at
                                 /\ expiryHeap.at[Head(expiryHeap.store)] <= store[k].at
    <3>1. /\ k \in index <=> store[k].expires
          /\ store[k].expires => store[k].exists
          /\ k \in index => expiryHeap.at[k] = store[k].at
      BY DEF Inv, Agrees
    <3>2. k \in index => expiryHeap.at[Head(expiryHeap.store)] <= expiryHeap.at[k]
      BY <2>1, FirstIsEarliest
    <3>3. k \in index => /\ expiryHeap.pos[k] \in DOMAIN expiryHeap.store
                         /\ expiryHeap.store[expiryHeap.pos[k]] = k
      BY <2>1 DEF Well, Items
    <3> QED
      BY <3>1, <3>2, <3>3
  <2> QED
    BY <2>2, <2>3 DEF IndexAgrees
<1> QED
  BY <1>1, SpecInv, PTL

\* No wakeup is lost: every change of the heap while the cleaner is about to sleep
\* or sleeps leaves it a token.
THEOREM SpecSleepsNoLonger == Spec => []SleepsNoLonger
<1>1. Inv => SleepsNoLonger
  BY DEF Inv, Wakeable, SleepsNoLonger
<1> QED
  BY <1>1, SpecInv, PTL

\* What disappears was due or was deleted by its user: an old expiration never
\* removes a newer value.
THEOREM SpecOnlyDueRemoved == Spec => OnlyDueRemoved
<1> DEFINE P == \A k \in Keys : store[k].exists /\ ~store'[k].exists => Due(k) \/ Delete(k)
<1>1. Inv /\ [Next]_vars => P \/ UNCHANGED vars
  <2> SUFFICES ASSUME Inv, Next, NEW k \in Keys, store[k].exists, ~store'[k].exists
               PROVE  Due(k) \/ Delete(k)
    OBVIOUS
  <2>1. store \in [Keys -> Entries] /\ \A q \in Keys : store[q].at \in Nat
    BY DEF Inv, TypeOK, Entries
  <2>2. \A q \in Keys : Erase(q) => q = k
    BY <2>1 DEF Erase
  <2>3. ASSUME NEW q \in Keys, NEW ttl \in TTLs, Set(q, ttl) PROVE FALSE
    <3>1. \E e \in {Entry(FALSE, 0), Entry(TRUE, now + ttl)} :
             e.exists /\ store' = [store EXCEPT ![q] = e]
      BY <2>3 DEF Set, SetForever, SetExpiring, Entry
    <3> QED
      BY <2>1, <3>1
  <2>4. ASSUME NEW q \in Keys, Delete(q) PROVE Delete(k)
    BY <2>2, <2>4 DEF Delete
  <2>5. ASSUME NEW r \in Readers, ReadErase(r) PROVE Due(k)
    <3> DEFINE q == reader[r].key
    <3>1. q \in Keys
      BY <2>5 DEF Inv, TypeOK, ReadErase
    <3>2. Erase(q) /\ Expired(store[q])
      BY <2>5 DEF ReadErase
    <3>3. k = q
      BY <2>2, <3>1, <3>2
    <3>4. now \in Nat
      BY KeyValueAssumption DEF Inv, TypeOK
    <3> QED
      BY <2>1, <3>2, <3>3, <3>4 DEF Due, Expired
  <2>6. CASE CleanerPop
    BY <2>6, CleanerPopOK
  <2>7. store' # store
    OBVIOUS
  <2> QED
    BY <2>3, <2>4, <2>5, <2>6, <2>7
       DEF Next, Get, Exists, Read, ReaderStep, ReadAnswer, ReadExpired, CleanerStep,
           CleanerPeek, CleanerUntil, CleanerTimer, CleanerWakeup, CleanerDone, Shutdown, Tick
<1>2. Spec => [][P]_vars
  BY <1>1, SpecInv, PTL DEF Spec
<1> QED
  BY <1>2 DEF OnlyDueRemoved
=============================================================================
