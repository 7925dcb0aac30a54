-------------------------- MODULE ParkingPlanProofs --------------------------
(***************************************************************************)
(* Proofs about the decisions of the parking system, for any building and  *)
(* any vehicles: no strategy chooses or plans a floor without room; the    *)
(* order of the moves divides them into components that have nothing to do *)
(* with each other; and each component has its moves in turn, or is a loop *)
(* that no order resolves.                                                 *)
(*                                                                         *)
(* The operators are folds and recursive functions.  Each is shown to      *)
(* have a value by Recursion: a fold goes through the subsets of a finite  *)
(* set, and the search, the sorting and the movement orders are walks,     *)
(* which choose a next state of a smaller measure until there is none.     *)
(***************************************************************************)
EXTENDS ParkingPlan, Recursion, SequenceTheorems, TLAPS

-----------------------------------------------------------------------------
(* The space of a set of vehicles *)

\* The value of SpaceOf at every set of visits.
AnyOf(s) == CHOOSE t \in s : TRUE
SpaceStep(A, f) == [s \in SUBSET A |->
    IF s = {} THEN 0 ELSE LET x == AnyOf(s) IN [t \in Tickets |-> Space(t)][x] + f[s \ {x}]]
SpaceTable(f) == f \in [SUBSET Tickets -> Nat] /\ f = SpaceStep(Tickets, f)

\* A vehicle takes some space.
LEMMA SpaceType == \A t \in Tickets : Space(t) \in Nat /\ Space(t) > 0
BY PlanAssumption DEF Space

\* There is a table of the space that sets of vehicles take.
LEMMA SpaceTableExists == \E f : SpaceTable(f)
<1> DEFINE c == [s \in (SUBSET Tickets) \ {{}} |-> AnyOf(s)]
           h == [p \in Tickets \X Nat |-> Space(p[1]) + p[2]]
<1>1. \A s \in (SUBSET Tickets) \ {{}} : AnyOf(s) \in s
  BY DEF AnyOf
<1>2. c \in [(SUBSET Tickets) \ {{}} -> Tickets] /\ Chooses(Tickets, c)
  BY <1>1 DEF Chooses
<1>3. h \in [Tickets \X Nat -> Nat]
  BY SpaceType
<1>4. \A t \in Tickets : \A n \in Nat : h[<<t, n>>] = Space(t) + n
  OBVIOUS
<1>5. \A s \in (SUBSET Tickets) \ {{}} : c[s] = AnyOf(s)
  OBVIOUS
<1> HIDE DEF c, h
<1>6. PICK f : FoldSolution(Tickets, Nat, 0, c, h, f)
  BY <1>2, <1>3, FoldSolved, PlanAssumption
<1>7. ASSUME NEW s \in SUBSET Tickets
      PROVE  f[s] = IF s = {} THEN 0
                    ELSE [t \in Tickets |-> Space(t)][AnyOf(s)] + f[s \ {AnyOf(s)}]
  BY <1>1, <1>4, <1>5, <1>6 DEF FoldSolution
<1>8. f = SpaceStep(Tickets, f)
  BY <1>6, <1>7 DEF FoldSolution, SpaceStep
<1> QED
  BY <1>6, <1>8 DEF FoldSolution, SpaceTable

\* SpaceOf is a fold over the subsets of its argument.
LEMMA SpaceOfDef ==
    ASSUME NEW A PROVE SpaceOf(A) = (CHOOSE f : f = SpaceStep(A, f))[A]
BY Zenon DEF SpaceOf, FoldFunctionOnSet, MapThenFoldSet, SpaceStep, AnyOf

\* SpaceOf looks its argument up in the table.
LEMMA SpaceOfTable ==
    ASSUME NEW f, SpaceTable(f), NEW A \in SUBSET Tickets
    PROVE  SpaceOf(A) = f[A]
<1> DEFINE g == CHOOSE g : g = SpaceStep(A, g)
           a == [s \in SUBSET A |-> f[s]]
<1>1. g = SpaceStep(A, g)
  <2>1. a = SpaceStep(A, a)
    <3>1. ASSUME NEW s \in SUBSET A PROVE a[s] = SpaceStep(A, a)[s]
      <4>1. f[s] = SpaceStep(Tickets, f)[s] /\ s \in SUBSET Tickets
        BY DEF SpaceTable
      <4>2. a[s] = f[s] /\ a[s \ {AnyOf(s)}] = f[s \ {AnyOf(s)}]
        OBVIOUS
      <4> HIDE DEF a
      <4> QED
        BY <4>1, <4>2 DEF SpaceStep
    <3> QED
      BY <3>1 DEF SpaceStep
  <2> HIDE DEF a
  <2> QED
    BY <2>1
<1> HIDE DEF g
<1> DEFINE S == SUBSET A
           m == [s \in S |-> Cardinality(s)]
           T == {s \in S : g[s] = f[s]}
<1>2. A \in T
  <2>1. m \in [S -> Nat]
    <3>1. \A s \in S : Cardinality(s) \in Nat
      BY FS_Subset, FS_CardinalityType, PlanAssumption
    <3> QED
      BY <3>1
  <2>2. ASSUME NEW s \in S, Below(S, m, s) \subseteq T PROVE s \in T
    <3>1. CASE s = {}
      <4>1. g[s] = 0 /\ f[s] = 0
        BY <1>1, <3>1 DEF SpaceStep, SpaceTable
      <4> QED
        BY <4>1
    <3>2. CASE s # {}
      <4> DEFINE x == AnyOf(s)
      <4>1. x \in s /\ IsFiniteSet(s)
        BY <3>2, FS_Subset, PlanAssumption DEF AnyOf
      <4>2. s \ {x} \in Below(S, m, s)
        <5>1. Cardinality(s \ {x}) = Cardinality(s) - 1 /\ Cardinality(s) \in Nat
          BY <4>1, FS_RemoveElement, FS_CardinalityType
        <5> QED
          BY <5>1 DEF Below
      <4>3. g[s \ {x}] = f[s \ {x}]
        BY <2>2, <4>2
      <4>4. g[s] = SpaceStep(A, g)[s] /\ f[s] = SpaceStep(Tickets, f)[s]
        BY <1>1 DEF SpaceTable
      <4>5. g[s] = f[s]
        BY <3>2, <4>3, <4>4 DEF SpaceStep
      <4> QED
        BY <4>5
    <3> QED
      BY <3>1, <3>2
  <2>3. Inductive(S, m, T)
    <3> HIDE DEF T, m, S
    <3> QED
      BY <2>2 DEF Inductive
  <2>4. T \in SUBSET S /\ A \in S
    OBVIOUS
  <2> HIDE DEF T, m, S
  <2> QED
    BY <2>1, <2>3, <2>4, MeasureInduction
<1> QED
  BY <1>2, SpaceOfDef DEF g

\* No vehicles take no space, and some take a natural number.
LEMMA SpaceOfType == SpaceOf({}) = 0 /\ \A A \in SUBSET Tickets : SpaceOf(A) \in Nat
<1>1. PICK f : SpaceTable(f)
  BY SpaceTableExists
<1>2. f \in [SUBSET Tickets -> Nat] /\ f = SpaceStep(Tickets, f)
  BY <1>1 DEF SpaceTable
<1>3. f[{}] = 0
  BY <1>2 DEF SpaceStep
<1> QED
  BY <1>1, <1>2, <1>3, SpaceOfTable

\* The space of a set is that of any member and of the rest.
LEMMA SpaceOfRemove ==
    \A A \in SUBSET Tickets : \A t \in A : SpaceOf(A) = Space(t) + SpaceOf(A \ {t})
<1>1. PICK f : SpaceTable(f)
  BY SpaceTableExists
<1> DEFINE S == SUBSET Tickets
           m == [s \in S |-> Cardinality(s)]
           T == {s \in S : \A t \in s : f[s] = Space(t) + f[s \ {t}]}
<1>2. m \in [S -> Nat]
  <2>1. \A s \in S : Cardinality(s) \in Nat
    BY FS_Subset, FS_CardinalityType, PlanAssumption
  <2> QED
    BY <2>1
<1>3. ASSUME NEW s \in S, NEW x \in s
      PROVE  s \ {x} \in S /\ s \ {x} \in Below(S, m, s)
  <2>1. IsFiniteSet(s)
    BY FS_Subset, PlanAssumption
  <2>2. Cardinality(s \ {x}) = Cardinality(s) - 1 /\ Cardinality(s) \in Nat
    BY <2>1, FS_RemoveElement, FS_CardinalityType
  <2> QED
    BY <2>2 DEF Below
<1>4. ASSUME NEW s \in S, s # {}
      PROVE  AnyOf(s) \in s /\ f[s] = Space(AnyOf(s)) + f[s \ {AnyOf(s)}]
  <2>1. AnyOf(s) \in s
    BY <1>4 DEF AnyOf
  <2>2. f[s] = SpaceStep(Tickets, f)[s]
    BY <1>1 DEF SpaceTable
  <2> QED
    BY <1>4, <2>1, <2>2 DEF SpaceStep
<1> HIDE DEF m
<1>5. ASSUME NEW s \in S, Below(S, m, s) \subseteq T, NEW t \in s
      PROVE  f[s] = Space(t) + f[s \ {t}]
  <2> DEFINE x == AnyOf(s)
  <2>1. x \in s /\ f[s] = Space(x) + f[s \ {x}]
    BY <1>4
  <2>2. CASE t = x
    BY <2>1, <2>2
  <2>3. CASE t # x
    <3>1. s \ {x} \in T /\ t \in s \ {x} /\ s \ {t} \in T /\ x \in s \ {t}
      BY <1>3, <1>5, <2>1, <2>3
    <3>2. f[s \ {x}] = Space(t) + f[(s \ {x}) \ {t}]
      BY <3>1
    <3>3. f[s \ {t}] = Space(x) + f[(s \ {t}) \ {x}]
      BY <3>1
    <3>4. (s \ {x}) \ {t} = (s \ {t}) \ {x}
      OBVIOUS
    <3>5. Space(x) \in Nat /\ Space(t) \in Nat /\ f[(s \ {x}) \ {t}] \in Nat
      BY <1>1, <2>1, SpaceType DEF SpaceTable
    <3> HIDE DEF x, T, S
    <3> QED
      BY <2>1, <3>2, <3>3, <3>4, <3>5
  <2> QED
    BY <2>2, <2>3
<1>6. Inductive(S, m, T)
  BY <1>5 DEF Inductive
<1>7. S \subseteq T
  <2>1. T \in SUBSET S
    OBVIOUS
  <2> HIDE DEF T, S
  <2> QED
    BY <1>2, <1>6, <2>1, MeasureInduction
<1>8. ASSUME NEW A \in SUBSET Tickets, NEW t \in A
      PROVE  SpaceOf(A) = Space(t) + SpaceOf(A \ {t})
  <2>1. SpaceOf(A) = f[A] /\ SpaceOf(A \ {t}) = f[A \ {t}]
    BY <1>1, SpaceOfTable
  <2> QED
    BY <1>7, <2>1
<1> QED
  BY <1>8

\* The space of two sets of different vehicles is the sum of theirs.
LEMMA SpaceOfUnion ==
    ASSUME NEW A \in SUBSET Tickets, NEW B \in SUBSET Tickets, A \cap B = {}
    PROVE  SpaceOf(A \cup B) = SpaceOf(A) + SpaceOf(B)
<1> DEFINE S == SUBSET B
           m == [s \in S |-> Cardinality(s)]
           T == {s \in S : SpaceOf(A \cup s) = SpaceOf(A) + SpaceOf(s)}
<1>1. ASSUME NEW s \in S PROVE Cardinality(s) \in Nat /\ IsFiniteSet(s)
  BY FS_Subset, FS_CardinalityType, PlanAssumption
<1>2. m \in [S -> Nat]
  BY <1>1
<1>3. ASSUME NEW s \in S, NEW x \in s
      PROVE  s \ {x} \in Below(S, m, s)
  <2>1. Cardinality(s \ {x}) = Cardinality(s) - 1 /\ Cardinality(s) \in Nat
    BY <1>1, FS_RemoveElement
  <2> QED
    BY <2>1 DEF Below
<1> HIDE DEF m
<1>4. ASSUME NEW s \in S, Below(S, m, s) \subseteq T PROVE s \in T
  <2>1. CASE s = {}
    BY <2>1, SpaceOfType
  <2>2. ASSUME NEW x \in s PROVE s \in T
    <3>1. SpaceOf(A \cup (s \ {x})) = SpaceOf(A) + SpaceOf(s \ {x})
      BY <1>3, <1>4
    <3>2. (A \cup s) \ {x} = A \cup (s \ {x}) /\ x \in A \cup s /\ A \cup s \in SUBSET Tickets
      OBVIOUS
    <3>3. SpaceOf(A \cup s) = Space(x) + SpaceOf(A \cup (s \ {x}))
      BY <3>2, SpaceOfRemove
    <3>4. SpaceOf(s) = Space(x) + SpaceOf(s \ {x})
      BY SpaceOfRemove
    <3>5. Space(x) \in Nat /\ SpaceOf(A) \in Nat /\ SpaceOf(s \ {x}) \in Nat
      BY SpaceType, SpaceOfType
    <3> QED
      BY <3>1, <3>3, <3>4, <3>5
  <2> QED
    BY <2>1, <2>2
<1>5. Inductive(S, m, T)
  <2> HIDE DEF T
  <2> QED
    BY <1>4 DEF Inductive
<1>6. S \subseteq T
  <2>1. T \in SUBSET S
    OBVIOUS
  <2> HIDE DEF T, S
  <2> QED
    BY <1>2, <1>5, <2>1, MeasureInduction
<1> QED
  BY <1>6

-----------------------------------------------------------------------------
(* Folds along a sequence *)

\* The last of some positions is one of them.
LEMMA MaxType ==
    ASSUME NEW n \in Nat, NEW d \in SUBSET (1..n), d # {}
    PROVE  Max(d) \in d
<1> DEFINE T == {k \in Nat : \E x \in d : k = n - x}
<1>1. PICK x0 \in d : TRUE
  OBVIOUS
<1>2. n - x0 \in T
  OBVIOUS
<1>3. PICK k \in T : \A j \in T : k <= j
  <2>1. T \in SUBSET Nat /\ T # {}
    BY <1>2
  <2> HIDE DEF T
  <2> QED
    BY <2>1, LeastNumber
<1>4. PICK x \in d : k = n - x
  BY <1>3
<1>5. \A y \in d : x >= y
  <2>1. ASSUME NEW y \in d PROVE x >= y
    <3>1. n - y \in T
      OBVIOUS
    <3>2. n - x <= n - y
      BY <1>3, <1>4, <3>1
    <3> QED
      BY <3>2
  <2> QED
    BY <2>1
<1> QED
  BY <1>5 DEF Max

\* The last of the first k positions is k.
LEMMA MaxUpTo ==
    ASSUME NEW k \in Nat, k > 0
    PROVE  Max(1..k) = k /\ (1..k) \ {k} = 1..(k - 1) /\ 1..k # {}
<1>1. k \in 1..k /\ \A y \in 1..k : k >= y
  OBVIOUS
<1>2. \A x \in 1..k : (\A y \in 1..k : x >= y) => x = k
  OBVIOUS
<1> QED
  BY <1>1, <1>2 DEF Max

\* What Only has kept at a set d of positions of the sequence s.
OnlyStep(s, T, f) == [d \in SUBSET DOMAIN s |->
    IF d = {} THEN << >>
    ELSE LET x == Max(d) IN IF s[x] \in T THEN Append(f[d \ {x}], s[x]) ELSE f[d \ {x}]]

\* Only is a fold over sets of positions.
LEMMA OnlyDef ==
    ASSUME NEW s, NEW T PROVE Only(s, T) = (CHOOSE f : f = OnlyStep(s, T, f))[DOMAIN s]
BY Zenon DEF Only, FoldLeft, MapThenFoldSet, OnlyStep

\* A sequence that repeats nothing.
Once(s) == \A i, k \in DOMAIN s : s[i] = s[k] => i = k

\* It repeats nothing either when something new is appended.
LEMMA OnceAppend ==
    ASSUME NEW X, NEW s \in Seq(X), Once(s), NEW x \in X, x \notin ToSet(s)
    PROVE  Once(Append(s, x))
<1> DEFINE a == Append(s, x)
           n == Len(s)
<1>1. n \in Nat /\ DOMAIN s = 1..n /\ DOMAIN a = 1..(n + 1) /\ a[n + 1] = x
  OBVIOUS
<1>2. \A i \in 1..n : a[i] = s[i] /\ a[i] # x
  BY DEF ToSet
<1>3. ASSUME NEW i \in 1..(n + 1), NEW k \in 1..(n + 1), a[i] = a[k] PROVE i = k
  <2>1. CASE i \in 1..n /\ k \in 1..n
    BY <1>1, <1>2, <1>3, <2>1 DEF Once
  <2>2. CASE ~(i \in 1..n) \/ ~(k \in 1..n)
    <3> HIDE DEF a
    <3>1. i \in 1..n \/ i = n + 1
      BY <1>1
    <3>2. k \in 1..n \/ k = n + 1
      BY <1>1
    <3> QED
      BY <1>1, <1>2, <1>3, <2>2, <3>1, <3>2
  <2> QED
    BY <2>1, <2>2
<1> QED
  BY <1>1, <1>3 DEF Once

\* What an append adds to the members.
LEMMA ToSetAppend ==
    ASSUME NEW X, NEW s \in Seq(X), NEW x \in X
    PROVE  ToSet(Append(s, x)) = ToSet(s) \cup {x}
<1> DEFINE a == Append(s, x)
           n == Len(s)
<1>1. n \in Nat /\ DOMAIN s = 1..n /\ DOMAIN a = 1..(n + 1) /\ a[n + 1] = x
  OBVIOUS
<1>2. \A i \in 1..n : a[i] = s[i]
  OBVIOUS
<1> HIDE DEF a
<1>3. \A i \in 1..(n + 1) : i \in 1..n \/ i = n + 1
  BY <1>1
<1>4. \A i \in 1..n : i \in 1..(n + 1)
  BY <1>1
<1>5. n + 1 \in 1..(n + 1)
  BY <1>1
<1> HIDE DEF n
<1> QED
  BY <1>1, <1>2, <1>3, <1>4, <1>5 DEF ToSet, a

\* Only keeps the members that are in T, and repeats none that s does not.
OnceIn(s, T) == \A i, k \in DOMAIN s : s[i] \in T /\ s[i] = s[k] => i = k

\* Only keeps the members of s that are in T, in their number of times.
LEMMA OnlyResult ==
    ASSUME NEW X, NEW s \in Seq(X), NEW T
    PROVE  /\ Only(s, T) \in Seq(X)
           /\ ToSet(Only(s, T)) = ToSet(s) \cap T
           /\ OnceIn(s, T) => Once(Only(s, T))
           /\ Once(s) => Once(Only(s, T))
<1> DEFINE n == Len(s)
           D == 1..n
           c == [d \in (SUBSET D) \ {{}} |-> Max(d)]
           h == [p \in D \X Seq(X) |-> IF s[p[1]] \in T THEN Append(p[2], s[p[1]]) ELSE p[2]]
<1>1. n \in Nat /\ DOMAIN s = D /\ IsFiniteSet(D) /\ \A x \in D : s[x] \in X
  BY FS_Interval
<1>2. c \in [(SUBSET D) \ {{}} -> D] /\ Chooses(D, c)
  BY <1>1, MaxType DEF Chooses
<1>3. h \in [D \X Seq(X) -> Seq(X)]
  <2>1. \A p \in D \X Seq(X) : p[1] \in D /\ p[2] \in Seq(X) /\ s[p[1]] \in X
    BY <1>1
  <2>2. \A p \in D \X Seq(X) : Append(p[2], s[p[1]]) \in Seq(X)
    BY <2>1, AppendProperties
  <2> QED
    BY <2>1, <2>2
<1>4. \A x \in D : \A w \in Seq(X) : h[<<x, w>>] = IF s[x] \in T THEN Append(w, s[x]) ELSE w
  OBVIOUS
<1>5. \A d \in (SUBSET D) \ {{}} : c[d] = Max(d) /\ Max(d) \in d
  BY <1>1, MaxType
<1> HIDE DEF c, h
<1>6. \E f : FoldSolution(D, Seq(X), << >>, c, h, f)
  <2>1. << >> \in Seq(X)
    OBVIOUS
  <2> HIDE DEF D
  <2> QED
    BY <1>1, <1>2, <1>3, <2>1, FoldSolved
<1> DEFINE f == CHOOSE f : f = OnlyStep(s, T, f)
<1>7. f = OnlyStep(s, T, f)
  <2>1. PICK g : FoldSolution(D, Seq(X), << >>, c, h, g)
    BY <1>6
  <2>2. ASSUME NEW d \in SUBSET D PROVE g[d] = OnlyStep(s, T, g)[d]
    <3>1. CASE d = {}
      BY <1>1, <2>1, <3>1 DEF FoldSolution, OnlyStep
    <3>2. CASE d # {}
      <4>1. Max(d) \in D /\ c[d] = Max(d) /\ g[d \ {Max(d)}] \in Seq(X)
        BY <1>5, <2>1, <3>2 DEF FoldSolution
      <4>2. g[d] = h[<<Max(d), g[d \ {Max(d)}]>>]
        BY <2>1, <3>2, <4>1 DEF FoldSolution
      <4> QED
        BY <1>1, <1>4, <3>2, <4>1, <4>2 DEF OnlyStep
    <3> QED
      BY <3>1, <3>2
  <2>3. g = OnlyStep(s, T, g)
    BY <1>1, <2>1, <2>2 DEF FoldSolution, OnlyStep
  <2> QED
    BY <2>3
<1> HIDE DEF f
<1>8. ASSUME NEW k \in Nat, k < n
      PROVE  f[1..(k + 1)] = IF s[k + 1] \in T THEN Append(f[1..k], s[k + 1]) ELSE f[1..k]
  <2>1. Max(1..(k + 1)) = k + 1 /\ (1..(k + 1)) \ {k + 1} = 1..k /\ 1..(k + 1) # {}
    <3>1. k + 1 \in Nat /\ k + 1 > 0 /\ (k + 1) - 1 = k
      OBVIOUS
    <3> QED
      BY <3>1, MaxUpTo
  <2>2. 1..(k + 1) \in SUBSET DOMAIN s
    BY <1>1, <1>8
  <2>3. f[1..(k + 1)] = OnlyStep(s, T, f)[1..(k + 1)]
    BY <1>7
  <2> QED
    BY <2>1, <2>2, <2>3 DEF OnlyStep
<1>9. f[1..0] = << >>
  <2>1. 1..0 = {} /\ 1..0 \in SUBSET DOMAIN s
    OBVIOUS
  <2>2. f[1..0] = OnlyStep(s, T, f)[1..0]
    BY <1>7
  <2> QED
    BY <2>1, <2>2 DEF OnlyStep
<1> DEFINE Upto(k) == {s[i] : i \in 1..k}
           Good(k) == /\ f[1..k] \in Seq(X)
                      /\ ToSet(f[1..k]) = Upto(k) \cap T
                      /\ OnceIn(s, T) => Once(f[1..k])
           G == {k \in 0..n : Good(k)}
<1>10. ASSUME NEW k \in Nat, k < n, Good(k) PROVE Good(k + 1)
  <2>1. k + 1 \in D /\ s[k + 1] \in X
    BY <1>1, <1>10
  <2>2. Upto(k + 1) = Upto(k) \cup {s[k + 1]}
    <3>1. \A i \in 1..(k + 1) : i \in 1..k \/ i = k + 1
      OBVIOUS
    <3>2. \A i \in 1..k : i \in 1..(k + 1)
      OBVIOUS
    <3>3. k + 1 \in 1..(k + 1)
      OBVIOUS
    <3> QED
      BY <3>1, <3>2, <3>3
  <2>3. CASE s[k + 1] \in T
    <3>1. f[1..(k + 1)] = Append(f[1..k], s[k + 1])
      BY <1>8, <1>10, <2>3
    <3>2. Append(f[1..k], s[k + 1]) \in Seq(X)
      BY <1>10, <2>1, AppendProperties
    <3>3. ToSet(f[1..(k + 1)]) = ToSet(f[1..k]) \cup {s[k + 1]}
      BY <1>10, <2>1, <3>1, ToSetAppend
    <3>4. OnceIn(s, T) => s[k + 1] \notin Upto(k)
      <4>1. \A i \in 1..k : i \in D /\ i # k + 1
        BY <1>1, <1>10
      <4> QED
        BY <1>1, <2>1, <2>3, <4>1 DEF OnceIn
    <3>5. OnceIn(s, T) => Once(f[1..(k + 1)])
      <4> HIDE DEF Upto
      <4> QED
        BY <1>10, <2>1, <3>1, <3>4, OnceAppend
    <3> HIDE DEF Upto
    <3> QED
      BY <1>10, <2>2, <2>3, <3>1, <3>2, <3>3, <3>5
  <2>4. CASE s[k + 1] \notin T
    <3>1. f[1..(k + 1)] = f[1..k]
      BY <1>8, <1>10, <2>4
    <3> HIDE DEF Upto
    <3> QED
      BY <1>10, <2>2, <2>4, <3>1
  <2> QED
    BY <2>3, <2>4
<1>11. Good(0)
  <2>1. Once(<< >>) /\ ToSet(<< >>) = {} /\ << >> \in Seq(X)
    BY DEF Once, ToSet
  <2>2. Upto(0) = {}
    OBVIOUS
  <2> HIDE DEF Upto
  <2> QED
    BY <1>9, <2>1, <2>2
<1>12. n \in G
  <2> HIDE DEF Good
  <2>1. 0 \in G
    BY <1>1, <1>11
  <2>2. \A k \in Nat : k < n /\ k \in G => k + 1 \in G
    BY <1>1, <1>10
  <2> HIDE DEF G, n
  <2> QED
    BY <1>1, <2>1, <2>2, CountingUp
<1>13. Upto(n) = ToSet(s)
  BY <1>1 DEF ToSet
<1>14. Only(s, T) = f[1..n]
  BY <1>1, OnlyDef DEF f
<1>15. Once(s) => OnceIn(s, T)
  BY DEF Once, OnceIn
<1> QED
  BY <1>12, <1>13, <1>14, <1>15

-----------------------------------------------------------------------------
(* Choice of a floor and layouts *)

\* The lowest of some floors is one of them.
LEMMA LowestType ==
    ASSUME NEW A \in SUBSET Floors PROVE Lowest(A) \in A \cup {NoFloor} /\ (A = {} <=> Lowest(A) = NoFloor)
<1>1. \A f \in A : f \in Nat
  BY PlanAssumption DEF Floors
<1>2. CASE A = {}
  BY <1>2 DEF Lowest
<1>3. CASE A # {}
  <2>1. PICK f \in A : \A g \in A : f <= g
    <3>1. A \in SUBSET Nat
      BY <1>1
    <3> QED
      BY <1>3, <3>1, LeastNumber
  <2>2. Min(A) \in A
    BY <2>1 DEF Min
  <2>3. NoFloor \notin A
    BY <1>1 DEF NoFloor
  <2> QED
    BY <1>3, <2>2, <2>3 DEF Lowest
<1> QED
  BY <1>2, <1>3

\* No strategy chooses a floor without room.
THEOREM ChooseFits ==
    ASSUME NEW s \in Strategies, NEW t, NEW used
    PROVE  Choose(s, t, used) \in Fitting(t, used) \cup {NoFloor}
<1> DEFINE F == Fitting(t, used)
           L == {f \in F : \A g \in F : used[f] <= used[g]}
           C == {f \in F : \A g \in F : used[f] >= used[g]}
           Z == F \cap Zone(TypeOf[t])
<1>1. F \in SUBSET Floors /\ L \in SUBSET F /\ C \in SUBSET F /\ Z \in SUBSET F
  BY DEF Fitting
<1>2. /\ Nearest(t, used) = Lowest(F) /\ LoadBalanced(t, used) = Lowest(L)
      /\ Compaction(t, used) = Lowest(C) /\ ZoneBalanced(t, used) = Lowest(Z)
  BY DEF Nearest, LoadBalanced, Compaction, ZoneBalanced
<1> HIDE DEF F, L, C, Z
<1>3. \A A \in SUBSET F : Lowest(A) \in F \cup {NoFloor}
  <2> SUFFICES ASSUME NEW A \in SUBSET F PROVE Lowest(A) \in F \cup {NoFloor}
    OBVIOUS
  <2>1. A \in SUBSET Floors
    BY <1>1
  <2>2. Lowest(A) \in A \cup {NoFloor}
    BY <2>1, LowestType
  <2> QED
    BY <2>2
<1>4. Choose(s, t, used) \in {Lowest(F), Lowest(L), Lowest(C), Lowest(Z)}
  BY <1>2 DEF Choose, Strategies
<1>5. F \in SUBSET F
  OBVIOUS
<1> QED
  BY <1>1, <1>3, <1>4, <1>5 DEF F

\* A layout in which the vehicles V have been put.
LayoutStates(S) == [failed : BOOLEAN, used : [Floors -> Int], at : [S -> Floors \cup {NoFloor}]]
Laid(S, V, layout) ==
    /\ layout \in LayoutStates(S)
    /\ ~layout.failed =>
          /\ \A t \in V : layout.at[t] # NoFloor
          /\ \A t \in S \ V : layout.at[t] = NoFloor
          /\ \A f \in Floors : /\ layout.used[f] = SpaceOf({t \in S : layout.at[t] = f})
                               /\ layout.used[f] <= Capacity

\* The empty layout is right about nothing put.
LEMMA EmptyLaid ==
    ASSUME NEW S \in SUBSET Tickets PROVE Laid(S, {}, EmptyLayout(S))
<1> DEFINE e == EmptyLayout(S)
<1>1. /\ e.failed = FALSE /\ e.used = [f \in Floors |-> 0] /\ e.at = [t \in S |-> NoFloor]
      /\ e \in LayoutStates(S)
  BY DEF EmptyLayout, LayoutStates
<1>2. \A f \in Floors : f # NoFloor
  BY PlanAssumption DEF Floors, NoFloor
<1>3. \A f \in Floors : {t \in S : e.at[t] = f} = {}
  BY <1>1, <1>2
<1>4. \A f \in Floors : e.used[f] = SpaceOf({t \in S : e.at[t] = f}) /\ e.used[f] <= Capacity
  BY <1>1, <1>3, SpaceOfType, PlanAssumption
<1> HIDE DEF e
<1> QED
  BY <1>1, <1>4 DEF Laid, e

\* Putting one more vehicle keeps a layout right.
LEMMA PutLaid ==
    ASSUME NEW s \in Strategies, NEW S \in SUBSET Tickets, NEW V \in SUBSET S, NEW layout,
           Laid(S, V, layout), NEW t \in S \ V
    PROVE  Laid(S, V \cup {t}, Put(s, layout, t))
<1> DEFINE f == Choose(s, t, layout.used)
           p == Put(s, layout, t)
<1>1. f \in Fitting(t, layout.used) \cup {NoFloor}
  BY ChooseFits
<1>2. layout \in LayoutStates(S)
  BY DEF Laid
<1> HIDE DEF f
<1>3. CASE layout.failed \/ f = NoFloor
  <2>1. p = [layout EXCEPT !.failed = TRUE]
    BY <1>3 DEF Put, f
  <2>2. p \in LayoutStates(S) /\ p.failed
    BY <1>2, <2>1 DEF LayoutStates
  <2> HIDE DEF p
  <2> QED
    BY <2>2 DEF Laid, p
<1>4. CASE ~layout.failed /\ f # NoFloor
  <2>1. f \in Floors /\ layout.used[f] + Space(t) <= Capacity
    BY <1>1, <1>4 DEF Fitting
  <2> DEFINE u == [layout.used EXCEPT ![f] = @ + Space(t)]
             a == [layout.at EXCEPT ![t] = f]
  <2>2. p.failed = FALSE /\ p.used = u /\ p.at = a /\ p \in LayoutStates(S)
    <3>1. p = [layout EXCEPT !.used[f] = @ + Space(t), !.at[t] = f]
      BY <1>4 DEF Put, f
    <3>2. u \in [Floors -> Int] /\ a \in [S -> Floors \cup {NoFloor}]
      BY <1>2, <2>1, SpaceType DEF LayoutStates
    <3>3. \A z : z = [layout EXCEPT !.used[f] = @ + Space(t), !.at[t] = f]
             => z = [layout EXCEPT !.used = u, !.at = a]
      BY <1>2 DEF LayoutStates
    <3> HIDE DEF u, a
    <3>4. \A z : z = [layout EXCEPT !.used = u, !.at = a]
             => z \in LayoutStates(S) /\ z.used = u /\ z.at = a /\ z.failed = layout.failed
      BY <1>2, <3>2 DEF LayoutStates
    <3>5. layout.failed = FALSE
      BY <1>2, <1>4 DEF LayoutStates
    <3>6. p = [layout EXCEPT !.used = u, !.at = a]
      BY <3>1, <3>3
    <3> HIDE DEF p
    <3> QED
      BY <3>4, <3>5, <3>6
  <2>3. layout.at[t] = NoFloor
    BY <1>4 DEF Laid
  <2>4. /\ a[t] = f /\ u[f] = layout.used[f] + Space(t)
        /\ \A x \in S : x # t => a[x] = layout.at[x]
        /\ \A g \in Floors : g # f => u[g] = layout.used[g]
    BY <1>2, <2>1 DEF LayoutStates
  <2> HIDE DEF p, u, a
  <2>5. /\ \A x \in V \cup {t} : p.at[x] # NoFloor
        /\ \A x \in S \ (V \cup {t}) : p.at[x] = NoFloor
    BY <1>4, <2>2, <2>4 DEF Laid
  <2> DEFINE On(g, at) == {x \in S : at[x] = g}
  <2>6. /\ On(f, a) \ {t} = On(f, layout.at) /\ t \in On(f, a)
        /\ \A g \in Floors : g # f => On(g, a) = On(g, layout.at)
    <3>1. \A g \in Floors : g # NoFloor
      BY PlanAssumption DEF Floors, NoFloor
    <3> QED
      BY <1>4, <2>3, <2>4, <3>1
  <2>7. SpaceOf(On(f, a)) = Space(t) + SpaceOf(On(f, layout.at))
    <3>1. On(f, a) \in SUBSET Tickets
      OBVIOUS
    <3> QED
      BY <2>6, <3>1, SpaceOfRemove
  <2>8. \A g \in Floors : layout.used[g] = SpaceOf(On(g, layout.at)) /\ layout.used[g] <= Capacity
    BY <1>4 DEF Laid
  <2> HIDE DEF On
  <2>9. \A g \in Floors : u[g] = SpaceOf(On(g, a)) /\ u[g] <= Capacity
    <3>1. SpaceOf(On(f, layout.at)) \in Nat /\ Space(t) \in Nat /\ layout.used[f] \in Int
      BY <2>1, <1>2, SpaceType, SpaceOfType DEF LayoutStates, On
    <3> QED
      BY <2>1, <2>4, <2>6, <2>7, <2>8, <3>1
  <2> QED
    BY <2>2, <2>5, <2>9 DEF Laid, On, p
<1> QED
  BY <1>3, <1>4

\* Put makes a layout of a layout.
LEMMA PutType ==
    ASSUME NEW s \in Strategies, NEW S \in SUBSET Tickets, NEW layout \in LayoutStates(S),
           NEW t \in S
    PROVE  Put(s, layout, t) \in LayoutStates(S)
<1> DEFINE f == Choose(s, t, layout.used)
           p == Put(s, layout, t)
<1>1. f \in Floors \cup {NoFloor}
  BY ChooseFits DEF Fitting
<1> HIDE DEF f
<1>2. CASE layout.failed \/ f = NoFloor
  <2>1. p = [layout EXCEPT !.failed = TRUE]
    BY <1>2 DEF Put, f
  <2> QED
    BY <2>1 DEF LayoutStates
<1>3. CASE ~(layout.failed \/ f = NoFloor)
  <2> DEFINE u == [layout.used EXCEPT ![f] = @ + Space(t)]
             a == [layout.at EXCEPT ![t] = f]
  <2>1. p = [layout EXCEPT !.used[f] = @ + Space(t), !.at[t] = f]
    BY <1>3 DEF Put, f
  <2>2. u \in [Floors -> Int] /\ a \in [S -> Floors \cup {NoFloor}]
    <3>1. f \in Floors /\ layout.used \in [Floors -> Int] /\ Space(t) \in Nat
      BY <1>1, <1>3, SpaceType DEF LayoutStates
    <3>2. layout.used[f] + Space(t) \in Int
      BY <3>1
    <3> QED
      BY <3>1, <3>2 DEF LayoutStates
  <2>3. p = [layout EXCEPT !.used = u, !.at = a]
    BY <2>1 DEF LayoutStates
  <2> HIDE DEF u, a
  <2>4. \A z : z = [layout EXCEPT !.used = u, !.at = a] => z \in LayoutStates(S)
    BY <2>2 DEF LayoutStates
  <2> HIDE DEF p
  <2> QED
    BY <2>3, <2>4 DEF p
<1> QED
  BY <1>2, <1>3

\* What has been built of a layout at a set of positions of the order q.
PutStep(s, S, q, f) == [d \in SUBSET DOMAIN q |->
    IF d = {} THEN EmptyLayout(S) ELSE LET x == Max(d) IN Put(s, f[d \ {x}], q[x])]

\* The layout that is built along the order q, with a fold over sets of positions.
Built(s, S, q) == FoldLeft(LAMBDA layout, t : Put(s, layout, t), EmptyLayout(S), q)

\* A layout is built from the positions of the order, one after the other.
LEMMA BuiltDef ==
    ASSUME NEW s, NEW S, NEW q
    PROVE  Built(s, S, q) = (CHOOSE f : f = PutStep(s, S, q, f))[DOMAIN q]
BY Zenon DEF Built, FoldLeft, MapThenFoldSet, PutStep

\* An order of all vehicles has each of them once.
LEMMA OrderedOnce ==
    ASSUME NEW S, IsFiniteSet(S), NEW q \in SetToSeqs(S)
    PROVE  /\ Cardinality(S) \in Nat /\ q \in [1..Cardinality(S) -> S]
           /\ Once(q)
           /\ \A t \in S : \E i \in 1..Cardinality(S) : q[i] = t
<1> DEFINE D == 1..Cardinality(S)
<1>1. q \in [D -> S] /\ \A i, j \in D : i # j => q[i] # q[j]
  BY DEF SetToSeqs
<1>2. Cardinality(S) \in Nat
  BY FS_CardinalityType
<1>3. IsFiniteSet(D) /\ Cardinality(D) = Cardinality(S)
  BY <1>2, FS_Interval
<1>4. q \in Injection(D, S)
  BY <1>1 DEF Injection, IsInjective
<1>5. q \in Surjection(D, S)
  BY <1>3, <1>4, FS_Injection
<1> QED
  BY <1>1, <1>2, <1>5 DEF Surjection, Once

\* What is built along an order of the vehicles is right about all of them.
LEMMA BuiltLaid ==
    ASSUME NEW s \in Strategies, NEW S \in SUBSET Tickets, NEW q \in SetToSeqs(S)
    PROVE  Laid(S, S, Built(s, S, q))
<1> DEFINE n == Cardinality(S)
           D == 1..n
           L == LayoutStates(S)
           c == [d \in (SUBSET D) \ {{}} |-> Max(d)]
           h == [p \in D \X L |-> Put(s, p[2], q[p[1]])]
<1>1. /\ n \in Nat /\ DOMAIN q = D /\ IsFiniteSet(D) /\ Once(q)
      /\ \A x \in D : q[x] \in S
      /\ \A t \in S : \E i \in D : q[i] = t
  <2>1. IsFiniteSet(S)
    BY FS_Subset, PlanAssumption
  <2>2. n \in Nat /\ q \in [D -> S] /\ Once(q) /\ \A t \in S : \E i \in D : q[i] = t
    BY <2>1, OrderedOnce
  <2> HIDE DEF n
  <2> QED
    BY <2>2, FS_Interval
<1> HIDE DEF n
<1>2. c \in [(SUBSET D) \ {{}} -> D] /\ Chooses(D, c)
  BY <1>1, MaxType DEF Chooses
<1>3. h \in [D \X L -> L]
  <2>1. \A p \in D \X L : p[1] \in D /\ p[2] \in L /\ q[p[1]] \in S
    BY <1>1
  <2> HIDE DEF D, L
  <2>2. \A p \in D \X L : Put(s, p[2], q[p[1]]) \in L
    BY <2>1, PutType DEF L
  <2> QED
    BY <2>2
<1>4. \A x \in D : \A w \in L : h[<<x, w>>] = Put(s, w, q[x])
  OBVIOUS
<1>5. \A d \in (SUBSET D) \ {{}} : c[d] = Max(d) /\ Max(d) \in d
  BY <1>1, MaxType
<1>6. EmptyLayout(S) \in L
  BY EmptyLaid DEF Laid
<1> HIDE DEF c, h, L
<1>7. \E f : FoldSolution(D, L, EmptyLayout(S), c, h, f)
  <2> HIDE DEF D
  <2> QED
    BY <1>1, <1>2, <1>3, <1>6, FoldSolved
<1> DEFINE f == CHOOSE f : f = PutStep(s, S, q, f)
<1>8. f = PutStep(s, S, q, f)
  <2>1. PICK g : FoldSolution(D, L, EmptyLayout(S), c, h, g)
    BY <1>7
  <2>2. ASSUME NEW d \in SUBSET D PROVE g[d] = PutStep(s, S, q, g)[d]
    <3>1. CASE d = {}
      BY <1>1, <2>1, <3>1 DEF FoldSolution, PutStep
    <3>2. CASE d # {}
      <4>1. Max(d) \in D /\ c[d] = Max(d) /\ g[d \ {Max(d)}] \in L
        BY <1>5, <2>1, <3>2 DEF FoldSolution
      <4>2. g[d] = h[<<Max(d), g[d \ {Max(d)}]>>]
        BY <2>1, <3>2, <4>1 DEF FoldSolution
      <4> QED
        BY <1>1, <1>4, <3>2, <4>1, <4>2 DEF PutStep
    <3> QED
      BY <3>1, <3>2
  <2>3. g = PutStep(s, S, q, g)
    BY <1>1, <2>1, <2>2 DEF FoldSolution, PutStep
  <2> QED
    BY <2>3
<1> HIDE DEF f
<1>9. ASSUME NEW k \in Nat, k < n PROVE f[1..(k + 1)] = Put(s, f[1..k], q[k + 1])
  <2>1. Max(1..(k + 1)) = k + 1 /\ (1..(k + 1)) \ {k + 1} = 1..k /\ 1..(k + 1) # {}
    <3>1. k + 1 \in Nat /\ k + 1 > 0 /\ (k + 1) - 1 = k
      OBVIOUS
    <3> QED
      BY <3>1, MaxUpTo
  <2>2. 1..(k + 1) \in SUBSET DOMAIN q
    BY <1>1, <1>9
  <2>3. f[1..(k + 1)] = PutStep(s, S, q, f)[1..(k + 1)]
    BY <1>8
  <2> QED
    BY <2>1, <2>2, <2>3 DEF PutStep
<1>10. f[1..0] = EmptyLayout(S)
  <2>1. 1..0 = {} /\ 1..0 \in SUBSET DOMAIN q
    OBVIOUS
  <2>2. f[1..0] = PutStep(s, S, q, f)[1..0]
    BY <1>8
  <2> QED
    BY <2>1, <2>2 DEF PutStep
<1> DEFINE Upto(k) == {q[i] : i \in 1..k}
           G == {k \in 0..n : Laid(S, Upto(k), f[1..k])}
<1>11. ASSUME NEW k \in Nat, k < n, Laid(S, Upto(k), f[1..k])
       PROVE  Laid(S, Upto(k + 1), f[1..(k + 1)])
  <2>1. k + 1 \in D /\ q[k + 1] \in S
    BY <1>1, <1>11
  <2>2. \A i \in 1..k : i \in D /\ i # k + 1
    BY <1>1, <1>11
  <2>3. q[k + 1] \notin Upto(k) /\ Upto(k) \in SUBSET S
    BY <1>1, <2>1, <2>2 DEF Once
  <2>4. Upto(k + 1) = Upto(k) \cup {q[k + 1]}
    <3>1. \A i \in 1..(k + 1) : i \in 1..k \/ i = k + 1
      OBVIOUS
    <3>2. \A i \in 1..k : i \in 1..(k + 1)
      OBVIOUS
    <3>3. k + 1 \in 1..(k + 1)
      OBVIOUS
    <3> QED
      BY <3>1, <3>2, <3>3
  <2> HIDE DEF Upto
  <2>5. q[k + 1] \in S \ Upto(k)
    BY <2>1, <2>3
  <2>6. Laid(S, Upto(k) \cup {q[k + 1]}, Put(s, f[1..k], q[k + 1]))
    BY <1>11, <2>3, <2>5, PutLaid
  <2> QED
    BY <1>9, <1>11, <2>4, <2>6
<1>12. n \in G
  <2>1. Upto(0) = {}
    OBVIOUS
  <2> HIDE DEF Upto
  <2>2. Laid(S, Upto(0), f[1..0])
    BY <1>10, <2>1, EmptyLaid
  <2>4. 0 \in G
    BY <1>1, <2>2
  <2>3. \A k \in Nat : k < n /\ k \in G => k + 1 \in G
    BY <1>1, <1>11
  <2> HIDE DEF G
  <2> QED
    BY <1>1, <2>3, <2>4, CountingUp
<1>13. Upto(n) = S
  BY <1>1
<1>14. Laid(S, S, f[1..n])
  <2> HIDE DEF Upto
  <2> QED
    BY <1>12, <1>13
<1> QED
  BY <1>1, <1>14, BuiltDef DEF f

\* A layout has a floor for every vehicle, and no floor has more than fits.
THEOREM LayoutsFit ==
    ASSUME NEW s \in Strategies, NEW S \in SUBSET Tickets, NEW layout \in Layouts(s, S)
    PROVE  /\ layout \in [S -> Floors]
           /\ \A f \in Floors : SpaceOf({t \in S : layout[t] = f}) <= Capacity
<1>1. PICK q \in SetToSeqs(S) : ~Built(s, S, q).failed /\ layout = Built(s, S, q).at
  BY Zenon DEF Layouts, Visits, Built
<1>2. Laid(S, S, Built(s, S, q))
  BY BuiltLaid
<1> QED
  BY <1>1, <1>2 DEF Laid, LayoutStates

-----------------------------------------------------------------------------
(* Sequences and their members *)

\* A concatenation has the members of both, and repeats nothing when neither
\* does and they share nothing.
LEMMA Concatenated ==
    ASSUME NEW X, NEW s \in Seq(X), NEW w \in Seq(X)
    PROVE  /\ s \o w \in Seq(X) /\ Len(s \o w) = Len(s) + Len(w)
           /\ ToSet(s \o w) = ToSet(s) \cup ToSet(w)
           /\ Once(s) /\ Once(w) /\ ToSet(s) \cap ToSet(w) = {} => Once(s \o w)
<1> DEFINE m == Len(s)
           n == Len(w)
           a == s \o w
<1>1. /\ m \in Nat /\ n \in Nat /\ DOMAIN s = 1..m /\ DOMAIN w = 1..n
      /\ a \in Seq(X) /\ Len(a) = m + n /\ DOMAIN a = 1..(m + n)
  BY LenProperties, ConcatProperties
<1>2. \A i \in 1..(m + n) : a[i] = IF i <= m THEN s[i] ELSE w[i - m]
  BY ConcatProperties
<1> HIDE DEF a, m, n
<1>3. /\ \A i \in 1..m : i \in 1..(m + n) /\ a[i] = s[i]
      /\ \A i \in 1..n : m + i \in 1..(m + n) /\ a[m + i] = w[i]
  <2>1. \A i \in 1..m : i \in 1..(m + n) /\ i <= m
    BY <1>1
  <2>2. \A i \in 1..n : m + i \in 1..(m + n) /\ ~(m + i <= m) /\ (m + i) - m = i
    BY <1>1
  <2> QED
    BY <1>2, <2>1, <2>2
<1>4. \A i \in 1..(m + n) : i \in 1..m \/ \E k \in 1..n : i = m + k
  <2>1. ASSUME NEW i \in 1..(m + n), i \notin 1..m PROVE i - m \in 1..n /\ i = m + (i - m)
    BY <1>1, <2>1
  <2> QED
    BY <2>1
<1>5. ToSet(a) = ToSet(s) \cup ToSet(w)
  <2> DEFINE A == 1..(m + n)
             M == 1..m
             N == 1..n
             sum(i) == m + i
  <2>1. ToSet(a) = {a[i] : i \in A} /\ ToSet(s) = {s[i] : i \in M} /\ ToSet(w) = {w[i] : i \in N}
    BY <1>1 DEF ToSet
  <2>2. /\ \A i \in M : i \in A /\ a[i] = s[i]
        /\ \A i \in N : sum(i) \in A /\ a[sum(i)] = w[i]
        /\ \A i \in A : i \in M \/ \E k \in N : i = sum(k)
    BY <1>3, <1>4
  <2> HIDE DEF A, M, N, sum
  <2> QED
    BY <2>1, <2>2
<1>6. ASSUME Once(s), Once(w), ToSet(s) \cap ToSet(w) = {},
             NEW i \in 1..(m + n), NEW k \in 1..(m + n), a[i] = a[k]
      PROVE  i = k
  <2>1. \A u \in 1..m : \A v \in 1..n : s[u] # w[v]
    BY <1>1, <1>6 DEF ToSet
  <2>2. CASE i \in 1..m /\ k \in 1..m
    BY <1>1, <1>3, <1>6, <2>2 DEF Once
  <2>3. CASE \E u \in 1..n : i = m + u
    <3>1. PICK u \in 1..n : i = m + u
      BY <2>3
    <3>2. CASE k \in 1..m
      BY <1>3, <1>6, <2>1, <3>1, <3>2
    <3>3. CASE \E v \in 1..n : k = m + v
      <4>1. PICK v \in 1..n : k = m + v
        BY <3>3
      <4>2. a[i] = w[u] /\ a[k] = w[v]
        BY <1>3, <3>1, <4>1
      <4>3. w[u] = w[v]
        BY <1>6, <4>2
      <4>4. u = v
        BY <1>1, <1>6, <4>3 DEF Once
      <4> QED
        BY <3>1, <4>1, <4>4
    <3> QED
      BY <1>4, <3>2, <3>3
  <2>4. CASE i \in 1..m /\ \E v \in 1..n : k = m + v
    BY <1>3, <1>6, <2>1, <2>4
  <2> QED
    BY <1>4, <2>2, <2>3, <2>4
<1>7. Once(s) /\ Once(w) /\ ToSet(s) \cap ToSet(w) = {} => Once(a)
  BY <1>1, <1>6 DEF Once
<1> QED
  BY <1>1, <1>5, <1>7 DEF a, m, n

\* The last member and those before it.
LEMMA FrontLast ==
    ASSUME NEW X, NEW s \in Seq(X), s # << >>
    PROVE  /\ Front(s) \in Seq(X) /\ Len(Front(s)) = Len(s) - 1
           /\ Last(s) \in X
           /\ ToSet(s) = ToSet(Front(s)) \cup {Last(s)}
           /\ Once(s) => Once(Front(s)) /\ Last(s) \notin ToSet(Front(s))
<1> DEFINE n == Len(s)
           f == Front(s)
<1>1. n \in Nat /\ n > 0 /\ DOMAIN s = 1..n /\ \A i \in 1..n : s[i] \in X
  BY LenProperties, EmptySeq
<1>2. f \in Seq(X) /\ Len(f) = n - 1 /\ \A i \in 1..(n - 1) : f[i] = s[i]
  <2>1. \A i \in 1..(n - 1) : s[i] \in X
    BY <1>1
  <2>2. f = SubSeq(s, 1, n - 1)
    BY DEF Front
  <2> HIDE DEF n, f
  <2>3. 1 \in Int /\ n - 1 \in Int
    BY <1>1
  <2> DEFINE g == SubSeq(s, 1, n - 1)
  <2>4. /\ g \in Seq(X)
        /\ Len(g) = IF 1 <= n - 1 THEN (n - 1) - 1 + 1 ELSE 0
        /\ \A i \in 1..((n - 1) - 1 + 1) : g[i] = s[1 + i - 1]
    BY <2>1, <2>3, SubSeqProperties
  <2> HIDE DEF g
  <2>5. Len(g) = n - 1
    BY <1>1, <2>4
  <2>6. \A i \in 1..(n - 1) : g[i] = s[i]
    <3>1. \A i \in 1..(n - 1) : i \in 1..((n - 1) - 1 + 1) /\ 1 + i - 1 = i
      BY <1>1
    <3> QED
      BY <2>4, <3>1
  <2> QED
    BY <2>2, <2>4, <2>5, <2>6 DEF g
<1>3. Last(s) = s[n] /\ n \in 1..n
  BY <1>1 DEF Last
<1>4. DOMAIN f = 1..(n - 1)
  BY <1>1, <1>2, LenProperties
<1> HIDE DEF n, f
<1>5. /\ \A i \in 1..n : i \in 1..(n - 1) \/ i = n
      /\ \A i \in 1..(n - 1) : i \in 1..n /\ i # n
  BY <1>1
<1>6. ToSet(s) = ToSet(f) \cup {Last(s)}
  BY <1>1, <1>2, <1>3, <1>4, <1>5 DEF ToSet
<1>7. Once(s) => Once(f) /\ Last(s) \notin ToSet(f)
  BY <1>1, <1>2, <1>3, <1>4, <1>5 DEF ToSet, Once
<1> QED
  BY <1>1, <1>2, <1>3, <1>6, <1>7 DEF f, n

\* The first member and those after it.
LEMMA HeadTail ==
    ASSUME NEW X, NEW s \in Seq(X), s # << >>
    PROVE  /\ Head(s) \in X /\ Tail(s) \in Seq(X) /\ Len(Tail(s)) = Len(s) - 1
           /\ ToSet(s) = {Head(s)} \cup ToSet(Tail(s))
           /\ Once(s) => Once(Tail(s)) /\ Head(s) \notin ToSet(Tail(s))
<1> DEFINE n == Len(s)
           t == Tail(s)
<1>1. n \in Nat /\ n > 0 /\ DOMAIN s = 1..n
  BY LenProperties, EmptySeq
<1>2. /\ t \in Seq(X) /\ Len(t) = n - 1 /\ Head(s) \in X
      /\ \A i \in 1..(n - 1) : t[i] = s[i + 1]
  BY HeadTailProperties
<1>3. DOMAIN t = 1..(n - 1) /\ Head(s) = s[1] /\ 1 \in 1..n
  BY <1>1, <1>2, LenProperties
<1> HIDE DEF n, t
<1>4. /\ \A i \in 1..(n - 1) : i + 1 \in 1..n /\ i + 1 # 1
      /\ \A i \in 1..n : i = 1 \/ (i - 1 \in 1..(n - 1) /\ (i - 1) + 1 = i)
  BY <1>1
<1> DEFINE S == 1..n
           T == 1..(n - 1)
           up(i) == i + 1
           x == Head(s)
<1>5. /\ ToSet(s) = {s[i] : i \in S} /\ ToSet(t) = {t[i] : i \in T} /\ DOMAIN s = S
      /\ DOMAIN t = T
  BY <1>1, <1>3 DEF ToSet
<1>6. /\ 1 \in S /\ s[1] = x
      /\ \A i \in T : up(i) \in S /\ up(i) # 1 /\ t[i] = s[up(i)]
      /\ \A i \in S : i = 1 \/ \E k \in T : i = up(k)
      /\ \A i, k \in T : up(i) = up(k) => i = k
  <2>1. \A i \in S : i = 1 \/ \E k \in T : i = up(k)
    BY <1>4
  <2>2. \A i, k \in T : up(i) = up(k) => i = k
    BY <1>1
  <2> QED
    BY <1>2, <1>3, <1>4, <2>1, <2>2
<1> HIDE DEF S, T, up, x
<1>7. ToSet(s) = {x} \cup ToSet(t)
  BY <1>5, <1>6
<1>8. Once(s) => Once(t) /\ x \notin ToSet(t)
  BY <1>5, <1>6 DEF Once
<1> QED
  BY <1>2, <1>7, <1>8 DEF t, n, x

\* One member.
LEMMA Single ==
    ASSUME NEW X, NEW x \in X
    PROVE  <<x>> \in Seq(X) /\ Len(<<x>>) = 1 /\ ToSet(<<x>>) = {x} /\ Once(<<x>>) /\ <<x>> # << >>
<1>1. DOMAIN <<x>> = {1} /\ <<x>>[1] = x
  OBVIOUS
<1> QED
  BY <1>1 DEF ToSet, Once

\* Nothing.
LEMMA Nothing == ToSet(<< >>) = {} /\ Once(<< >>)
BY DEF ToSet, Once

\* The members of a sequence are in the set it is over.
LEMMA ToSetType ==
    ASSUME NEW X, NEW s \in Seq(X)
    PROVE  ToSet(s) \subseteq X /\ (ToSet(s) = {} <=> s = << >>) /\ s \in Seq(ToSet(s))
<1> DEFINE n == Len(s)
<1>1. n \in Nat /\ s \in [1..n -> X] /\ DOMAIN s = 1..n
  BY LenProperties
<1>2. ToSet(s) \subseteq X
  BY <1>1 DEF ToSet
<1>3. ASSUME s # << >> PROVE ToSet(s) # {}
  <2>1. 1 \in 1..n
    BY <1>1, <1>3, EmptySeq
  <2> QED
    BY <1>1, <2>1 DEF ToSet
<1>4. s \in Seq(ToSet(s))
  <2>1. \A i \in 1..n : s[i] \in ToSet(s)
    BY <1>1 DEF ToSet
  <2>2. s \in [1..n -> ToSet(s)]
    BY <1>1, <2>1
  <2> QED
    BY <1>1, <2>2
<1> QED
  BY <1>2, <1>3, <1>4, Nothing

\* A sequence that repeats nothing is as long as it has members.
LEMMA OnceLength ==
    ASSUME NEW X, NEW s \in Seq(X), Once(s)
    PROVE  IsFiniteSet(ToSet(s)) /\ Cardinality(ToSet(s)) = Len(s)
<1> DEFINE n == Len(s)
           D == 1..n
           T == ToSet(s)
<1>1. n \in Nat /\ DOMAIN s = D /\ s \in [D -> T] /\ \A t \in T : \E i \in D : s[i] = t
  <2>1. n \in Nat /\ DOMAIN s = D /\ s \in [D -> X]
    BY LenProperties
  <2> QED
    BY <2>1 DEF ToSet
<1>2. IsFiniteSet(D) /\ Cardinality(D) = n
  <2>1. n \in Nat
    BY <1>1
  <2> HIDE DEF n
  <2> QED
    BY <2>1, FS_Interval
<1>3. s \in Surjection(D, T) /\ s \in Injection(D, T)
  BY <1>1 DEF Surjection, Injection, IsInjective, Once
<1> HIDE DEF D, T
<1> QED
  BY <1>2, <1>3, FS_Surjection DEF T

-----------------------------------------------------------------------------
(* Walks.  A walk from x ends there, or is a member of X followed by a walk from
   elsewhere; steps[x] is the set of these pairs. *)

Onward(c, walks) == {<<c>> \o rest : rest \in walks}
WalkStep(S, ends, steps, f) == [x \in S |->
    IF x \in ends THEN {<< >>}
    ELSE UNION {Onward(p[1], f[p[2]]) : p \in steps[x]}]

Descends(S, m, X, ends, steps) ==
    \A x \in S \ ends : steps[x] \subseteq X \X Below(S, m, x)

\* Walks that go down in a measure can be defined.
LEMMA WalksSolved ==
    ASSUME NEW S, NEW m \in [S -> Nat], NEW X, NEW ends \in SUBSET S, NEW steps,
           Descends(S, m, X, ends, steps)
    PROVE  \E f : f = WalkStep(S, ends, steps, f)
<1> DEFINE V == SUBSET Seq(X)
           P == UNION {{x} \X [Below(S, m, x) -> V] : x \in S}
           value(x, g) == IF x \in ends THEN {<< >>}
               ELSE UNION {Onward(p[1], g[p[2]]) : p \in steps[x]}
           G == [p \in P |-> value(p[1], p[2])]
<1>1. ASSUME NEW x \in S \ ends, NEW p \in steps[x]
      PROVE  p[1] \in X /\ p[2] \in Below(S, m, x) /\ p[2] \in S
  BY DEF Descends, Below
<1>2. ASSUME NEW x \in S, NEW g \in [Below(S, m, x) -> V] PROVE G[<<x, g>>] = value(x, g)
  <2> HIDE DEF G, V, value
  <2>1. <<x, g>> \in P
    OBVIOUS
  <2> HIDE DEF P
  <2> USE DEF G
  <2> QED
    BY <2>1
<1> HIDE DEF G
<1>3. StaysIn(S, m, G, V)
  <2> SUFFICES ASSUME NEW x \in S, NEW g \in [Below(S, m, x) -> V] PROVE value(x, g) \in V
    BY <1>2 DEF StaysIn
  <2>1. CASE x \in ends
    <3>1. << >> \in Seq(X)
      OBVIOUS
    <3> QED
      BY <2>1, <3>1
  <2>2. CASE x \notin ends
    <3>1. ASSUME NEW p \in steps[x], NEW rest \in g[p[2]] PROVE <<p[1]>> \o rest \in Seq(X)
      <4> DEFINE c == p[1]
                 e == <<c>>
      <4>1. c \in X /\ g[p[2]] \in V
        BY <1>1, <2>2
      <4>2. rest \in Seq(X)
        BY <4>1
      <4>3. e \in Seq(X)
        <5> HIDE DEF c
        <5> QED
          BY <4>1, Single
      <4> HIDE DEF e
      <4>4. e \o rest \in Seq(X)
        BY <4>2, <4>3, Concatenated
      <4> QED
        BY <4>4 DEF e
    <3>2. ASSUME NEW p \in steps[x] PROVE Onward(p[1], g[p[2]]) \in V
      BY <3>1 DEF Onward
    <3> QED
      BY <2>2, <3>2
  <2> QED
    BY <2>1, <2>2
<1>4. PICK f : Solution(S, m, G, V, f)
  <2> HIDE DEF V
  <2> QED
    BY <1>3, RecursionSolved
<1>5. ASSUME NEW x \in S PROVE f[x] = value(x, f)
  <2> DEFINE g == Part(S, m, x, f)
  <2>1. g \in [Below(S, m, x) -> V]
    BY <1>4 DEF Part, Below, Solution
  <2>2. f[x] = G[<<x, g>>]
    BY <1>4 DEF Solution
  <2>3. f[x] = value(x, g)
    BY <1>2, <2>1, <2>2
  <2>4. ASSUME x \notin ends, NEW p \in steps[x] PROVE g[p[2]] = f[p[2]]
    BY <1>1, <2>4 DEF Part
  <2>5. value(x, g) = value(x, f)
    <3> HIDE DEF g
    <3> QED
      BY <2>4
  <2> QED
    BY <2>3, <2>5
<1>6. f = WalkStep(S, ends, steps, f)
  BY <1>4, <1>5 DEF Solution, WalkStep
<1> QED
  BY <1>6

\* R holds of every walk: of the one that ends, and of a step before a walk of
\* which it holds.
Kept(S, ends, steps, R) ==
    /\ \A x \in ends : << >> \in R[x]
    /\ \A x \in S \ ends : \A p \in steps[x] : \A w \in R[p[2]] : <<p[1]>> \o w \in R[x]

\* What every step keeps holds of every walk.
LEMMA WalkInduction ==
    ASSUME NEW S, NEW m \in [S -> Nat], NEW X, NEW ends \in SUBSET S, NEW steps,
           Descends(S, m, X, ends, steps), NEW f, f = WalkStep(S, ends, steps, f),
           NEW R, Kept(S, ends, steps, R)
    PROVE  \A x \in S : f[x] \subseteq R[x]
<1> DEFINE T == {x \in S : f[x] \subseteq R[x]}
<1>1. ASSUME NEW x \in S, Below(S, m, x) \subseteq T, NEW v \in f[x] PROVE v \in R[x]
  <2>1. f[x] = IF x \in ends THEN {<< >>} ELSE UNION {Onward(p[1], f[p[2]]) : p \in steps[x]}
    <3>1. f[x] = WalkStep(S, ends, steps, f)[x]
      OBVIOUS
    <3> QED
      BY <3>1 DEF WalkStep
  <2>2. CASE x \in ends
    <3>1. v = << >>
      BY <1>1, <2>1, <2>2
    <3> QED
      BY <2>2, <3>1 DEF Kept
  <2>3. CASE x \notin ends
    <3>1. PICK p \in steps[x] : v \in Onward(p[1], f[p[2]])
      BY <1>1, <2>1, <2>3
    <3> PICK rest \in f[p[2]] : v = <<p[1]>> \o rest
      BY <3>1 DEF Onward
    <3>2. p[2] \in T
      BY <1>1, <2>3 DEF Descends
    <3> QED
      BY <2>3, <3>2 DEF Kept
  <2> QED
    BY <2>2, <2>3
<1>2. Inductive(S, m, T)
  BY <1>1 DEF Inductive
<1>3. S \subseteq T
  <2> HIDE DEF T
  <2>1. T \in SUBSET S
    BY DEF T
  <2> QED
    BY <1>2, <2>1, MeasureInduction
<1> QED
  BY <1>3

\* The walks that begin with c.
Leads(c, Q, g) == {<<c, g[q]>> : q \in Q}

\* Going on to many places is the union of going on to each.
LEMMA OnwardUnion ==
    ASSUME NEW c, NEW Q, NEW g, NEW f
    PROVE  Onward(c, UNION {f[g[q]] : q \in Q})
               = UNION {Onward(p[1], f[p[2]]) : p \in Leads(c, Q, g)}
<1> DEFINE P == Leads(c, Q, g)
<1>1. ASSUME NEW v \in Onward(c, UNION {f[g[q]] : q \in Q})
      PROVE  v \in UNION {Onward(p[1], f[p[2]]) : p \in P}
  <2>1. PICK q \in Q : \E rest \in f[g[q]] : v = <<c>> \o rest
    BY <1>1 DEF Onward
  <2> DEFINE p == <<c, g[q]>>
  <2>2. p \in P /\ p[1] = c /\ p[2] = g[q]
    BY DEF Leads
  <2> HIDE DEF p
  <2>3. v \in Onward(p[1], f[p[2]])
    BY <2>1, <2>2 DEF Onward
  <2> QED
    BY <2>2, <2>3
<1>2. ASSUME NEW v \in UNION {Onward(p[1], f[p[2]]) : p \in P}
      PROVE  v \in Onward(c, UNION {f[g[q]] : q \in Q})
  <2>1. PICK p \in P : v \in Onward(p[1], f[p[2]])
    BY <1>2
  <2>2. PICK q \in Q : p = <<c, g[q]>>
    BY DEF Leads
  <2>3. PICK rest \in f[g[q]] : v = <<c>> \o rest
    BY <2>1, <2>2 DEF Onward
  <2> QED
    BY <2>3 DEF Onward
<1> QED
  BY <1>1, <1>2

-----------------------------------------------------------------------------
(* The search for the moves that are connected with one *)

Linked(moves, a, b) == Before(moves, a, b) \/ Before(moves, b, a)

\* Some moves with all that are linked to them.
Closed(moves, C) ==
    \A a \in C \cap DOMAIN moves : \A b \in DOMAIN moves : Linked(moves, a, b) => b \in C

SearchStates(D) == [stack : Seq(D), visited : SUBSET D]
Fresh(moves, x) == {n \in (DOMAIN moves) \ x.visited :
                       Before(moves, Last(x.stack), n) \/ Before(moves, n, Last(x.stack))}
Pushed(moves, x, pushed) ==
    [stack |-> Front(x.stack) \o pushed, visited |-> x.visited \cup Fresh(moves, x)]
SearchStep(moves, f) == [x \in SearchStates(DOMAIN moves) |->
    IF x.stack = << >> THEN {<< >>}
    ELSE {<<Last(x.stack)>> \o rest : rest \in
             UNION {f[Pushed(moves, x, pushed)] : pushed \in SetToSeqs(Fresh(moves, x))}}]
SearchTable(moves) == CHOOSE f : f = SearchStep(moves, f)

\* Searches is a recursion over the states of the search.
LEMMA SearchesDef ==
    ASSUME NEW moves, NEW start
    PROVE  Searches(moves, start) = SearchTable(moves)[[stack |-> <<start>>, visited |-> {start}]]
BY Zenon DEF Searches, SearchTable, SearchStep, SearchStates, Fresh, Pushed

\* How much the search has still to visit.
SearchMeasure(D) == [x \in SearchStates(D) |-> Cardinality(D \ x.visited) + Len(x.stack)]

\* The measure of the search is a natural number.
LEMMA SearchMeasureType ==
    ASSUME NEW D, IsFiniteSet(D)
    PROVE  SearchMeasure(D) \in [SearchStates(D) -> Nat]
<1>1. ASSUME NEW x \in SearchStates(D) PROVE Cardinality(D \ x.visited) + Len(x.stack) \in Nat
  <2>1. Cardinality(D \ x.visited) \in Nat
    BY FS_Subset, FS_CardinalityType
  <2>2. Len(x.stack) \in Nat
    BY DEF SearchStates
  <2> QED
    BY <2>1, <2>2
<1> QED
  BY <1>1 DEF SearchMeasure

\* An order of some moves has each of them once.
LEMMA PushedOrder ==
    ASSUME NEW D, IsFiniteSet(D), NEW S \in SUBSET D, NEW q \in SetToSeqs(S)
    PROVE  /\ q \in Seq(D) /\ Len(q) = Cardinality(S) /\ Once(q) /\ ToSet(q) = S
           /\ Cardinality(S) \in Nat
<1>1. IsFiniteSet(S)
  BY FS_Subset
<1>2. /\ Cardinality(S) \in Nat /\ q \in [1..Cardinality(S) -> S] /\ Once(q)
      /\ \A t \in S : \E i \in 1..Cardinality(S) : q[i] = t
  BY <1>1, OrderedOnce
<1>3. q \in Seq(S) /\ Len(q) = Cardinality(S)
  BY <1>2
<1>4. ToSet(q) = S
  BY <1>2 DEF ToSet
<1>5. q \in Seq(D)
  BY <1>3, SeqMonotonic
<1> QED
  BY <1>2, <1>3, <1>4, <1>5

\* A step of the search goes down.
LEMMA SearchGoesDown ==
    ASSUME NEW moves, IsFiniteSet(DOMAIN moves), NEW x \in SearchStates(DOMAIN moves),
           x.stack # << >>, NEW pushed \in SetToSeqs(Fresh(moves, x))
    PROVE  Pushed(moves, x, pushed)
               \in Below(SearchStates(DOMAIN moves), SearchMeasure(DOMAIN moves), x)
<1> DEFINE D == DOMAIN moves
           next == Fresh(moves, x)
           y == Pushed(moves, x, pushed)
<1>1. x.stack \in Seq(D) /\ x.visited \in SUBSET D /\ next \in SUBSET (D \ x.visited)
  BY DEF SearchStates, Fresh
<1>2. Front(x.stack) \in Seq(D) /\ Len(Front(x.stack)) = Len(x.stack) - 1 /\ Len(x.stack) \in Nat
  BY <1>1, FrontLast, LenProperties
<1>3. pushed \in Seq(D) /\ Len(pushed) = Cardinality(next) /\ Cardinality(next) \in Nat
  <2>1. next \in SUBSET D
    BY <1>1
  <2> QED
    BY <2>1, PushedOrder
<1>4. y.stack = Front(x.stack) \o pushed /\ y.visited = x.visited \cup next
  BY DEF Pushed
<1>5. y.stack \in Seq(D) /\ Len(y.stack) = (Len(x.stack) - 1) + Cardinality(next)
  <2>1. /\ Front(x.stack) \o pushed \in Seq(D)
        /\ Len(Front(x.stack) \o pushed) = Len(Front(x.stack)) + Len(pushed)
    BY <1>2, <1>3, Concatenated
  <2> HIDE DEF y
  <2> QED
    BY <1>2, <1>3, <1>4, <2>1
<1>6. y \in SearchStates(D)
  BY <1>1, <1>4, <1>5 DEF SearchStates, Pushed
<1>7. /\ Cardinality(D \ y.visited) = Cardinality(D \ x.visited) - Cardinality(next)
      /\ Cardinality(D \ x.visited) \in Nat
  <2> DEFINE A == D \ x.visited
  <2>1. IsFiniteSet(A) /\ A \cap next = next /\ A \ next = D \ y.visited
    BY <1>1, <1>4, FS_Subset
  <2>2. Cardinality(A \ next) = Cardinality(A) - Cardinality(A \cap next)
    BY <2>1, FS_Difference
  <2> QED
    BY <2>1, <2>2, FS_CardinalityType
<1>8. /\ SearchMeasure(D)[y] = Cardinality(D \ y.visited) + Len(y.stack)
      /\ SearchMeasure(D)[x] = Cardinality(D \ x.visited) + Len(x.stack)
  BY <1>6 DEF SearchMeasure
<1> HIDE DEF y, next, D
<1>9. SearchMeasure(D)[y] < SearchMeasure(D)[x]
  BY <1>2, <1>3, <1>5, <1>7, <1>8
<1> QED
  BY <1>6, <1>9 DEF Below, y, D

\* The search as a walk.
SearchEnds(D) == {x \in SearchStates(D) : x.stack = << >>}
SearchSteps(moves) == [x \in SearchStates(DOMAIN moves) |->
    {<<Last(x.stack), Pushed(moves, x, pushed)>> : pushed \in SetToSeqs(Fresh(moves, x))}]

\* The recursion of the search is that of a walk.
LEMMA SearchWalks ==
    ASSUME NEW moves, NEW f
    PROVE  SearchStep(moves, f)
               = WalkStep(SearchStates(DOMAIN moves), SearchEnds(DOMAIN moves), SearchSteps(moves), f)
<1> DEFINE S == SearchStates(DOMAIN moves)
<1>1. ASSUME NEW x \in S
      PROVE  {<<Last(x.stack)>> \o rest : rest \in
                 UNION {f[Pushed(moves, x, pushed)] : pushed \in SetToSeqs(Fresh(moves, x))}}
              = UNION {Onward(p[1], f[p[2]]) : p \in SearchSteps(moves)[x]}
  <2> DEFINE c == Last(x.stack)
             Q == SetToSeqs(Fresh(moves, x))
             g == [q \in Q |-> Pushed(moves, x, q)]
  <2>1. SearchSteps(moves)[x] = Leads(c, Q, g)
    BY DEF SearchSteps, Leads
  <2>2. {f[Pushed(moves, x, q)] : q \in Q} = {f[g[q]] : q \in Q}
    OBVIOUS
  <2> HIDE DEF c, Q, g
  <2>3. Onward(c, UNION {f[g[q]] : q \in Q})
          = UNION {Onward(p[1], f[p[2]]) : p \in SearchSteps(moves)[x]}
    BY <2>1, OnwardUnion
  <2> QED
    BY <2>2, <2>3 DEF c, Q, Onward
<1> QED
  BY <1>1 DEF SearchStep, WalkStep, SearchEnds

\* A state that the search is in: what is on the stack has been visited, and
\* what was visited and is no longer there has had its neighbours visited.
Tidy(moves, x) ==
    /\ Once(x.stack)
    /\ ToSet(x.stack) \subseteq x.visited
    /\ \A a \in x.visited \ ToSet(x.stack) : \A b \in DOMAIN moves : Linked(moves, a, b) => b \in x.visited

\* What the search finds from the state x on.
Finds(moves, x, w) ==
    /\ w \in Seq(DOMAIN moves)
    /\ Tidy(moves, x) =>
          /\ Once(w)
          /\ ToSet(w) \cap x.visited = ToSet(x.stack)
          /\ Closed(moves, x.visited \cup ToSet(w))
          /\ \A C \in SUBSET DOMAIN moves :
                Closed(moves, C) /\ ToSet(x.stack) \subseteq C => ToSet(w) \subseteq C

\* An empty stack ends the search.
LEMMA FindsNothing ==
    ASSUME NEW moves, NEW x \in SearchStates(DOMAIN moves), x.stack = << >>
    PROVE  Finds(moves, x, << >>)
<1>1. ToSet(x.stack) = {} /\ Once(<< >>) /\ << >> \in Seq(DOMAIN moves)
  BY Nothing
<1>2. Tidy(moves, x) => Closed(moves, x.visited \cup ToSet(<< >>))
  BY <1>1 DEF Tidy, Closed
<1> QED
  BY <1>1, <1>2 DEF Finds

\* The next state of the search is tidy.
LEMMA StaysTidy ==
    ASSUME NEW moves, IsFiniteSet(DOMAIN moves), NEW x \in SearchStates(DOMAIN moves),
           x.stack # << >>, NEW pushed \in SetToSeqs(Fresh(moves, x)), Tidy(moves, x)
    PROVE  /\ Tidy(moves, Pushed(moves, x, pushed))
           /\ ToSet(Pushed(moves, x, pushed).stack)
                  = ToSet(Front(x.stack)) \cup Fresh(moves, x)
<1> DEFINE D == DOMAIN moves
           next == Fresh(moves, x)
           y == Pushed(moves, x, pushed)
           f == Front(x.stack)
           id == Last(x.stack)
<1>1. x.stack \in Seq(D) /\ x.visited \in SUBSET D /\ next \in SUBSET D /\ next \cap x.visited = {}
  BY DEF SearchStates, Fresh
<1>2. /\ f \in Seq(D) /\ id \in D /\ ToSet(x.stack) = ToSet(f) \cup {id}
      /\ Once(f) /\ id \notin ToSet(f)
  BY <1>1, FrontLast DEF Tidy
<1>3. pushed \in Seq(D) /\ Once(pushed) /\ ToSet(pushed) = next
  BY <1>1, PushedOrder
<1>4. y.stack = f \o pushed /\ y.visited = x.visited \cup next
  BY DEF Pushed
<1>5. ToSet(x.stack) \subseteq x.visited
  BY DEF Tidy
<1> HIDE DEF f, id, next, y
<1>6. ToSet(f) \cap ToSet(pushed) = {}
  BY <1>1, <1>2, <1>3, <1>5
<1>7. Once(y.stack) /\ ToSet(y.stack) = ToSet(f) \cup next
  BY <1>2, <1>3, <1>4, <1>6, Concatenated
<1>8. ASSUME NEW a \in y.visited \ ToSet(y.stack), NEW b \in D, Linked(moves, a, b)
      PROVE  b \in y.visited
  <2>1. a \in x.visited /\ a \notin ToSet(f)
    BY <1>4, <1>7, <1>8
  <2>2. CASE a = id
    BY <1>4, <1>8, <2>2 DEF Linked, Fresh, next, id
  <2>3. CASE a # id
    BY <1>2, <1>4, <1>8, <2>1, <2>3 DEF Tidy
  <2> QED
    BY <2>2, <2>3
<1>9. Tidy(moves, y)
  <2>1. ToSet(y.stack) \subseteq y.visited
    BY <1>2, <1>4, <1>5, <1>7
  <2> QED
    BY <1>7, <1>8, <2>1 DEF Tidy
<1> QED
  BY <1>7, <1>9 DEF y, f, next

\* What is found from the next state on is, behind the move on the top of the
\* stack, what is found from this one on.
LEMMA FindsNext ==
    ASSUME NEW moves, IsFiniteSet(DOMAIN moves), NEW x \in SearchStates(DOMAIN moves),
           x.stack # << >>, NEW pushed \in SetToSeqs(Fresh(moves, x)), NEW w,
           Finds(moves, Pushed(moves, x, pushed), w)
    PROVE  Finds(moves, x, <<Last(x.stack)>> \o w)
<1> DEFINE D == DOMAIN moves
           next == Fresh(moves, x)
           y == Pushed(moves, x, pushed)
           f == Front(x.stack)
           id == Last(x.stack)
           v == <<id>> \o w
<1>1. x.stack \in Seq(D) /\ x.visited \in SUBSET D /\ next \in SUBSET D /\ next \cap x.visited = {}
  BY DEF SearchStates, Fresh
<1>2. id \in D /\ ToSet(x.stack) = ToSet(f) \cup {id}
  BY <1>1, FrontLast
<1>3. w \in Seq(D)
  BY DEF Finds
<1>4. <<id>> \in Seq(D) /\ ToSet(<<id>>) = {id} /\ Once(<<id>>)
  BY <1>2, Single
<1>5. v \in Seq(D) /\ ToSet(v) = {id} \cup ToSet(w)
  <2> HIDE DEF id, D
  <2>1. <<id>> \o w \in Seq(D) /\ ToSet(<<id>> \o w) = ToSet(<<id>>) \cup ToSet(w)
    <3> DEFINE e == <<id>>
    <3>1. w \in Seq(D) /\ e \in Seq(D)
      BY <1>3, <1>4 DEF D
    <3> HIDE DEF e
    <3>2. e \o w \in Seq(D) /\ ToSet(e \o w) = ToSet(e) \cup ToSet(w)
      BY <3>1, Concatenated
    <3> QED
      BY <3>2 DEF e
  <2> QED
    BY <1>4, <2>1
<1>6. y.visited = x.visited \cup next
  BY DEF Pushed
<1>7. ASSUME Tidy(moves, x)
      PROVE  /\ Once(v)
             /\ ToSet(v) \cap x.visited = ToSet(x.stack)
             /\ Closed(moves, x.visited \cup ToSet(v))
             /\ \A C \in SUBSET D :
                   Closed(moves, C) /\ ToSet(x.stack) \subseteq C => ToSet(v) \subseteq C
  <2>1. Tidy(moves, y) /\ ToSet(y.stack) = ToSet(f) \cup next
    BY <1>7, StaysTidy
  <2>2. /\ Once(w)
        /\ ToSet(w) \cap y.visited = ToSet(y.stack)
        /\ Closed(moves, y.visited \cup ToSet(w))
        /\ \A C \in SUBSET D :
              Closed(moves, C) /\ ToSet(y.stack) \subseteq C => ToSet(w) \subseteq C
    BY <2>1 DEF Finds
  <2>3. id \notin ToSet(f) /\ ToSet(x.stack) \subseteq x.visited
    BY <1>1, <1>7, FrontLast DEF Tidy
  <2> HIDE DEF y, f, v
  <2>4. ToSet(v) \cap x.visited = ToSet(x.stack)
    <3> HIDE DEF id, next
    <3> QED
      BY <1>1, <1>2, <1>5, <1>6, <2>1, <2>2, <2>3
  <2>5. id \notin ToSet(w)
    <3> HIDE DEF id, next
    <3> QED
      BY <1>1, <1>2, <1>6, <2>1, <2>2, <2>3
  <2>6. Once(v)
    <3>1. ToSet(<<id>>) \cap ToSet(w) = {}
      BY <1>4, <2>5
    <3> HIDE DEF id
    <3> QED
      BY <1>3, <1>4, <2>2, <3>1, Concatenated DEF v
  <2>7. x.visited \cup ToSet(v) = y.visited \cup ToSet(w)
    <3> HIDE DEF id, next
    <3> QED
      BY <1>2, <1>5, <1>6, <2>1, <2>2, <2>3
  <2>8. ASSUME NEW C \in SUBSET D, Closed(moves, C), ToSet(x.stack) \subseteq C
        PROVE  ToSet(v) \subseteq C
    <3>1. id \in C
      BY <1>2, <2>8
    <3>2. next \subseteq C
      <4>1. ASSUME NEW b \in next PROVE b \in C
        <5>1. b \in D /\ Linked(moves, id, b)
          BY DEF Fresh, Linked
        <5> HIDE DEF id, next
        <5> QED
          BY <1>2, <2>8, <3>1, <5>1 DEF Closed
      <4> QED
        BY <4>1
    <3> HIDE DEF id, next
    <3> QED
      BY <1>2, <1>5, <2>1, <2>2, <2>8, <3>1, <3>2
  <2> QED
    BY <2>2, <2>4, <2>6, <2>7, <2>8
<1> HIDE DEF v
<1> QED
  BY <1>5, <1>7 DEF Finds, v

\* The walk of the search goes down its measure, so it ends.
LEMMA SearchDescends ==
    ASSUME NEW moves, IsFiniteSet(DOMAIN moves)
    PROVE  Descends(SearchStates(DOMAIN moves), SearchMeasure(DOMAIN moves), DOMAIN moves,
                    SearchEnds(DOMAIN moves), SearchSteps(moves))
<1> DEFINE D == DOMAIN moves
           S == SearchStates(D)
<1>1. ASSUME NEW x \in S \ SearchEnds(D), NEW p \in SearchSteps(moves)[x]
      PROVE  p \in D \X Below(S, SearchMeasure(D), x)
  <2>1. x \in S /\ x.stack # << >> /\ x.stack \in Seq(D)
    BY DEF SearchEnds, SearchStates
  <2>2. PICK pushed \in SetToSeqs(Fresh(moves, x)) : p = <<Last(x.stack), Pushed(moves, x, pushed)>>
    BY <2>1 DEF SearchSteps
  <2>3. Pushed(moves, x, pushed) \in Below(S, SearchMeasure(D), x)
    BY <2>1, SearchGoesDown
  <2>4. Last(x.stack) \in D
    <3> HIDE DEF D
    <3> QED
      BY <2>1, FrontLast
  <2> QED
    BY <2>2, <2>3, <2>4
<1> QED
  BY <1>1 DEF Descends

\* The table of the search solves its recursion.
LEMMA SearchTableSolves ==
    ASSUME NEW moves, IsFiniteSet(DOMAIN moves)
    PROVE  SearchTable(moves) = WalkStep(SearchStates(DOMAIN moves), SearchEnds(DOMAIN moves),
                                         SearchSteps(moves), SearchTable(moves))
<1> DEFINE D == DOMAIN moves
           S == SearchStates(D)
           step(f) == WalkStep(S, SearchEnds(D), SearchSteps(moves), f)
<1>1. \E f : f = step(f)
  <2>1. SearchMeasure(D) \in [S -> Nat] /\ SearchEnds(D) \in SUBSET S
    BY SearchMeasureType DEF SearchEnds
  <2>2. Descends(S, SearchMeasure(D), D, SearchEnds(D), SearchSteps(moves))
    BY SearchDescends
  <2> QED
    BY <2>1, <2>2, WalksSolved
<1>2. \A f : SearchStep(moves, f) = step(f)
  BY SearchWalks
<1> HIDE DEF step
<1>3. SearchTable(moves) = SearchStep(moves, SearchTable(moves))
  BY <1>1, <1>2 DEF SearchTable
<1> QED
  BY <1>2, <1>3 DEF step

\* What any search finds.
LEMMA SearchFinds ==
    ASSUME NEW moves, IsFiniteSet(DOMAIN moves), NEW x \in SearchStates(DOMAIN moves),
           NEW w \in SearchTable(moves)[x]
    PROVE  Finds(moves, x, w)
<1> DEFINE D == DOMAIN moves
           S == SearchStates(D)
           m == SearchMeasure(D)
           E == SearchEnds(D)
           f == SearchTable(moves)
           R == [y \in S |-> {v \in Seq(D) : Finds(moves, y, v)}]
<1>1. m \in [S -> Nat] /\ E \in SUBSET S /\ Descends(S, m, D, E, SearchSteps(moves))
  BY SearchMeasureType, SearchDescends DEF SearchEnds
<1>2. f = WalkStep(S, E, SearchSteps(moves), f)
  BY SearchTableSolves
<1>3. ASSUME NEW y \in S, NEW v, Finds(moves, y, v) PROVE v \in R[y]
  BY <1>3 DEF Finds
<1>4. ASSUME NEW y \in E PROVE << >> \in R[y]
  BY <1>3, FindsNothing DEF SearchEnds
<1>5. ASSUME NEW y \in S \ E, NEW p \in SearchSteps(moves)[y], NEW rest \in R[p[2]]
      PROVE  <<p[1]>> \o rest \in R[y]
  <2>1. y \in S /\ y.stack # << >>
    BY DEF SearchEnds
  <2>2. PICK pushed \in SetToSeqs(Fresh(moves, y)) : p = <<Last(y.stack), Pushed(moves, y, pushed)>>
    BY <2>1 DEF SearchSteps
  <2>3. p[1] = Last(y.stack) /\ p[2] = Pushed(moves, y, pushed) /\ p[2] \in S
    BY <2>1, <2>2, SearchGoesDown DEF Below
  <2>4. Finds(moves, p[2], rest)
    BY <2>3
  <2>5. Finds(moves, y, <<p[1]>> \o rest)
    BY <2>1, <2>3, <2>4, FindsNext
  <2> QED
    BY <1>3, <2>1, <2>5
<1>6. Kept(S, E, SearchSteps(moves), R)
  BY <1>4, <1>5 DEF Kept
<1> HIDE DEF S, m, E, f
<1>7. f[x] \subseteq R[x]
  <2> HIDE DEF R
  <2>1. x \in S
    BY DEF S
  <2> QED
    BY <1>1, <1>2, <1>6, <2>1, WalkInduction
<1> QED
  BY <1>7 DEF S, f

\* A search from start finds start and all moves connected with it, once, and no
\* others.
THEOREM SearchesResult ==
    ASSUME NEW moves, IsFiniteSet(DOMAIN moves), NEW start \in DOMAIN moves,
           NEW comp \in Searches(moves, start)
    PROVE  /\ comp \in Seq(DOMAIN moves) /\ Once(comp) /\ comp # << >>
           /\ start \in ToSet(comp) /\ Closed(moves, ToSet(comp))
           /\ \A C \in SUBSET DOMAIN moves :
                 Closed(moves, C) /\ start \in C => ToSet(comp) \subseteq C
<1> DEFINE x == [stack |-> <<start>>, visited |-> {start}]
<1>1. ToSet(<<start>>) = {start} /\ Once(<<start>>) /\ <<start>> \in Seq(DOMAIN moves)
  BY Single
<1>2. x \in SearchStates(DOMAIN moves) /\ x.stack = <<start>> /\ x.visited = {start}
  BY <1>1 DEF SearchStates
<1>3. Tidy(moves, x)
  BY <1>1, <1>2 DEF Tidy
<1>4. comp \in SearchTable(moves)[x]
  BY SearchesDef
<1> HIDE DEF x
<1>5. Finds(moves, x, comp)
  BY <1>2, <1>4, SearchFinds
<1>6. start \in ToSet(comp) /\ {start} \cup ToSet(comp) = ToSet(comp)
  BY <1>1, <1>2, <1>3, <1>5 DEF Finds
<1>7. comp # << >>
  BY <1>6, Nothing
<1>8. Closed(moves, ToSet(comp))
  BY <1>2, <1>3, <1>5, <1>6 DEF Finds
<1> QED
  BY <1>1, <1>2, <1>3, <1>5, <1>6, <1>7, <1>8 DEF Finds

-----------------------------------------------------------------------------
(* The sorting of a component *)

SortStates(D) == [queue : Seq(D), taken : SUBSET D]

\* The moves that are not taken and behind none but moves that are.
Free(moves, D, taken) == {n \in D \ taken : \A k \in D : Before(moves, k, n) => k \in taken}
Freed(moves, D, x) ==
    Free(moves, D, x.taken \cup {Head(x.queue)})
        \ (Free(moves, D, x.taken) \cup (x.taken \cup {Head(x.queue)}))
Sorted(moves, D, x, q) ==
    [queue |-> Tail(x.queue) \o q, taken |-> x.taken \cup {Head(x.queue)}]
SortStep(moves, D, f) == [x \in SortStates(D) |->
    IF x.queue = << >> THEN {<< >>}
    ELSE {<<Head(x.queue)>> \o rest : rest \in
             UNION {f[Sorted(moves, D, x, q)] : q \in SetToSeqs(Freed(moves, D, x))}}]
SortTable(moves, D) == CHOOSE f : f = SortStep(moves, D, f)

\* Sorts is a recursion over the states of the sorting.
LEMMA SortsDef ==
    ASSUME NEW moves, NEW comp
    PROVE  Sorts(moves, comp)
             = SortTable(moves, ToSet(comp))
                   [[queue |-> Only(comp, Free(moves, ToSet(comp), {})), taken |-> {}]]
BY Zenon DEF Sorts, SortTable, SortStep, SortStates, Free, Freed, Sorted

\* How much the sorting has still to take: what is in the queue and what is
\* neither free nor taken.
Unfree(moves, D, x) == D \ (x.taken \cup Free(moves, D, x.taken))
SortMeasure(moves, D) ==
    [x \in SortStates(D) |-> Cardinality(Unfree(moves, D, x)) + Len(x.queue)]

\* The measure of the sorting is a natural number.
LEMMA SortMeasureType ==
    ASSUME NEW moves, NEW D, IsFiniteSet(D)
    PROVE  SortMeasure(moves, D) \in [SortStates(D) -> Nat]
<1>1. ASSUME NEW x \in SortStates(D) PROVE Cardinality(Unfree(moves, D, x)) + Len(x.queue) \in Nat
  <2>1. Cardinality(Unfree(moves, D, x)) \in Nat
    BY FS_Subset, FS_CardinalityType DEF Unfree
  <2>2. Len(x.queue) \in Nat
    BY DEF SortStates
  <2> QED
    BY <2>1, <2>2
<1> QED
  BY <1>1 DEF SortMeasure

\* A step of the sorting goes down.
LEMMA SortGoesDown ==
    ASSUME NEW moves, NEW D, IsFiniteSet(D), NEW x \in SortStates(D),
           x.queue # << >>, NEW q \in SetToSeqs(Freed(moves, D, x))
    PROVE  Sorted(moves, D, x, q) \in Below(SortStates(D), SortMeasure(moves, D), x)
<1> DEFINE y == Sorted(moves, D, x, q)
           id == Head(x.queue)
           next == Freed(moves, D, x)
           U == Unfree(moves, D, x)
           W == Unfree(moves, D, y)
<1>1. x.queue \in Seq(D) /\ x.taken \in SUBSET D
  BY DEF SortStates
<1>2. /\ Tail(x.queue) \in Seq(D) /\ Len(Tail(x.queue)) = Len(x.queue) - 1
      /\ Len(x.queue) \in Nat /\ id \in D
  BY <1>1, HeadTail, LenProperties
<1>3. next \in SUBSET D
  BY DEF Freed, Free
<1>4. q \in Seq(D) /\ Len(q) = Cardinality(next) /\ Cardinality(next) \in Nat
  BY <1>3, PushedOrder
<1>5. y.queue = Tail(x.queue) \o q /\ y.taken = x.taken \cup {id}
  BY DEF Sorted
<1>6. y.queue \in Seq(D) /\ Len(y.queue) = (Len(x.queue) - 1) + Cardinality(next)
  <2>1. /\ Tail(x.queue) \o q \in Seq(D)
        /\ Len(Tail(x.queue) \o q) = Len(Tail(x.queue)) + Len(q)
    BY <1>2, <1>4, Concatenated
  <2> HIDE DEF y
  <2> QED
    BY <1>2, <1>4, <1>5, <2>1
<1>7. y \in SortStates(D)
  BY <1>1, <1>2, <1>5, <1>6 DEF SortStates, Sorted
<1>8. W \subseteq U \ next
  <2>1. y.taken = x.taken \cup {id}
    BY <1>5
  <2> HIDE DEF y, id
  <2>2. Free(moves, D, x.taken) \subseteq y.taken \cup Free(moves, D, y.taken)
    BY <2>1 DEF Free
  <2>3. next \subseteq Free(moves, D, y.taken)
    BY <2>1 DEF Freed, id
  <2> QED
    BY <2>1, <2>2, <2>3 DEF Unfree
<1>9. next \subseteq U
  BY <1>3 DEF Freed, Unfree
<1>10. IsFiniteSet(U) /\ IsFiniteSet(next)
  BY <1>3, FS_Subset DEF Unfree
<1> HIDE DEF U, W, next, y
<1>11. Cardinality(W) <= Cardinality(U) - Cardinality(next) /\ Cardinality(W) \in Nat
  <2>1. U \cap next = next
    BY <1>9
  <2>2. Cardinality(U \ next) = Cardinality(U) - Cardinality(next) /\ IsFiniteSet(U \ next)
    BY <1>10, <2>1, FS_Difference
  <2>3. Cardinality(W) <= Cardinality(U \ next) /\ IsFiniteSet(W)
    BY <1>8, <2>2, FS_Subset
  <2> QED
    BY <2>2, <2>3, FS_CardinalityType
<1>12. Cardinality(U) \in Nat
  BY <1>10, FS_CardinalityType
<1>13. /\ SortMeasure(moves, D)[y] = Cardinality(W) + Len(y.queue)
       /\ SortMeasure(moves, D)[x] = Cardinality(U) + Len(x.queue)
  BY <1>7 DEF SortMeasure, U, W
<1>14. SortMeasure(moves, D)[y] < SortMeasure(moves, D)[x]
  BY <1>2, <1>4, <1>6, <1>11, <1>12, <1>13
<1> QED
  BY <1>7, <1>14 DEF Below, y

\* The sorting as a walk.
SortEnds(D) == {x \in SortStates(D) : x.queue = << >>}
SortSteps(moves, D) == [x \in SortStates(D) |->
    {<<Head(x.queue), Sorted(moves, D, x, q)>> : q \in SetToSeqs(Freed(moves, D, x))}]

\* The recursion of the sorting is that of a walk.
LEMMA SortWalks ==
    ASSUME NEW moves, NEW D, NEW f
    PROVE  SortStep(moves, D, f) = WalkStep(SortStates(D), SortEnds(D), SortSteps(moves, D), f)
<1> DEFINE S == SortStates(D)
<1>1. ASSUME NEW x \in S
      PROVE  {<<Head(x.queue)>> \o rest : rest \in
                 UNION {f[Sorted(moves, D, x, q)] : q \in SetToSeqs(Freed(moves, D, x))}}
              = UNION {Onward(p[1], f[p[2]]) : p \in SortSteps(moves, D)[x]}
  <2> DEFINE c == Head(x.queue)
             Q == SetToSeqs(Freed(moves, D, x))
             g == [q \in Q |-> Sorted(moves, D, x, q)]
  <2>1. SortSteps(moves, D)[x] = Leads(c, Q, g)
    BY DEF SortSteps, Leads
  <2>2. {f[Sorted(moves, D, x, q)] : q \in Q} = {f[g[q]] : q \in Q}
    OBVIOUS
  <2> HIDE DEF c, Q, g
  <2>3. Onward(c, UNION {f[g[q]] : q \in Q})
          = UNION {Onward(p[1], f[p[2]]) : p \in SortSteps(moves, D)[x]}
    BY <2>1, OnwardUnion
  <2> QED
    BY <2>2, <2>3 DEF c, Q, Onward
<1> QED
  BY <1>1 DEF SortStep, WalkStep, SortEnds

\* The walk of the sorting goes down its measure, so it ends.
LEMMA SortDescends ==
    ASSUME NEW moves, NEW D, IsFiniteSet(D)
    PROVE  Descends(SortStates(D), SortMeasure(moves, D), D, SortEnds(D), SortSteps(moves, D))
<1> DEFINE S == SortStates(D)
<1>1. ASSUME NEW x \in S \ SortEnds(D), NEW p \in SortSteps(moves, D)[x]
      PROVE  p \in D \X Below(S, SortMeasure(moves, D), x)
  <2>1. x \in S /\ x.queue # << >> /\ x.queue \in Seq(D)
    BY DEF SortEnds, SortStates
  <2>2. PICK q \in SetToSeqs(Freed(moves, D, x)) : p = <<Head(x.queue), Sorted(moves, D, x, q)>>
    BY <2>1 DEF SortSteps
  <2>3. Sorted(moves, D, x, q) \in Below(S, SortMeasure(moves, D), x)
    BY <2>1, SortGoesDown
  <2>4. Head(x.queue) \in D
    BY <2>1, HeadTail
  <2> QED
    BY <2>2, <2>3, <2>4
<1> QED
  BY <1>1 DEF Descends

\* The table of the sorting solves its recursion.
LEMMA SortTableSolves ==
    ASSUME NEW moves, NEW D, IsFiniteSet(D)
    PROVE  SortTable(moves, D) = WalkStep(SortStates(D), SortEnds(D), SortSteps(moves, D),
                                          SortTable(moves, D))
<1> DEFINE S == SortStates(D)
           step(f) == WalkStep(S, SortEnds(D), SortSteps(moves, D), f)
<1>1. \E f : f = step(f)
  <2>1. SortMeasure(moves, D) \in [S -> Nat] /\ SortEnds(D) \in SUBSET S
    BY SortMeasureType DEF SortEnds
  <2>2. Descends(S, SortMeasure(moves, D), D, SortEnds(D), SortSteps(moves, D))
    BY SortDescends
  <2> QED
    BY <2>1, <2>2, WalksSolved
<1>2. \A f : SortStep(moves, D, f) = step(f)
  BY SortWalks
<1> HIDE DEF step
<1>3. SortTable(moves, D) = SortStep(moves, D, SortTable(moves, D))
  BY <1>1, <1>2 DEF SortTable
<1> QED
  BY <1>2, <1>3 DEF step

\* A state that the sorting is in: the queue holds free moves.
Queued(moves, D, x) ==
    Once(x.queue) /\ ToSet(x.queue) \subseteq Free(moves, D, x.taken)

\* What the sorting gives from the state x on.
Gives(moves, D, x, w) ==
    /\ w \in Seq(D)
    /\ Queued(moves, D, x) => Once(w) /\ ToSet(w) \cap x.taken = {}

\* The next state of the sorting.
LEMMA StaysQueued ==
    ASSUME NEW moves, NEW D, IsFiniteSet(D), NEW x \in SortStates(D), x.queue # << >>,
           NEW q \in SetToSeqs(Freed(moves, D, x)), Queued(moves, D, x)
    PROVE  Queued(moves, D, Sorted(moves, D, x, q))
<1> DEFINE y == Sorted(moves, D, x, q)
           id == Head(x.queue)
           tail == Tail(x.queue)
           next == Freed(moves, D, x)
<1>1. x.queue \in Seq(D) /\ next \in SUBSET D
  BY DEF SortStates, Freed, Free
<1>2. /\ tail \in Seq(D) /\ id \in D /\ ToSet(x.queue) = {id} \cup ToSet(tail)
      /\ Once(tail) /\ id \notin ToSet(tail)
  BY <1>1, HeadTail DEF Queued
<1>3. q \in Seq(D) /\ Once(q) /\ ToSet(q) = next
  BY <1>1, PushedOrder
<1>4. y.queue = tail \o q /\ y.taken = x.taken \cup {id}
  BY DEF Sorted
<1>5. next \cap Free(moves, D, x.taken) = {} /\ next \subseteq Free(moves, D, x.taken \cup {id})
  BY DEF Freed
<1>6. ToSet(x.queue) \subseteq Free(moves, D, x.taken)
  BY DEF Queued
<1> HIDE DEF y, id, tail, next
<1>7. ToSet(tail) \cap ToSet(q) = {}
  BY <1>2, <1>3, <1>5, <1>6
<1>8. Once(y.queue) /\ ToSet(y.queue) = ToSet(tail) \cup next
  BY <1>2, <1>3, <1>4, <1>7, Concatenated
<1>9. ToSet(tail) \subseteq Free(moves, D, x.taken \cup {id})
  BY <1>2, <1>6 DEF Free
<1> QED
  BY <1>4, <1>5, <1>8, <1>9 DEF Queued, y

\* What is given from the next state on is, behind the move at the head of the
\* queue, what is given from this one on.
LEMMA GivesNext ==
    ASSUME NEW moves, NEW D, IsFiniteSet(D), NEW x \in SortStates(D), x.queue # << >>,
           NEW q \in SetToSeqs(Freed(moves, D, x)), NEW w,
           Gives(moves, D, Sorted(moves, D, x, q), w)
    PROVE  Gives(moves, D, x, <<Head(x.queue)>> \o w)
<1> DEFINE y == Sorted(moves, D, x, q)
           id == Head(x.queue)
           e == <<id>>
           v == e \o w
<1>1. x.queue \in Seq(D)
  BY DEF SortStates
<1>2. id \in D /\ ToSet(x.queue) = {id} \cup ToSet(Tail(x.queue))
  BY <1>1, HeadTail
<1>3. w \in Seq(D)
  BY DEF Gives
<1>4. e \in Seq(D) /\ ToSet(e) = {id} /\ Once(e)
  BY <1>2, Single
<1>5. y.taken = x.taken \cup {id}
  BY DEF Sorted
<1>6. /\ v \in Seq(D) /\ ToSet(v) = {id} \cup ToSet(w)
      /\ Once(w) /\ {id} \cap ToSet(w) = {} => Once(v)
  <2> HIDE DEF e, id
  <2> QED
    BY <1>3, <1>4, Concatenated
<1>7. ASSUME Queued(moves, D, x) PROVE Once(v) /\ ToSet(v) \cap x.taken = {}
  <2>1. Queued(moves, D, y)
    BY <1>7, StaysQueued
  <2>2. Once(w) /\ ToSet(w) \cap y.taken = {}
    BY <2>1 DEF Gives
  <2>3. id \notin x.taken
    BY <1>2, <1>7 DEF Queued, Free
  <2> HIDE DEF y, id, v
  <2> QED
    BY <1>5, <1>6, <2>2, <2>3
<1> QED
  BY <1>6, <1>7 DEF Gives

\* What any sorting gives.
LEMMA SortGives ==
    ASSUME NEW moves, NEW D, IsFiniteSet(D), NEW x \in SortStates(D),
           NEW w \in SortTable(moves, D)[x]
    PROVE  Gives(moves, D, x, w)
<1> DEFINE S == SortStates(D)
           m == SortMeasure(moves, D)
           E == SortEnds(D)
           f == SortTable(moves, D)
           R == [y \in S |-> {v \in Seq(D) : Gives(moves, D, y, v)}]
<1>1. m \in [S -> Nat] /\ E \in SUBSET S /\ Descends(S, m, D, E, SortSteps(moves, D))
  BY SortMeasureType, SortDescends DEF SortEnds
<1>2. f = WalkStep(S, E, SortSteps(moves, D), f)
  BY SortTableSolves
<1>3. ASSUME NEW y \in S, NEW v, Gives(moves, D, y, v) PROVE v \in R[y]
  BY <1>3 DEF Gives
<1>4. ASSUME NEW y \in E PROVE << >> \in R[y]
  <2>1. Gives(moves, D, y, << >>)
    BY Nothing DEF Gives
  <2> QED
    BY <1>3, <2>1 DEF SortEnds
<1>5. ASSUME NEW y \in S \ E, NEW p \in SortSteps(moves, D)[y], NEW rest \in R[p[2]]
      PROVE  <<p[1]>> \o rest \in R[y]
  <2>1. y \in S /\ y.queue # << >>
    BY DEF SortEnds
  <2>2. PICK q \in SetToSeqs(Freed(moves, D, y)) : p = <<Head(y.queue), Sorted(moves, D, y, q)>>
    BY <2>1 DEF SortSteps
  <2>3. p[1] = Head(y.queue) /\ p[2] = Sorted(moves, D, y, q) /\ p[2] \in S
    BY <2>1, <2>2, SortGoesDown DEF Below
  <2>4. Gives(moves, D, p[2], rest)
    BY <2>3
  <2>5. Gives(moves, D, y, <<p[1]>> \o rest)
    BY <2>1, <2>3, <2>4, GivesNext
  <2> QED
    BY <1>3, <2>1, <2>5
<1>6. Kept(S, E, SortSteps(moves, D), R)
  BY <1>4, <1>5 DEF Kept
<1> HIDE DEF S, m, E, f
<1>7. f[x] \subseteq R[x]
  <2> HIDE DEF R
  <2>1. x \in S
    BY DEF S
  <2> QED
    BY <1>1, <1>2, <1>6, <2>1, WalkInduction
<1> QED
  BY <1>7 DEF S, f

\* A sorting takes moves of the component, none of them twice.
LEMMA SortsResult ==
    ASSUME NEW X, IsFiniteSet(X), NEW moves, NEW comp \in Seq(X), Once(comp),
           NEW w \in Sorts(moves, comp)
    PROVE  w \in Seq(ToSet(comp)) /\ Once(w)
<1> DEFINE D == ToSet(comp)
           T == Free(moves, D, {})
           first == Only(comp, T)
           x == [queue |-> first, taken |-> {}]
<1>1. comp \in Seq(D) /\ IsFiniteSet(D)
  BY ToSetType, FS_Subset
<1>2. first \in Seq(D) /\ ToSet(first) = D \cap T /\ Once(first)
  <2> HIDE DEF T, D
  <2>1. first \in Seq(D) /\ ToSet(first) = ToSet(comp) \cap T /\ (Once(comp) => Once(first))
    BY <1>1, OnlyResult
  <2> QED
    BY <2>1 DEF D
<1>3. w \in SortTable(moves, D)[x]
  BY SortsDef
<1> HIDE DEF first
<1>4. x \in SortStates(D) /\ x.queue = first /\ x.taken = {}
  BY <1>2 DEF SortStates
<1> HIDE DEF x
<1>5. Queued(moves, D, x)
  BY <1>2, <1>4 DEF Queued
<1> HIDE DEF D, T
<1>6. Gives(moves, D, x, w)
  BY <1>1, <1>3, <1>4, SortGives
<1> QED
  BY <1>5, <1>6 DEF Gives, D

\* A component is executed with the moves that were visited, each once.
LEMMA OrderedResult ==
    ASSUME NEW X, IsFiniteSet(X), NEW moves, NEW comp \in Seq(X), Once(comp),
           NEW c \in Ordered(moves, comp)
    PROVE  /\ c \in [tickets : Seq(X), loop : BOOLEAN]
           /\ Once(c.tickets) /\ ToSet(c.tickets) = ToSet(comp)
<1>1. PICK w \in Sorts(moves, comp) :
          c = IF Len(w) < Len(comp) THEN [tickets |-> comp, loop |-> TRUE]
                                    ELSE [tickets |-> w, loop |-> FALSE]
  BY DEF Ordered
<1>2. CASE Len(w) < Len(comp)
  BY <1>1, <1>2
<1>3. CASE ~(Len(w) < Len(comp))
  <2> DEFINE D == ToSet(comp)
  <2>1. w \in Seq(D) /\ Once(w)
    BY SortsResult
  <2>2. D \subseteq X /\ IsFiniteSet(D) /\ Cardinality(D) = Len(comp)
    BY OnceLength, ToSetType
  <2> HIDE DEF D
  <2>3. ToSet(w) \subseteq D /\ IsFiniteSet(ToSet(w)) /\ Cardinality(ToSet(w)) = Len(w)
    BY <2>1, OnceLength, ToSetType
  <2>4. Len(w) >= Len(comp)
    BY <1>3, <2>1
  <2>5. Cardinality(ToSet(w)) <= Cardinality(D)
    BY <2>2, <2>3, FS_Subset
  <2>6. Cardinality(ToSet(w)) = Cardinality(D)
    <3>1. Len(w) \in Nat /\ Len(comp) \in Nat
      BY <2>1
    <3> QED
      BY <2>2, <2>3, <2>4, <2>5, <3>1
  <2>7. ToSet(w) = D
    BY <2>2, <2>3, <2>6, FS_Subset
  <2>8. w \in Seq(X)
    BY <2>1, <2>2, SeqMonotonic
  <2> QED
    BY <1>1, <1>3, <2>1, <2>7, <2>8 DEF D
<1> QED
  BY <1>2, <1>3

-----------------------------------------------------------------------------
(* The order of all moves *)

Comps(D) == [tickets : Seq(D), loop : BOOLEAN]
OrderStep(moves, f) == [left \in SUBSET DOMAIN moves |->
    IF left = {} THEN {<< >>}
    ELSE UNION {UNION {{<<c>> \o rest : rest \in f[left \ ToSet(comp)]} :
                          c \in Ordered(moves, comp)} :
                   comp \in UNION {Searches(moves, n) : n \in left}}]
OrderTable(moves) == CHOOSE f : f = OrderStep(moves, f)

\* MovementOrders is a recursion over the moves that are left.
LEMMA MovementOrdersDef ==
    ASSUME NEW moves
    PROVE  MovementOrders(moves) = OrderTable(moves)[DOMAIN moves]
BY Zenon DEF MovementOrders, OrderTable, OrderStep

\* The order as a walk.
OrderEnds(D) == {left \in SUBSET D : left = {}}
OrderLeads(moves, left, comp) == {<<c, left \ ToSet(comp)>> : c \in Ordered(moves, comp)}
OrderSteps(moves) == [left \in SUBSET DOMAIN moves |->
    UNION {OrderLeads(moves, left, comp) : comp \in UNION {Searches(moves, n) : n \in left}}]
OrderMeasure(D) == [left \in SUBSET D |-> Cardinality(left)]

\* The recursion of the movement orders is that of a walk.
LEMMA OrderWalks ==
    ASSUME NEW moves, NEW f
    PROVE  OrderStep(moves, f)
               = WalkStep(SUBSET DOMAIN moves, OrderEnds(DOMAIN moves), OrderSteps(moves), f)
<1> DEFINE S == SUBSET DOMAIN moves
<1>1. ASSUME NEW left \in S
      PROVE  UNION {UNION {{<<c>> \o rest : rest \in f[left \ ToSet(comp)]} :
                             c \in Ordered(moves, comp)} :
                      comp \in UNION {Searches(moves, n) : n \in left}}
              = UNION {Onward(p[1], f[p[2]]) : p \in OrderSteps(moves)[left]}
  <2> DEFINE C == UNION {Searches(moves, n) : n \in left}
             P == OrderSteps(moves)[left]
             A(comp) == UNION {{<<c>> \o rest : rest \in f[left \ ToSet(comp)]} :
                             c \in Ordered(moves, comp)}
  <2>1. P = UNION {OrderLeads(moves, left, comp) : comp \in C}
    BY DEF OrderSteps
  <2> HIDE DEF C, P
  <2>2. ASSUME NEW comp \in C, NEW v \in A(comp) PROVE v \in UNION {Onward(p[1], f[p[2]]) : p \in P}
    <3>1. PICK c \in Ordered(moves, comp) : v \in {<<c>> \o rest : rest \in f[left \ ToSet(comp)]}
      BY <2>2
    <3> DEFINE p == <<c, left \ ToSet(comp)>>
    <3>2. p \in P /\ p[1] = c /\ p[2] = left \ ToSet(comp)
      BY <2>1 DEF OrderLeads
    <3> HIDE DEF p
    <3>3. v \in Onward(p[1], f[p[2]])
      BY <3>1, <3>2 DEF Onward
    <3> QED
      BY <3>2, <3>3
  <2>3. ASSUME NEW v \in UNION {Onward(p[1], f[p[2]]) : p \in P} PROVE \E comp \in C : v \in A(comp)
    <3>1. PICK p \in P : v \in Onward(p[1], f[p[2]])
      BY <2>3
    <3>2. PICK comp \in C : p \in OrderLeads(moves, left, comp)
      BY <2>1
    <3>3. PICK c \in Ordered(moves, comp) : p = <<c, left \ ToSet(comp)>>
      BY <3>2 DEF OrderLeads
    <3>4. v \in {<<c>> \o rest : rest \in f[left \ ToSet(comp)]}
      BY <3>1, <3>3 DEF Onward
    <3>5. v \in A(comp)
      BY <3>4
    <3> HIDE DEF A
    <3> QED
      BY <3>5
  <2> HIDE DEF A
  <2>4. UNION {A(comp) : comp \in C} = UNION {Onward(p[1], f[p[2]]) : p \in P}
    BY <2>2, <2>3
  <2> QED
    BY <2>4 DEF A, C, P
<1> QED
  BY <1>1 DEF OrderStep, WalkStep, OrderEnds

\* What a search from some move in a closed set takes.
LEMMA ComponentOf ==
    ASSUME NEW moves, IsFiniteSet(DOMAIN moves), NEW left \in SUBSET DOMAIN moves,
           NEW comp \in UNION {Searches(moves, n) : n \in left},
           NEW c \in Ordered(moves, comp)
    PROVE  /\ c \in Comps(DOMAIN moves) /\ Once(c.tickets) /\ c.tickets # << >>
           /\ ToSet(c.tickets) = ToSet(comp) /\ ToSet(comp) \subseteq DOMAIN moves
           /\ \E n \in left : n \in ToSet(comp)
           /\ Closed(moves, left) => /\ ToSet(comp) \subseteq left
                                     /\ Closed(moves, left \ ToSet(comp))
<1> DEFINE D == DOMAIN moves
           C == ToSet(comp)
<1>1. PICK n \in left : comp \in Searches(moves, n)
  OBVIOUS
<1>2. n \in DOMAIN moves
  OBVIOUS
<1>3. /\ comp \in Seq(D) /\ Once(comp) /\ n \in C /\ Closed(moves, C)
      /\ \A B \in SUBSET D : Closed(moves, B) /\ n \in B => C \subseteq B
  BY <1>1, <1>2, SearchesResult
<1>4. c \in [tickets : Seq(D), loop : BOOLEAN] /\ Once(c.tickets) /\ ToSet(c.tickets) = C
  <2> HIDE DEF D, C
  <2>1. IsFiniteSet(D)
    BY DEF D
  <2> QED
    BY <1>3, <2>1, OrderedResult DEF C
<1>5. C \subseteq D
  <2> HIDE DEF D
  <2> QED
    BY <1>3, ToSetType DEF C
<1>6. c.tickets # << >>
  BY <1>3, <1>4, Nothing
<1>7. ASSUME Closed(moves, left) PROVE C \subseteq left /\ Closed(moves, left \ C)
  <2>1. C \subseteq left
    BY <1>3, <1>7
  <2>2. ASSUME NEW a \in (left \ C) \cap D, NEW b \in D, Linked(moves, a, b)
        PROVE  b \in left \ C
    <3>1. b \in left
      BY <1>7, <2>2 DEF Closed
    <3>2. Linked(moves, b, a)
      BY <2>2 DEF Linked
    <3> QED
      BY <1>3, <2>2, <3>1, <3>2 DEF Closed
  <2> QED
    BY <2>1, <2>2 DEF Closed
<1> QED
  BY <1>1, <1>3, <1>4, <1>5, <1>6, <1>7 DEF Comps

\* The walk of the movement orders goes down its measure: every component
\* takes some of the moves that are left.
LEMMA OrderDescends ==
    ASSUME NEW moves, IsFiniteSet(DOMAIN moves)
    PROVE  /\ OrderMeasure(DOMAIN moves) \in [SUBSET DOMAIN moves -> Nat]
           /\ Descends(SUBSET DOMAIN moves, OrderMeasure(DOMAIN moves), Comps(DOMAIN moves),
                       OrderEnds(DOMAIN moves), OrderSteps(moves))
<1> DEFINE D == DOMAIN moves
           S == SUBSET D
           m == OrderMeasure(D)
<1>1. \A left \in S : IsFiniteSet(left) /\ Cardinality(left) \in Nat
  BY FS_Subset, FS_CardinalityType
<1>2. ASSUME NEW left \in S \ OrderEnds(D), NEW p \in OrderSteps(moves)[left]
      PROVE  p \in Comps(D) \X Below(S, m, left)
  <2>1. PICK comp \in UNION {Searches(moves, n) : n \in left} : p \in OrderLeads(moves, left, comp)
    BY DEF OrderSteps
  <2>2. PICK c \in Ordered(moves, comp) : p = <<c, left \ ToSet(comp)>>
    BY <2>1 DEF OrderLeads
  <2>3. c \in Comps(D) /\ \E n \in left : n \in ToSet(comp)
    BY ComponentOf
  <2> DEFINE rest == left \ ToSet(comp)
  <2>4. rest \in S /\ rest \in SUBSET left /\ rest # left
    BY <2>3
  <2> HIDE DEF rest
  <2>5. Cardinality(rest) < Cardinality(left)
    <3>1. Cardinality(rest) <= Cardinality(left) /\ Cardinality(left) # Cardinality(rest)
      BY <1>1, <2>4, FS_Subset
    <3> QED
      BY <1>1, <2>4, <3>1
  <2>6. rest \in Below(S, m, left)
    BY <2>4, <2>5 DEF Below, OrderMeasure
  <2> QED
    BY <2>2, <2>3, <2>6 DEF rest
<1>3. m \in [S -> Nat]
  BY <1>1 DEF OrderMeasure
<1> QED
  BY <1>2, <1>3 DEF Descends

\* The table of the orders solves its recursion.
LEMMA OrderTableSolves ==
    ASSUME NEW moves, IsFiniteSet(DOMAIN moves)
    PROVE  OrderTable(moves) = WalkStep(SUBSET DOMAIN moves, OrderEnds(DOMAIN moves),
                                        OrderSteps(moves), OrderTable(moves))
<1> DEFINE D == DOMAIN moves
           S == SUBSET D
           step(f) == WalkStep(S, OrderEnds(D), OrderSteps(moves), f)
<1>1. \E f : f = step(f)
  <2>1. OrderMeasure(D) \in [S -> Nat] /\ OrderEnds(D) \in SUBSET S
    BY OrderDescends DEF OrderEnds
  <2>2. Descends(S, OrderMeasure(D), Comps(D), OrderEnds(D), OrderSteps(moves))
    BY OrderDescends
  <2> HIDE DEF S
  <2> QED
    BY <2>1, <2>2, WalksSolved
<1>2. \A f : OrderStep(moves, f) = step(f)
  BY OrderWalks
<1> HIDE DEF step
<1>3. OrderTable(moves) = OrderStep(moves, OrderTable(moves))
  BY <1>1, <1>2 DEF OrderTable
<1> QED
  BY <1>2, <1>3 DEF step

\* Components that share no move and together have the moves left.
Apart(c, d) == ToSet(c.tickets) \cap ToSet(d.tickets) = {}
Divides(D, left, order) ==
    /\ order \in Seq(Comps(D))
    /\ \A i \in DOMAIN order : Once(order[i].tickets) /\ order[i].tickets # << >>
    /\ \A i, k \in DOMAIN order : i # k => Apart(order[i], order[k])
    /\ \A i \in DOMAIN order : ToSet(order[i].tickets) \subseteq left
    /\ \A t \in left : \E i \in DOMAIN order : t \in ToSet(order[i].tickets)

\* One component more.
LEMMA DividesNext ==
    ASSUME NEW D, NEW left \in SUBSET D, NEW c \in Comps(D), Once(c.tickets), c.tickets # << >>,
           ToSet(c.tickets) \subseteq left, NEW w, Divides(D, left \ ToSet(c.tickets), w)
    PROVE  Divides(D, left, <<c>> \o w)
<1> DEFINE n == Len(w)
           e == <<c>>
           v == e \o w
           C == ToSet(c.tickets)
<1>1. w \in Seq(Comps(D)) /\ n \in Nat /\ DOMAIN w = 1..n
  BY LenProperties DEF Divides
<1>2. e \in Seq(Comps(D)) /\ Len(e) = 1 /\ e[1] = c
  BY Single
<1> HIDE DEF e
<1>3. v \in Seq(Comps(D)) /\ Len(v) = 1 + n /\ DOMAIN v = 1..(1 + n)
  <2>1. v \in Seq(Comps(D)) /\ Len(v) = 1 + n
    BY <1>1, <1>2, Concatenated
  <2> HIDE DEF v
  <2> QED
    BY <2>1, LenProperties
<1>4. \A i \in 1..(1 + n) : v[i] = IF i <= 1 THEN e[i] ELSE w[i - 1]
  <2>1. \A i \in 1..(Len(e) + n) : v[i] = IF i <= Len(e) THEN e[i] ELSE w[i - Len(e)]
    BY <1>1, <1>2, ConcatProperties
  <2> QED
    BY <1>2, <2>1
<1> HIDE DEF v, n
<1>5. v[1] = c /\ 1 \in DOMAIN v
  BY <1>1, <1>2, <1>3, <1>4
<1>6. \A i \in DOMAIN v : i # 1 => i - 1 \in DOMAIN w /\ v[i] = w[i - 1]
  BY <1>1, <1>3, <1>4
<1>7. \A k \in DOMAIN w : k + 1 \in DOMAIN v /\ v[k + 1] = w[k]
  <2> TAKE k \in DOMAIN w
  <2>1. k + 1 \in 1..(1 + n) /\ ~(k + 1 <= 1) /\ (k + 1) - 1 = k
    BY <1>1
  <2> QED
    BY <1>3, <1>4, <2>1
<1>8. \A k \in DOMAIN w : /\ Once(w[k].tickets) /\ w[k].tickets # << >>
                          /\ ToSet(w[k].tickets) \subseteq left \ C
  BY DEF Divides
<1>9. ASSUME NEW i \in DOMAIN v
      PROVE  Once(v[i].tickets) /\ v[i].tickets # << >> /\ ToSet(v[i].tickets) \subseteq left
  BY <1>5, <1>6, <1>8
<1>10. ASSUME NEW i \in DOMAIN v, NEW k \in DOMAIN v, i # k PROVE Apart(v[i], v[k])
  <2>1. CASE i = 1
    BY <1>5, <1>6, <1>8, <1>10, <2>1 DEF Apart
  <2>2. CASE k = 1
    BY <1>5, <1>6, <1>8, <1>10, <2>2 DEF Apart
  <2>3. CASE i # 1 /\ k # 1
    <3>1. i - 1 \in DOMAIN w /\ k - 1 \in DOMAIN w /\ i - 1 # k - 1
      BY <1>1, <1>3, <1>6, <1>10, <2>3
    <3> QED
      BY <1>6, <2>3, <3>1 DEF Divides
  <2> QED
    BY <2>1, <2>2, <2>3
<1>11. ASSUME NEW t \in left PROVE \E i \in DOMAIN v : t \in ToSet(v[i].tickets)
  <2>1. CASE t \in C
    BY <1>5, <2>1
  <2>2. CASE t \notin C
    <3>1. PICK k \in DOMAIN w : t \in ToSet(w[k].tickets)
      BY <2>2 DEF Divides
    <3> QED
      BY <1>7, <3>1
  <2> QED
    BY <2>1, <2>2
<1> QED
  BY <1>3, <1>9, <1>10, <1>11 DEF Divides, v, e

\* A movement order divides the moves into components.
THEOREM MovementOrdersDivide ==
    ASSUME NEW moves, IsFiniteSet(DOMAIN moves), NEW order \in MovementOrders(moves)
    PROVE  Divides(DOMAIN moves, DOMAIN moves, order)
<1> DEFINE D == DOMAIN moves
           S == SUBSET D
           m == OrderMeasure(D)
           E == OrderEnds(D)
           f == OrderTable(moves)
           R == [left \in S |-> {w \in Seq(Comps(D)) : Closed(moves, left) => Divides(D, left, w)}]
<1>1. m \in [S -> Nat] /\ E \in SUBSET S /\ Descends(S, m, Comps(D), E, OrderSteps(moves))
  BY OrderDescends DEF OrderEnds
<1>2. f = WalkStep(S, E, OrderSteps(moves), f)
  BY OrderTableSolves
<1>3. ASSUME NEW left \in E PROVE << >> \in R[left]
  <2>1. left = {} /\ left \in S
    BY DEF OrderEnds
  <2>2. << >> \in Seq(Comps(D)) /\ DOMAIN << >> = {}
    OBVIOUS
  <2>3. Divides(D, left, << >>)
    BY <2>1, <2>2 DEF Divides
  <2> QED
    BY <2>1, <2>2, <2>3
<1>4. ASSUME NEW left \in S \ E, NEW p \in OrderSteps(moves)[left], NEW w \in R[p[2]]
      PROVE  <<p[1]>> \o w \in R[left]
  <2>1. PICK comp \in UNION {Searches(moves, n) : n \in left} : p \in OrderLeads(moves, left, comp)
    BY DEF OrderSteps
  <2>2. PICK c \in Ordered(moves, comp) : p = <<c, left \ ToSet(comp)>>
    BY <2>1 DEF OrderLeads
  <2>3. /\ c \in Comps(D) /\ Once(c.tickets) /\ c.tickets # << >>
        /\ ToSet(c.tickets) = ToSet(comp)
        /\ Closed(moves, left) => /\ ToSet(comp) \subseteq left
                                  /\ Closed(moves, left \ ToSet(comp))
    BY ComponentOf
  <2>4. w \in Seq(Comps(D)) /\ (Closed(moves, left \ ToSet(comp)) => Divides(D, left \ ToSet(comp), w))
    BY <2>2
  <2>5. <<c>> \o w \in Seq(Comps(D))
    <3> DEFINE e == <<c>>
    <3>1. e \in Seq(Comps(D))
      BY <2>3, Single
    <3> HIDE DEF e
    <3>2. e \o w \in Seq(Comps(D))
      BY <2>4, <3>1, Concatenated
    <3> QED
      BY <3>2 DEF e
  <2>6. ASSUME Closed(moves, left) PROVE Divides(D, left, <<c>> \o w)
    <3>1. ToSet(c.tickets) \subseteq left /\ Divides(D, left \ ToSet(c.tickets), w)
      BY <2>3, <2>4, <2>6
    <3> HIDE DEF D
    <3>2. left \in SUBSET D
      BY DEF D
    <3> QED
      BY <2>3, <3>1, <3>2, DividesNext
  <2>7. <<p[1]>> \o w = <<c>> \o w
    BY <2>2
  <2> QED
    BY <2>5, <2>6, <2>7
<1>5. Kept(S, E, OrderSteps(moves), R)
  BY <1>3, <1>4 DEF Kept
<1>6. order \in f[D]
  BY MovementOrdersDef
<1>7. D \in S
  OBVIOUS
<1>8. Closed(moves, D)
  BY DEF Closed
<1> HIDE DEF S, m, E, f
<1>9. f[D] \subseteq R[D]
  <2> HIDE DEF R, D
  <2> QED
    BY <1>1, <1>2, <1>5, <1>7, WalkInduction
<1> QED
  BY <1>6, <1>7, <1>8, <1>9 DEF S

-----------------------------------------------------------------------------
(* The order within a component *)

\* A move before another one of the sequence is earlier there.
InTurn(moves, s) == \A i, k \in DOMAIN s : Before(moves, s[i], s[k]) => i < k

\* Some of the moves C cannot begin: each of them is behind another of them.
Stuck(moves, C) == \E B \in SUBSET C : B # {} /\ \A n \in B : \E k \in B : Before(moves, k, n)

\* What a move of w is behind is taken already, or earlier in w.
Follows(moves, D, taken, w) ==
    \A k \in DOMAIN w : \A n \in D : Before(moves, n, w[k]) =>
        n \in taken \/ \E i \in DOMAIN w : i < k /\ w[i] = n

\* A state of the sorting with every free move in the queue.
Ready(moves, D, x) == Queued(moves, D, x) /\ ToSet(x.queue) = Free(moves, D, x.taken)

\* The sorting from x on takes every move after those before it, and goes on
\* until none is free.
Exhausts(moves, D, x, w) ==
    /\ w \in Seq(D)
    /\ Ready(moves, D, x) => /\ Follows(moves, D, x.taken, w)
                             /\ Free(moves, D, x.taken \cup ToSet(w)) = {}

\* The free moves stay in the queue.
LEMMA StaysReady ==
    ASSUME NEW moves, NEW D, IsFiniteSet(D), NEW x \in SortStates(D), x.queue # << >>,
           NEW q \in SetToSeqs(Freed(moves, D, x)), Ready(moves, D, x)
    PROVE  Ready(moves, D, Sorted(moves, D, x, q))
<1> DEFINE y == Sorted(moves, D, x, q)
           id == Head(x.queue)
           tail == Tail(x.queue)
           next == Freed(moves, D, x)
<1>1. x.queue \in Seq(D) /\ next \in SUBSET D
  BY DEF SortStates, Freed, Free
<1>2. /\ tail \in Seq(D) /\ id \in D /\ ToSet(x.queue) = {id} \cup ToSet(tail)
      /\ id \notin ToSet(tail)
  BY <1>1, HeadTail DEF Ready, Queued
<1>3. q \in Seq(D) /\ ToSet(q) = next
  BY <1>1, PushedOrder
<1>4. y.queue = tail \o q /\ y.taken = x.taken \cup {id}
  BY DEF Sorted
<1>5. next = Free(moves, D, x.taken \cup {id})
                 \ (Free(moves, D, x.taken) \cup (x.taken \cup {id}))
  BY DEF Freed
<1>6. {id} \cup ToSet(tail) = Free(moves, D, x.taken)
  BY <1>2 DEF Ready
<1>7. Queued(moves, D, y)
  BY StaysQueued DEF Ready
<1> HIDE DEF y, id, tail, next
<1>8. ToSet(y.queue) = ToSet(tail) \cup next
  BY <1>2, <1>3, <1>4, Concatenated
<1>9. ToSet(tail) \subseteq Free(moves, D, x.taken \cup {id})
  BY <1>2, <1>6 DEF Free
<1>10. Free(moves, D, x.taken \cup {id}) \subseteq ToSet(tail) \cup next
  <2>1. Free(moves, D, x.taken \cup {id}) \cap (x.taken \cup {id}) = {}
    BY DEF Free
  <2> QED
    BY <1>5, <1>6, <2>1
<1>11. next \subseteq Free(moves, D, x.taken \cup {id})
  BY <1>5
<1> QED
  BY <1>4, <1>7, <1>8, <1>9, <1>10, <1>11 DEF Ready, y

\* The move at the head of the queue is behind none but what is taken, and those
\* that follow are behind it or what was taken before it.
LEMMA ExhaustsNext ==
    ASSUME NEW moves, NEW D, IsFiniteSet(D), NEW x \in SortStates(D), x.queue # << >>,
           NEW q \in SetToSeqs(Freed(moves, D, x)), NEW w,
           Exhausts(moves, D, Sorted(moves, D, x, q), w)
    PROVE  Exhausts(moves, D, x, <<Head(x.queue)>> \o w)
<1> DEFINE y == Sorted(moves, D, x, q)
           id == Head(x.queue)
           e == <<id>>
           v == e \o w
           n == Len(w)
<1>1. x.queue \in Seq(D)
  BY DEF SortStates
<1>2. id \in D /\ id \in ToSet(x.queue)
  BY <1>1, HeadTail
<1>3. w \in Seq(D) /\ n \in Nat /\ DOMAIN w = 1..n
  BY LenProperties DEF Exhausts
<1>4. e \in Seq(D) /\ ToSet(e) = {id} /\ Len(e) = 1 /\ e[1] = id
  BY <1>2, Single
<1>5. y.taken = x.taken \cup {id}
  BY DEF Sorted
<1>6. v \in Seq(D) /\ ToSet(v) = {id} \cup ToSet(w) /\ Len(v) = 1 + n
  <2> HIDE DEF e, id
  <2>1. v \in Seq(D) /\ ToSet(v) = ToSet(e) \cup ToSet(w) /\ Len(v) = Len(e) + Len(w)
    <3>1. w \in Seq(D) /\ e \in Seq(D)
      BY <1>3, <1>4
    <3> QED
      BY <3>1, Concatenated
  <2> HIDE DEF v
  <2> QED
    BY <1>4, <2>1
<1>7. DOMAIN v = 1..(1 + n)
  <2> HIDE DEF v
  <2> QED
    BY <1>6, LenProperties
<1>8. v[1] = id /\ \A k \in 1..n : k + 1 \in 1..(1 + n) /\ v[k + 1] = w[k]
  <2> HIDE DEF e
  <2>1. \A i \in 1..(Len(e) + Len(w)) : v[i] = IF i <= Len(e) THEN e[i] ELSE w[i - Len(e)]
    BY <1>3, <1>4, ConcatProperties
  <2> HIDE DEF v, id
  <2>2. \A k \in 1..n : k + 1 \in 1..(1 + n) /\ ~(k + 1 <= 1) /\ (k + 1) - 1 = k
    BY <1>3
  <2>3. 1 \in 1..(1 + n)
    BY <1>3
  <2> HIDE DEF n
  <2> QED
    BY <1>4, <2>1, <2>2, <2>3 DEF n
<1>9. ASSUME Ready(moves, D, x)
      PROVE  /\ Follows(moves, D, x.taken, v)
             /\ Free(moves, D, x.taken \cup ToSet(v)) = {}
  <2>1. Ready(moves, D, y)
    BY <1>9, StaysReady
  <2>2. Follows(moves, D, y.taken, w) /\ Free(moves, D, y.taken \cup ToSet(w)) = {}
    BY <2>1 DEF Exhausts
  <2>3. id \in Free(moves, D, x.taken)
    BY <1>2, <1>9 DEF Ready
  <2> HIDE DEF y, id, v, e, n
  <2>4. ASSUME NEW k \in 1..(1 + n), NEW p \in D, Before(moves, p, v[k])
        PROVE  p \in x.taken \/ \E i \in 1..(1 + n) : i < k /\ v[i] = p
    <3>1. CASE k = 1
      BY <1>8, <2>3, <2>4, <3>1 DEF Free
    <3>2. CASE k # 1
      <4>1. k - 1 \in 1..n /\ (k - 1) + 1 = k /\ 1 \in 1..(1 + n) /\ 1 < k
        BY <1>3, <3>2
      <4>2. Before(moves, p, w[k - 1])
        BY <1>8, <2>4, <4>1
      <4>3. p \in y.taken \/ \E i \in 1..n : i < k - 1 /\ w[i] = p
        BY <1>3, <2>2, <4>1, <4>2 DEF Follows
      <4>4. CASE \E i \in 1..n : i < k - 1 /\ w[i] = p
        <5>1. PICK i \in 1..n : i < k - 1 /\ w[i] = p
          BY <4>4
        <5>2. i + 1 \in 1..(1 + n) /\ i + 1 < k /\ v[i + 1] = p
          BY <1>8, <5>1
        <5> QED
          BY <5>2
      <4>5. CASE p \in y.taken
        BY <1>5, <1>8, <4>1, <4>5
      <4> QED
        BY <4>3, <4>4, <4>5
    <3> QED
      BY <3>1, <3>2
  <2>5. y.taken \cup ToSet(w) = x.taken \cup ToSet(v)
    BY <1>5, <1>6
  <2> QED
    BY <1>7, <2>2, <2>4, <2>5 DEF Follows
<1> QED
  BY <1>6, <1>9 DEF Exhausts

\* What any sorting gives, from a state with every free move in the queue.
LEMMA SortExhausts ==
    ASSUME NEW moves, NEW D, IsFiniteSet(D), NEW x \in SortStates(D),
           NEW w \in SortTable(moves, D)[x]
    PROVE  Exhausts(moves, D, x, w)
<1> DEFINE S == SortStates(D)
           m == SortMeasure(moves, D)
           E == SortEnds(D)
           f == SortTable(moves, D)
           R == [y \in S |-> {v \in Seq(D) : Exhausts(moves, D, y, v)}]
<1>1. m \in [S -> Nat] /\ E \in SUBSET S /\ Descends(S, m, D, E, SortSteps(moves, D))
  BY SortMeasureType, SortDescends DEF SortEnds
<1>2. f = WalkStep(S, E, SortSteps(moves, D), f)
  BY SortTableSolves
<1>3. ASSUME NEW y \in S, NEW v, Exhausts(moves, D, y, v) PROVE v \in R[y]
  BY <1>3 DEF Exhausts
<1>4. ASSUME NEW y \in E PROVE << >> \in R[y]
  <2>1. y \in S /\ y.queue = << >>
    BY DEF SortEnds
  <2>2. y.taken \cup ToSet(<< >>) = y.taken /\ << >> \in Seq(D) /\ DOMAIN << >> = {}
    BY Nothing
  <2>3. Exhausts(moves, D, y, << >>)
    BY <2>1, <2>2, Nothing DEF Exhausts, Follows, Ready
  <2> QED
    BY <1>3, <2>1, <2>3
<1>5. ASSUME NEW y \in S \ E, NEW p \in SortSteps(moves, D)[y], NEW rest \in R[p[2]]
      PROVE  <<p[1]>> \o rest \in R[y]
  <2>1. y \in S /\ y.queue # << >>
    BY DEF SortEnds
  <2>2. PICK q \in SetToSeqs(Freed(moves, D, y)) : p = <<Head(y.queue), Sorted(moves, D, y, q)>>
    BY <2>1 DEF SortSteps
  <2>3. p[1] = Head(y.queue) /\ p[2] = Sorted(moves, D, y, q) /\ p[2] \in S
    BY <2>1, <2>2, SortGoesDown DEF Below
  <2>4. Exhausts(moves, D, p[2], rest)
    BY <2>3
  <2>5. Exhausts(moves, D, y, <<p[1]>> \o rest)
    BY <2>1, <2>3, <2>4, ExhaustsNext
  <2> QED
    BY <1>3, <2>1, <2>5
<1>6. Kept(S, E, SortSteps(moves, D), R)
  BY <1>4, <1>5 DEF Kept
<1> HIDE DEF S, m, E, f
<1>7. f[x] \subseteq R[x]
  <2> HIDE DEF R
  <2>1. x \in S
    BY DEF S
  <2> QED
    BY <1>1, <1>2, <1>6, <2>1, WalkInduction
<1> QED
  BY <1>7 DEF S, f

\* A sorting takes every move after those before it, and leaves none that is free.
LEMMA SortsInTurn ==
    ASSUME NEW X, IsFiniteSet(X), NEW moves, NEW comp \in Seq(X), Once(comp),
           NEW w \in Sorts(moves, comp)
    PROVE  /\ Follows(moves, ToSet(comp), {}, w)
           /\ Free(moves, ToSet(comp), ToSet(w)) = {}
<1> DEFINE D == ToSet(comp)
           T == Free(moves, D, {})
           first == Only(comp, T)
           x == [queue |-> first, taken |-> {}]
<1>1. comp \in Seq(D) /\ IsFiniteSet(D)
  BY ToSetType, FS_Subset
<1>2. first \in Seq(D) /\ ToSet(first) = D \cap T /\ Once(first)
  <2> HIDE DEF T, D
  <2>1. first \in Seq(D) /\ ToSet(first) = ToSet(comp) \cap T /\ (Once(comp) => Once(first))
    BY <1>1, OnlyResult
  <2> QED
    BY <2>1 DEF D
<1>3. w \in SortTable(moves, D)[x]
  BY SortsDef
<1>4. T \subseteq D
  BY DEF Free
<1> HIDE DEF first
<1>5. x \in SortStates(D) /\ x.queue = first /\ x.taken = {}
  BY <1>2 DEF SortStates
<1> HIDE DEF x
<1>6. Ready(moves, D, x)
  BY <1>2, <1>4, <1>5 DEF Queued, Ready
<1> HIDE DEF D, T
<1>7. Exhausts(moves, D, x, w)
  BY <1>1, <1>3, <1>5, SortExhausts
<1>8. {} \cup ToSet(w) = ToSet(w)
  OBVIOUS
<1> QED
  BY <1>5, <1>6, <1>7, <1>8 DEF Exhausts, D

\* Moves in such an order are not stuck: the earliest of some of them is behind
\* none of these.
LEMMA InTurnNotStuck ==
    ASSUME NEW X, NEW moves, NEW s \in Seq(X), InTurn(moves, s)
    PROVE  ~Stuck(moves, ToSet(s))
<1> SUFFICES ASSUME NEW B \in SUBSET ToSet(s), B # {},
                    \A n \in B : \E k \in B : Before(moves, k, n)
             PROVE  FALSE
  BY DEF Stuck
<1> DEFINE T == {i \in DOMAIN s : s[i] \in B}
<1>1. DOMAIN s = 1..Len(s) /\ Len(s) \in Nat
  BY LenProperties
<1>2. \A n \in B : \E i \in DOMAIN s : s[i] = n
  BY DEF ToSet
<1>3. T \in SUBSET Nat /\ T # {}
  BY <1>1, <1>2
<1>4. PICK i \in T : \A k \in T : i <= k
  <2> HIDE DEF T
  <2> QED
    BY <1>3, LeastNumber
<1>5. PICK n \in B : Before(moves, n, s[i])
  OBVIOUS
<1>6. PICK k \in DOMAIN s : s[k] = n
  BY <1>2
<1>7. k < i
  BY <1>5, <1>6 DEF InTurn
<1>8. i <= k /\ i \in Nat /\ k \in Nat
  BY <1>1, <1>4, <1>6
<1> QED
  BY <1>7, <1>8

\* A component is a loop exactly when some of its moves are stuck, and is in turn
\* otherwise.
Runs(moves, c) ==
    /\ c.loop <=> Stuck(moves, ToSet(c.tickets))
    /\ ~c.loop => InTurn(moves, c.tickets)

\* The component that is executed runs: topoSort tells a loop by what it could not take.
LEMMA OrderedRuns ==
    ASSUME NEW X, IsFiniteSet(X), NEW moves, NEW comp \in Seq(X), Once(comp),
           NEW c \in Ordered(moves, comp)
    PROVE  Runs(moves, c)
<1> DEFINE D == ToSet(comp)
<1>1. PICK w \in Sorts(moves, comp) :
          c = IF Len(w) < Len(comp) THEN [tickets |-> comp, loop |-> TRUE]
                                    ELSE [tickets |-> w, loop |-> FALSE]
  BY DEF Ordered
<1>2. w \in Seq(D) /\ Once(w)
  BY SortsResult
<1>3. Follows(moves, D, {}, w) /\ Free(moves, D, ToSet(w)) = {}
  BY SortsInTurn
<1>4. CASE Len(w) < Len(comp)
  <2> DEFINE B == D \ ToSet(w)
  <2>1. c.loop = TRUE /\ c.tickets = comp
    BY <1>1, <1>4
  <2>2. Cardinality(D) = Len(comp)
    BY OnceLength
  <2>3. Cardinality(ToSet(w)) = Len(w) /\ ToSet(w) \subseteq D
    <3> HIDE DEF D
    <3> QED
      BY <1>2, OnceLength, ToSetType
  <2>4. B # {}
    <3>1. Len(w) # Len(comp)
      BY <1>2, <1>4, LenProperties
    <3>2. ToSet(w) # D
      BY <2>2, <2>3, <3>1
    <3> HIDE DEF D
    <3> QED
      BY <2>3, <3>2
  <2>5. ASSUME NEW n \in B PROVE \E k \in B : Before(moves, k, n)
    BY <1>3 DEF Free
  <2>6. Stuck(moves, D)
    BY <2>4, <2>5 DEF Stuck
  <2> QED
    BY <2>1, <2>6 DEF Runs
<1>5. CASE ~(Len(w) < Len(comp))
  <2>1. c.loop = FALSE /\ c.tickets = w
    BY <1>1, <1>5
  <2>2. InTurn(moves, w)
    <3> SUFFICES ASSUME NEW i \in DOMAIN w, NEW k \in DOMAIN w, Before(moves, w[i], w[k])
                 PROVE  i < k
      BY DEF InTurn
    <3>1. w[i] \in D
      <4> HIDE DEF D
      <4> QED
        BY <1>2, ElementOfSeq, LenProperties
    <3>2. PICK j \in DOMAIN w : j < k /\ w[j] = w[i]
      BY <1>3, <3>1 DEF Follows
    <3> QED
      BY <1>2, <3>2 DEF Once
  <2>3. ~Stuck(moves, ToSet(w))
    <3> HIDE DEF D
    <3> QED
      BY <1>2, <2>2, InTurnNotStuck
  <2> QED
    BY <2>1, <2>2, <2>3 DEF Runs
<1> QED
  BY <1>4, <1>5

\* Every component of an order runs, and is behind no other.
RunsAlone(moves, order) ==
    \A i \in DOMAIN order :
        Runs(moves, order[i]) /\ Closed(moves, ToSet(order[i].tickets))

\* A component is a loop exactly when topoSort cannot order it; otherwise every
\* move comes after those that free its floor; and no move of one component waits
\* for a move of another, so the robots may take the components in any order.
THEOREM MovementOrdersRun ==
    ASSUME NEW moves, IsFiniteSet(DOMAIN moves), NEW order \in MovementOrders(moves)
    PROVE  RunsAlone(moves, order)
<1> DEFINE D == DOMAIN moves
           S == SUBSET D
           m == OrderMeasure(D)
           E == OrderEnds(D)
           f == OrderTable(moves)
           R == [left \in S |-> {w \in Seq(Comps(D)) : RunsAlone(moves, w)}]
<1>1. m \in [S -> Nat] /\ E \in SUBSET S /\ Descends(S, m, Comps(D), E, OrderSteps(moves))
  BY OrderDescends DEF OrderEnds
<1>2. f = WalkStep(S, E, OrderSteps(moves), f)
  BY OrderTableSolves
<1>3. ASSUME NEW left \in E PROVE << >> \in R[left]
  <2>1. left \in S
    BY DEF OrderEnds
  <2>2. << >> \in Seq(Comps(D)) /\ DOMAIN << >> = {}
    OBVIOUS
  <2>3. RunsAlone(moves, << >>)
    BY <2>2 DEF RunsAlone
  <2> QED
    BY <2>1, <2>2, <2>3
<1>4. ASSUME NEW left \in S \ E, NEW p \in OrderSteps(moves)[left], NEW w \in R[p[2]]
      PROVE  <<p[1]>> \o w \in R[left]
  <2>1. PICK comp \in UNION {Searches(moves, n) : n \in left} : p \in OrderLeads(moves, left, comp)
    BY DEF OrderSteps
  <2>2. PICK c \in Ordered(moves, comp) : p = <<c, left \ ToSet(comp)>>
    BY <2>1 DEF OrderLeads
  <2>3. c \in Comps(D) /\ ToSet(c.tickets) = ToSet(comp)
    BY ComponentOf
  <2>4. comp \in Seq(D) /\ Once(comp) /\ Closed(moves, ToSet(comp))
    <3>1. PICK n \in left : comp \in Searches(moves, n)
      OBVIOUS
    <3>2. n \in DOMAIN moves
      OBVIOUS
    <3> QED
      BY <3>1, <3>2, SearchesResult
  <2>5. Runs(moves, c)
    <3>1. IsFiniteSet(D)
      OBVIOUS
    <3> HIDE DEF D
    <3> QED
      BY <2>4, <3>1, OrderedRuns
  <2>6. w \in Seq(Comps(D)) /\ RunsAlone(moves, w)
    BY <2>2
  <2> DEFINE e == <<c>>
             v == e \o w
  <2>7. e \in Seq(Comps(D)) /\ Len(e) = 1 /\ e[1] = c
    BY <2>3, Single
  <2> HIDE DEF e, D
  <2>8. v \in Seq(Comps(D)) /\ Len(v) = 1 + Len(w)
    BY <2>6, <2>7, Concatenated
  <2>9. \A i \in 1..(1 + Len(w)) : v[i] = IF i <= 1 THEN c ELSE w[i - 1]
    <3>1. \A i \in 1..(Len(e) + Len(w)) : v[i] = IF i <= Len(e) THEN e[i] ELSE w[i - Len(e)]
      BY <2>6, <2>7, ConcatProperties
    <3>2. \A i \in 1..(1 + Len(w)) : i <= 1 => i = 1
      BY <2>6, LenProperties
    <3> HIDE DEF v
    <3> QED
      BY <2>7, <3>1, <3>2
  <2> HIDE DEF v
  <2>10. DOMAIN v = 1..(1 + Len(w)) /\ DOMAIN w = 1..Len(w) /\ Len(w) \in Nat
    BY <2>6, <2>8, LenProperties
  <2>11. ASSUME NEW i \in DOMAIN v
         PROVE  Runs(moves, v[i]) /\ Closed(moves, ToSet(v[i].tickets))
    <3>1. CASE i <= 1
      <4>1. v[i] = c
        BY <2>9, <2>10, <3>1
      <4> QED
        BY <2>3, <2>4, <2>5, <4>1
    <3>2. CASE ~(i <= 1)
      <4>1. v[i] = w[i - 1] /\ i - 1 \in DOMAIN w
        BY <2>9, <2>10, <3>2
      <4> QED
        BY <2>6, <4>1 DEF RunsAlone
    <3> QED
      BY <3>1, <3>2
  <2>12. RunsAlone(moves, v)
    BY <2>11 DEF RunsAlone
  <2>13. <<p[1]>> \o w = v
    BY <2>2 DEF v, e
  <2> QED
    BY <2>8, <2>12, <2>13
<1>5. Kept(S, E, OrderSteps(moves), R)
  BY <1>3, <1>4 DEF Kept
<1>6. order \in f[D]
  BY MovementOrdersDef
<1>7. D \in S
  OBVIOUS
<1> HIDE DEF S, m, E, f
<1>8. f[D] \subseteq R[D]
  <2> HIDE DEF R, D
  <2> QED
    BY <1>1, <1>2, <1>5, <1>7, WalkInduction
<1> QED
  BY <1>6, <1>7, <1>8 DEF S

-----------------------------------------------------------------------------
(* A sequence of sequences, one after the other *)

FlatStep(seqs, f) == [i \in 1..Len(seqs) |-> IF i = 1 THEN seqs[i] ELSE f[i - 1] \o seqs[i]]
FlatTable(seqs) == CHOOSE f : f = FlatStep(seqs, f)

\* FlattenSeq is a recursion over the positions.
LEMMA FlattenDef ==
    ASSUME NEW seqs, Len(seqs) # 0
    PROVE  FlattenSeq(seqs) = FlatTable(seqs)[Len(seqs)]
<1>1. FlattenSeq(seqs) = IF Len(seqs) = 0 THEN seqs ELSE FlatTable(seqs)[Len(seqs)]
  BY Zenon DEF FlattenSeq, FlatTable, FlatStep
<1> QED
  BY <1>1

\* The table of the concatenations solves its recursion.
LEMMA FlatTableSolves ==
    ASSUME NEW X, NEW seqs \in Seq(Seq(X))
    PROVE  FlatTable(seqs) = FlatStep(seqs, FlatTable(seqs))
<1> DEFINE n == Len(seqs)
           S == 1..n
           m == [i \in S |-> i]
           V == Seq(X)
           P == UNION {{i} \X [Below(S, m, i) -> V] : i \in S}
           value(i, g) == IF i = 1 THEN seqs[i] ELSE g[i - 1] \o seqs[i]
           G == [p \in P |-> value(p[1], p[2])]
<1>1. n \in Nat /\ DOMAIN seqs = S /\ \A i \in S : seqs[i] \in V
  BY LenProperties
<1>2. m \in [S -> Nat] /\ \A i \in S : m[i] = i
  BY <1>1
<1>3. \A i \in S : i # 1 => i - 1 \in S /\ i - 1 < i
  BY <1>1
<1> HIDE DEF n, m, S
<1>4. \A i \in S : i # 1 => i - 1 \in Below(S, m, i)
  BY <1>2, <1>3 DEF Below
<1>5. ASSUME NEW i \in S, NEW g \in [Below(S, m, i) -> V] PROVE G[<<i, g>>] = value(i, g)
  <2> HIDE DEF G, V, value
  <2>1. <<i, g>> \in P
    OBVIOUS
  <2> HIDE DEF P
  <2> USE DEF G
  <2> QED
    BY <2>1
<1> HIDE DEF G
<1>6. StaysIn(S, m, G, V)
  <2> SUFFICES ASSUME NEW i \in S, NEW g \in [Below(S, m, i) -> V] PROVE value(i, g) \in V
    BY <1>5 DEF StaysIn
  <2>1. CASE i = 1
    BY <1>1, <2>1
  <2>2. CASE i # 1
    <3>1. g[i - 1] \in Seq(X) /\ seqs[i] \in Seq(X)
      BY <1>1, <1>4, <2>2
    <3>2. g[i - 1] \o seqs[i] \in Seq(X)
      BY <3>1, Concatenated
    <3> QED
      BY <2>2, <3>2
  <2> QED
    BY <2>1, <2>2
<1>7. PICK f : Solution(S, m, G, V, f)
  <2> HIDE DEF V
  <2> QED
    BY <1>2, <1>6, RecursionSolved
<1>8. ASSUME NEW i \in S PROVE f[i] = value(i, f)
  <2> DEFINE g == Part(S, m, i, f)
  <2>1. g \in [Below(S, m, i) -> V]
    BY <1>7 DEF Part, Below, Solution
  <2>2. f[i] = G[<<i, g>>]
    BY <1>7 DEF Solution
  <2>3. f[i] = value(i, g)
    BY <1>5, <2>1, <2>2
  <2>4. i # 1 => g[i - 1] = f[i - 1]
    BY <1>4 DEF Part
  <2> QED
    BY <2>3, <2>4
<1>9. f = FlatStep(seqs, f)
  BY <1>7, <1>8 DEF Solution, FlatStep, S, n
<1> QED
  BY <1>9 DEF FlatTable

\* The concatenation has the members of all of the sequences.
LEMMA FlattenResult ==
    ASSUME NEW X, NEW seqs \in Seq(Seq(X))
    PROVE  /\ FlattenSeq(seqs) \in Seq(X)
           /\ ToSet(FlattenSeq(seqs)) = UNION {ToSet(seqs[i]) : i \in DOMAIN seqs}
<1> DEFINE n == Len(seqs)
           f == FlatTable(seqs)
           A(k) == UNION {ToSet(seqs[i]) : i \in 1..k}
           T == {k \in 0..n : k # 0 => f[k] \in Seq(X) /\ ToSet(f[k]) = A(k)}
<1>1. n \in Nat /\ DOMAIN seqs = 1..n /\ \A i \in 1..n : seqs[i] \in Seq(X)
  BY LenProperties
<1>2. CASE n = 0
  <2>1. seqs = << >> /\ DOMAIN seqs = {}
    BY <1>1, <1>2, EmptySeq
  <2>2. FlattenSeq(seqs) = seqs
    BY <1>2 DEF FlattenSeq
  <2>3. << >> \in Seq(X) /\ ToSet(<< >>) = {}
    BY Nothing
  <2> QED
    BY <2>1, <2>2, <2>3
<1>3. CASE n # 0
  <2>1. ASSUME NEW k \in 1..n PROVE f[k] = IF k = 1 THEN seqs[k] ELSE f[k - 1] \o seqs[k]
    <3>1. f[k] = FlatStep(seqs, f)[k]
      BY FlatTableSolves
    <3> QED
      BY <3>1 DEF FlatStep
  <2>2. FlattenSeq(seqs) = f[n]
    BY <1>3, FlattenDef
  <2> HIDE DEF f, n
  <2>3. 0 \in T
    BY <1>1
  <2>4. ASSUME NEW k \in Nat, k < n, k \in T PROVE k + 1 \in T
    <3>1. k + 1 \in 1..n /\ k + 1 \in 0..n /\ (k + 1) - 1 = k
      BY <1>1, <2>4
    <3> DEFINE K == 1..k
    <3>2. 1..(k + 1) = K \cup {k + 1}
      BY <2>4
    <3>3. A(k + 1) = (UNION {ToSet(seqs[i]) : i \in K}) \cup ToSet(seqs[k + 1])
      <4> HIDE DEF K
      <4> QED
        BY <3>2
    <3>4. CASE k = 0
      <4>1. f[k + 1] = seqs[k + 1]
        BY <2>1, <3>1, <3>4
      <4>2. UNION {ToSet(seqs[i]) : i \in K} = {}
        <5>1. K = {}
          BY <3>4
        <5> HIDE DEF K
        <5> QED
          BY <5>1
      <4>3. f[k + 1] \in Seq(X) /\ ToSet(f[k + 1]) = A(k + 1)
        <5> HIDE DEF A, K
        <5> QED
          BY <1>1, <3>1, <3>3, <4>1, <4>2
      <4> HIDE DEF A
      <4> QED
        BY <3>1, <4>3
    <3>5. CASE k # 0
      <4>1. f[k + 1] = f[k] \o seqs[k + 1]
        <5> DEFINE j == k + 1
        <5>1. j \in 1..n /\ j # 1 /\ j - 1 = k
          BY <3>1, <3>5
        <5> HIDE DEF j
        <5>2. f[j] = f[j - 1] \o seqs[j]
          BY <2>1, <5>1
        <5> QED
          BY <5>1, <5>2 DEF j
      <4>2. f[k] \in Seq(X) /\ ToSet(f[k]) = A(k)
        BY <2>4, <3>5
      <4>3. seqs[k + 1] \in Seq(X)
        BY <1>1, <3>1
      <4> DEFINE a == f[k]
                 b == seqs[k + 1]
      <4> HIDE DEF a, b
      <4>4. a \o b \in Seq(X) /\ ToSet(a \o b) = ToSet(a) \cup ToSet(b)
        <5>1. a \in Seq(X) /\ b \in Seq(X)
          BY <4>2, <4>3 DEF a, b
        <5> QED
          BY <5>1, Concatenated
      <4>5. f[k + 1] \in Seq(X) /\ ToSet(f[k + 1]) = A(k + 1)
        <5>1. A(k) = UNION {ToSet(seqs[i]) : i \in K}
          OBVIOUS
        <5> HIDE DEF A, K
        <5> QED
          BY <3>3, <4>1, <4>2, <4>4, <5>1 DEF a, b
      <4> HIDE DEF A
      <4> QED
        BY <3>1, <4>5
    <3> QED
      BY <3>4, <3>5
  <2>5. n \in T
    <3> HIDE DEF T
    <3> QED
      BY <1>1, <2>3, <2>4, CountingUp
  <2>6. f[n] \in Seq(X) /\ ToSet(f[n]) = A(n)
    BY <1>3, <2>5
  <2> QED
    BY <1>1, <2>2, <2>6
<1> QED
  BY <1>2, <1>3
=============================================================================
