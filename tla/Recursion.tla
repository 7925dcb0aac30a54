------------------------------- MODULE Recursion -------------------------------
(***************************************************************************)
(* What the proofs about recursive functions rest on, with sets where a    *)
(* textbook has predicates: a set of numbers that is not empty has a least *)
(* element, and a recursion that goes down in some number has a solution.  *)
(***************************************************************************)
EXTENDS Integers, FiniteSetTheorems, WellFoundedInduction, TLAPS

\* The order of the numbers is well founded.
LEMMA NumbersWellFounded ==
    IsWellFoundedOn({ss \in Nat \X Nat : ss[1] < ss[2]}, Nat)
BY NatLessThanWellFounded, Zenon DEF OpToRel

\* A set of numbers has a least one.
LEMMA LeastNumber ==
    ASSUME NEW T \in SUBSET Nat, T # {}
    PROVE  \E n \in T : \A k \in T : n <= k
<1> DEFINE R == {ss \in Nat \X Nat : ss[1] < ss[2]}
<1>1. PICK n \in T : \A k \in T : <<k, n>> \notin R
  <2>1. IsWellFoundedOn(R, Nat)
    BY NumbersWellFounded
  <2> HIDE DEF R
  <2> QED
    BY <2>1, WFMin
<1>2. ASSUME NEW k \in T PROVE n <= k
  <2>1. k \in Nat /\ n \in Nat
    OBVIOUS
  <2>2. ~(k < n)
    BY <1>1, <2>1
  <2> QED
    BY <2>1, <2>2
<1> QED
  BY <1>2

\* Counting from 0 to n.
LEMMA CountingUp ==
    ASSUME NEW n \in Nat, NEW T, 0 \in T, \A k \in Nat : k < n /\ k \in T => k + 1 \in T
    PROVE  n \in T
<1> DEFINE N == {k \in Nat : k <= n /\ k \notin T}
<1> SUFFICES ASSUME N # {} PROVE FALSE
  OBVIOUS
<1>1. PICK k \in N : \A j \in N : k <= j
  <2>1. N \in SUBSET Nat
    OBVIOUS
  <2> HIDE DEF N
  <2> QED
    BY <2>1, LeastNumber
<1>2. k # 0 /\ k - 1 \in Nat /\ k - 1 < n /\ k - 1 \notin N
  BY <1>1
<1>3. (k - 1) + 1 = k
  OBVIOUS
<1> QED
  BY <1>2, <1>3

-----------------------------------------------------------------------------
(* Recursion on a set S with a measure m.  The step G gives the value at x
   from x and a function with the values at what is below x. *)

Below(S, m, x) == {y \in S : m[y] < m[x]}
Part(S, m, x, f) == [y \in Below(S, m, x) |-> f[y]]

\* f is right at everything whose measure is less than n.
Solves(S, m, G, V, n, f) ==
    /\ f \in [{y \in S : m[y] < n} -> V]
    /\ \A x \in S : m[x] < n => f[x] = G[<<x, Part(S, m, x, f)>>]

\* The step stays in V, and f is right everywhere.
StaysIn(S, m, G, V) == \A x \in S : \A g \in [Below(S, m, x) -> V] : G[<<x, g>>] \in V
Solution(S, m, G, V, f) == f \in [S -> V] /\ \A x \in S : f[x] = G[<<x, Part(S, m, x, f)>>]

\* Two solutions agree where both are defined.
LEMMA SolutionsAgree ==
    ASSUME NEW S, NEW m \in [S -> Nat], NEW G, NEW V
    PROVE  \A n \in Nat, l \in Nat : \A f, g : Solves(S, m, G, V, n, f) /\ Solves(S, m, G, V, l, g)
               => \A x \in S : m[x] < n /\ m[x] < l => f[x] = g[x]
<1> SUFFICES ASSUME NEW n \in Nat, NEW l \in Nat, NEW f, NEW g,
                    Solves(S, m, G, V, n, f), Solves(S, m, G, V, l, g)
             PROVE  \A x \in S : m[x] < n /\ m[x] < l => f[x] = g[x]
  OBVIOUS
<1> DEFINE T == {i \in Nat : \E y \in S : m[y] = i /\ i < n /\ i < l /\ f[y] # g[y]}
<1> SUFFICES ASSUME T # {} PROVE FALSE
  OBVIOUS
<1>1. PICK i \in T : \A k \in T : i <= k
  <2>1. T \subseteq Nat
    OBVIOUS
  <2> HIDE DEF T
  <2> QED
    BY <2>1, LeastNumber
<1>2. PICK y \in S : m[y] = i /\ i < n /\ i < l /\ f[y] # g[y]
  OBVIOUS
<1>3. \A z \in Below(S, m, y) : f[z] = g[z]
  <2>1. ASSUME NEW z \in S, m[z] < m[y], f[z] # g[z] PROVE FALSE
    <3>1. m[z] \in Nat /\ m[z] < i /\ i \in Nat
      BY <1>2, <2>1
    <3>2. m[z] \in T
      BY <1>2, <2>1, <3>1
    <3> QED
      BY <1>1, <3>1, <3>2
  <2> QED
    BY <2>1 DEF Below
<1>4. Part(S, m, y, f) = Part(S, m, y, g)
  BY <1>3 DEF Part
<1> QED
  BY <1>2, <1>4 DEF Solves

\* There is a solution as far as one wants.
LEMMA SolutionsGrow ==
    ASSUME NEW S, NEW m \in [S -> Nat], NEW G, NEW V, StaysIn(S, m, G, V), NEW n \in Nat
    PROVE  \E f : Solves(S, m, G, V, n, f)
<1> DEFINE T == {i \in Nat : ~ \E f : Solves(S, m, G, V, i, f)}
<1> SUFFICES ASSUME T # {} PROVE FALSE
  OBVIOUS
<1>1. PICK i \in T : \A k \in T : i <= k
  <2>1. T \subseteq Nat
    OBVIOUS
  <2> HIDE DEF T
  <2> QED
    BY <2>1, LeastNumber
<1>2. CASE i = 0
  <2> DEFINE f == [y \in {z \in S : m[z] < 0} |-> CHOOSE v \in V : TRUE]
  <2>1. {z \in S : m[z] < 0} = {}
    OBVIOUS
  <2>2. Solves(S, m, G, V, 0, f)
    BY <2>1 DEF Solves
  <2> QED
    BY <1>2, <2>2
<1>3. CASE i # 0
  <2>1. i - 1 \in Nat /\ i - 1 \notin T
    BY <1>1, <1>3
  <2>2. PICK f : Solves(S, m, G, V, i - 1, f)
    BY <2>1
  <2> DEFINE D == {y \in S : m[y] < i}
             g == [y \in D |-> G[<<y, Part(S, m, y, f)>>]]
  <2>3. ASSUME NEW y \in D PROVE /\ Below(S, m, y) \subseteq {z \in S : m[z] < i - 1}
                                 /\ Part(S, m, y, f) \in [Below(S, m, y) -> V]
    <3>1. m[y] \in Nat /\ m[y] < i
      OBVIOUS
    <3>2. ASSUME NEW z \in Below(S, m, y) PROVE z \in S /\ m[z] < i - 1
      <4>1. z \in S /\ m[z] \in Nat /\ m[z] < m[y]
        BY DEF Below
      <4> QED
        BY <3>1, <4>1
    <3> QED
      BY <2>2, <3>2 DEF Part, Solves
  <2>4. g \in [D -> V]
    BY <2>3 DEF StaysIn
  <2>5. ASSUME NEW z \in S, m[z] < i - 1 PROVE g[z] = f[z]
    <3>1. z \in D
      <4>1. m[z] \in Nat
        OBVIOUS
      <4> QED
        BY <2>5, <4>1
    <3> QED
      BY <2>2, <2>5, <3>1 DEF Solves
  <2>6. ASSUME NEW y \in D PROVE Part(S, m, y, g) = Part(S, m, y, f)
    <3>1. \A z \in Below(S, m, y) : g[z] = f[z]
      BY <2>3, <2>5
    <3> HIDE DEF g
    <3> QED
      BY <3>1 DEF Part
  <2>7. \A y \in D : g[y] = G[<<y, Part(S, m, y, g)>>]
    BY <2>6
  <2> HIDE DEF g
  <2>8. Solves(S, m, G, V, i, g)
    BY <2>4, <2>7 DEF Solves
  <2> QED
    BY <2>8
<1> QED
  BY <1>2, <1>3

\* A recursion that goes down in the measure has a solution.
LEMMA RecursionSolved ==
    ASSUME NEW S, NEW m \in [S -> Nat], NEW G, NEW V, StaysIn(S, m, G, V)
    PROVE  \E f : Solution(S, m, G, V, f)
<1> DEFINE s == [n \in Nat |-> CHOOSE f : Solves(S, m, G, V, n, f)]
           f == [x \in S |-> s[m[x] + 1][x]]
<1>1. \A n \in Nat : Solves(S, m, G, V, n, s[n])
  BY SolutionsGrow
<1> HIDE DEF s
<1>2. ASSUME NEW x \in S, NEW n \in Nat, m[x] < n PROVE f[x] = s[n][x]
  <2>1. m[x] \in Nat /\ m[x] + 1 \in Nat /\ m[x] < m[x] + 1
    OBVIOUS
  <2>2. Solves(S, m, G, V, m[x] + 1, s[m[x] + 1]) /\ Solves(S, m, G, V, n, s[n])
    BY <1>1, <2>1
  <2>3. \A j \in Nat, l \in Nat : \A a, b : Solves(S, m, G, V, j, a) /\ Solves(S, m, G, V, l, b)
               => \A z \in S : m[z] < j /\ m[z] < l => a[z] = b[z]
    BY SolutionsAgree
  <2>4. \A z \in S : m[z] < m[x] + 1 /\ m[z] < n => s[m[x] + 1][z] = s[n][z]
    BY <2>1, <2>2, <2>3
  <2>5. s[m[x] + 1][x] = s[n][x]
    BY <1>2, <2>1, <2>4
  <2> QED
    BY <2>5
<1>3. f \in [S -> V]
  <2>1. ASSUME NEW x \in S PROVE s[m[x] + 1][x] \in V
    <3>1. m[x] + 1 \in Nat /\ m[x] < m[x] + 1
      OBVIOUS
    <3> QED
      BY <1>1, <3>1 DEF Solves
  <2> QED
    BY <2>1
<1>4. ASSUME NEW x \in S PROVE f[x] = G[<<x, Part(S, m, x, f)>>]
  <2> DEFINE n == m[x] + 1
  <2>1. n \in Nat /\ m[x] \in Nat /\ m[x] < n
    OBVIOUS
  <2>2. \A y \in Below(S, m, x) : y \in S /\ m[y] < n
    <3>1. ASSUME NEW y \in Below(S, m, x) PROVE y \in S /\ m[y] < n
      <4>1. y \in S /\ m[y] \in Nat /\ m[y] < m[x]
        BY DEF Below
      <4> QED
        BY <2>1, <4>1
    <3> QED
      BY <3>1
  <2> HIDE DEF f
  <2>3. \A y \in Below(S, m, x) : f[y] = s[n][y]
    BY <1>2, <2>1, <2>2
  <2>4. Part(S, m, x, f) = Part(S, m, x, s[n])
    BY <2>3 DEF Part
  <2>5. s[n][x] = G[<<x, Part(S, m, x, s[n])>>]
    BY <1>1, <2>1 DEF Solves
  <2>6. f[x] = s[n][x]
    BY <1>2, <2>1
  <2> QED
    BY <2>4, <2>5, <2>6
<1> QED
  BY <1>3, <1>4 DEF Solution

\* The recursion that stops in D with r, and goes on at next elsewhere.
TailSolution(S, V, D, r, next, f) ==
    f \in [S -> V] /\ \A x \in S : f[x] = IF x \in D THEN r[x] ELSE f[next[x]]
GoesDown(S, m, D, next) == \A x \in S \ D : m[next[x]] < m[x]

\* A recursion that at x either gives r[x] or goes on at next[x] has a solution.
LEMMA TailRecursionSolved ==
    ASSUME NEW S, NEW m \in [S -> Nat], NEW V, NEW D \in SUBSET S, NEW r \in [D -> V],
           NEW next \in [S \ D -> S], GoesDown(S, m, D, next)
    PROVE  \E f : TailSolution(S, V, D, r, next, f)
<1> DEFINE P == UNION {{x} \X [Below(S, m, x) -> V] : x \in S}
           G == [p \in P |-> IF p[1] \in D THEN r[p[1]] ELSE p[2][next[p[1]]]]
<1>1. \A x \in S \ D : next[x] \in Below(S, m, x)
  BY DEF Below, GoesDown
<1>2. ASSUME NEW x \in S, NEW g \in [Below(S, m, x) -> V]
      PROVE  G[<<x, g>>] = IF x \in D THEN r[x] ELSE g[next[x]]
  <2>1. <<x, g>> \in P
    OBVIOUS
  <2> HIDE DEF P
  <2> QED
    BY <2>1
<1>3. StaysIn(S, m, G, V)
  <2> SUFFICES ASSUME NEW x \in S, NEW g \in [Below(S, m, x) -> V] PROVE G[<<x, g>>] \in V
    BY DEF StaysIn
  <2> HIDE DEF G
  <2>1. CASE x \in D
    BY <1>2, <2>1
  <2>2. CASE x \notin D
    BY <1>1, <1>2, <2>2
  <2> QED
    BY <2>1, <2>2
<1> HIDE DEF G
<1>4. PICK f : Solution(S, m, G, V, f)
  BY <1>3, RecursionSolved
<1>5. ASSUME NEW x \in S PROVE f[x] = IF x \in D THEN r[x] ELSE f[next[x]]
  <2>1. Part(S, m, x, f) \in [Below(S, m, x) -> V]
    BY <1>4 DEF Part, Below, Solution
  <2>2. f[x] = IF x \in D THEN r[x] ELSE Part(S, m, x, f)[next[x]]
    BY <1>2, <1>4, <2>1 DEF Solution
  <2>3. x \notin D => Part(S, m, x, f)[next[x]] = f[next[x]]
    BY <1>1 DEF Part
  <2> QED
    BY <2>2, <2>3
<1> QED
  BY <1>4, <1>5 DEF Solution, TailSolution

\* What follows at x from everything below x.
Inductive(S, m, T) == \A x \in S : Below(S, m, x) \subseteq T => x \in T

\* What follows at x from everything below x holds everywhere.
LEMMA MeasureInduction ==
    ASSUME NEW S, NEW m \in [S -> Nat], NEW T \in SUBSET S, Inductive(S, m, T)
    PROVE  S \subseteq T
<1> DEFINE N == {n \in Nat : \E x \in S : x \notin T /\ m[x] = n}
<1> SUFFICES ASSUME N # {} PROVE FALSE
  OBVIOUS
<1>1. PICK n \in N : \A k \in N : n <= k
  <2>1. N \in SUBSET Nat
    OBVIOUS
  <2> HIDE DEF N
  <2> QED
    BY <2>1, LeastNumber
<1>2. PICK x \in S : x \notin T /\ m[x] = n
  OBVIOUS
<1>3. PICK y \in Below(S, m, x) : y \notin T
  BY <1>2 DEF Inductive
<1>4. y \in S /\ m[y] \in Nat /\ m[y] < n /\ n \in Nat
  BY <1>2 DEF Below
<1>5. m[y] \in N
  BY <1>3, <1>4
<1> QED
  BY <1>1, <1>4, <1>5

-----------------------------------------------------------------------------
(* Folds.  c chooses a member of a set that is not empty, and h combines it
   with the value of the rest. *)

Chooses(S, c) == \A s \in (SUBSET S) \ {{}} : c[s] \in s
FoldSolution(S, V, base, c, h, f) ==
    /\ f \in [SUBSET S -> V]
    /\ \A s \in SUBSET S : f[s] = IF s = {} THEN base ELSE h[<<c[s], f[s \ {c[s]}]>>]

\* A fold over the subsets of a finite set has a solution.
LEMMA FoldSolved ==
    ASSUME NEW S, IsFiniteSet(S), NEW V, NEW base \in V,
           NEW c \in [(SUBSET S) \ {{}} -> S], Chooses(S, c), NEW h \in [S \X V -> V]
    PROVE  \E f : FoldSolution(S, V, base, c, h, f)
<1> DEFINE SS == SUBSET S
           m == [s \in SS |-> Cardinality(s)]
           P == UNION {{s} \X [Below(SS, m, s) -> V] : s \in SS}
           rest(s) == s \ {c[s]}
           G == [p \in P |-> IF p[1] = {} THEN base ELSE h[<<c[p[1]], p[2][rest(p[1])]>>]]
<1>1. m \in [SS -> Nat]
  <2>1. \A s \in SS : Cardinality(s) \in Nat
    BY FS_Subset, FS_CardinalityType
  <2> QED
    BY <2>1
<1>2. ASSUME NEW s \in SS, s # {} PROVE rest(s) \in Below(SS, m, s) /\ c[s] \in S
  <2>1. IsFiniteSet(s)
    BY FS_Subset
  <2>2. c[s] \in s
    BY <1>2 DEF Chooses
  <2>3. Cardinality(rest(s)) = Cardinality(s) - 1 /\ Cardinality(s) \in Nat
    BY <2>1, <2>2, FS_RemoveElement, FS_CardinalityType
  <2> QED
    BY <2>2, <2>3 DEF Below
<1>3. ASSUME NEW s \in SS, NEW g \in [Below(SS, m, s) -> V]
      PROVE  G[<<s, g>>] = IF s = {} THEN base ELSE h[<<c[s], g[rest(s)]>>]
  <2> HIDE DEF G, rest, m, SS
  <2>1. <<s, g>> \in P
    OBVIOUS
  <2> HIDE DEF P
  <2> USE DEF G
  <2> QED
    BY <2>1
<1> HIDE DEF G, m, rest
<1>4. StaysIn(SS, m, G, V)
  <2> SUFFICES ASSUME NEW s \in SS, NEW g \in [Below(SS, m, s) -> V] PROVE G[<<s, g>>] \in V
    BY DEF StaysIn
  <2>1. CASE s = {}
    BY <1>3, <2>1
  <2>2. CASE s # {}
    <3>1. c[s] \in S /\ g[rest(s)] \in V
      BY <1>2, <2>2
    <3> QED
      BY <1>3, <2>2, <3>1
  <2> QED
    BY <2>1, <2>2
<1>5. PICK f : Solution(SS, m, G, V, f)
  <2> HIDE DEF SS
  <2> QED
    BY <1>1, <1>4, RecursionSolved
<1>6. ASSUME NEW s \in SS PROVE f[s] = IF s = {} THEN base ELSE h[<<c[s], f[rest(s)]>>]
  <2> DEFINE g == Part(SS, m, s, f)
  <2>1. g \in [Below(SS, m, s) -> V]
    BY <1>5 DEF Part, Below, Solution
  <2>2. f[s] = G[<<s, g>>]
    BY <1>5 DEF Solution
  <2>3. s # {} => g[rest(s)] = f[rest(s)]
    BY <1>2 DEF Part
  <2> HIDE DEF g
  <2> QED
    BY <1>3, <2>1, <2>2, <2>3
<1> QED
  BY <1>5, <1>6 DEF Solution, FoldSolution, rest
=============================================================================
