------------------------------ MODULE NatLemmas ------------------------------
(***************************************************************************)
(* Induction and recursion on natural numbers, and sums and orders over    *)
(* finite sets, in the form the proofs need: with sets and functions for   *)
(* parameters in place of the operators of NaturalsInduction.              *)
(***************************************************************************)
EXTENDS Integers, TLAPS, WellFoundedInduction, FiniteSetTheorems

LEMMA LessIsWellFounded == IsWellFoundedOn({p \in Nat \X Nat : p[1] < p[2]}, Nat)
<1>1. OpToRel(<, Nat) = {p \in Nat \X Nat : p[1] < p[2]}
  BY DEF OpToRel
<1>2. QED
  BY <1>1, NatLessThanWellFounded

\* A set of numbers has a least one.
LEMMA LeastNumber ==
    ASSUME NEW T \in SUBSET Nat, T # {}
    PROVE  \E n \in T : \A m \in T : n =< m
<1> DEFINE Less == {p \in Nat \X Nat : p[1] < p[2]}
<1>1. \E x \in T : \A y \in T : ~ (<<y, x>> \in Less)
  BY LessIsWellFounded, WFMin
<1>2. \A x, y \in Nat : <<y, x>> \in Less <=> y < x
  OBVIOUS
<1>3. PICK n \in T : \A y \in T : ~ (<<y, n>> \in Less)
  BY <1>1
<1> HIDE DEF Less
<1>4. ASSUME NEW m \in T
      PROVE  n =< m
  <2>1. ~ (<<m, n>> \in Less) /\ n \in Nat /\ m \in Nat
    BY <1>3
  <2>2. ~ (m < n)
    BY <1>2, <2>1
  <2>3. QED
    BY <2>1, <2>2
<1>5. QED
  BY <1>4

\* A set with zero and every successor of its numbers has all numbers.
LEMMA SetInduction ==
    ASSUME NEW T, 0 \in T, \A n \in Nat : n \in T => n + 1 \in T
    PROVE  \A n \in Nat : n \in T
<1>1. SUFFICES ASSUME Nat \ T # {}
               PROVE  FALSE
  OBVIOUS
<1>2. PICK n \in Nat \ T : \A m \in Nat \ T : n =< m
  BY <1>1, LeastNumber
<1>3. n # 0 /\ n - 1 \in Nat /\ n - 1 < n
  BY <1>2
<1>4. n - 1 \in T
  BY <1>2, <1>3
<1>5. (n - 1) + 1 \in T
  BY <1>3, <1>4
<1>6. QED
  BY <1>5

\* The same from zero to a bound.
LEMMA UpTo ==
    ASSUME NEW N \in Nat, NEW T, 0 \in T, \A n \in 1 .. N : n - 1 \in T => n \in T
    PROVE  \A n \in 0 .. N : n \in T
<1> DEFINE U == {n \in Nat : n > N \/ n \in T}
<1>1. 0 \in U
  OBVIOUS
<1>2. ASSUME NEW n \in Nat, n \in U
      PROVE  n + 1 \in U
  <2>1. CASE n + 1 > N
    BY <2>1
  <2>2. CASE ~ (n + 1 > N)
    <3>1. n \in T /\ n + 1 \in 1 .. N /\ (n + 1) - 1 = n
      BY <1>2, <2>2
    <3>2. n + 1 \in T
      BY <3>1
    <3>3. QED
      BY <3>2
  <2>3. QED
    BY <2>1, <2>2
<1>3. \A n \in Nat : n \in U
  <2> HIDE DEF U
  <2>1. QED
    BY <1>1, <1>2, SetInduction
<1>4. QED
  BY <1>3

\* The functions on 0 .. N with this first value and this step.
Recursive(N, D, first, step) ==
    {f \in [0 .. N -> D] : f[0] = first /\ \A i \in 1 .. N : f[i] = step[<<i, f[i - 1]>>]}

\* There is one.
LEMMA Recursion ==
    ASSUME NEW N \in Nat, NEW D, NEW first \in D, NEW step \in [(1 .. N) \X D -> D]
    PROVE  Recursive(N, D, first, step) # {}
<1> DEFINE Good(f, n) == f[0] = first /\ \A i \in 1 .. n : f[i] = step[<<i, f[i - 1]>>]
           T == {n \in 0 .. N : \E f \in [0 .. n -> D] : Good(f, n)}
<1>1. 0 \in T
  <2> DEFINE f == [i \in 0 .. 0 |-> first]
  <2>1. f \in [0 .. 0 -> D] /\ f[0] = first
    OBVIOUS
  <2>2. 1 .. 0 = {}
    OBVIOUS
  <2> HIDE DEF f
  <2>3. Good(f, 0)
    BY <2>1, <2>2
  <2>4. 0 \in 0 .. N
    OBVIOUS
  <2> HIDE DEF Good
  <2>5. QED
    BY <2>1, <2>3, <2>4
<1>2. ASSUME NEW n \in 1 .. N, n - 1 \in T
      PROVE  n \in T
  <2>1. PICK f \in [0 .. (n - 1) -> D] : Good(f, n - 1)
    BY <1>2
  <2> DEFINE g == [i \in 0 .. n |-> IF i = n THEN step[<<n, f[n - 1]>>] ELSE f[i]]
  <2>2. f[n - 1] \in D
    OBVIOUS
  <2>3. step[<<n, f[n - 1]>>] \in D
    BY <2>2
  <2>4. g \in [0 .. n -> D]
    BY <2>3
  <2>5. g[0] = first
    BY <2>1
  <2>6. ASSUME NEW i \in 1 .. n
        PROVE  g[i] = step[<<i, g[i - 1]>>]
    <3>1. CASE i = n
      <4>1. n - 1 \in 0 .. n /\ n - 1 # n /\ n \in 0 .. n
        OBVIOUS
      <4>2. g[n] = step[<<n, f[n - 1]>>]
        BY <4>1
      <4>3. g[n - 1] = f[n - 1]
        BY <4>1
      <4>4. QED
        BY <3>1, <4>2, <4>3
    <3>2. CASE i # n
      <4>1. i \in 1 .. (n - 1) /\ i - 1 \in 0 .. (n - 1) /\ i - 1 # n /\ i \in 0 .. n /\ i - 1 \in 0 .. n
        BY <3>2
      <4>2. f[i] = step[<<i, f[i - 1]>>]
        BY <2>1, <4>1
      <4>3. g[i] = f[i]
        BY <3>2, <4>1
      <4>4. g[i - 1] = f[i - 1]
        BY <4>1
      <4>5. QED
        BY <4>2, <4>3, <4>4
    <3>3. QED
      BY <3>1, <3>2
  <2> HIDE DEF g
  <2>7. Good(g, n)
    BY <2>5, <2>6
  <2>8. QED
    BY <2>4, <2>7
<1>3. N \in T
  <2> HIDE DEF T
  <2>1. \A n \in 0 .. N : n \in T
    BY <1>1, <1>2, UpTo
  <2>2. QED
    BY <2>1
<1>4. QED
  BY <1>3 DEF Recursive

-----------------------------------------------------------------------------
(* Sums over finite sets, and orders of them *)

\* How the community modules add up a function: an element of the domain and
\* the sum without it.
Sums(D, v, g) ==
    g = [s \in SUBSET D |-> IF s = {} THEN 0
                            ELSE LET x == CHOOSE x \in s : TRUE IN v[x] + g[s \ {x}]]

\* Numbers closed under addition.
Additive(V) == V \subseteq Int /\ 0 \in V /\ \A a, b \in V : a + b \in V

\* Such a function exists for a finite domain.
LEMMA SumsExist ==
    ASSUME NEW D, IsFiniteSet(D), NEW V, Additive(V), NEW v, \A x \in D : v[x] \in V
    PROVE  \E g : Sums(D, v, g)
<1> DEFINE N == Cardinality(D)
           F == [SUBSET D -> V]
           first == [s \in SUBSET D |-> 0]
           Of(g) == [s \in SUBSET D |-> IF s = {} THEN 0
                        ELSE LET x == CHOOSE x \in s : TRUE IN v[x] + g[s \ {x}]]
           step == [p \in (1 .. N) \X F |-> Of(p[2])]
<1>1. N \in Nat /\ \A s \in SUBSET D : IsFiniteSet(s) /\ Cardinality(s) \in 0 .. N
  <2>1. N \in Nat
    BY FS_CardinalityType
  <2>2. ASSUME NEW s \in SUBSET D
        PROVE  IsFiniteSet(s) /\ Cardinality(s) \in 0 .. N
    <3>1. IsFiniteSet(s) /\ Cardinality(s) =< N
      BY FS_Subset
    <3>2. Cardinality(s) \in Nat
      BY <3>1, FS_CardinalityType
    <3>3. QED
      BY <2>1, <3>1, <3>2
  <2>3. QED
    BY <2>1, <2>2
<1>2. ASSUME NEW g \in F
      PROVE  Of(g) \in F
  <2>1. ASSUME NEW s \in SUBSET D, s # {}
        PROVE  LET x == CHOOSE x \in s : TRUE IN v[x] + g[s \ {x}] \in V
    <3> DEFINE x == CHOOSE x \in s : TRUE
    <3>1. x \in s
      BY <2>1
    <3> HIDE DEF x
    <3>2. v[x] \in V /\ g[s \ {x}] \in V
      BY <3>1
    <3>3. v[x] + g[s \ {x}] \in V
      BY <3>2 DEF Additive
    <3>4. QED
      BY <3>3 DEF x
  <2>2. 0 \in V
    BY DEF Additive
  <2>3. QED
    BY <2>1, <2>2
<1>3. first \in F
  BY DEF Additive
<1> HIDE DEF Of
<1>4. step \in [(1 .. N) \X F -> F]
  BY <1>2
<1>5. \A i \in 1 .. N : \A g \in F : step[<<i, g>>] = Of(g)
  OBVIOUS
<1> HIDE DEF N, F, first, step
<1>6. PICK h \in Recursive(N, F, first, step) : TRUE
  BY <1>1, <1>3, <1>4, Recursion
<1>7. /\ h \in [0 .. N -> F] /\ h[0] = first
      /\ \A i \in 1 .. N : h[i - 1] \in F /\ h[i] = Of(h[i - 1])
  <2>1. h \in [0 .. N -> F] /\ h[0] = first /\ \A i \in 1 .. N : h[i] = step[<<i, h[i - 1]>>]
    BY <1>6 DEF Recursive
  <2>2. \A i \in 1 .. N : i - 1 \in 0 .. N
    BY <1>1
  <2>3. QED
    BY <1>5, <2>1, <2>2
<1> DEFINE g == [s \in SUBSET D |-> h[Cardinality(s)][s]]
<1>8. ASSUME NEW s \in SUBSET D
      PROVE  g[s] = IF s = {} THEN 0 ELSE LET x == CHOOSE x \in s : TRUE IN v[x] + g[s \ {x}]
  <2>1. CASE s = {}
    <3>1. Cardinality(s) = 0
      BY <2>1, FS_EmptySet
    <3>2. g[s] = first[s]
      BY <1>7, <3>1
    <3>3. QED
      BY <2>1, <3>2 DEF first
  <2>2. CASE s # {}
    <3> DEFINE x == CHOOSE x \in s : TRUE
               n == Cardinality(s)
    <3>1. x \in s
      BY <2>2
    <3>2. n \in 1 .. N /\ Cardinality(s \ {x}) = n - 1 /\ s \ {x} \in SUBSET D
      <4>1. IsFiniteSet(s) /\ n \in 0 .. N /\ n # 0
        BY <1>1, <2>2, FS_EmptySet
      <4> HIDE DEF x
      <4>2. Cardinality(s \ {x}) = n - 1
        BY <3>1, <4>1, FS_RemoveElement
      <4>3. n \in 1 .. N
        BY <1>1, <4>1
      <4>4. QED
        BY <4>2, <4>3
    <3>3. g[s] = h[n][s] /\ h[n] = Of(h[n - 1])
      BY <1>7, <3>2
    <3>4. Of(h[n - 1])[s] = v[x] + h[n - 1][s \ {x}]
      BY <2>2 DEF Of
    <3>5. g[s \ {x}] = h[n - 1][s \ {x}]
      <4> HIDE DEF x, n
      <4>1. QED
        BY <3>2
    <3>6. g[s] = v[x] + g[s \ {x}]
      <4> HIDE DEF x, n, g
      <4>1. QED
        BY <3>3, <3>4, <3>5
    <3>7. QED
      BY <2>2, <3>6
  <2>3. QED
    BY <2>1, <2>2
<1>9. g = [s \in SUBSET D |-> g[s]]
  OBVIOUS
<1> HIDE DEF g
<1>10. Sums(D, v, g)
  BY <1>8, <1>9 DEF Sums
<1>11. QED
  BY <1>10

\* The sums are numbers of the kind that is added up.
LEMMA SumsTyped ==
    ASSUME NEW D, IsFiniteSet(D), NEW V, Additive(V), NEW v, \A x \in D : v[x] \in V,
           NEW g, Sums(D, v, g)
    PROVE  \A s \in SUBSET D : g[s] \in V
<1> DEFINE T == {n \in Nat : \A s \in SUBSET D : Cardinality(s) = n => g[s] \in V}
<1>1. \A s \in SUBSET D : g[s] = IF s = {} THEN 0 ELSE LET x == CHOOSE x \in s : TRUE IN v[x] + g[s \ {x}]
  BY DEF Sums
<1>2. \A s \in SUBSET D : IsFiniteSet(s) /\ Cardinality(s) \in Nat
  BY FS_Subset, FS_CardinalityType
<1>3. 0 \in T
  <2>1. \A s \in SUBSET D : Cardinality(s) = 0 => s = {}
    BY <1>2, FS_EmptySet
  <2>2. QED
    BY <1>1, <2>1 DEF Additive
<1>4. ASSUME NEW n \in Nat, n \in T
      PROVE  n + 1 \in T
  <2>1. ASSUME NEW s \in SUBSET D, Cardinality(s) = n + 1
        PROVE  g[s] \in V
    <3> DEFINE x == CHOOSE x \in s : TRUE
    <3>1. s # {}
      BY <2>1, FS_EmptySet
    <3>2. x \in s
      BY <3>1
    <3>3. g[s] = v[x] + g[s \ {x}]
      BY <1>1, <3>1
    <3> HIDE DEF x
    <3>4. Cardinality(s \ {x}) = n
      <4>1. IsFiniteSet(s)
        BY <1>2
      <4>2. Cardinality(s \ {x}) = Cardinality(s) - 1
        BY <3>2, <4>1, FS_RemoveElement
      <4>3. QED
        BY <2>1, <4>2
    <3>5. g[s \ {x}] \in V /\ v[x] \in V
      BY <1>4, <3>2, <3>4
    <3>6. QED
      BY <3>3, <3>5 DEF Additive
  <2>2. QED
    BY <2>1
<1> HIDE DEF T
<1>5. \A n \in Nat : n \in T
  BY <1>3, <1>4, SetInduction
<1>6. QED
  BY <1>2, <1>5 DEF T

\* A set in a strict total order has an element at each place.
LEMMA EveryPlaceIsTaken ==
    ASSUME NEW T, IsFiniteSet(T), NEW R,
           \A x \in T : <<x, x>> \notin R,
           \A x, y \in T : x # y => <<x, y>> \in R \/ <<y, x>> \in R,
           \A x, y, z \in T : <<x, y>> \in R /\ <<y, z>> \in R => <<x, z>> \in R,
           NEW n \in 1 .. Cardinality(T)
    PROVE  \E x \in T : Cardinality({y \in T : <<y, x>> \in R}) = n - 1
<1> DEFINE N == Cardinality(T)
           Before(x) == {y \in T : <<y, x>> \in R}
           rank == [x \in T |-> Cardinality(Before(x))]
<1>1. N \in Nat
  BY FS_CardinalityType
<1>2. ASSUME NEW x \in T
      PROVE  IsFiniteSet(Before(x)) /\ Cardinality(Before(x)) \in 0 .. N - 1
  <2>1. Before(x) \in SUBSET T /\ x \in T /\ x \notin Before(x)
    OBVIOUS
  <2> HIDE DEF Before
  <2>2. IsFiniteSet(Before(x)) /\ Cardinality(Before(x)) =< N /\ Cardinality(Before(x)) # N
    BY <2>1, FS_Subset
  <2>3. Cardinality(Before(x)) \in Nat
    BY <2>2, FS_CardinalityType
  <2>4. QED
    BY <1>1, <2>2, <2>3
<1>3. ASSUME NEW x \in T, NEW y \in T, <<x, y>> \in R
      PROVE  rank[x] # rank[y]
  <2>1. Before(x) \in SUBSET Before(y) /\ x \in Before(y) /\ x \notin Before(x)
    BY <1>3
  <2> HIDE DEF Before
  <2>2. Cardinality(Before(x)) # Cardinality(Before(y))
    BY <1>2, <2>1, FS_Subset
  <2>3. QED
    BY <2>2
<1> HIDE DEF Before
<1>4. rank \in [T -> 0 .. N - 1]
  BY <1>2
<1>5. \A x \in T : rank[x] = Cardinality(Before(x))
  OBVIOUS
<1> HIDE DEF rank
<1>6. rank \in Injection(T, 0 .. N - 1)
  <2>1. \A x, y \in T : rank[x] = rank[y] => x = y
    BY <1>3
  <2>2. DOMAIN rank = T
    BY <1>4
  <2>3. QED
    BY <1>4, <2>1, <2>2 DEF Injection, IsInjective
<1>7. IsFiniteSet(0 .. N - 1) /\ Cardinality(0 .. N - 1) = N
  <2>1. 0 \in Int /\ N - 1 \in Int
    BY <1>1
  <2>2. IsFiniteSet(0 .. N - 1) /\ Cardinality(0 .. N - 1) = IF 0 > N - 1 THEN 0 ELSE (N - 1) - 0 + 1
    BY <2>1, FS_Interval
  <2>3. QED
    BY <1>1, <2>2
<1>8. rank \in Surjection(T, 0 .. N - 1)
  BY <1>6, <1>7, FS_Injection
<1>9. n - 1 \in 0 .. N - 1
  BY <1>1
<1>10. \E x \in T : rank[x] = n - 1
  BY <1>8, <1>9 DEF Surjection
<1>11. QED
  BY <1>5, <1>10 DEF Before

-----------------------------------------------------------------------------
(* Sums of what a function gives for the elements of a finite set *)

\* What holds of no element and, with one more, of one element more holds of a
\* finite set.
LEMMA FiniteInduction ==
    ASSUME NEW D, IsFiniteSet(D), NEW T, {} \in T,
           \A s \in SUBSET D : \A q \in D \ s : s \in T => s \cup {q} \in T
    PROVE  D \in T
<1> DEFINE U == {n \in Nat : \A s \in SUBSET D : Cardinality(s) = n => s \in T}
<1>1. \A s \in SUBSET D : IsFiniteSet(s) /\ Cardinality(s) \in Nat
  BY FS_Subset, FS_CardinalityType
<1>2. 0 \in U
  <2>1. \A s \in SUBSET D : Cardinality(s) = 0 => s = {}
    BY <1>1, FS_EmptySet
  <2>2. QED
    BY <2>1
<1>3. ASSUME NEW n \in Nat, n \in U
      PROVE  n + 1 \in U
  <2>1. ASSUME NEW s \in SUBSET D, Cardinality(s) = n + 1
        PROVE  s \in T
    <3>1. s # {}
      <4>1. Cardinality({}) = 0 /\ n + 1 # 0
        BY FS_EmptySet
      <4>2. QED
        BY <2>1, <4>1
    <3>2. PICK q \in s : TRUE
      BY <3>1
    <3>3. IsFiniteSet(s)
      BY <1>1
    <3>4. Cardinality(s \ {q}) = n
      <4>1. Cardinality(s \ {q}) = Cardinality(s) - 1
        BY <3>2, <3>3, FS_RemoveElement
      <4>2. QED
        BY <2>1, <4>1
    <3>5. s \ {q} \in T
      BY <1>3, <3>4
    <3>6. (s \ {q}) \cup {q} \in T /\ (s \ {q}) \cup {q} = s
      BY <3>2, <3>5
    <3>7. QED
      BY <3>6
  <2>2. QED
    BY <2>1
<1> HIDE DEF U
<1>4. \A n \in Nat : n \in U
  BY <1>2, <1>3, SetInduction
<1>5. QED
  BY <1>1, <1>4 DEF U

\* The sum over a set does not depend on the set it is taken in.
LEMMA SumsUnique ==
    ASSUME NEW D, IsFiniteSet(D), NEW E \in SUBSET D, NEW v, NEW g, Sums(D, v, g), NEW h, Sums(E, v, h)
    PROVE  \A s \in SUBSET E : h[s] = g[s]
<1> DEFINE T == {n \in Nat : \A s \in SUBSET E : Cardinality(s) = n => h[s] = g[s]}
<1>1. \A s \in SUBSET E : IsFiniteSet(s) /\ Cardinality(s) \in Nat
  BY FS_Subset, FS_CardinalityType
<1>2. ASSUME NEW s \in SUBSET E
      PROVE  /\ s = {} => h[s] = 0 /\ g[s] = 0
             /\ s # {} => LET x == CHOOSE x \in s : TRUE
                          IN  x \in s /\ h[s] = v[x] + h[s \ {x}] /\ g[s] = v[x] + g[s \ {x}]
  BY DEF Sums
<1>3. 0 \in T
  <2>1. \A s \in SUBSET E : Cardinality(s) = 0 => s = {}
    BY <1>1, FS_EmptySet
  <2>2. QED
    BY <1>2, <2>1
<1>4. ASSUME NEW n \in Nat, n \in T
      PROVE  n + 1 \in T
  <2>1. ASSUME NEW s \in SUBSET E, Cardinality(s) = n + 1
        PROVE  h[s] = g[s]
    <3> DEFINE x == CHOOSE x \in s : TRUE
    <3>1. s # {}
      BY <2>1, FS_EmptySet
    <3>2. x \in s /\ h[s] = v[x] + h[s \ {x}] /\ g[s] = v[x] + g[s \ {x}]
      BY <1>2, <3>1
    <3> HIDE DEF x
    <3>3. IsFiniteSet(s)
      BY <1>1
    <3>4. Cardinality(s \ {x}) = n
      <4>1. Cardinality(s \ {x}) = Cardinality(s) - 1
        BY <3>2, <3>3, FS_RemoveElement
      <4>2. QED
        BY <2>1, <4>1
    <3>5. h[s \ {x}] = g[s \ {x}]
      BY <1>4, <3>4
    <3>6. QED
      BY <3>2, <3>5
  <2>2. QED
    BY <2>1
<1> HIDE DEF T
<1>5. \A n \in Nat : n \in T
  BY <1>3, <1>4, SetInduction
<1>6. QED
  BY <1>1, <1>5 DEF T

\* The sum over a finite set, by the way it is computed.
LEMMA SumIsFound ==
    ASSUME NEW D, IsFiniteSet(D), NEW V, Additive(V), NEW v, \A x \in D : v[x] \in V
    PROVE  \E g : Sums(D, v, g) /\ \A s \in SUBSET D : SumFunctionOnSet(v, s) = g[s] /\ g[s] \in V
<1>1. PICK g : Sums(D, v, g)
  BY SumsExist
<1>2. ASSUME NEW s \in SUBSET D
      PROVE  SumFunctionOnSet(v, s) = g[s]
  <2> DEFINE h == CHOOSE h : Sums(s, v, h)
  <2>1. SumFunctionOnSet(v, s) = h[s]
    BY DEF SumFunctionOnSet, FoldFunctionOnSet, MapThenFoldSet, Sums
  <2>2. IsFiniteSet(s) /\ \A x \in s : v[x] \in V
    BY FS_Subset
  <2>3. \E k : Sums(s, v, k)
    BY <2>2, SumsExist
  <2>4. Sums(s, v, h)
    BY <2>3
  <2> HIDE DEF h
  <2>5. h[s] = g[s]
    BY <1>1, <2>4, SumsUnique
  <2>6. QED
    BY <2>1, <2>5
<1>3. \A s \in SUBSET D : g[s] \in V
  BY <1>1, SumsTyped
<1>4. QED
  BY <1>1, <1>2, <1>3

\* A sum over nothing, and the type of a sum.
LEMMA SumType ==
    ASSUME NEW D, IsFiniteSet(D), NEW V, Additive(V), NEW v, \A x \in D : v[x] \in V
    PROVE  SumFunctionOnSet(v, D) \in V /\ SumFunctionOnSet(v, {}) = 0
<1>1. PICK g : Sums(D, v, g) /\ \A s \in SUBSET D : SumFunctionOnSet(v, s) = g[s] /\ g[s] \in V
  BY SumIsFound
<1>2. g[{}] = 0
  BY <1>1 DEF Sums
<1>3. D \in SUBSET D /\ {} \in SUBSET D
  OBVIOUS
<1>4. QED
  BY <1>1, <1>2, <1>3

\* Any term may be taken out of a sum.
LEMMA SumRemove ==
    ASSUME NEW D, IsFiniteSet(D), NEW v, \A x \in D : v[x] \in Int, NEW q \in D
    PROVE  SumFunctionOnSet(v, D) = v[q] + SumFunctionOnSet(v, D \ {q})
<1>1. Additive(Int)
  BY DEF Additive
<1>2. PICK g : Sums(D, v, g) /\ \A s \in SUBSET D : SumFunctionOnSet(v, s) = g[s] /\ g[s] \in Int
  BY <1>1, SumIsFound
<1> DEFINE T == {n \in Nat : \A s \in SUBSET D : Cardinality(s) = n => \A p \in s : g[s] = v[p] + g[s \ {p}]}
<1>3. \A s \in SUBSET D : IsFiniteSet(s) /\ Cardinality(s) \in Nat
  BY FS_Subset, FS_CardinalityType
<1>4. 0 \in T
  <2>1. \A s \in SUBSET D : Cardinality(s) = 0 => s = {}
    BY <1>3, FS_EmptySet
  <2>2. QED
    BY <2>1
<1>5. ASSUME NEW s \in SUBSET D, s # {}
      PROVE  LET x == CHOOSE x \in s : TRUE IN x \in s /\ g[s] = v[x] + g[s \ {x}]
  BY <1>2, <1>5 DEF Sums
<1>6. ASSUME NEW n \in Nat, n \in T
      PROVE  n + 1 \in T
  <2>1. ASSUME NEW s \in SUBSET D, Cardinality(s) = n + 1, NEW p \in s
        PROVE  g[s] = v[p] + g[s \ {p}]
    <3> DEFINE x == CHOOSE x \in s : TRUE
    <3>1. x \in s /\ g[s] = v[x] + g[s \ {x}]
      BY <1>5
    <3> HIDE DEF x
    <3>2. CASE p = x
      BY <3>1, <3>2
    <3>3. CASE p # x
      <4>1. IsFiniteSet(s)
        BY <1>3
      <4>2. Cardinality(s \ {x}) = n /\ Cardinality(s \ {p}) = n
        <5>1. Cardinality(s \ {x}) = Cardinality(s) - 1 /\ Cardinality(s \ {p}) = Cardinality(s) - 1
          BY <3>1, <4>1, FS_RemoveElement
        <5>2. QED
          BY <2>1, <5>1
      <4>3. p \in s \ {x} /\ x \in s \ {p}
        BY <3>1, <3>3
      <4>4. g[s \ {x}] = v[p] + g[(s \ {x}) \ {p}]
        BY <1>6, <4>2, <4>3
      <4>5. g[s \ {p}] = v[x] + g[(s \ {p}) \ {x}]
        BY <1>6, <4>2, <4>3
      <4>6. (s \ {p}) \ {x} = (s \ {x}) \ {p}
        OBVIOUS
      <4>7. v[x] \in Int /\ v[p] \in Int /\ g[(s \ {x}) \ {p}] \in Int
        BY <1>2, <3>1
      <4>8. \A a, b, c \in Int : a + (b + c) = b + (a + c)
        OBVIOUS
      <4>9. v[x] + (v[p] + g[(s \ {x}) \ {p}]) = v[p] + (v[x] + g[(s \ {x}) \ {p}])
        BY <4>7, <4>8
      <4>10. QED
        BY <3>1, <4>4, <4>5, <4>6, <4>9
    <3>4. QED
      BY <3>2, <3>3
  <2>2. QED
    BY <2>1
<1> HIDE DEF T
<1>7. \A n \in Nat : n \in T
  BY <1>4, <1>6, SetInduction
<1>8. D \in SUBSET D /\ D \ {q} \in SUBSET D
  OBVIOUS
<1>9. g[D] = v[q] + g[D \ {q}]
  BY <1>3, <1>7, <1>8 DEF T
<1>10. QED
  BY <1>2, <1>8, <1>9

\* One more term.
LEMMA SumAdd ==
    ASSUME NEW D, IsFiniteSet(D), NEW v, \A x \in D : v[x] \in Int, NEW q, q \notin D, v[q] \in Int
    PROVE  SumFunctionOnSet(v, D \cup {q}) = SumFunctionOnSet(v, D) + v[q]
<1>1. IsFiniteSet(D \cup {q})
  BY FS_AddElement
<1>2. SumFunctionOnSet(v, D \cup {q}) = v[q] + SumFunctionOnSet(v, (D \cup {q}) \ {q})
  BY <1>1, SumRemove
<1>3. SumFunctionOnSet(v, (D \cup {q}) \ {q}) = SumFunctionOnSet(v, D)
  <2>1. (D \cup {q}) \ {q} = D
    OBVIOUS
  <2>2. QED
    BY <2>1, Zenon
<1>4. SumFunctionOnSet(v, D) \in Int
  <2>1. Additive(Int)
    BY DEF Additive
  <2>2. QED
    BY <2>1, SumType
<1>5. \A a, b, c \in Int : a = b + c => a = c + b
  OBVIOUS
<1> DEFINE all == SumFunctionOnSet(v, D \cup {q})
           rest == SumFunctionOnSet(v, D)
<1>6. all = v[q] + rest /\ rest \in Int
  BY <1>2, <1>3, <1>4
<1> HIDE DEF all, rest
<1>7. all = rest + v[q]
  BY <1>6
<1>8. QED
  BY <1>7 DEF all, rest

\* A sum of numbers is a number.
LEMMA SumInt ==
    ASSUME NEW D, IsFiniteSet(D), NEW v, \A x \in D : v[x] \in Int
    PROVE  SumFunctionOnSet(v, D) \in Int /\ SumFunctionOnSet(v, {}) = 0
<1>1. Additive(Int)
  BY DEF Additive
<1>2. QED
  BY <1>1, SumType

\* A sum of natural numbers is one.
LEMMA SumNat ==
    ASSUME NEW D, IsFiniteSet(D), NEW v, \A x \in D : v[x] \in Nat
    PROVE  SumFunctionOnSet(v, D) \in Nat
<1>1. Additive(Nat)
  BY DEF Additive
<1>2. QED
  BY <1>1, SumType

\* The sum of two sums, term by term.
LEMMA SumPlus ==
    ASSUME NEW D, IsFiniteSet(D), NEW u, NEW v, NEW w,
           \A x \in D : u[x] \in Int /\ v[x] \in Int /\ w[x] = u[x] + v[x]
    PROVE  SumFunctionOnSet(w, D) = SumFunctionOnSet(u, D) + SumFunctionOnSet(v, D)
<1> DEFINE U(s) == SumFunctionOnSet(u, s)
           V(s) == SumFunctionOnSet(v, s)
           W(s) == SumFunctionOnSet(w, s)
           T == {s \in SUBSET D : W(s) = U(s) + V(s)}
<1>1. \A s \in SUBSET D : IsFiniteSet(s)
  BY FS_Subset
<1>2. \A s \in SUBSET D : \A x \in s : u[x] \in Int /\ v[x] \in Int /\ w[x] \in Int
  OBVIOUS
<1>3. {} \in T
  <2>1. {} \in SUBSET D
    OBVIOUS
  <2>2. W({}) = 0 /\ U({}) = 0 /\ V({}) = 0
    BY <1>1, <1>2, <2>1, SumInt
  <2>3. QED
    BY <2>1, <2>2
<1>4. ASSUME NEW s \in SUBSET D, NEW q \in D \ s, s \in T
      PROVE  s \cup {q} \in T
  <2>0. IsFiniteSet(s) /\ q \notin s /\ u[q] \in Int /\ v[q] \in Int /\ w[q] \in Int
    BY <1>1
  <2>1. W(s \cup {q}) = W(s) + w[q] /\ U(s \cup {q}) = U(s) + u[q] /\ V(s \cup {q}) = V(s) + v[q]
    BY <1>2, <2>0, SumAdd
  <2>2. U(s) \in Int /\ V(s) \in Int
    BY <1>1, <1>2, SumInt
  <2> HIDE DEF U, V, W
  <2>3. W(s) = U(s) + V(s)
    BY <1>4
  <2>4. QED
    BY <2>1, <2>2, <2>3
<1> HIDE DEF T
<1>5. D \in T
  BY <1>3, <1>4, FiniteInduction
<1>6. QED
  BY <1>5 DEF T

\* A sum of nothing but zeros.
LEMMA SumZero ==
    ASSUME NEW D, IsFiniteSet(D), NEW v, \A x \in D : v[x] = 0
    PROVE  SumFunctionOnSet(v, D) = 0
<1>1. \A x \in D : v[x] \in Int /\ v[x] = v[x] + v[x]
  OBVIOUS
<1>2. SumFunctionOnSet(v, D) = SumFunctionOnSet(v, D) + SumFunctionOnSet(v, D)
  BY <1>1, SumPlus
<1>3. SumFunctionOnSet(v, D) \in Int
  BY <1>1, SumInt
<1> DEFINE a == SumFunctionOnSet(v, D)
<1>4. a = a + a /\ a \in Int
  BY <1>2, <1>3
<1> HIDE DEF a
<1>5. a = 0
  BY <1>4
<1>6. QED
  BY <1>5 DEF a

\* Sums of the same terms.
LEMMA SumSame ==
    ASSUME NEW D, IsFiniteSet(D), NEW v, \A x \in D : v[x] \in Int, NEW w, \A x \in D : w[x] = v[x]
    PROVE  SumFunctionOnSet(w, D) = SumFunctionOnSet(v, D)
<1> DEFINE z == [x \in D |-> 0]
<1>1. \A x \in D : z[x] = 0 /\ w[x] = v[x] + z[x]
  OBVIOUS
<1>2. SumFunctionOnSet(z, D) = 0
  BY <1>1, SumZero
<1>3. SumFunctionOnSet(w, D) = SumFunctionOnSet(v, D) + SumFunctionOnSet(z, D)
  <2> HIDE DEF z
  <2>1. \A x \in D : z[x] \in Int
    BY <1>1
  <2>2. QED
    BY <1>1, <2>1, SumPlus
<1>4. SumFunctionOnSet(v, D) \in Int
  BY SumInt
<1>5. QED
  BY <1>2, <1>3, <1>4

\* Two sets with nothing in common.
LEMMA SumUnion ==
    ASSUME NEW D, IsFiniteSet(D), NEW E, IsFiniteSet(E), D \cap E = {},
           NEW v, \A x \in D \cup E : v[x] \in Int
    PROVE  SumFunctionOnSet(v, D \cup E) = SumFunctionOnSet(v, D) + SumFunctionOnSet(v, E)
<1> DEFINE V(s) == SumFunctionOnSet(v, s)
           T == {s \in SUBSET E : V(D \cup s) = V(D) + V(s)}
<1>1. \A s \in SUBSET E : IsFiniteSet(s) /\ IsFiniteSet(D \cup s)
  BY FS_Subset, FS_Union
<1>2. V(D) \in Int /\ V({}) = 0
  BY SumInt
<1>3. {} \in T
  <2>1. D \cup {} = D
    OBVIOUS
  <2>2. QED
    BY <1>2, <2>1
<1>4. ASSUME NEW s \in SUBSET E, NEW q \in E \ s, s \in T
      PROVE  s \cup {q} \in T
  <2>1. D \cup (s \cup {q}) = (D \cup s) \cup {q} /\ q \notin D \cup s
    OBVIOUS
  <2>2. V(s \cup {q}) = V(s) + v[q] /\ V((D \cup s) \cup {q}) = V(D \cup s) + v[q]
    BY <1>1, <2>1, SumAdd
  <2>3. V(s) \in Int /\ v[q] \in Int
    BY <1>1, SumInt
  <2> HIDE DEF V
  <2>4. V(D \cup s) = V(D) + V(s)
    BY <1>4
  <2>5. V(D \cup (s \cup {q})) = V((D \cup s) \cup {q})
    BY <2>1, Zenon
  <2>6. \A a, b, c \in Int : (a + b) + c = a + (b + c)
    OBVIOUS
  <2>7. (V(D) + V(s)) + v[q] = V(D) + (V(s) + v[q])
    BY <1>2, <2>3, <2>6
  <2>8. V(D \cup (s \cup {q})) = V(D) + V(s \cup {q})
    BY <2>2, <2>4, <2>5, <2>7
  <2>9. QED
    BY <2>8
<1> HIDE DEF T
<1>5. E \in T
  BY <1>3, <1>4, FiniteInduction
<1>6. QED
  BY <1>5 DEF T

\* One term is changed.
LEMMA SumChange ==
    ASSUME NEW D, IsFiniteSet(D), NEW v, NEW w, \A x \in D : v[x] \in Int,
           NEW q \in D, NEW c \in Int, w[q] = v[q] + c, \A x \in D \ {q} : w[x] = v[x]
    PROVE  SumFunctionOnSet(w, D) = SumFunctionOnSet(v, D) + c
<1> DEFINE E == D \ {q}
<1>1. IsFiniteSet(E)
  BY FS_Subset
<1>2. v[q] \in Int /\ \A x \in D : w[x] \in Int
  OBVIOUS
<1>3. SumFunctionOnSet(w, D) = w[q] + SumFunctionOnSet(w, E)
  BY <1>2, SumRemove
<1>4. SumFunctionOnSet(v, D) = v[q] + SumFunctionOnSet(v, E)
  BY SumRemove
<1>5. SumFunctionOnSet(w, E) = SumFunctionOnSet(v, E)
  <2>1. \A x \in E : v[x] \in Int /\ w[x] = v[x]
    OBVIOUS
  <2> HIDE DEF E
  <2>2. QED
    BY <1>1, <2>1, SumSame
<1>6. SumFunctionOnSet(v, E) \in Int
  <2>1. \A x \in E : v[x] \in Int
    OBVIOUS
  <2> HIDE DEF E
  <2>2. QED
    BY <1>1, <2>1, SumInt
<1> HIDE DEF E
<1>7. QED
  BY <1>2, <1>3, <1>4, <1>5, <1>6

\* A sum of zeros and ones counts the ones.
LEMMA SumCounts ==
    ASSUME NEW D, IsFiniteSet(D), NEW E \in SUBSET D, NEW v,
           \A x \in D : v[x] = IF x \in E THEN 1 ELSE 0
    PROVE  SumFunctionOnSet(v, D) = Cardinality(E)
<1> DEFINE V(s) == SumFunctionOnSet(v, s)
           T == {s \in SUBSET D : V(s) = Cardinality(s \cap E)}
<1>1. \A s \in SUBSET D : /\ IsFiniteSet(s) /\ IsFiniteSet(s \cap E) /\ Cardinality(s \cap E) \in Nat
                         /\ \A x \in s : v[x] \in Int
  <2>1. \A s \in SUBSET D : s \cap E \in SUBSET D
    OBVIOUS
  <2>2. \A s \in SUBSET D : IsFiniteSet(s)
    BY FS_Subset
  <2>3. \A s \in SUBSET D : Cardinality(s) \in Nat
    BY <2>2, FS_CardinalityType
  <2>4. \A s \in SUBSET D : \A x \in s : v[x] \in Int
    OBVIOUS
  <2>5. QED
    BY <2>1, <2>2, <2>3, <2>4
<1>2. {} \in T
  <2>1. {} \cap E = {} /\ {} \in SUBSET D
    OBVIOUS
  <2>2. V({}) = 0
    BY <1>1, <2>1, SumInt
  <2>3. QED
    BY <2>1, <2>2, FS_EmptySet
<1>3. ASSUME NEW s \in SUBSET D, NEW q \in D \ s, s \in T
      PROVE  s \cup {q} \in T
  <2>0. IsFiniteSet(s) /\ q \notin s /\ v[q] \in Int
    BY <1>1
  <2>1. V(s \cup {q}) = V(s) + v[q]
    BY <1>1, <2>0, SumAdd
  <2> HIDE DEF V
  <2>2. V(s) = Cardinality(s \cap E)
    BY <1>3
  <2>3. CASE q \in E
    <3>1. (s \cup {q}) \cap E = (s \cap E) \cup {q} /\ q \notin s \cap E
      BY <2>3
    <3>2. IsFiniteSet(s \cap E)
      BY <1>1
    <3>3. Cardinality((s \cap E) \cup {q}) = Cardinality(s \cap E) + 1
      BY <3>1, <3>2, FS_AddElement
    <3>4. v[q] = 1
      BY <2>3
    <3>5. QED
      BY <2>1, <2>2, <3>1, <3>3, <3>4
  <2>4. CASE q \notin E
    <3>1. (s \cup {q}) \cap E = s \cap E
      BY <2>4
    <3>2. v[q] = 0 /\ Cardinality(s \cap E) \in Nat
      BY <1>1, <2>4
    <3>3. QED
      BY <2>1, <2>2, <3>1, <3>2
  <2>5. QED
    BY <2>3, <2>4
<1> HIDE DEF T
<1>4. D \in T
  BY <1>2, <1>3, FiniteInduction
<1>5. D \cap E = E
  OBVIOUS
<1>6. QED
  BY <1>4, <1>5 DEF T

\* A sum taken in groups.
LEMMA SumGroups ==
    ASSUME NEW D, IsFiniteSet(D), NEW v, \A x \in D : v[x] \in Int,
           NEW P, IsFiniteSet(P), NEW key, \A x \in D : key[x] \in P
    PROVE  SumFunctionOnSet([p \in P |-> SumFunctionOnSet(v, {x \in D : key[x] = p})], P)
             = SumFunctionOnSet(v, D)
<1> DEFINE V(s) == SumFunctionOnSet(v, s)
           Part(s, p) == {x \in s : key[x] = p}
           W(s) == [p \in P |-> V(Part(s, p))]
           T == {s \in SUBSET D : SumFunctionOnSet(W(s), P) = V(s)}
<1>1. \A s \in SUBSET D : /\ IsFiniteSet(s) /\ V(s) \in Int
                         /\ \A p : IsFiniteSet(Part(s, p)) /\ V(Part(s, p)) \in Int
  <2>1. \A s \in SUBSET D : IsFiniteSet(s) /\ \A x \in s : v[x] \in Int
    BY FS_Subset
  <2>2. \A s \in SUBSET D : V(s) \in Int
    BY <2>1, SumInt
  <2>3. \A s \in SUBSET D : \A p : Part(s, p) \in SUBSET D
    OBVIOUS
  <2> HIDE DEF V, Part
  <2>4. QED
    BY <2>1, <2>2, <2>3
<1>2. {} \in T
  <2>1. \A p \in P : W({})[p] = 0
    <3>1. \A p : Part({}, p) = {}
      OBVIOUS
    <3>2. V({}) = 0
      BY SumInt
    <3> HIDE DEF V, Part
    <3>3. QED
      BY <3>1, <3>2
  <2>2. V({}) = 0
    BY SumInt
  <2> HIDE DEF W
  <2>3. SumFunctionOnSet(W({}), P) = 0
    BY <2>1, SumZero
  <2>4. QED
    BY <2>2, <2>3
<1>3. ASSUME NEW s \in SUBSET D, NEW q \in D \ s, s \in T
      PROVE  s \cup {q} \in T
  <2> DEFINE r == key[q]
  <2>1. V(s \cup {q}) = V(s) + v[q]
    BY <1>1, SumAdd
  <2>2. Part(s \cup {q}, r) = Part(s, r) \cup {q} /\ q \notin Part(s, r)
    OBVIOUS
  <2>3. \A p \in P \ {r} : Part(s \cup {q}, p) = Part(s, p)
    OBVIOUS
  <2>4. V(Part(s, r) \cup {q}) = V(Part(s, r)) + v[q]
    <3>1. \A x \in Part(s, r) : v[x] \in Int
      OBVIOUS
    <3>2. IsFiniteSet(Part(s, r))
      BY <1>1
    <3> HIDE DEF Part
    <3>3. QED
      BY <2>2, <3>1, <3>2, SumAdd
  <2>5. r \in P /\ v[q] \in Int
    OBVIOUS
  <2> HIDE DEF V, Part, r
  <2>6. \A p \in P : W(s)[p] \in Int
    BY <1>1
  <2>7. W(s \cup {q})[r] = W(s)[r] + v[q]
    BY <2>2, <2>4, <2>5
  <2>8. \A p \in P \ {r} : W(s \cup {q})[p] = W(s)[p]
    BY <2>3
  <2> DEFINE w == W(s)
             x == W(s \cup {q})
             c == v[q]
  <2>20. c \in Int /\ (\A p \in P : w[p] \in Int) /\ x[r] = w[r] + c /\ \A p \in P \ {r} : x[p] = w[p]
    BY <2>5, <2>6, <2>7, <2>8
  <2> HIDE DEF W, w, x, c
  <2>21. SumFunctionOnSet(x, P) = SumFunctionOnSet(w, P) + c
    BY <2>5, <2>20, SumChange
  <2>9. SumFunctionOnSet(W(s \cup {q}), P) = SumFunctionOnSet(W(s), P) + v[q]
    BY <2>21 DEF w, x, c
  <2>10. SumFunctionOnSet(W(s), P) = V(s)
    BY <1>3
  <2>11. QED
    BY <2>1, <2>9, <2>10
<1> HIDE DEF T
<1>4. D \in T
  BY <1>2, <1>3, FiniteInduction
<1>5. QED
  BY <1>4 DEF T

\* Smaller terms, smaller sum.
LEMMA SumBound ==
    ASSUME NEW D, IsFiniteSet(D), NEW v, \A x \in D : v[x] \in Int, NEW w,
           \A x \in D : w[x] \in Int /\ v[x] =< w[x]
    PROVE  SumFunctionOnSet(v, D) =< SumFunctionOnSet(w, D)
<1> DEFINE u == [x \in D |-> w[x] - v[x]]
<1>1. \A x \in D : u[x] \in Nat /\ u[x] \in Int /\ w[x] = u[x] + v[x]
  OBVIOUS
<1> HIDE DEF u
<1>2. SumFunctionOnSet(w, D) = SumFunctionOnSet(u, D) + SumFunctionOnSet(v, D)
  BY <1>1, SumPlus
<1>3. SumFunctionOnSet(u, D) \in Nat
  BY <1>1, SumNat
<1>4. SumFunctionOnSet(v, D) \in Int
  BY SumInt
<1>5. QED
  BY <1>2, <1>3, <1>4
=============================================================================
