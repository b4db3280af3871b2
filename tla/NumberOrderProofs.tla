--------------------------- MODULE NumberOrderProofs ---------------------------
(* What is proved of numbers in their order, of sums and of folds, for every    *)
(* finite set.                                                                 *)
(* The least-number principle takes the place of an induction: the library's   *)
(* induction theorems have an operator as parameter, which no prover here can  *)
(* instantiate, but its well-foundedness theorem has not.                      *)
EXTENDS NumberOrder, FiniteSetsExt, FiniteSetTheorems, WellFoundedInduction, TLAPS

\* The numbers between two bounds are finitely many (FS_Interval, for all
\* bounds at once).
LEMMA FiniteIntervals ==
    \A a, b \in Int : /\ IsFiniteSet(a..b)
                      /\ Cardinality(a..b) = IF a > b THEN 0 ELSE b - a + 1
BY FS_Interval

\* So are the positions of a list, which are as many as its length.
LEMMA FinitePositions ==
    \A n \in Nat : IsFiniteSet(1..n) /\ Cardinality(1..n) = n
<1> SUFFICES ASSUME NEW n \in Nat
             PROVE  IsFiniteSet(1..n) /\ Cardinality(1..n) = n
  OBVIOUS
<1>1. 1 \in Int /\ n \in Int
  OBVIOUS
<1>2. IsFiniteSet(1..n) /\ Cardinality(1..n) = IF 1 > n THEN 0 ELSE n - 1 + 1
  BY <1>1, FiniteIntervals
<1> QED
  BY <1>2

\* The natural numbers are well-founded: a set of them that is not empty has a
\* least member. It stands for an induction over the positions of an answer.
LEMMA LeastMember ==
    ASSUME NEW T, T \subseteq Nat, T # {}
    PROVE  \E n \in T : \A m \in T : n <= m
<1> DEFINE R == {p \in Nat \X Nat : p[1] < p[2]}
<1>1. IsWellFoundedOn(R, Nat)
  BY NatLessThanWellFounded DEF OpToRel, IsWellFoundedOn
<1>2. PICK n \in T : \A m \in T : ~ (<<m, n>> \in R)
  BY <1>1, WFMin
<1>3. ASSUME NEW m \in T
      PROVE  n <= m
  <2>1. m \in Nat /\ n \in Nat
    OBVIOUS
  <2>2. m < n => <<m, n>> \in R
    BY <2>1
  <2> QED
    BY <1>2, <2>1, <2>2
<1> QED
  BY <1>3

\* Of a finite set of positions, every count up to its size is reached: some
\* member has exactly n - 1 members before it.
LEMMA NthExists ==
    ASSUME NEW N \in Nat, NEW known \in SUBSET (1..N), NEW n \in 1..Cardinality(known)
    PROVE  \E i \in known : Cardinality({j \in known : j < i}) = n - 1
<1> DEFINE UpTo(m) == {j \in known : j <= m}
           T == {m \in Nat : n <= Cardinality(UpTo(m))}
<1>0. \A j \in known : j \in Nat /\ 1 <= j /\ j <= N
  OBVIOUS
<1>1. IsFiniteSet(known) /\ \A m \in Nat : IsFiniteSet(UpTo(m))
  <2>1. IsFiniteSet(1..N)
    BY FS_Interval
  <2>2. IsFiniteSet(known)
    BY <2>1, FS_Subset
  <2>3. \A m \in Nat : UpTo(m) \subseteq known
    OBVIOUS
  <2> QED
    BY <2>2, <2>3, FS_Subset
<1>2. \A m \in Nat : Cardinality(UpTo(m)) \in Nat
  BY <1>1, FS_CardinalityType
<1>3. UpTo(N) = known
  BY <1>0
<1>4. Cardinality(known) \in Nat /\ n \in Nat /\ 1 <= n
  BY <1>1, FS_CardinalityType
<1>5. N \in T
  BY <1>3, <1>4
<1> HIDE DEF T
<1>6. PICK m \in T : \A k \in T : m <= k
  <2>1. T \subseteq Nat
    BY DEF T
  <2> QED
    BY <1>5, <2>1, LeastMember
<1>7. m \in Nat /\ n <= Cardinality(UpTo(m))
  BY <1>6 DEF T
<1>8. m # 0
  <2>1. \A j \in known : ~ (j <= 0)
    BY <1>0
  <2>2. UpTo(0) = {}
    BY <2>1
  <2> QED
    BY <1>4, <1>7, <2>2, FS_EmptySet
<1>9. m - 1 \in Nat /\ Cardinality(UpTo(m - 1)) < n
  <2>1. m - 1 \in Nat /\ m - 1 \notin T
    BY <1>6, <1>7, <1>8
  <2>2. ~ (n <= Cardinality(UpTo(m - 1)))
    BY <2>1 DEF T
  <2>3. Cardinality(UpTo(m - 1)) \in Nat
    BY <1>2, <2>1
  <2> HIDE DEF UpTo
  <2> QED
    BY <1>4, <2>1, <2>2, <2>3
<1>10. /\ UpTo(m - 1) = {j \in known : j < m}
       /\ \A j \in known : j <= m <=> j < m \/ j = m
  <2>1. ASSUME NEW j \in known
        PROVE  (j <= m - 1 <=> j < m) /\ (j <= m <=> j < m \/ j = m)
    BY <1>0, <1>7
  <2> QED
    BY <2>1
<1>11. m \in known
  <2>1. SUFFICES ASSUME m \notin known PROVE FALSE
    OBVIOUS
  <2>2. UpTo(m) = UpTo(m - 1)
    BY <1>10, <2>1
  <2> QED
    BY <1>2, <1>4, <1>7, <1>9, <2>2
<1>12. UpTo(m) = UpTo(m - 1) \union {m} /\ m \notin UpTo(m - 1)
  <2>1. ~ (m < m) /\ m <= m
    BY <1>7
  <2> QED
    BY <1>10, <1>11, <2>1
<1>13. Cardinality(UpTo(m)) = Cardinality(UpTo(m - 1)) + 1
  BY <1>1, <1>9, <1>12, FS_AddElement
<1>14. Cardinality(UpTo(m - 1)) = n - 1
  <2>1. Cardinality(UpTo(m - 1)) \in Nat
    BY <1>2, <1>9
  <2> HIDE DEF UpTo
  <2> QED
    BY <1>4, <1>7, <1>9, <1>13, <2>1
<1> QED
  BY <1>10, <1>11, <1>14

\* What Ascending lists are the members of the set, each of them once and in
\* their order.
LEMMA AscendingLists ==
    ASSUME NEW N \in Nat, NEW known \in SUBSET (1..N)
    PROVE  /\ Cardinality(known) \in Nat
           /\ DOMAIN Ascending(known) = 1..Cardinality(known)
           /\ \A n \in 1..Cardinality(known) :
                /\ Ascending(known)[n] \in known
                /\ Cardinality({j \in known : j < Ascending(known)[n]}) = n - 1
           /\ \A i \in known : \E n \in 1..Cardinality(known) : Ascending(known)[n] = i
<1> DEFINE Below(i) == {j \in known : j < i}
           Nth(n) == CHOOSE i \in known : Cardinality(Below(i)) = n - 1
<1>0. \A j \in known : j \in Nat /\ 1 <= j /\ j <= N
  OBVIOUS
<1>1. IsFiniteSet(known) /\ Cardinality(known) \in Nat
  <2>1. IsFiniteSet(1..N)
    BY FS_Interval
  <2> QED
    BY <2>1, FS_Subset, FS_CardinalityType
<1>2. \A n \in 1..Cardinality(known) : Nth(n) \in known /\ Cardinality(Below(Nth(n))) = n - 1
  <2> SUFFICES ASSUME NEW n \in 1..Cardinality(known)
               PROVE  Nth(n) \in known /\ Cardinality(Below(Nth(n))) = n - 1
    OBVIOUS
  <2>1. \E i \in known : Cardinality(Below(i)) = n - 1
    BY NthExists
  <2> QED
    BY <2>1
<1>3. /\ DOMAIN Ascending(known) = 1..Cardinality(known)
      /\ \A n \in 1..Cardinality(known) : Ascending(known)[n] = Nth(n)
  BY DEF Ascending
<1>4. ASSUME NEW i \in known
      PROVE  \E n \in 1..Cardinality(known) : Nth(n) = i
  <2> DEFINE n == Cardinality(Below(i)) + 1
  <2>1. IsFiniteSet(Below(i)) /\ Cardinality(Below(i)) \in Nat
    BY <1>1, FS_Subset, FS_CardinalityType
  <2>2. i \notin Below(i)
    BY <1>0
  <2>3. Cardinality(Below(i) \union {i}) = Cardinality(Below(i)) + 1
    BY <2>1, <2>2, FS_AddElement
  <2>4. Cardinality(Below(i) \union {i}) <= Cardinality(known)
    <3>1. Below(i) \union {i} \subseteq known
      OBVIOUS
    <3> QED
      BY <1>1, <3>1, FS_Subset
  <2>5. n \in 1..Cardinality(known)
    BY <1>1, <2>1, <2>3, <2>4
  <2>6. \A k \in known : k < i => Cardinality(Below(k)) < Cardinality(Below(i))
    <3> SUFFICES ASSUME NEW k \in known, k < i
                 PROVE  Cardinality(Below(k)) < Cardinality(Below(i))
      OBVIOUS
    <3>1. \A j \in known : j < k => j < i
      BY <1>0
    <3>2. ~ (k < k)
      BY <1>0
    <3>3. Below(k) \subseteq Below(i) /\ k \in Below(i) /\ k \notin Below(k)
      BY <3>1, <3>2
    <3> QED
      BY <2>1, <3>3, FS_Subset, FS_CardinalityType
  <2>7. \A k \in known : i < k => Cardinality(Below(i)) < Cardinality(Below(k))
    <3> SUFFICES ASSUME NEW k \in known, i < k
                 PROVE  Cardinality(Below(i)) < Cardinality(Below(k))
      OBVIOUS
    <3>1. \A j \in known : j < i => j < k
      BY <1>0
    <3>2. Below(i) \subseteq Below(k) /\ i \in Below(k) /\ i \notin Below(i)
      BY <2>2, <3>1
    <3>3. IsFiniteSet(Below(k))
      BY <1>1, FS_Subset
    <3> QED
      BY <3>2, <3>3, FS_Subset, FS_CardinalityType
  <2>8. Nth(n) \in known /\ Cardinality(Below(Nth(n))) = n - 1
    BY <1>2, <2>5
  <2>9. Nth(n) = i
    <3>1. Cardinality(Below(Nth(n))) = Cardinality(Below(i))
      BY <2>1, <2>8
    <3>2. Nth(n) \in Nat /\ i \in Nat
      BY <1>0, <2>8
    <3> DEFINE k == Nth(n)
    <3>3. k < i => Cardinality(Below(k)) < Cardinality(Below(i))
      BY <2>6, <2>8
    <3>4. i < k => Cardinality(Below(i)) < Cardinality(Below(k))
      BY <2>7, <2>8
    <3>5. k \in Nat /\ Cardinality(Below(k)) = Cardinality(Below(i))
      BY <3>1, <3>2
    <3> HIDE DEF k
    <3>6. k = i
      <4> HIDE DEF Below
      <4> QED
        BY <2>1, <3>2, <3>3, <3>4, <3>5
    <3> QED
      BY <3>6 DEF k
  <2> QED
    BY <2>5, <2>9
<1> QED
  BY <1>1, <1>2, <1>3, <1>4

-----------------------------------------------------------------------------
(* Sums. Adding up over a set is a recursion over its subsets.                *)

\* g holds the sum of w over every subset of S, taken member by member as
\* MapThenFoldSet does.
Summed(g, S, w) ==
    g = [s \in SUBSET S |-> IF s = {} THEN 0
                            ELSE LET x == CHOOSE y \in s : TRUE IN w[x] + g[s \ {x}]]

\* The sums over a finite set exist.
LEMMA SumsExist ==
    ASSUME NEW S, IsFiniteSet(S), NEW w
    PROVE  \E g : Summed(g, S, w)
<1> DEFINE x(s) == CHOOSE y \in s : TRUE
           Part(n) == {s \in SUBSET S : Cardinality(s) <= n}
           Fits(g, n) == \A s \in Part(n) :
                            g[s] = IF s = {} THEN 0 ELSE w[x(s)] + g[s \ {x(s)}]
           T == {n \in Nat : ~\E g : Fits(g, n)}
<1>0. \A s \in SUBSET S : IsFiniteSet(s) /\ Cardinality(s) \in Nat
  BY FS_Subset, FS_CardinalityType
<1>1. \A n \in Nat : \A s \in Part(n + 1) \ {{}} : s \ {x(s)} \in Part(n)
  <2> SUFFICES ASSUME NEW n \in Nat, NEW s \in Part(n + 1), s # {}
               PROVE  s \ {x(s)} \in Part(n)
    OBVIOUS
  <2>1. x(s) \in s
    OBVIOUS
  <2>2. Cardinality(s \ {x(s)}) = Cardinality(s) - 1
    BY <1>0, <2>1, FS_RemoveElement
  <2> QED
    BY <1>0, <2>2
<1>2. 0 \notin T
  <2> DEFINE g == [s \in SUBSET S |-> 0]
  <2>1. \A s \in Part(0) : s = {}
    BY <1>0, FS_EmptySet
  <2>2. Fits(g, 0)
    BY <2>1
  <2> QED
    BY <2>2
<1>3. ASSUME NEW n \in Nat, n \notin T
      PROVE  n + 1 \notin T
  <2>1. PICK g : Fits(g, n)
    BY <1>3
  <2> DEFINE h == [s \in SUBSET S |-> IF s = {} THEN 0 ELSE w[x(s)] + g[s \ {x(s)}]]
  <2>2. \A s \in Part(n) : h[s] = g[s]
    BY <2>1
  <2>3. ASSUME NEW s \in Part(n + 1)
        PROVE  h[s] = IF s = {} THEN 0 ELSE w[x(s)] + h[s \ {x(s)}]
    <3>1. CASE s = {}
      BY <3>1
    <3>2. CASE s # {}
      <4>1. s \ {x(s)} \in Part(n)
        BY <1>1, <3>2
      <4>2. h[s \ {x(s)}] = g[s \ {x(s)}]
        BY <2>2, <4>1
      <4> QED
        BY <3>2, <4>2
    <3> QED
      BY <3>1, <3>2
  <2>4. Fits(h, n + 1)
    BY <2>3
  <2> HIDE DEF Fits
  <2> QED
    BY <2>4
<1>4. T = {}
  <2> SUFFICES ASSUME T # {} PROVE FALSE
    OBVIOUS
  <2>1. PICK n \in T : \A m \in T : n <= m
    BY LeastMember
  <2>2. n \in Nat /\ n # 0
    BY <1>2
  <2> HIDE DEF T
  <2>3. n - 1 \in Nat /\ n - 1 \notin T
    BY <2>1, <2>2
  <2> QED
    BY <1>3, <2>1, <2>2, <2>3
<1>5. \E g : Fits(g, Cardinality(S))
  <2>1. Cardinality(S) \in Nat
    BY FS_CardinalityType
  <2> HIDE DEF Fits
  <2> QED
    BY <1>4, <2>1
<1>6. \A s \in SUBSET S : s \in Part(Cardinality(S))
  BY FS_Subset
<1>g. PICK g : Fits(g, Cardinality(S))
  BY <1>5
<1> DEFINE h == [s \in SUBSET S |-> g[s]]
<1>7. \A s \in SUBSET S : h[s] = IF s = {} THEN 0 ELSE w[x(s)] + h[s \ {x(s)}]
  BY <1>g, <1>6
<1>8. Summed(h, S, w)
  <2> HIDE DEF Fits, Part
  <2> QED
    BY <1>7 DEF Summed
<1> QED
  BY <1>8

\* Every sum is an integer, and any member may be taken out of it first.
Adds(g, S, w) ==
    /\ g[{}] = 0
    /\ \A s \in SUBSET S : g[s] \in Int
    /\ \A s \in SUBSET S : \A x \in s : g[s] = w[x] + g[s \ {x}]

\* A sum of integers is an integer, in whatever order it is taken.
LEMMA SumStep ==
    ASSUME NEW S, IsFiniteSet(S), NEW w, \A x \in S : w[x] \in Int, NEW g, Summed(g, S, w)
    PROVE  Adds(g, S, w)
<1> DEFINE c(s) == CHOOSE y \in s : TRUE
           Good(s) == g[s] \in Int /\ \A x \in s : g[s] = w[x] + g[s \ {x}]
           T == {n \in Nat : \E s \in SUBSET S : Cardinality(s) = n /\ ~Good(s)}
<1>0. \A s \in SUBSET S : IsFiniteSet(s) /\ Cardinality(s) \in Nat
  BY FS_Subset, FS_CardinalityType
<1>1. \A s \in SUBSET S : \A x \in s : /\ s \ {x} \in SUBSET S
                                       /\ Cardinality(s \ {x}) = Cardinality(s) - 1
  BY <1>0, FS_RemoveElement
<1>2. g[{}] = 0
  BY DEF Summed
<1>3. \A s \in SUBSET S : s # {} => c(s) \in s /\ g[s] = w[c(s)] + g[s \ {c(s)}]
  BY DEF Summed
<1>4. T = {}
  <2> SUFFICES ASSUME T # {} PROVE FALSE
    OBVIOUS
  <2>1. PICK n \in T : \A m \in T : n <= m
    BY LeastMember
  <2>2. PICK s \in SUBSET S : Cardinality(s) = n /\ ~Good(s)
    BY <2>1
  <2>3. \A t \in SUBSET S : Cardinality(t) < n => Good(t)
    BY <1>0, <2>1
  <2>4. s # {}
    BY <1>2, <2>2
  <2> DEFINE a == c(s)
  <2>5. a \in s /\ g[s] = w[a] + g[s \ {a}]
    BY <1>3, <2>4
  <2>6. Good(s \ {a}) /\ n \in Nat
    <3>1. n \in Nat
      OBVIOUS
    <3>2. s \ {a} \in SUBSET S /\ Cardinality(s \ {a}) = Cardinality(s) - 1
      BY <1>1, <2>5
    <3>3. Cardinality(s \ {a}) < n
      BY <2>2, <3>1, <3>2
    <3> HIDE DEF Good
    <3> QED
      BY <2>3, <3>1, <3>2, <3>3
  <2>7. w[a] \in Int /\ g[s \ {a}] \in Int
    BY <2>5, <2>6
  <2>8. ASSUME NEW x \in s, x # a
        PROVE  g[s] = w[x] + g[s \ {x}]
    <3>1. x \in s \ {a} /\ a \in s \ {x} /\ (s \ {a}) \ {x} = (s \ {x}) \ {a}
      BY <2>5, <2>8
    <3>2. g[s \ {a}] = w[x] + g[(s \ {a}) \ {x}]
      BY <2>6, <3>1
    <3>3. Good(s \ {x}) /\ s \ {x} \in SUBSET S
      BY <1>1, <2>2, <2>3, <2>6
    <3>4. g[s \ {x}] = w[a] + g[(s \ {x}) \ {a}]
      BY <3>1, <3>3
    <3>5. (s \ {x}) \ {a} \in SUBSET S /\ Cardinality((s \ {x}) \ {a}) = Cardinality(s \ {x}) - 1
      BY <1>1, <3>1, <3>3
    <3>6. Good((s \ {x}) \ {a})
      BY <1>0, <1>1, <2>2, <2>3, <2>6, <3>3, <3>5
    <3>7. w[x] \in Int /\ w[a] \in Int /\ g[(s \ {x}) \ {a}] \in Int
      BY <2>7, <3>6
    <3> DEFINE rest == g[(s \ {x}) \ {a}]
    <3>8. g[s] = w[a] + (w[x] + rest) /\ g[s \ {x}] = w[a] + rest
      BY <2>5, <3>1, <3>2, <3>4
    <3> HIDE DEF Good, a, c, rest
    <3>9. rest \in Int
      BY <3>7 DEF rest
    <3> QED
      BY <3>7, <3>8, <3>9
  <2>9. Good(s)
    <3>1. g[s] \in Int
      BY <2>5, <2>7
    <3>2. \A x \in s : g[s] = w[x] + g[s \ {x}]
      <4> HIDE DEF a
      <4> QED
        BY <2>5, <2>8
    <3> QED
      BY <3>1, <3>2
  <2> QED
    BY <2>2, <2>9
<1> HIDE DEF Good
<1>5. \A s \in SUBSET S : Good(s)
  BY <1>0, <1>4
<1> QED
  BY <1>2, <1>5 DEF Good, Adds

\* A sum of naturals is one, and no less than any of its terms.
LEMMA SumBound ==
    ASSUME NEW S, IsFiniteSet(S), NEW w, \A x \in S : w[x] \in Nat, NEW g, Summed(g, S, w)
    PROVE  \A s \in SUBSET S : g[s] \in Nat /\ \A x \in s : w[x] <= g[s]
<1> DEFINE T == {n \in Nat : \E s \in SUBSET S : Cardinality(s) = n /\ g[s] \notin Nat}
<1>0. \A s \in SUBSET S : IsFiniteSet(s) /\ Cardinality(s) \in Nat
  BY FS_Subset, FS_CardinalityType
<1>1. \A x \in S : w[x] \in Int
  OBVIOUS
<1>2. /\ g[{}] = 0
      /\ \A s \in SUBSET S : g[s] \in Int /\ \A x \in s : g[s] = w[x] + g[s \ {x}]
  <2> HIDE DEF T
  <2>1. Adds(g, S, w)
    BY <1>1, SumStep
  <2> QED
    BY <2>1 DEF Adds
<1>3. T = {}
  <2> SUFFICES ASSUME T # {} PROVE FALSE
    OBVIOUS
  <2>1. PICK n \in T : \A m \in T : n <= m
    BY LeastMember
  <2>2. PICK s \in SUBSET S : Cardinality(s) = n /\ g[s] \notin Nat
    BY <2>1
  <2>3. s # {}
    <3>1. g[s] # 0
      BY <2>2
    <3> QED
      BY <1>2, <3>1
  <2>x. PICK x \in s : TRUE
    BY <2>3
  <2>4. s \ {x} \in SUBSET S /\ Cardinality(s \ {x}) = n - 1
    BY <1>0, <2>2, FS_RemoveElement
  <2>5. g[s \ {x}] \in Nat
    BY <1>0, <2>1, <2>2, <2>4
  <2>6. g[s] = w[x] + g[s \ {x}] /\ w[x] \in Nat
    BY <1>2, <2>2
  <2> QED
    BY <2>2, <2>5, <2>6
<1>4. \A s \in SUBSET S : g[s] \in Nat
  BY <1>0, <1>3
<1>5. ASSUME NEW s \in SUBSET S, NEW x \in s
      PROVE  w[x] <= g[s]
  <2>1. g[s] = w[x] + g[s \ {x}] /\ w[x] \in Nat
    BY <1>2
  <2>2. g[s \ {x}] \in Nat
    BY <1>4
  <2> QED
    BY <2>1, <2>2
<1> QED
  BY <1>4, <1>5

-----------------------------------------------------------------------------
(* Finite sets.                                                               *)

\* What a function makes of a finite set is finite.
LEMMA FiniteImage ==
    ASSUME NEW S, IsFiniteSet(S), NEW f, NEW T, \A t \in T : \E x \in S : t = f[x]
    PROVE  IsFiniteSet(T)
<1> DEFINE h == [x \in S |-> f[x]]
           R == {f[x] : x \in S}
<1>1. h \in Surjection(S, R)
  <2>1. h \in [S -> R] /\ \A t \in R : \E x \in S : h[x] = t
    OBVIOUS
  <2> QED
    BY <2>1 DEF Surjection
<1>2. IsFiniteSet(R)
  BY <1>1, FS_Surjection
<1>3. T \subseteq R
  OBVIOUS
<1> QED
  BY <1>2, <1>3, FS_Subset

\* A set whose members have keys of their own in a finite set is finite.
LEMMA FiniteByKey ==
    ASSUME NEW S, IsFiniteSet(S), NEW key, NEW T, \A t \in T : key[t] \in S,
           \A t, u \in T : key[t] = key[u] => t = u
    PROVE  IsFiniteSet(T)
<1> DEFINE f == [x \in S |-> CHOOSE t \in T : key[t] = x]
<1>1. \A t \in T : t = f[key[t]] /\ key[t] \in S
  OBVIOUS
<1> HIDE DEF f
<1>2. \A t \in T : \E x \in S : t = f[x]
  BY <1>1
<1> QED
  BY <1>2, FiniteImage

-----------------------------------------------------------------------------
(* Folds. FoldLeft takes a step along the positions of a sequence; what it     *)
(* computes is a function of the sets of positions.                           *)

\* g holds what step makes of start along every subset of S, which it takes
\* from the member that c picks of each, as MapThenFoldSet does.
FoldsInto(g, S, c, start, step) ==
    \A s \in SUBSET S : g[s] = IF s = {} THEN start ELSE step[<<c[s], g[s \ {c[s]}]>>]

\* What a step makes of a value, taken along a finite set from the member that
\* c picks, exists: the function of subsets that MapThenFoldSet defines.
LEMMA FoldsExist ==
    ASSUME NEW S, IsFiniteSet(S), NEW c, \A s \in (SUBSET S) \ {{}} : c[s] \in s,
           NEW V, NEW start \in V, NEW step \in [S \X V -> V]
    PROVE  \E g \in [SUBSET S -> V] : FoldsInto(g, S, c, start, step)
<1> DEFINE Part(n) == {s \in SUBSET S : Cardinality(s) <= n}
           Fits(g, n) == \A s \in Part(n) :
                            g[s] = IF s = {} THEN start ELSE step[<<c[s], g[s \ {c[s]}]>>]
           T == {n \in Nat : ~\E g \in [SUBSET S -> V] : Fits(g, n)}
<1>0. \A s \in SUBSET S : IsFiniteSet(s) /\ Cardinality(s) \in Nat
  BY FS_Subset, FS_CardinalityType
<1>1. \A n \in Nat : \A s \in Part(n + 1) \ {{}} : s \ {c[s]} \in Part(n)
  <2> SUFFICES ASSUME NEW n \in Nat, NEW s \in Part(n + 1), s # {}
               PROVE  s \ {c[s]} \in Part(n)
    OBVIOUS
  <2>1. Cardinality(s \ {c[s]}) = Cardinality(s) - 1
    BY <1>0, FS_RemoveElement
  <2> QED
    BY <1>0, <2>1
<1>2. 0 \notin T
  <2> DEFINE g == [s \in SUBSET S |-> start]
  <2>1. \A s \in Part(0) : s = {}
    BY <1>0, FS_EmptySet
  <2>2. g \in [SUBSET S -> V] /\ Fits(g, 0)
    BY <2>1
  <2> QED
    BY <2>2
<1>3. ASSUME NEW n \in Nat, n \notin T
      PROVE  n + 1 \notin T
  <2>1. PICK g \in [SUBSET S -> V] : Fits(g, n)
    BY <1>3
  <2> DEFINE h == [s \in SUBSET S |-> IF s = {} THEN start ELSE step[<<c[s], g[s \ {c[s]}]>>]]
  <2>2. \A s \in Part(n) : h[s] = g[s]
    BY <2>1
  <2>3. ASSUME NEW s \in Part(n + 1)
        PROVE  h[s] = IF s = {} THEN start ELSE step[<<c[s], h[s \ {c[s]}]>>]
    <3>1. CASE s = {}
      BY <3>1
    <3>2. CASE s # {}
      <4>1. s \ {c[s]} \in Part(n)
        BY <1>1, <3>2
      <4>2. h[s \ {c[s]}] = g[s \ {c[s]}]
        BY <2>2, <4>1
      <4> QED
        BY <3>2, <4>2
    <3> QED
      BY <3>1, <3>2
  <2>4. h \in [SUBSET S -> V]
    <3> SUFFICES ASSUME NEW s \in SUBSET S, s # {}
                 PROVE  step[<<c[s], g[s \ {c[s]}]>>] \in V
      OBVIOUS
    <3>1. c[s] \in S /\ g[s \ {c[s]}] \in V
      OBVIOUS
    <3> QED
      BY <3>1
  <2>5. Fits(h, n + 1)
    BY <2>3
  <2> HIDE DEF Fits
  <2> QED
    BY <2>4, <2>5
<1>4. T = {}
  <2> SUFFICES ASSUME T # {} PROVE FALSE
    OBVIOUS
  <2>1. PICK n \in T : \A m \in T : n <= m
    BY LeastMember
  <2>2. n \in Nat /\ n # 0
    BY <1>2
  <2> HIDE DEF T
  <2>3. n - 1 \in Nat /\ n - 1 \notin T
    BY <2>1, <2>2
  <2> QED
    BY <1>3, <2>1, <2>2, <2>3
<1>5. PICK g \in [SUBSET S -> V] : Fits(g, Cardinality(S))
  <2>1. Cardinality(S) \in Nat
    BY FS_CardinalityType
  <2> HIDE DEF Fits
  <2> QED
    BY <1>4, <2>1
<1>6. \A s \in SUBSET S : s \in Part(Cardinality(S))
  BY FS_Subset
<1> QED
  BY <1>5, <1>6 DEF FoldsInto

\* A finite set of numbers has a greatest.
LEMMA MaxIsThere ==
    ASSUME NEW N \in Nat, NEW s \in SUBSET (1..N), s # {}
    PROVE  Max(s) \in s
<1> DEFINE Spare == {N - x : x \in s}
<1>0. \A x \in s : x \in Nat /\ N - x \in Nat
  OBVIOUS
<1>1. Spare \subseteq Nat /\ Spare # {}
  BY <1>0
<1> HIDE DEF Spare
<1>2. PICK n \in Spare : \A k \in Spare : n <= k
  BY <1>1, LeastMember
<1>3. PICK x \in s : n = N - x
  BY DEF Spare
<1>4. \A y \in s : N - y \in Spare
  BY DEF Spare
<1>5. ASSUME NEW y \in s
      PROVE  x >= y
  <2>1. N - x <= N - y
    BY <1>2, <1>3, <1>4
  <2> QED
    BY <1>0, <2>1
<1>6. \E z \in s : \A y \in s : z >= y
  BY <1>5
<1> QED
  BY <1>6 DEF Max

\* The same along the numbers up to N, the greatest first, as FoldLeft does.
FoldedLeft(g, N, start, step) ==
    \A s \in SUBSET (1..N) :
        g[s] = IF s = {} THEN start ELSE step[<<Max(s), g[s \ {Max(s)}]>>]

\* A step taken along the numbers up to N, as FoldLeft takes it along a
\* sequence: there is a value for every prefix.
LEMMA PrefixesExist ==
    ASSUME NEW N \in Nat, NEW V, NEW start \in V, NEW step \in [(1..N) \X V -> V]
    PROVE  \E g \in [SUBSET (1..N) -> V] : FoldedLeft(g, N, start, step)
<1> DEFINE c == [s \in SUBSET (1..N) |-> Max(s)]
<1>1. IsFiniteSet(1..N)
  BY FS_Interval
<1>2. \A s \in (SUBSET (1..N)) \ {{}} : Max(s) \in s
  BY MaxIsThere
<1>3. \A s \in (SUBSET (1..N)) \ {{}} : c[s] \in s
  BY <1>2
<1>4. \A s \in SUBSET (1..N) : c[s] = Max(s)
  OBVIOUS
<1> DEFINE S == 1..N
<1> HIDE DEF c, S
<1>5. IsFiniteSet(S) /\ (\A s \in (SUBSET S) \ {{}} : c[s] \in s) /\ step \in [S \X V -> V]
  BY <1>1, <1>3 DEF S
<1>6. PICK g \in [SUBSET S -> V] : FoldsInto(g, S, c, start, step)
  BY <1>5, FoldsExist
<1> QED
  BY <1>4, <1>6 DEF FoldsInto, FoldedLeft, S

\* The prefix up to n is made of the one up to n - 1.
LEMMA PrefixStep ==
    ASSUME NEW n \in Nat, n >= 1
    PROVE  1..n # {} /\ Max(1..n) = n /\ (1..n) \ {n} = 1..(n - 1)
<1>1. n \in 1..n /\ \A y \in 1..n : n >= y
  OBVIOUS
<1>2. \A x \in 1..n : (\A y \in 1..n : x >= y) => x = n
  <2> SUFFICES ASSUME NEW x \in 1..n, \A y \in 1..n : x >= y
               PROVE  x = n
    OBVIOUS
  <2>1. x >= n
    BY <1>1
  <2> QED
    BY <2>1
<1>3. Max(1..n) = n
  BY <1>1, <1>2 DEF Max
<1> QED
  BY <1>1, <1>3

\* g holds what step makes of start when it is taken up to N times.
Repeated(g, N, start, step) == g[0] = start /\ \A n \in 1..N : g[n] = step[g[n - 1]]

\* A step taken again and again has a value after each time.
LEMMA RoundsExist ==
    ASSUME NEW N \in Nat, NEW V, NEW start \in V, NEW step \in [V -> V]
    PROVE  \E g \in [0..N -> V] : Repeated(g, N, start, step)
<1> DEFINE each == [q \in (1..N) \X V |-> step[q[2]]]
<1>1. each \in [(1..N) \X V -> V]
  OBVIOUS
<1>2. PICK h \in [SUBSET (1..N) -> V] : FoldedLeft(h, N, start, each)
  <2> HIDE DEF each
  <2> QED
    BY <1>1, PrefixesExist
<1> DEFINE g == [n \in 0..N |-> h[1..n]]
<1>3. \A n \in 0..N : 1..n \in SUBSET (1..N)
  OBVIOUS
<1>4. g \in [0..N -> V]
  BY <1>3
<1>5. g[0] = start
  <2>1. 1..0 = {} /\ 0 \in 0..N
    OBVIOUS
  <2>2. h[{}] = start
    BY <1>2 DEF FoldedLeft
  <2> QED
    BY <2>1, <2>2
<1>6. ASSUME NEW n \in 1..N
      PROVE  g[n] = step[g[n - 1]]
  <2>1. 1..n # {} /\ Max(1..n) = n /\ (1..n) \ {n} = 1..(n - 1)
    BY PrefixStep
  <2>2. 1..n \in SUBSET (1..N) /\ 1..(n - 1) \in SUBSET (1..N)
    OBVIOUS
  <2>3. h[1..n] = each[<<n, h[1..(n - 1)]>>]
    <3> HIDE DEF each
    <3> QED
      BY <1>2, <2>1, <2>2 DEF FoldedLeft
  <2>4. h[1..(n - 1)] \in V
    BY <2>2
  <2>5. h[1..n] = step[h[1..(n - 1)]]
    BY <2>3, <2>4
  <2> QED
    BY <2>5
<1> QED
  BY <1>4, <1>5, <1>6 DEF Repeated
=============================================================================
