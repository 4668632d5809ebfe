----------------------------- MODULE Sums_proofs -----------------------------
(***************************************************************************)
(* Lemmas about sums, and induction over the natural numbers as a fact     *)
(* about sets, from the well-foundedness of the order.                     *)
(***************************************************************************)
EXTENDS Sums, WellFoundedInduction, FunctionTheorems, FiniteSetTheorems, SequenceTheorems, TLAPS

LEMMA LessThanIsWellFounded ==
  \E R : IsWellFoundedOn(R, Nat) /\ \A x, y \in Nat : x < y => <<x, y>> \in R
<1>1. \A x, y \in Nat : x < y => <<x, y>> \in OpToRel(<, Nat)
  BY DEF OpToRel
<1> QED
  BY <1>1, NatLessThanWellFounded

\* A set of natural numbers has a least.
LEMMA LeastNumber ==
  ASSUME NEW S, S \subseteq Nat, S # {}
  PROVE  \E n \in S : \A m \in S : n <= m
<1>1. PICK R : IsWellFoundedOn(R, Nat) /\ \A x, y \in Nat : x < y => <<x, y>> \in R
  BY LessThanIsWellFounded
<1>2. \E x \in S : \A y \in S : ~(<<y, x>> \in R)
  <2>1. IsWellFoundedOn(R, Nat)
    BY <1>1
  <2>2. S \subseteq Nat /\ S # {}
    OBVIOUS
  <2> QED
    BY <2>1, <2>2, WFMin, Zenon
<1>3. PICK x \in S : \A y \in S : ~(<<y, x>> \in R)
  BY <1>2
<1>4. \A y \in S : x \in Nat /\ y \in Nat /\ ~(y < x)
  BY <1>1, <1>3
<1> QED
  BY <1>3, <1>4

\* What holds of 0, and of n + 1 when it holds of n, holds of every n.
LEMMA SetInduction ==
  ASSUME NEW S, 0 \in S, \A n \in Nat : n \in S => n + 1 \in S
  PROVE  Nat \subseteq S
<1> DEFINE T == Nat \ S
<1>1. SUFFICES ASSUME T # {} PROVE FALSE
  OBVIOUS
<1>2. PICK n \in T : \A m \in T : n <= m
  BY <1>1, LeastNumber
<1>3. n \in Nat /\ n # 0
  BY <1>2
<1>4. n - 1 \in Nat /\ n - 1 \notin T
  BY <1>2, <1>3
<1>5. n - 1 + 1 \in S
  BY <1>4
<1> QED
  BY <1>2, <1>3, <1>5

-----------------------------------------------------------------------------

\* What the partial sums of f are.
AreSums(s, n, f) ==
  s \in [0 .. n -> Int] /\ s[0] = 0 /\ \A i \in 1 .. n : s[i] = s[i - 1] + f[i]

LEMMA SumsExist ==
  ASSUME NEW n \in Nat, NEW f \in [1 .. n -> Int]
  PROVE  \E s : AreSums(s, n, f)
<1> DEFINE S == {m \in Nat : m <= n => \E s : AreSums(s, m, f)}
<1>1. 0 \in S
  <2>1. AreSums([i \in 0 .. 0 |-> 0], 0, f)
    BY DEF AreSums
  <2> QED
    BY <2>1
<1>2. ASSUME NEW m \in Nat, m \in S
      PROVE  m + 1 \in S
  <2> SUFFICES ASSUME m + 1 <= n PROVE \E s : AreSums(s, m + 1, f)
    OBVIOUS
  <2>1. PICK s : AreSums(s, m, f)
    BY <1>2
  <2> DEFINE t == [i \in 0 .. m + 1 |-> IF i = m + 1 THEN s[m] + f[m + 1] ELSE s[i]]
  <2>2. f[m + 1] \in Int /\ s[m] \in Int
    BY <2>1 DEF AreSums
  <2>3. t \in [0 .. m + 1 -> Int] /\ t[0] = 0
    BY <2>1, <2>2 DEF AreSums
  <2>4. ASSUME NEW i \in 1 .. m + 1
        PROVE  t[i] = t[i - 1] + f[i]
    <3>1. s \in [0 .. m -> Int] /\ \A l \in 1 .. m : s[l] = s[l - 1] + f[l]
      BY <2>1 DEF AreSums
    <3>2. CASE i = m + 1
      BY <3>2
    <3>3. CASE i \in 1 .. m
      BY <3>1, <3>3
    <3> QED
      BY <3>2, <3>3
  <2>5. AreSums(t, m + 1, f)
    BY <2>3, <2>4 DEF AreSums
  <2> QED
    BY <2>5
<1> HIDE DEF S
<1>3. n \in S
  BY <1>1, <1>2, SetInduction
<1> QED
  BY <1>3 DEF S

LEMMA PartialSumsAre ==
  ASSUME NEW n \in Nat, NEW f \in [1 .. n -> Int]
  PROVE  AreSums(PartialSums(n, f), n, f)
<1> DEFINE Is(s) == s = [i \in 0 .. n |-> IF i = 0 THEN 0 ELSE s[i - 1] + f[i]]
<1>1. PICK s : AreSums(s, n, f)
  BY SumsExist
<1>2. Is(s)
  BY <1>1 DEF AreSums
<1>3. PartialSums(n, f) = CHOOSE t : Is(t)
  BY DEF PartialSums
<1>4. Is(PartialSums(n, f))
  BY <1>2, <1>3, Zenon
<1> DEFINE p == PartialSums(n, f)
<1>5. p = [i \in 0 .. n |-> IF i = 0 THEN 0 ELSE p[i - 1] + f[i]]
  BY <1>4, Zenon
<1> HIDE DEF p
<1>6. DOMAIN p = 0 .. n /\ p[0] = 0 /\ \A i \in 1 .. n : p[i] = p[i - 1] + f[i]
  BY <1>5
\* and, being such sums, they are s
<1> DEFINE S == {m \in Nat : m <= n => p[m] = s[m]}
<1>7. 0 \in S
  BY <1>1, <1>6 DEF AreSums
<1>8. \A m \in Nat : m \in S => m + 1 \in S
  BY <1>1, <1>6 DEF AreSums
<1> HIDE DEF S
<1>9. \A m \in Nat : m \in S
  BY <1>7, <1>8, SetInduction
<1>10. \A i \in 0 .. n : p[i] = s[i]
  BY <1>9 DEF S
<1>11. p = s
  BY <1>1, <1>5, <1>10 DEF AreSums
<1> QED
  BY <1>1, <1>11 DEF p

LEMMA SumToType ==
  ASSUME NEW n \in Nat, NEW f \in [1 .. n -> Int]
  PROVE  SumTo(n, f) \in Int
  BY PartialSumsAre DEF SumTo, AreSums

\* The sums of two functions that agree but in one place.
LEMMA SumToChange ==
  ASSUME NEW n \in Nat, NEW f \in [1 .. n -> Int], NEW g \in [1 .. n -> Int], NEW k \in 1 .. n,
         \A i \in 1 .. n : i # k => g[i] = f[i]
  PROVE  SumTo(n, g) = SumTo(n, f) + g[k] - f[k]
<1> DEFINE s == PartialSums(n, f)
           t == PartialSums(n, g)
           S == {m \in Nat : m <= n => t[m] = s[m] + (IF m < k THEN 0 ELSE g[k] - f[k])}
<1>1. AreSums(s, n, f) /\ AreSums(t, n, g)
  BY PartialSumsAre
<1> HIDE DEF s, t
<1>2. 0 \in S
  BY <1>1 DEF AreSums
<1>3. ASSUME NEW m \in Nat, m \in S
      PROVE  m + 1 \in S
  <2> SUFFICES ASSUME m + 1 <= n
               PROVE  t[m + 1] = s[m + 1] + (IF m + 1 < k THEN 0 ELSE g[k] - f[k])
    OBVIOUS
  <2>1. /\ t[m] = s[m] + (IF m < k THEN 0 ELSE g[k] - f[k])
        /\ t[m + 1] = t[m] + g[m + 1] /\ s[m + 1] = s[m] + f[m + 1]
    BY <1>1, <1>3 DEF AreSums
  <2>2. s[m] \in Int /\ f[m + 1] \in Int /\ g[m + 1] \in Int /\ f[k] \in Int /\ g[k] \in Int
    <3>1. m \in 0 .. n /\ m + 1 \in 1 .. n
      OBVIOUS
    <3>2. s[m] \in Int
      BY <1>1, <3>1 DEF AreSums
    <3> QED
      BY <3>1, <3>2
  <2>3. CASE m + 1 = k
    <3>1. m < k /\ f[m + 1] = f[k] /\ g[m + 1] = g[k]
      BY <2>3
    <3> HIDE DEF s, t
    <3> QED
      BY <2>1, <2>2, <2>3, <3>1
  <2>4. CASE m + 1 # k
    <3>1. g[m + 1] = f[m + 1]
      BY <2>4
    <3> QED
      BY <2>1, <2>2, <2>4, <3>1
  <2> QED
    BY <2>3, <2>4
<1> HIDE DEF S
<1>4. n \in S
  BY <1>2, <1>3, SetInduction
<1>5. t[n] = s[n] + (g[k] - f[k]) /\ s[n] \in Int /\ g[k] \in Int /\ f[k] \in Int
  BY <1>1, <1>4 DEF S, AreSums
<1> QED
  BY <1>5 DEF SumTo, s, t

LEMMA SumToZero ==
  ASSUME NEW n \in Nat, NEW f \in [1 .. n -> Int], \A i \in 1 .. n : f[i] = 0
  PROVE  SumTo(n, f) = 0
<1> DEFINE s == PartialSums(n, f)
           S == {m \in Nat : m <= n => s[m] = 0}
<1>1. AreSums(s, n, f)
  BY PartialSumsAre
<1> HIDE DEF s
<1>2. 0 \in S
  BY <1>1 DEF AreSums
<1>3. \A m \in Nat : m \in S => m + 1 \in S
  BY <1>1 DEF AreSums
<1> HIDE DEF S
<1>4. n \in S
  BY <1>2, <1>3, SetInduction
<1> QED
  BY <1>4 DEF S, s, SumTo

\* The sum of natural numbers is one.
LEMMA SumToNat ==
  ASSUME NEW n \in Nat, NEW f \in [1 .. n -> Nat]
  PROVE  SumTo(n, f) \in Nat
<1> DEFINE s == PartialSums(n, f)
           S == {m \in Nat : m <= n => s[m] \in Nat}
<1>1. AreSums(s, n, f)
  BY PartialSumsAre
<1> HIDE DEF s
<1>2. 0 \in S
  BY <1>1 DEF AreSums
<1>3. \A m \in Nat : m \in S => m + 1 \in S
  <2> SUFFICES ASSUME NEW m \in Nat, m \in S, m + 1 <= n PROVE s[m + 1] \in Nat
    OBVIOUS
  <2>1. s[m] \in Nat /\ m + 1 \in 1 .. n /\ m + 1 - 1 = m
    OBVIOUS
  <2> QED
    BY <1>1, <2>1 DEF AreSums
<1> HIDE DEF S
<1>4. n \in S
  BY <1>2, <1>3, SetInduction
<1> QED
  BY <1>4 DEF S, s, SumTo

\* The sum of n terms of b at most is n times b at most.
LEMMA SumToBound ==
  ASSUME NEW n \in Nat, NEW b \in Nat, NEW f \in [1 .. n -> Int], \A i \in 1 .. n : f[i] <= b
  PROVE  SumTo(n, f) <= b * n
<1> DEFINE s == PartialSums(n, f)
           S == {m \in Nat : m <= n => s[m] <= b * m}
<1>1. AreSums(s, n, f)
  BY PartialSumsAre
<1> HIDE DEF s
<1>2. 0 \in S
  BY <1>1 DEF AreSums
<1>3. \A m \in Nat : m \in S => m + 1 \in S
  <2> SUFFICES ASSUME NEW m \in Nat, m \in S, m + 1 <= n PROVE s[m + 1] <= b * (m + 1)
    OBVIOUS
  <2>1. m + 1 \in 1 .. n /\ m + 1 - 1 = m /\ m \in 0 .. n
    OBVIOUS
  <2>2. s[m] \in Int /\ s[m] <= b * m /\ s[m + 1] = s[m] + f[m + 1] /\ f[m + 1] \in Int
    BY <1>1, <2>1 DEF AreSums
  <2>3. f[m + 1] <= b
    BY <2>1
  <2>4. b * (m + 1) = b * m + b /\ b * m \in Nat
    OBVIOUS
  <2> DEFINE x == b * m
             y == b * (m + 1)
             z == f[m + 1]
             w == s[m]
             v == s[m + 1]
  <2>5. /\ x \in Nat /\ y = x + b /\ z \in Int /\ w \in Int
        /\ v = w + z /\ w <= x /\ z <= b
    BY <2>2, <2>3, <2>4
  <2> HIDE DEF x, y, z, w, v
  <2>6. v <= y
    BY <2>5
  <2> QED
    BY <2>6 DEF v, y
<1> HIDE DEF S
<1>4. n \in S
  BY <1>2, <1>3, SetInduction
<1> QED
  BY <1>4 DEF S, s, SumTo

\* One more term.
LEMMA SumToAppend ==
  ASSUME NEW n \in Nat, NEW f \in [1 .. n -> Int], NEW g \in [1 .. n + 1 -> Int],
         \A i \in 1 .. n : g[i] = f[i]
  PROVE  SumTo(n + 1, g) = SumTo(n, f) + g[n + 1]
<1> DEFINE s == PartialSums(n, f)
           t == PartialSums(n + 1, g)
           S == {m \in Nat : m <= n => t[m] = s[m]}
<1>1. AreSums(s, n, f) /\ AreSums(t, n + 1, g)
  BY PartialSumsAre
<1> HIDE DEF s, t
<1>2. 0 \in S
  BY <1>1 DEF AreSums
<1>3. ASSUME NEW m \in Nat, m \in S
      PROVE  m + 1 \in S
  <2> SUFFICES ASSUME m + 1 <= n PROVE t[m + 1] = s[m + 1]
    OBVIOUS
  <2>1. t[m] = s[m] /\ m + 1 \in 1 .. n /\ m + 1 \in 1 .. n + 1 /\ (m + 1) - 1 = m
    BY <1>3
  <2> QED
    BY <1>1, <2>1 DEF AreSums
<1> HIDE DEF S
<1>4. n \in S
  BY <1>2, <1>3, SetInduction
<1>5. t[n + 1] = t[n] + g[n + 1]
  <2>1. n + 1 \in 1 .. n + 1 /\ (n + 1) - 1 = n
    OBVIOUS
  <2> QED
    BY <1>1, <2>1 DEF AreSums
<1> QED
  BY <1>4, <1>5 DEF S, s, t, SumTo

\* One term less, the first.
LEMMA SumToTail ==
  ASSUME NEW n \in Nat, NEW f \in [1 .. n + 1 -> Int], NEW g \in [1 .. n -> Int],
         \A i \in 1 .. n : g[i] = f[i + 1]
  PROVE  SumTo(n + 1, f) = f[1] + SumTo(n, g)
<1> DEFINE s == PartialSums(n + 1, f)
           t == PartialSums(n, g)
           S == {m \in Nat : m <= n => s[m + 1] = f[1] + t[m]}
<1>1. AreSums(s, n + 1, f) /\ AreSums(t, n, g)
  BY PartialSumsAre
<1> HIDE DEF s, t
<1>2. f[1] \in Int /\ 1 \in 1 .. n + 1
  OBVIOUS
<1>3. 0 \in S
  <2>1. s[1] = s[0] + f[1] /\ s[0] = 0 /\ t[0] = 0
    <3>1. \A i \in 1 .. n + 1 : s[i] = s[i - 1] + f[i]
      BY <1>1 DEF AreSums
    <3>2. s[1] = s[1 - 1] + f[1]
      BY <1>2, <3>1
    <3> QED
      BY <1>1, <3>2 DEF AreSums
  <2> QED
    BY <1>2, <2>1
<1>4. ASSUME NEW m \in Nat, m \in S
      PROVE  m + 1 \in S
  <2> SUFFICES ASSUME m + 1 <= n PROVE s[m + 2] = f[1] + t[m + 1]
    OBVIOUS
  <2>1. /\ s[m + 1] = f[1] + t[m] /\ m + 1 \in 1 .. n /\ m + 2 \in 1 .. n + 1
        /\ (m + 1) - 1 = m /\ (m + 2) - 1 = m + 1 /\ m \in 0 .. n
    BY <1>4
  <2>2. s[m + 2] = s[m + 1] + f[m + 2]
    BY <1>1, <2>1 DEF AreSums
  <2>3. t[m + 1] = t[m] + g[m + 1] /\ t[m] \in Int /\ g[m + 1] \in Int
    BY <1>1, <2>1 DEF AreSums
  <2>4. g[m + 1] = f[m + 2]
    BY <2>1
  <2> QED
    BY <1>2, <2>1, <2>2, <2>3, <2>4
<1> HIDE DEF S
<1>5. n \in S
  BY <1>3, <1>4, SetInduction
<1> QED
  BY <1>5 DEF S, s, t, SumTo

-----------------------------------------------------------------------------

LEMMA EnumerationIsOne ==
  ASSUME NEW S, IsFiniteSet(S)
  PROVE  /\ Cardinality(S) \in Nat
         /\ Enumeration(S) \in [1 .. Cardinality(S) -> S]
         /\ \A i, k \in 1 .. Cardinality(S) : Enumeration(S)[i] = Enumeration(S)[k] => i = k
         /\ \A x \in S : \E i \in 1 .. Cardinality(S) : Enumeration(S)[i] = x
<1> DEFINE n == Cardinality(S)
           Is(e) == e \in [1 .. n -> S] /\ \A i, k \in 1 .. n : e[i] = e[k] => i = k
<1>1. n \in Nat /\ ExistsBijection(1 .. n, S)
  BY FS_CardinalityType
<1> HIDE DEF n
<1>2. \E e : Is(e)
  <2>1. PICK b : b \in Bijection(1 .. n, S)
    BY <1>1 DEF ExistsBijection
  <2>2. b \in Injection(1 .. n, S)
    BY <2>1 DEF Bijection
  <2>3. Is(b)
    BY <2>2 DEF Injection, IsInjective
  <2> QED
    BY <2>3
<1>3. Is(Enumeration(S))
  BY <1>2, Zenon DEF Enumeration, n
<1> DEFINE e == Enumeration(S)
<1>4. e \in [1 .. n -> S] /\ \A i, k \in 1 .. n : e[i] = e[k] => i = k
  BY <1>3
<1> HIDE DEF e
<1>5. e \in Injection(1 .. n, S)
  BY <1>4, Zenon DEF Injection, IsInjective
<1>6. IsFiniteSet(1 .. n) /\ Cardinality(1 .. n) = n
  BY <1>1, FS_Interval
<1>7. Cardinality(S) = n
  BY DEF n
<1>8. e \in Surjection(1 .. n, S)
  BY <1>5, <1>6, <1>7, FS_Injection
<1> QED
  BY <1>1, <1>4, <1>8 DEF e, n, Surjection

LEMMA SumOverType ==
  ASSUME NEW S, IsFiniteSet(S), NEW f \in [S -> Int]
  PROVE  SumOver(S, f) \in Int
<1> DEFINE n == Cardinality(S)
           a == [i \in 1 .. n |-> f[Enumeration(S)[i]]]
<1>1. n \in Nat /\ a \in [1 .. n -> Int]
  BY EnumerationIsOne
<1> HIDE DEF n, a
<1>2. SumTo(n, a) \in Int
  BY <1>1, SumToType
<1> QED
  BY <1>2 DEF SumOver, n, a

LEMMA SumOverZero ==
  ASSUME NEW S, IsFiniteSet(S), NEW f \in [S -> Int], \A x \in S : f[x] = 0
  PROVE  SumOver(S, f) = 0
<1> DEFINE n == Cardinality(S)
           a == [i \in 1 .. n |-> f[Enumeration(S)[i]]]
<1>1. n \in Nat /\ a \in [1 .. n -> Int] /\ \A i \in 1 .. n : a[i] = 0
  BY EnumerationIsOne
<1> HIDE DEF n, a
<1>2. SumTo(n, a) = 0
  BY <1>1, SumToZero
<1> QED
  BY <1>2 DEF SumOver, n, a

LEMMA SumOverNat ==
  ASSUME NEW S, IsFiniteSet(S), NEW f \in [S -> Nat]
  PROVE  SumOver(S, f) \in Nat
<1> DEFINE n == Cardinality(S)
           a == [i \in 1 .. n |-> f[Enumeration(S)[i]]]
<1>1. n \in Nat /\ a \in [1 .. n -> Nat]
  BY EnumerationIsOne
<1> HIDE DEF n, a
<1>2. SumTo(n, a) \in Nat
  BY <1>1, SumToNat
<1> QED
  BY <1>2 DEF SumOver, n, a

LEMMA SumOverBound ==
  ASSUME NEW S, IsFiniteSet(S), NEW b \in Nat, NEW f \in [S -> Int], \A x \in S : f[x] <= b
  PROVE  SumOver(S, f) <= b * Cardinality(S)
<1> DEFINE n == Cardinality(S)
           a == [i \in 1 .. n |-> f[Enumeration(S)[i]]]
<1>1. n \in Nat /\ a \in [1 .. n -> Int] /\ \A i \in 1 .. n : a[i] <= b
  BY EnumerationIsOne
<1> HIDE DEF n, a
<1>2. SumTo(n, a) <= b * n
  BY <1>1, SumToBound
<1> QED
  BY <1>2 DEF SumOver, n, a

\* The sums of two functions that agree but for one element.
LEMMA SumOverChange ==
  ASSUME NEW S, IsFiniteSet(S), NEW f \in [S -> Int], NEW g \in [S -> Int], NEW x \in S,
         \A y \in S : y # x => g[y] = f[y]
  PROVE  SumOver(S, g) = SumOver(S, f) + g[x] - f[x]
<1> DEFINE n == Cardinality(S)
           e == Enumeration(S)
           a == [i \in 1 .. n |-> f[e[i]]]
           b == [i \in 1 .. n |-> g[e[i]]]
<1>1. /\ n \in Nat /\ e \in [1 .. n -> S]
      /\ \A i, k \in 1 .. n : e[i] = e[k] => i = k
      /\ \A y \in S : \E i \in 1 .. n : e[i] = y
  BY EnumerationIsOne
<1> HIDE DEF n, e
<1>2. PICK k \in 1 .. n : e[k] = x
  BY <1>1
<1>3. a \in [1 .. n -> Int] /\ b \in [1 .. n -> Int]
  BY <1>1
<1>4. \A i \in 1 .. n : i # k => b[i] = a[i]
  BY <1>1, <1>2
<1>5. a[k] = f[x] /\ b[k] = g[x]
  BY <1>2
<1> HIDE DEF a, b
<1>6. SumTo(n, b) = SumTo(n, a) + b[k] - a[k]
  BY <1>1, <1>3, <1>4, SumToChange
<1> QED
  BY <1>5, <1>6 DEF SumOver, n, e, a, b

-----------------------------------------------------------------------------

One(b) == IF b THEN 1 ELSE 0

\* A set that changes by one member at most changes its size by what the member was and is.
LEMMA OneMoves ==
  ASSUME NEW T, NEW U, NEW w, IsFiniteSet(T), IsFiniteSet(U),
         \A v : v # w => (v \in T <=> v \in U)
  PROVE  /\ Cardinality(T) \in Nat /\ Cardinality(U) \in Nat
         /\ Cardinality(U) + One(w \in T) = Cardinality(T) + One(w \in U)
<1>1. T \ {w} = U \ {w}
  OBVIOUS
<1>2. Cardinality(T) \in Nat /\ Cardinality(U) \in Nat
  BY FS_CardinalityType
<1>3. /\ w \in T => Cardinality(T \ {w}) = Cardinality(T) - 1
      /\ w \notin T => Cardinality(T \ {w}) = Cardinality(T)
  <2>1. w \notin T => T \ {w} = T
    OBVIOUS
  <2> QED
    BY <2>1, FS_RemoveElement
<1>4. /\ w \in U => Cardinality(U \ {w}) = Cardinality(U) - 1
      /\ w \notin U => Cardinality(U \ {w}) = Cardinality(U)
  <2>1. w \notin U => U \ {w} = U
    OBVIOUS
  <2> QED
    BY <2>1, FS_RemoveElement
<1> DEFINE a == Cardinality(T)
           b == Cardinality(U)
           c == Cardinality(T \ {w})
           d == Cardinality(U \ {w})
<1>5. /\ a \in Nat /\ b \in Nat /\ c = d
      /\ (w \in T => c = a - 1) /\ (w \notin T => c = a)
      /\ (w \in U => d = b - 1) /\ (w \notin U => d = b)
  BY <1>1, <1>2, <1>3, <1>4
<1> HIDE DEF a, b, c, d
<1>6. b + One(w \in T) = a + One(w \in U)
  BY <1>5 DEF One
<1> QED
  BY <1>2, <1>6 DEF a, b

-----------------------------------------------------------------------------
(* What a set selects of a sequence *)

\* What is selected of each beginning of s.
AreAmong(f, s, S) ==
  /\ DOMAIN f = 0 .. Len(s) /\ f[0] = <<>>
  /\ \A n \in 1 .. Len(s) : f[n] = IF s[n] \in S THEN Append(f[n - 1], s[n]) ELSE f[n - 1]

LEMMA AmongMoreOf ==
  ASSUME NEW T, NEW s \in Seq(T), NEW x \in T, NEW S, NEW f, AreAmong(f, s, S)
  PROVE  LET n == Len(s) + 1
             last == IF x \in S THEN Append(f[n - 1], x) ELSE f[n - 1]
         IN  AreAmong([i \in 0 .. n |-> IF i = n THEN last ELSE f[i]], Append(s, x), S)
<1> DEFINE n == Len(s) + 1
           last == IF x \in S THEN Append(f[n - 1], x) ELSE f[n - 1]
           t == Append(s, x)
           g == [i \in 0 .. n |-> IF i = n THEN last ELSE f[i]]
<1>1. /\ Len(s) \in Nat /\ Len(t) = n /\ t[n] = x /\ \A i \in 1 .. Len(s) : t[i] = s[i]
  BY AppendProperties, LenProperties
<1>2. /\ f[0] = <<>>
      /\ \A i \in 1 .. Len(s) : f[i] = IF s[i] \in S THEN Append(f[i - 1], s[i]) ELSE f[i - 1]
  BY DEF AreAmong
<1> HIDE DEF t, last
<1>3. DOMAIN g = 0 .. n /\ g[n] = last /\ \A i \in 0 .. Len(s) : g[i] = f[i]
  BY <1>1
<1> HIDE DEF g
<1>4. ASSUME NEW i \in 1 .. n
      PROVE  g[i] = IF t[i] \in S THEN Append(g[i - 1], t[i]) ELSE g[i - 1]
  <2>1. CASE i = n
    <3>1. g[i] = last /\ g[i - 1] = f[n - 1] /\ t[i] = x
      BY <1>1, <1>3, <2>1
    <3> QED
      BY <2>1, <3>1 DEF last
  <2>2. CASE i \in 1 .. Len(s)
    <3>1. g[i] = f[i] /\ g[i - 1] = f[i - 1] /\ t[i] = s[i]
      BY <1>1, <1>3, <2>2
    <3> QED
      BY <1>2, <2>2, <3>1
  <2> QED
    BY <1>1, <2>1, <2>2
<1>5. g[0] = <<>>
  BY <1>1, <1>2, <1>3
<1>6. AreAmong(g, t, S)
  BY <1>1, <1>3, <1>4, <1>5 DEF AreAmong
<1> QED
  BY <1>6 DEF g, last, t

\* Induction over sequences, as a fact about their lengths: Ps are the sequences a claim holds of.
LEMMA SeqInduction ==
  ASSUME NEW T, NEW Ps, <<>> \in Ps,
         \A s \in Seq(T) : \A x \in T : s \in Ps => Append(s, x) \in Ps
  PROVE  Seq(T) \subseteq Ps
<1> DEFINE S == {n \in Nat : \A s \in Seq(T) : Len(s) = n => s \in Ps}
<1>1. 0 \in S
  BY EmptySeq
<1>2. ASSUME NEW n \in Nat, n \in S
      PROVE  n + 1 \in S
  <2> SUFFICES ASSUME NEW t \in Seq(T), Len(t) = n + 1 PROVE t \in Ps
    OBVIOUS
  <2>1. t # <<>>
    OBVIOUS
  <2>2. PICK s \in Seq(T), x \in T : t = Append(s, x)
    BY <2>1, SequenceEmptyOrAppend
  <2>3. Len(s) = n
    BY <2>2
  <2> QED
    BY <1>2, <2>2, <2>3
<1> HIDE DEF S
<1>3. \A n \in Nat : n \in S
  BY <1>1, <1>2, SetInduction
<1>4. ASSUME NEW s \in Seq(T)
      PROVE  s \in Ps
  <2>1. Len(s) \in S /\ Len(s) = Len(s)
    BY <1>3
  <2> QED
    BY <2>1 DEF S
<1> QED
  BY <1>4

LEMMA AmongExist ==
  ASSUME NEW T, NEW s \in Seq(T), NEW S
  PROVE  \E f : AreAmong(f, s, S)
<1> DEFINE Ps == {t \in Seq(T) : \E f : AreAmong(f, t, S)}
<1>1. <<>> \in Ps
  <2>1. AreAmong([i \in 0 .. 0 |-> <<>>], <<>>, S)
    BY DEF AreAmong
  <2> QED
    BY <2>1, EmptySeq
<1>2. \A t \in Seq(T) : \A x \in T : t \in Ps => Append(t, x) \in Ps
  BY AmongMoreOf, AppendProperties
<1> HIDE DEF Ps
<1>3. s \in Ps
  BY <1>1, <1>2, SeqInduction
<1> QED
  BY <1>3 DEF Ps

LEMMA AmongUnique ==
  ASSUME NEW T, NEW s \in Seq(T), NEW S, NEW f, NEW g, AreAmong(f, s, S), AreAmong(g, s, S)
  PROVE  f[Len(s)] = g[Len(s)]
<1> DEFINE R == {m \in Nat : m <= Len(s) => f[m] = g[m]}
<1>1. 0 \in R
  BY DEF AreAmong
<1>2. ASSUME NEW m \in Nat, m \in R
      PROVE  m + 1 \in R
  <2> SUFFICES ASSUME m + 1 <= Len(s) PROVE f[m + 1] = g[m + 1]
    OBVIOUS
  <2>1. m + 1 \in 1 .. Len(s) /\ (m + 1) - 1 = m /\ f[m] = g[m]
    BY <1>2
  <2> QED
    BY <2>1 DEF AreAmong
<1> HIDE DEF R
<1>3. Len(s) \in Nat
  OBVIOUS
<1>4. Len(s) \in R
  BY <1>1, <1>2, <1>3, SetInduction
<1> QED
  BY <1>3, <1>4 DEF R

\* Among is the last of them.
LEMMA AmongIs ==
  ASSUME NEW T, NEW s \in Seq(T), NEW S, NEW f, AreAmong(f, s, S)
  PROVE  Among(s, S) = f[Len(s)]
<1> DEFINE Is(g) == g = [n \in 0 .. Len(s) |->
                          IF n = 0 THEN <<>>
                          ELSE IF s[n] \in S THEN Append(g[n - 1], s[n]) ELSE g[n - 1]]
           a == CHOOSE g : Is(g)
<1>1. Len(s) \in Nat
  OBVIOUS
<1>2. PICK h : h = [n \in 0 .. Len(s) |-> f[n]]
  OBVIOUS
<1>3. Is(h)
  <2>1. \A n \in 1 .. Len(s) : f[n] = IF s[n] \in S THEN Append(f[n - 1], s[n]) ELSE f[n - 1]
    BY DEF AreAmong
  <2>2. f[0] = <<>>
    BY DEF AreAmong
  <2>3. \A n \in 0 .. Len(s) : n = 0 \/ (n \in 1 .. Len(s) /\ n - 1 \in 0 .. Len(s))
    BY <1>1
  <2> QED
    BY <1>2, <2>1, <2>2, <2>3
<1>4. Is(a)
  BY <1>3, Zenon
<1>5. a = [n \in 0 .. Len(s) |->
            IF n = 0 THEN <<>> ELSE IF s[n] \in S THEN Append(a[n - 1], s[n]) ELSE a[n - 1]]
  BY <1>4, Zenon
<1>6. Among(s, S) = a[Len(s)]
  BY DEF Among
<1> HIDE DEF a
<1>7. AreAmong(a, s, S)
  <2>1. DOMAIN a = 0 .. Len(s)
    BY <1>5
  <2>2. a[0] = <<>>
    BY <1>1, <1>5
  <2>3. ASSUME NEW n \in 1 .. Len(s)
        PROVE  a[n] = IF s[n] \in S THEN Append(a[n - 1], s[n]) ELSE a[n - 1]
    <3>1. n \in 0 .. Len(s) /\ n # 0
      BY <1>1
    <3> QED
      BY <1>5, <3>1
  <2> QED
    BY <2>1, <2>2, <2>3 DEF AreAmong
<1> QED
  BY <1>6, <1>7, AmongUnique

\* Selecting from a sequence and one more.
LEMMA AmongAppend ==
  ASSUME NEW T, NEW s \in Seq(T), NEW x \in T, NEW S
  PROVE  Among(Append(s, x), S) = IF x \in S THEN Append(Among(s, S), x) ELSE Among(s, S)
<1> DEFINE n == Len(s) + 1
<1>1. PICK f : AreAmong(f, s, S)
  BY AmongExist
<1> DEFINE last == IF x \in S THEN Append(f[n - 1], x) ELSE f[n - 1]
           g == [i \in 0 .. n |-> IF i = n THEN last ELSE f[i]]
<1>2. AreAmong(g, Append(s, x), S)
  BY <1>1, AmongMoreOf
<1>3. Append(s, x) \in Seq(T) /\ Len(Append(s, x)) = n /\ n \in Nat /\ n - 1 = Len(s)
  BY AppendProperties
<1>4. g[n] = last
  BY <1>3
<1> HIDE DEF g
<1>5. Among(Append(s, x), S) = g[n]
  BY <1>2, <1>3, AmongIs
<1>6. Among(s, S) = f[Len(s)]
  BY <1>1, AmongIs
<1> QED
  BY <1>3, <1>4, <1>5, <1>6

LEMMA AmongNothing ==
  ASSUME NEW S
  PROVE  Among(<<>>, S) = <<>>
<1>1. AreAmong([i \in 0 .. 0 |-> <<>>], <<>>, S)
  BY DEF AreAmong
<1>2. <<>> \in Seq({}) /\ Len(<<>>) = 0
  BY EmptySeq
<1>3. Among(<<>>, S) = [i \in 0 .. 0 |-> <<>>][0]
  BY <1>1, <1>2, AmongIs
<1> QED
  BY <1>3

\* What is selected are members, no more of them than there are.
LEMMA AmongType ==
  ASSUME NEW T, NEW S, NEW s \in Seq(T)
  PROVE  Among(s, S) \in Seq(T) /\ Len(Among(s, S)) <= Len(s)
<1> DEFINE Ps == {t \in Seq(T) : Among(t, S) \in Seq(T) /\ Len(Among(t, S)) <= Len(t)}
<1>1. <<>> \in Ps
  <2>1. Among(<<>>, S) = <<>> /\ <<>> \in Seq(T) /\ Len(<<>>) = 0 /\ 0 <= 0
    BY AmongNothing, EmptySeq
  <2> QED
    BY <2>1
<1>2. ASSUME NEW t \in Seq(T), NEW x \in T, t \in Ps
      PROVE  Append(t, x) \in Ps
  <2> DEFINE u == Append(t, x)
             a == Among(t, S)
             b == Among(u, S)
  <2>1. a \in Seq(T) /\ Len(a) <= Len(t) /\ Len(t) \in Nat /\ Len(a) \in Nat
    BY <1>2
  <2>2. b = IF x \in S THEN Append(a, x) ELSE a
    BY AmongAppend
  <2>3. u \in Seq(T) /\ Len(u) = Len(t) + 1
    BY AppendProperties
  <2> HIDE DEF u, a, b
  <2>4. b \in Seq(T) /\ Len(b) <= Len(u)
    <3>1. Append(a, x) \in Seq(T) /\ Len(Append(a, x)) = Len(a) + 1
      BY <2>1, AppendProperties
    <3> QED
      BY <2>1, <2>2, <2>3, <3>1
  <2> QED
    BY <2>3, <2>4 DEF u, b
<1> HIDE DEF Ps
<1>3. s \in Ps
  BY <1>1, <1>2, SeqInduction
<1> QED
  BY <1>3 DEF Ps

LEMMA RangeAppend ==
  ASSUME NEW T, NEW s \in Seq(T), NEW x \in T
  PROVE  Range(Append(s, x)) = Range(s) \cup {x}
<1> DEFINE u == Append(s, x)
<1>1. /\ u \in Seq(T) /\ Len(u) = Len(s) + 1 /\ \A i \in 1 .. Len(s) : u[i] = s[i]
      /\ u[Len(s) + 1] = x /\ Len(s) \in Nat
  BY AppendProperties, LenProperties
<1>2. Range(s) = {s[i] : i \in 1 .. Len(s)} /\ Range(u) = {u[i] : i \in 1 .. Len(u)}
  BY <1>1, RangeEquality
<1> HIDE DEF u
<1>3. 1 .. Len(u) = (1 .. Len(s)) \cup {Len(s) + 1}
  BY <1>1
<1>4. ASSUME NEW y PROVE y \in Range(u) <=> y \in Range(s) \cup {x}
  BY <1>1, <1>2, <1>3
<1>5. Range(u) = Range(s) \cup {x}
  BY <1>4
<1> QED
  BY <1>5 DEF u

LEMMA RangeEmpty ==
  Range(<<>>) = {}
  BY DEF Range

\* It is the members that are in the set.
LEMMA AmongRange ==
  ASSUME NEW T, NEW S, NEW s \in Seq(T)
  PROVE  Range(Among(s, S)) = Range(s) \cap S
<1> DEFINE Ps == {t \in Seq(T) : Range(Among(t, S)) = Range(t) \cap S}
<1>1. <<>> \in Ps
  BY AmongNothing, EmptySeq, RangeEmpty
<1>2. ASSUME NEW t \in Seq(T), NEW x \in T, t \in Ps
      PROVE  Append(t, x) \in Ps
  <2>1. Range(Among(t, S)) = Range(t) \cap S /\ Among(t, S) \in Seq(T)
    BY <1>2, AmongType
  <2>2. Range(Append(t, x)) = Range(t) \cup {x}
    BY RangeAppend
  <2>3. Range(Append(Among(t, S), x)) = Range(Among(t, S)) \cup {x}
    BY <2>1, RangeAppend
  <2>4. Among(Append(t, x), S) = IF x \in S THEN Append(Among(t, S), x) ELSE Among(t, S)
    BY AmongAppend
  <2>5. Range(Among(Append(t, x), S)) = Range(Append(t, x)) \cap S
    BY <2>1, <2>2, <2>3, <2>4
  <2> QED
    BY <2>5, AppendProperties
<1> HIDE DEF Ps
<1>3. s \in Ps
  BY <1>1, <1>2, SeqInduction
<1> QED
  BY <1>3 DEF Ps

\* A sequence and one more has every member once, when the sequence has and the one is new.
LEMMA InjectiveAppend ==
  ASSUME NEW T, NEW s \in Seq(T), NEW x \in T
  PROVE  IsInjective(Append(s, x)) <=> IsInjective(s) /\ x \notin Range(s)
<1> DEFINE u == Append(s, x)
           n == Len(s)
<1>1. /\ u \in Seq(T) /\ Len(u) = n + 1 /\ \A i \in 1 .. n : u[i] = s[i]
      /\ u[n + 1] = x /\ n \in Nat /\ DOMAIN s = 1 .. n
  BY AppendProperties, LenProperties
<1>2. DOMAIN u = 1 .. n + 1
  BY <1>1
<1>3. \A y : y \in Range(s) <=> \E i \in 1 .. n : y = s[i]
  BY <1>1 DEF Range
<1> HIDE DEF u, n
<1>4. ASSUME IsInjective(u) PROVE IsInjective(s) /\ x \notin Range(s)
  <2>1. \A i, k \in 1 .. n + 1 : u[i] = u[k] => i = k
    BY <1>2, <1>4 DEF IsInjective
  <2>2. \A i \in 1 .. n : i \in 1 .. n + 1 /\ i # n + 1
    BY <1>1
  <2>3. IsInjective(s)
    BY <1>1, <2>1, <2>2 DEF IsInjective
  <2>4. n + 1 \in 1 .. n + 1
    BY <1>1
  <2>5. ASSUME NEW i \in 1 .. n, x = s[i] PROVE FALSE
    BY <1>1, <2>1, <2>2, <2>4, <2>5
  <2> QED
    BY <1>3, <2>3, <2>5
<1>5. ASSUME IsInjective(s), x \notin Range(s) PROVE IsInjective(u)
  <2>1. \A i \in 1 .. n + 1 : i \in 1 .. n \/ i = n + 1
    BY <1>1
  <2>2. \A i, k \in 1 .. n : s[i] = s[k] => i = k
    BY <1>1, <1>5 DEF IsInjective
  <2>3. \A i \in 1 .. n : s[i] # x
    BY <1>3, <1>5
  <2>4. ASSUME NEW i \in 1 .. n + 1, NEW k \in 1 .. n + 1, u[i] = u[k] PROVE i = k
    BY <1>1, <2>1, <2>2, <2>3, <2>4
  <2> QED
    BY <1>2, <2>4 DEF IsInjective
<1> QED
  BY <1>4, <1>5 DEF u

\* Nothing is selected twice of what is there once.
LEMMA AmongInjective ==
  ASSUME NEW T, NEW S, NEW s \in Seq(T), IsInjective(s)
  PROVE  IsInjective(Among(s, S))
<1> DEFINE Ps == {t \in Seq(T) : IsInjective(t) => IsInjective(Among(t, S))}
<1>1. <<>> \in Ps
  BY AmongNothing, EmptySeq
<1>2. ASSUME NEW t \in Seq(T), NEW x \in T, t \in Ps
      PROVE  Append(t, x) \in Ps
  <2> SUFFICES ASSUME IsInjective(Append(t, x)) PROVE IsInjective(Among(Append(t, x), S))
    BY AppendProperties
  <2>1. IsInjective(t) /\ x \notin Range(t)
    BY InjectiveAppend
  <2>2. IsInjective(Among(t, S)) /\ Among(t, S) \in Seq(T) /\ x \notin Range(Among(t, S))
    BY <1>2, <2>1, AmongType, AmongRange
  <2>3. IsInjective(Append(Among(t, S), x))
    BY <2>2, InjectiveAppend
  <2> QED
    BY <2>2, <2>3, AmongAppend
<1> HIDE DEF Ps
<1>3. s \in Ps
  BY <1>1, <1>2, SeqInduction
<1> QED
  BY <1>3 DEF Ps

LEMMA ConcatAppend ==
  ASSUME NEW T, NEW s \in Seq(T), NEW t \in Seq(T), NEW x \in T
  PROVE  s \o Append(t, x) = Append(s \o t, x)
<1>1. <<x>> \in Seq(T) /\ s \o t \in Seq(T)
  BY ConcatProperties
<1>2. Append(t, x) = t \o <<x>> /\ Append(s \o t, x) = (s \o t) \o <<x>>
  BY <1>1, AppendIsConcat
<1> QED
  BY <1>1, <1>2, ConcatAssociative

\* Selecting of one sequence and then of the next.
LEMMA AmongConcat ==
  ASSUME NEW T, NEW S, NEW s \in Seq(T), NEW t \in Seq(T)
  PROVE  Among(s \o t, S) = Among(s, S) \o Among(t, S)
<1> DEFINE Ps == {u \in Seq(T) : Among(s \o u, S) = Among(s, S) \o Among(u, S)}
<1>0. Among(s, S) \in Seq(T)
  BY AmongType
<1>1. <<>> \in Ps
  BY <1>0, AmongNothing, EmptySeq, ConcatEmptySeq
<1>2. ASSUME NEW u \in Seq(T), NEW x \in T, u \in Ps
      PROVE  Append(u, x) \in Ps
  <2> DEFINE a == Among(s, S)
             b == Among(u, S)
  <2>1. a \in Seq(T) /\ b \in Seq(T) /\ s \o u \in Seq(T)
    BY AmongType, ConcatProperties
  <2>2. Among(s \o u, S) = a \o b
    BY <1>2
  <2>3. Among(Append(s \o u, x), S) = IF x \in S THEN Append(a \o b, x) ELSE a \o b
    BY <2>1, <2>2, AmongAppend
  <2>4. Among(Append(u, x), S) = IF x \in S THEN Append(b, x) ELSE b
    BY AmongAppend
  <2> HIDE DEF a, b
  <2>5. Among(Append(s \o u, x), S) = a \o Among(Append(u, x), S)
    <3>1. Append(a \o b, x) = a \o Append(b, x)
      <4>1. a \in Seq(T) /\ b \in Seq(T)
        BY <2>1
      <4>2. \A y, z \in Seq(T) : y \o Append(z, x) = Append(y \o z, x)
        BY ConcatAppend
      <4> QED
        BY <4>1, <4>2
    <3>2. CASE x \in S
      BY <2>3, <2>4, <3>1, <3>2
    <3>3. CASE x \notin S
      BY <2>3, <2>4, <3>3
    <3> QED
      BY <3>2, <3>3
  <2>6. s \o Append(u, x) = Append(s \o u, x)
    BY ConcatAppend
  <2> QED
    BY <2>5, <2>6, AppendProperties DEF a
<1> HIDE DEF Ps
<1>3. t \in Ps
  BY <1>1, <1>2, SeqInduction
<1> QED
  BY <1>3 DEF Ps

\* All are selected, or none.
LEMMA AmongAll ==
  ASSUME NEW T, NEW S, NEW s \in Seq(T), Range(s) \subseteq S
  PROVE  Among(s, S) = s
<1> DEFINE Ps == {t \in Seq(T) : Range(t) \subseteq S => Among(t, S) = t}
<1>1. <<>> \in Ps
  BY AmongNothing, EmptySeq
<1>2. ASSUME NEW t \in Seq(T), NEW x \in T, t \in Ps
      PROVE  Append(t, x) \in Ps
  <2>1. Range(Append(t, x)) = Range(t) \cup {x}
    BY RangeAppend
  <2> QED
    BY <1>2, <2>1, AmongAppend, AppendProperties
<1> HIDE DEF Ps
<1>3. s \in Ps
  BY <1>1, <1>2, SeqInduction
<1> QED
  BY <1>3 DEF Ps

LEMMA AmongNone ==
  ASSUME NEW T, NEW S, NEW s \in Seq(T), Range(s) \cap S = {}
  PROVE  Among(s, S) = <<>>
<1> DEFINE Ps == {t \in Seq(T) : Range(t) \cap S = {} => Among(t, S) = <<>>}
<1>1. <<>> \in Ps
  BY AmongNothing, EmptySeq
<1>2. ASSUME NEW t \in Seq(T), NEW x \in T, t \in Ps
      PROVE  Append(t, x) \in Ps
  <2>1. Range(Append(t, x)) = Range(t) \cup {x}
    BY RangeAppend
  <2> QED
    BY <1>2, <2>1, AmongAppend, AppendProperties
<1> HIDE DEF Ps
<1>3. s \in Ps
  BY <1>1, <1>2, SeqInduction
<1> QED
  BY <1>3 DEF Ps

\* A sequence after another has every member once, when both have and they share none.
LEMMA InjectiveConcat ==
  ASSUME NEW T, NEW s \in Seq(T), NEW t \in Seq(T)
  PROVE  IsInjective(s \o t) <=> IsInjective(s) /\ IsInjective(t) /\ Range(s) \cap Range(t) = {}
<1> DEFINE Ps == {u \in Seq(T) : IsInjective(s \o u)
                    <=> IsInjective(s) /\ IsInjective(u) /\ Range(s) \cap Range(u) = {}}
<1>1. <<>> \in Ps
  <2>1. IsInjective(<<>>)
    BY DEF IsInjective
  <2> QED
    BY <2>1, RangeEmpty, EmptySeq, ConcatEmptySeq
<1>2. ASSUME NEW u \in Seq(T), NEW x \in T, u \in Ps
      PROVE  Append(u, x) \in Ps
  <2>1. s \o u \in Seq(T) /\ Range(s \o u) = Range(s) \cup Range(u)
    BY ConcatProperties, RangeConcatenation
  <2>2. IsInjective(Append(s \o u, x)) <=> IsInjective(s \o u) /\ x \notin Range(s) \cup Range(u)
    BY <2>1, InjectiveAppend
  <2>3. IsInjective(Append(u, x)) <=> IsInjective(u) /\ x \notin Range(u)
    BY InjectiveAppend
  <2>4. Range(Append(u, x)) = Range(u) \cup {x}
    BY RangeAppend
  <2>5. s \o Append(u, x) = Append(s \o u, x)
    BY ConcatAppend
  <2>6. IsInjective(s \o Append(u, x))
          <=> IsInjective(s) /\ IsInjective(Append(u, x)) /\ Range(s) \cap Range(Append(u, x)) = {}
    BY <1>2, <2>2, <2>3, <2>4, <2>5, Zenon
  <2> QED
    BY <2>6, AppendProperties
<1> HIDE DEF Ps
<1>3. t \in Ps
  BY <1>1, <1>2, SeqInduction
<1> QED
  BY <1>3 DEF Ps
=============================================================================
