----------------------------- MODULE SumsProofs -----------------------------
(* What SumTo is for every function and every n, and how it changes. *)
EXTENDS Sums, FiniteSetTheorems, WellFoundedInduction, TLAPS

Less == {ss \in Nat \X Nat : ss[1] < ss[2]}

LEMMA LessWellFounded == IsWellFoundedOn(Less, Nat)
<1>1. OpToRel(<, Nat) = Less
  BY Zenon DEF OpToRel, Less
<1> QED
  BY <1>1, NatLessThanWellFounded, Zenon

(* Induction, for a property given as the set of numbers that have it.     *)
LEMMA SetInduction ==
  ASSUME NEW S \in SUBSET Nat, 0 \in S, \A n \in S : n + 1 \in S
  PROVE  S = Nat
<1> DEFINE T == Nat \ S
<1>1. SUFFICES ASSUME T # {} PROVE FALSE
  OBVIOUS
<1>2. PICK m \in T : \A k \in T : ~ (<<k, m>> \in Less)
  BY <1>1, LessWellFounded, WFMin
<1>3. m \in Nat /\ m # 0 /\ m - 1 \in Nat
  OBVIOUS
<1>4. <<m - 1, m>> \in Less
  BY <1>3 DEF Less
<1>5. m - 1 \notin T
  BY <1>2, <1>4
<1>6. (m - 1) + 1 = m
  BY <1>3
<1> QED
  BY <1>3, <1>5, <1>6

(* The definition of a sum by recursion has a solution.                    *)
Solves(s, a, n) == s = [i \in 0..n |-> IF i = 0 THEN 0 ELSE s[i - 1] + a[i]]

LEMMA SumSolution ==
  ASSUME NEW a, NEW n \in Nat
  PROVE  \E s : Solves(s, a, n)
<1> DEFINE S == {m \in Nat : \E s : Solves(s, a, m)}
<1>1. 0 \in S
  <2>1. Solves([i \in 0..0 |-> 0], a, 0)
    BY DEF Solves
  <2> QED
    BY <2>1
<1>2. ASSUME NEW m \in S PROVE m + 1 \in S
  <2>1. PICK s : Solves(s, a, m)
    OBVIOUS
  <2> DEFINE t == [i \in 0..(m + 1) |-> IF i = m + 1 THEN s[m] + a[m + 1] ELSE s[i]]
  <2>2. m \in Nat /\ DOMAIN s = 0..m
    BY <2>1 DEF Solves
  <2>3. ASSUME NEW i \in 0..(m + 1)
        PROVE  t[i] = IF i = 0 THEN 0 ELSE t[i - 1] + a[i]
    <3>1. CASE i = m + 1
      BY <2>2, <3>1
    <3>2. CASE i # m + 1
      <4>1. i \in 0..m /\ i # m + 1 /\ (i # 0 => i - 1 \in 0..(m + 1) /\ i - 1 # m + 1)
        BY <2>2, <3>2
      <4>2. s[i] = IF i = 0 THEN 0 ELSE s[i - 1] + a[i]
        BY <2>1, <4>1 DEF Solves
      <4> QED
        BY <4>1, <4>2
    <3> QED
      BY <3>1, <3>2
  <2>4. Solves(t, a, m + 1)
    BY <2>3 DEF Solves
  <2> QED
    BY <2>2, <2>4
<1>3. S = Nat
  BY <1>1, <1>2, SetInduction
<1> QED
  BY <1>3

LEMMA SumChosen ==
  ASSUME NEW a, NEW n \in Nat
  PROVE  \E s : Solves(s, a, n) /\ SumTo(a, n) = s[n]
<1> DEFINE s == CHOOSE t : t = [i \in 0..n |-> IF i = 0 THEN 0 ELSE t[i - 1] + a[i]]
<1>1. \E t : t = [i \in 0..n |-> IF i = 0 THEN 0 ELSE t[i - 1] + a[i]]
  BY SumSolution DEF Solves
<1>2. s = [i \in 0..n |-> IF i = 0 THEN 0 ELSE s[i - 1] + a[i]]
  BY <1>1
<1>3. SumTo(a, n) = s[n]
  BY DEF SumTo
<1> HIDE DEF s
<1> QED
  BY <1>2, <1>3 DEF Solves

LEMMA SolutionsAgree ==
  ASSUME NEW a, NEW n \in Nat, NEW m \in Nat, NEW s, NEW t, Solves(s, a, n), Solves(t, a, m),
         NEW i \in Nat, i <= n, i <= m
  PROVE  s[i] = t[i]
<1> DEFINE S == {j \in Nat : (j <= n /\ j <= m) => s[j] = t[j]}
<1>1. 0 \in S
  BY DEF Solves
<1>2. ASSUME NEW j \in S PROVE j + 1 \in S
  <2>1. SUFFICES ASSUME j + 1 <= n, j + 1 <= m PROVE s[j + 1] = t[j + 1]
    OBVIOUS
  <2>2. j \in Nat /\ j + 1 \in 0..n /\ j + 1 \in 0..m /\ j + 1 # 0 /\ (j + 1) - 1 = j
    BY <2>1
  <2>3. s[j + 1] = s[j] + a[j + 1] /\ t[j + 1] = t[j] + a[j + 1]
    BY <2>2 DEF Solves
  <2>4. s[j] = t[j]
    BY <2>1, <2>2
  <2> QED
    BY <2>3, <2>4
<1>3. S = Nat
  BY <1>1, <1>2, SetInduction
<1> QED
  BY <1>3

(* The sum, term by term.                                                  *)
THEOREM SumStep ==
  ASSUME NEW a
  PROVE  /\ SumTo(a, 0) = 0
         /\ \A n \in Nat : SumTo(a, n + 1) = SumTo(a, n) + a[n + 1]
<1>1. SumTo(a, 0) = 0
  BY SumChosen DEF Solves
<1>2. ASSUME NEW n \in Nat PROVE SumTo(a, n + 1) = SumTo(a, n) + a[n + 1]
  <2>1. PICK s : Solves(s, a, n) /\ SumTo(a, n) = s[n]
    BY SumChosen
  <2>2. n + 1 \in Nat
    OBVIOUS
  <2>3. PICK t : Solves(t, a, n + 1) /\ SumTo(a, n + 1) = t[n + 1]
    BY <2>2, SumChosen
  <2>4. s[n] = t[n]
    BY <2>1, <2>2, <2>3, SolutionsAgree
  <2>5. t[n + 1] = t[n] + a[n + 1]
    BY <2>3 DEF Solves
  <2> QED
    BY <2>1, <2>3, <2>4, <2>5
<1> QED
  BY <1>1, <1>2

THEOREM SumNat ==
  ASSUME NEW a, NEW n \in Nat, \A i \in 1..n : a[i] \in Nat
  PROVE  SumTo(a, n) \in Nat
<1> DEFINE S == {m \in Nat : m <= n => SumTo(a, m) \in Nat}
<1>1. 0 \in S
  BY SumStep
<1>2. ASSUME NEW m \in S PROVE m + 1 \in S
  <2>1. SUFFICES ASSUME m + 1 <= n PROVE SumTo(a, m + 1) \in Nat
    OBVIOUS
  <2>2. m \in Nat /\ SumTo(a, m) \in Nat /\ a[m + 1] \in Nat
    BY <2>1
  <2> QED
    BY <2>2, SumStep
<1>3. S = Nat
  BY <1>1, <1>2, SetInduction
<1> QED
  BY <1>3

(* Sums of integers.                                                       *)
THEOREM SumInt ==
  ASSUME NEW a, NEW n \in Nat, \A i \in 1..n : a[i] \in Int
  PROVE  SumTo(a, n) \in Int
<1> DEFINE S == {m \in Nat : m <= n => SumTo(a, m) \in Int}
<1>1. 0 \in S
  BY SumStep
<1>2. ASSUME NEW m \in S PROVE m + 1 \in S
  <2>1. SUFFICES ASSUME m + 1 <= n PROVE SumTo(a, m + 1) \in Int
    OBVIOUS
  <2>2. m \in Nat /\ SumTo(a, m) \in Int /\ a[m + 1] \in Int
    BY <2>1
  <2> QED
    BY <2>2, SumStep
<1>3. S = Nat
  BY <1>1, <1>2, SetInduction
<1> QED
  BY <1>3

(* A sum of smaller terms is smaller.                                      *)
THEOREM SumMonotone ==
  ASSUME NEW a, NEW b, NEW n \in Nat,
         \A i \in 1..n : a[i] \in Int /\ b[i] \in Int /\ a[i] <= b[i]
  PROVE  SumTo(a, n) <= SumTo(b, n)
<1> DEFINE S == {m \in Nat : m <= n => SumTo(a, m) <= SumTo(b, m)}
<1>1. 0 \in S
  BY SumStep
<1>2. ASSUME NEW m \in S PROVE m + 1 \in S
  <2>1. SUFFICES ASSUME m + 1 <= n PROVE SumTo(a, m + 1) <= SumTo(b, m + 1)
    OBVIOUS
  <2>2. /\ m \in Nat /\ SumTo(a, m) <= SumTo(b, m)
        /\ a[m + 1] \in Int /\ b[m + 1] \in Int /\ a[m + 1] <= b[m + 1]
    BY <2>1
  <2>3. SumTo(a, m) \in Int /\ SumTo(b, m) \in Int
    BY <2>1, <2>2, SumInt
  <2> QED
    BY <2>2, <2>3, SumStep
<1>3. S = Nat
  BY <1>1, <1>2, SetInduction
<1> QED
  BY <1>3

(* Replacing one term.                                                     *)
THEOREM SumReplace ==
  ASSUME NEW a, NEW b, NEW n \in Nat, NEW k \in 1..n,
         \A i \in 1..n : a[i] \in Int /\ b[i] \in Int /\ (i # k => a[i] = b[i])
  PROVE  SumTo(b, n) + a[k] = SumTo(a, n) + b[k]
<1> DEFINE S == {m \in Nat : m <= n =>
                   /\ m < k => SumTo(b, m) = SumTo(a, m)
                   /\ m >= k => SumTo(b, m) + a[k] = SumTo(a, m) + b[k]}
<1>1. 0 \in S
  BY SumStep
<1>2. ASSUME NEW m \in S PROVE m + 1 \in S
  <2>1. SUFFICES ASSUME m + 1 <= n
                 PROVE /\ m + 1 < k => SumTo(b, m + 1) = SumTo(a, m + 1)
                       /\ m + 1 >= k => SumTo(b, m + 1) + a[k] = SumTo(a, m + 1) + b[k]
    OBVIOUS
  <2>2. /\ m \in Nat /\ m + 1 \in 1..n /\ m <= n
        /\ m < k => SumTo(b, m) = SumTo(a, m)
        /\ m >= k => SumTo(b, m) + a[k] = SumTo(a, m) + b[k]
    BY <2>1
  <2>3. /\ a[m + 1] \in Int /\ b[m + 1] \in Int /\ (m + 1 # k => a[m + 1] = b[m + 1])
        /\ a[k] \in Int /\ b[k] \in Int
    BY <2>2
  <2>4. SumTo(a, m) \in Int /\ SumTo(b, m) \in Int
    <3>1. \A i \in 1..m : i \in 1..n
      BY <2>2
    <3> QED
      BY <2>2, <3>1, SumInt
  <2>5. /\ SumTo(a, m + 1) = SumTo(a, m) + a[m + 1]
        /\ SumTo(b, m + 1) = SumTo(b, m) + b[m + 1]
    BY <2>2, SumStep
  <2> QED
    BY <2>2, <2>3, <2>4, <2>5
<1>3. S = Nat
  BY <1>1, <1>2, SetInduction
<1> QED
  BY <1>3
(* A sum of nothing.                                                       *)
THEOREM SumZero ==
  ASSUME NEW a, NEW n \in Nat, \A i \in 1..n : a[i] = 0
  PROVE  SumTo(a, n) = 0
<1> DEFINE S == {m \in Nat : m <= n => SumTo(a, m) = 0}
<1>1. 0 \in S
  BY SumStep
<1>2. ASSUME NEW m \in S PROVE m + 1 \in S
  <2>1. SUFFICES ASSUME m + 1 <= n PROVE SumTo(a, m + 1) = 0
    OBVIOUS
  <2>2. m \in Nat /\ SumTo(a, m) = 0 /\ a[m + 1] = 0
    BY <2>1
  <2> QED
    BY <2>2, SumStep
<1>3. S = Nat
  BY <1>1, <1>2, SetInduction
<1> QED
  BY <1>3

(* Only the terms up to n count.                                           *)
THEOREM SumSame ==
  ASSUME NEW a, NEW b, NEW n \in Nat, \A i \in 1..n : a[i] = b[i]
  PROVE  SumTo(a, n) = SumTo(b, n)
<1> DEFINE S == {m \in Nat : m <= n => SumTo(a, m) = SumTo(b, m)}
<1>1. 0 \in S
  BY SumStep
<1>2. ASSUME NEW m \in S PROVE m + 1 \in S
  <2>1. SUFFICES ASSUME m + 1 <= n PROVE SumTo(a, m + 1) = SumTo(b, m + 1)
    OBVIOUS
  <2>2. m \in Nat /\ SumTo(a, m) = SumTo(b, m) /\ a[m + 1] = b[m + 1]
    BY <2>1
  <2> QED
    BY <2>2, SumStep
<1>3. S = Nat
  BY <1>1, <1>2, SetInduction
<1> QED
  BY <1>3

(* A sum with one term larger, and none smaller, is larger.                *)
THEOREM SumStrict ==
  ASSUME NEW a, NEW b, NEW n \in Nat, NEW k \in 1..n, a[k] < b[k],
         \A i \in 1..n : a[i] \in Int /\ b[i] \in Int /\ a[i] <= b[i]
  PROVE  SumTo(a, n) < SumTo(b, n)
<1> DEFINE c == [i \in 1..n |-> IF i = k THEN b[k] ELSE a[i]]
<1>1. \A i \in 1..n : c[i] \in Int /\ c[i] <= b[i] /\ (i # k => c[i] = a[i])
  OBVIOUS
<1>2. c[k] = b[k]
  OBVIOUS
<1> HIDE DEF c
<1>3. SumTo(c, n) + a[k] = SumTo(a, n) + c[k]
  BY <1>1, SumReplace
<1>4. SumTo(c, n) <= SumTo(b, n)
  BY <1>1, SumMonotone
<1>5. SumTo(a, n) \in Int /\ SumTo(b, n) \in Int /\ SumTo(c, n) \in Int
  BY <1>1, SumInt
<1> QED
  BY <1>2, <1>3, <1>4, <1>5

(* A set of numbers has a least element.                                   *)
LEMMA LeastIn ==
  ASSUME NEW T \in SUBSET Nat, T # {}
  PROVE  \E m \in T : \A k \in T : m <= k
<1>1. PICK m \in T : \A k \in T : ~ (<<k, m>> \in Less)
  BY LessWellFounded, WFMin
<1>2. \A k \in T : ~ (k < m)
  BY <1>1 DEF Less
<1>3. \A k \in T : m <= k
  BY <1>2
<1> QED BY <1>3

(* The listing of a finite set lists all of it.                            *)
LEMMA ListedAll ==
  ASSUME NEW S, IsFiniteSet(S)
  PROVE  /\ Cardinality(S) \in Nat
         /\ Listed(S) \in [1..Cardinality(S) -> S]
         /\ {Listed(S)[i] : i \in 1..Cardinality(S)} = S
<1>1. Cardinality(S) \in Nat BY FS_CardinalityType
<1>2. PICK e : e \in Bijection(1..Cardinality(S), S)
  BY FS_CardinalityType DEF ExistsBijection
<1>3. e \in [1..Cardinality(S) -> S] /\ {e[i] : i \in 1..Cardinality(S)} = S
  BY <1>2 DEF Bijection, Injection, Surjection
<1> DEFINE Lists(l) == {l[i] : i \in 1..Cardinality(S)} = S
<1>4. \E l \in [1..Cardinality(S) -> S] : Lists(l) BY <1>3
<1>5. Listed(S) = CHOOSE l \in [1..Cardinality(S) -> S] : Lists(l) BY DEF Listed
<1> HIDE DEF Lists
<1>6. Listed(S) \in [1..Cardinality(S) -> S] /\ Lists(Listed(S)) BY <1>4, <1>5, Zenon
<1> QED BY <1>1, <1>6 DEF Lists

(* A sum of equal terms.                                                   *)
LEMMA SumConstant ==
  ASSUME NEW c \in Int, NEW n \in Nat, NEW a, \A i \in 1..n : a[i] = c
  PROVE  SumTo(a, n) = n * c
<1> DEFINE S == {m \in Nat : m <= n => SumTo(a, m) = m * c}
<1>1. 0 \in S
  BY SumStep
<1>2. ASSUME NEW m \in S PROVE m + 1 \in S
  <2>1. SUFFICES ASSUME m + 1 <= n PROVE SumTo(a, m + 1) = (m + 1) * c
    OBVIOUS
  <2>2. m \in Nat /\ SumTo(a, m) = m * c /\ a[m + 1] = c
    BY <2>1
  <2>3. SumTo(a, m + 1) = m * c + c
    BY <2>2, SumStep
  <2>4. (m + 1) * c = m * c + c
    BY <2>2
  <2> QED
    BY <2>3, <2>4
<1>3. S = Nat
  BY <1>1, <1>2, SetInduction
<1> QED
  BY <1>3

LEMMA Quotient ==
  ASSUME NEW a \in Int, NEW b \in Nat \ {0}
  PROVE  a \div b \in Int /\ b * (a \div b) <= a /\ a < b * (a \div b) + b
  OBVIOUS

(* The mean over a finite set lies between two of the values.              *)
LEMMA MeanBetween ==
  ASSUME NEW S, IsFiniteSet(S), S # {}, NEW v \in [S -> Int]
  PROVE  LET mean == SumOver(v, S) \div Cardinality(S)
         IN  mean \in Int /\ \E p, q \in S : v[p] <= mean /\ mean <= v[q]
<1> DEFINE n == Cardinality(S)
           e == Listed(S)
           w == [i \in 1..n |-> v[e[i]]]
           s == SumTo(w, n)
           m == s \div n
<1>1. n \in Nat \ {0} BY FS_CardinalityType, FS_EmptySet
<1>2. e \in [1..n -> S] BY ListedAll
<1> HIDE DEF n, e
<1>3. \A i \in 1..n : w[i] \in Int /\ e[i] \in S /\ w[i] = v[e[i]] BY <1>2
<1> HIDE DEF w
<1>4. s \in Int BY <1>1, <1>3, SumInt
<1> HIDE DEF s
<1>5. m \in Int /\ n * m <= s /\ s < n * m + n BY <1>1, <1>4, Quotient
<1> HIDE DEF m
<1>6. \E p \in S : v[p] <= m
  <2> SUFFICES ASSUME \A p \in S : ~(v[p] <= m) PROVE FALSE OBVIOUS
  <2> DEFINE c == [i \in 1..n |-> m + 1]
  <2>1. \A i \in 1..n : c[i] \in Int /\ c[i] = m + 1 /\ c[i] <= w[i] BY <1>3, <1>5
  <2> HIDE DEF c
  <2>2. SumTo(c, n) <= s BY <1>1, <1>3, <2>1, SumMonotone DEF s
  <2>3. SumTo(c, n) = n * (m + 1) BY <1>1, <1>5, <2>1, SumConstant
  <2>4. n * (m + 1) = n * m + n BY <1>1, <1>5
  <2>5. n * m \in Int BY <1>1, <1>5
  <2> QED BY <1>1, <1>4, <1>5, <2>2, <2>3, <2>4, <2>5
<1>7. \E q \in S : m <= v[q]
  <2> SUFFICES ASSUME \A q \in S : ~(m <= v[q]) PROVE FALSE OBVIOUS
  <2> DEFINE c == [i \in 1..n |-> m - 1]
  <2>1. \A i \in 1..n : c[i] \in Int /\ c[i] = m - 1 /\ w[i] <= c[i] BY <1>3, <1>5
  <2> HIDE DEF c
  <2>2. s <= SumTo(c, n) BY <1>1, <1>3, <2>1, SumMonotone DEF s
  <2>3. SumTo(c, n) = n * (m - 1) BY <1>1, <1>5, <2>1, SumConstant
  <2>4. n * (m - 1) = n * m - n BY <1>1, <1>5
  <2>5. n * m \in Int BY <1>1, <1>5
  <2> QED BY <1>1, <1>4, <1>5, <2>2, <2>3, <2>4, <2>5
<1>8. SumOver(v, S) \div Cardinality(S) = m
  BY DEF SumOver, m, s, n, w, e
<1> QED BY <1>5, <1>6, <1>7, <1>8

(* One of finitely many integers is the greatest.                          *)
LEMMA GreatestOf ==
  ASSUME NEW n \in Nat, NEW f \in [1..n -> Int]
  PROVE  n = 0 \/ \E i \in 1..n : \A k \in 1..n : f[k] <= f[i]
<1> DEFINE N == {m \in Nat : m <= n => m = 0 \/ \E i \in 1..m : \A k \in 1..m : f[k] <= f[i]}
<1>1. 0 \in N OBVIOUS
<1>2. ASSUME NEW m \in N PROVE m + 1 \in N
  <2> SUFFICES ASSUME m + 1 <= n
               PROVE  \E i \in 1..(m + 1) : \A k \in 1..(m + 1) : f[k] <= f[i]
    OBVIOUS
  <2>1. m = 0 \/ \E i \in 1..m : \A k \in 1..m : f[k] <= f[i] OBVIOUS
  <2>2. CASE m = 0 BY <2>2
  <2>3. CASE m # 0
    <3>1. PICK i \in 1..m : \A k \in 1..m : f[k] <= f[i] BY <2>1, <2>3
    <3>2. \A k \in 1..(m + 1) : k \in 1..m \/ k = m + 1 OBVIOUS
    <3>3. f[i] \in Int /\ f[m + 1] \in Int /\ \A k \in 1..m : f[k] \in Int BY <3>1
    <3>4. i \in 1..(m + 1) /\ m + 1 \in 1..(m + 1) OBVIOUS
    <3>5. CASE f[m + 1] <= f[i] BY <3>1, <3>2, <3>4, <3>5
    <3>6. CASE f[i] <= f[m + 1]
      <4>1. \A k \in 1..m : f[k] <= f[m + 1] BY <3>1, <3>3, <3>6
      <4>2. \A k \in 1..(m + 1) : f[k] <= f[m + 1] BY <3>2, <3>3, <4>1
      <4> QED BY <3>4, <4>2
    <3> QED BY <3>3, <3>5, <3>6
  <2> QED BY <2>2, <2>3
<1>3. N = Nat
  <2>1. N \in SUBSET Nat OBVIOUS
  <2> HIDE DEF N
  <2> QED BY <1>1, <1>2, <2>1, SetInduction
<1>4. n \in N BY <1>3
<1> QED BY <1>4
=============================================================================
