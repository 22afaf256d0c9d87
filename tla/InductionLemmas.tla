--------------------------- MODULE InductionLemmas ---------------------------
(***************************************************************************)
(* Induction for the proofs about algorithms.  A schema over a predicate   *)
(* cannot be cited by the provers; a set can stand for the predicate, so   *)
(* induction is stated for sets and rests on the least number of a set.    *)
(***************************************************************************)
EXTENDS Integers, FiniteSets, Sorting, FiniteSetTheorems, WellFoundedInduction, TLAPS

Less == {pair \in Nat \X Nat : pair[1] < pair[2]}

\* A set of naturals that is not empty has a least member.
LEMMA LeastNatural ==
  ASSUME NEW S \in SUBSET Nat, S # {}
  PROVE  \E least \in S : \A n \in S : least <= n
<1>1. IsWellFoundedOn(Less, Nat)
  BY NatLessThanWellFounded DEF OpToRel, Less
<1>2. PICK least \in S : \A n \in S : <<n, least>> \notin Less
  BY <1>1, WFMin
<1>3. ASSUME NEW n \in S
      PROVE  least <= n
  <2>1. <<n, least>> \in Nat \X Nat /\ <<n, least>> \notin Less
    BY <1>2
  <2>2. ~ n < least
    BY <2>1 DEF Less
  <2>3. QED
    BY <2>2
<1>4. QED
  BY <1>3

\* What holds of 0 and passes from each number to the next, up to a bound, holds up to it.
LEMMA InductionUpTo ==
  ASSUME NEW bound \in Nat, NEW S, 0 \in S,
         \A n \in 1..bound : n - 1 \in S => n \in S
  PROVE  0..bound \subseteq S
<1> DEFINE bad == {n \in 0..bound : n \notin S}
<1>1. bad \in SUBSET Nat
  OBVIOUS
<1>2. ASSUME bad # {}
      PROVE  FALSE
  <2>1. PICK least \in bad : \A n \in bad : least <= n
    BY <1>1, <1>2, LeastNatural
  <2>2. least \in 1..bound
    OBVIOUS
  <2>3. least - 1 \in 0..bound /\ least - 1 \notin bad
    BY <2>1, <2>2
  <2>4. QED
    BY <2>1, <2>2, <2>3
<1>3. QED
  BY <1>2

Recursion(f, bound, start, step) ==
  f[0] = start /\ \A n \in 1..bound : f[n] = step[<<f[n - 1], n>>]

\* A function on 0..bound may be defined from its value at 0 by steps that stay in a set.
LEMMA RecursionUpTo ==
  ASSUME NEW bound \in Nat, NEW S, NEW start \in S, NEW step \in [S \X (1..bound) -> S]
  PROVE  \E f \in [0..bound -> S] : Recursion(f, bound, start, step)
<1> DEFINE Steps(f, m) ==
             \A n \in 0..m : f[n] = IF n = 0 THEN start ELSE step[<<f[n - 1], n>>]
           reached == {m \in 0..bound : \E f \in [0..m -> S] : Steps(f, m)}
<1>1. 0 \in reached
  <2> DEFINE f == [n \in 0..0 |-> start]
  <2>1. f \in [0..0 -> S] /\ Steps(f, 0)
    OBVIOUS
  <2> HIDE DEF f
  <2>2. QED
    BY <2>1
<1>2. ASSUME NEW m \in 1..bound, m - 1 \in reached
      PROVE  m \in reached
  <2>1. PICK f \in [0..(m - 1) -> S] : Steps(f, m - 1)
    BY <1>2
  <2> DEFINE g == [n \in 0..m |-> IF n < m THEN f[n] ELSE step[<<f[m - 1], m>>]]
  <2>2. f[m - 1] \in S
    BY <2>1
  <2>3. g \in [0..m -> S]
    BY <2>1, <2>2
  <2>4. \A n \in 0..m : g[n] = IF n = 0 THEN start ELSE step[<<g[n - 1], n>>]
    <3> SUFFICES ASSUME NEW n \in 0..m
                 PROVE  g[n] = IF n = 0 THEN start ELSE step[<<g[n - 1], n>>]
      OBVIOUS
    <3>1. CASE n < m
      <4>1. g[n] = f[n] /\ (n # 0 => g[n - 1] = f[n - 1])
        BY <3>1
      <4>2. f[n] = IF n = 0 THEN start ELSE step[<<f[n - 1], n>>]
        BY <2>1, <3>1
      <4>3. QED
        BY <4>1, <4>2
    <3>2. CASE n = m
      <4>1. g[m] = step[<<f[m - 1], m>>] /\ g[m - 1] = f[m - 1]
        OBVIOUS
      <4>2. QED
        BY <3>2, <4>1
    <3>3. QED
      BY <3>1, <3>2
  <2> HIDE DEF g
  <2>5. QED
    BY <2>3, <2>4
<1>3. 0..bound \subseteq reached
  BY <1>1, <1>2, InductionUpTo
<1>4. PICK f \in [0..bound -> S] : Steps(f, bound)
  BY <1>3
<1>5. \A n \in 0..bound : f[n] = IF n = 0 THEN start ELSE step[<<f[n - 1], n>>]
  BY <1>4, Zenon
<1>6. f[0] = start
  <2>1. 0 \in 0..bound
    OBVIOUS
  <2>2. QED
    BY <1>5, <2>1, Zenon
<1>7. ASSUME NEW n \in 1..bound
      PROVE  f[n] = step[<<f[n - 1], n>>]
  <2>1. n \in 0..bound /\ n # 0
    OBVIOUS
  <2>2. QED
    BY <1>5, <2>1, Zenon
<1> HIDE DEF Steps
<1>8. QED
  BY <1>6, <1>7 DEF Recursion

-----------------------------------------------------------------------------
(* Sorted sequences.  A strict total order is given as the set of its      *)
(* pairs.                                                                  *)

Orders(R, S) ==
  /\ \A x \in S : <<x, x>> \notin R
  /\ \A x, y, z \in S : <<x, y>> \in R /\ <<y, z>> \in R => <<x, z>> \in R
  /\ \A x, y \in S : x = y \/ <<x, y>> \in R \/ <<y, x>> \in R

SortedBy(s, R, S) ==
  /\ s \in [1..Cardinality(S) -> S]
  /\ \A i, k \in 1..Cardinality(S) : i < k => <<s[i], s[k]>> \in R

\* A finite set can be sorted: each member goes where as many as come before it say.
LEMMA SortingExists ==
  ASSUME NEW S, IsFiniteSet(S), NEW R, Orders(R, S)
  PROVE  \E s : SortedBy(s, R, S)
<1> DEFINE n == Cardinality(S)
           before == [x \in S |-> {y \in S : <<y, x>> \in R}]
           place == [x \in S |-> Cardinality(before[x]) + 1]
<1>1. n \in Nat
  BY FS_CardinalityType
<1>2. ASSUME NEW x \in S
      PROVE  /\ IsFiniteSet(before[x])
             /\ Cardinality(before[x]) \in Nat
             /\ Cardinality(before[x]) < n
  <2>1. before[x] \in SUBSET S /\ before[x] # S
    BY DEF Orders
  <2> HIDE DEF before
  <2>2. IsFiniteSet(before[x]) /\ Cardinality(before[x]) <= n /\ Cardinality(before[x]) # n
    BY <2>1, FS_Subset
  <2>3. QED
    BY <1>1, <2>2, FS_CardinalityType
<1>3. ASSUME NEW x \in S, NEW y \in S, <<x, y>> \in R
      PROVE  place[x] < place[y]
  <2>1. before[x] \in SUBSET before[y] /\ before[x] # before[y]
    BY <1>3 DEF Orders
  <2> HIDE DEF before
  <2>2. /\ Cardinality(before[x]) <= Cardinality(before[y])
        /\ Cardinality(before[x]) # Cardinality(before[y])
    BY <1>2, <2>1, FS_Subset
  <2>3. QED
    BY <1>2, <2>2
<1> HIDE DEF before, n
<1>4. place \in [S -> 1..n]
  BY <1>1, <1>2
<1> HIDE DEF place
<1>5. place \in Injection(S, 1..n)
  <2>1. \A x, y \in S : place[x] = place[y] => x = y
    <3> SUFFICES ASSUME NEW x \in S, NEW y \in S, place[x] = place[y], x # y
                 PROVE  FALSE
      OBVIOUS
    <3>1. place[x] < place[y] \/ place[y] < place[x]
      BY <1>3 DEF Orders
    <3>2. place[x] \in Int /\ place[y] \in Int
      BY <1>4
    <3>3. QED
      BY <3>1, <3>2
  <2>2. QED
    BY <1>4, <2>1 DEF Injection, IsInjective
<1>6. place \in Bijection(S, 1..n)
  <2>1. IsFiniteSet(1..n) /\ Cardinality(1..n) = n
    BY <1>1, FS_Interval
  <2>2. place \in Surjection(S, 1..n)
    BY <1>5, <2>1, FS_Injection DEF n
  <2>3. QED
    BY <1>5, <2>2 DEF Bijection
<1> DEFINE s == [i \in 1..n |-> CHOOSE x \in S : place[x] = i]
<1>7. ASSUME NEW i \in 1..n
      PROVE  s[i] \in S /\ place[s[i]] = i
  <2>1. \E x \in S : place[x] = i
    BY <1>6 DEF Bijection, Surjection
  <2>2. QED
    BY <2>1
<1>8. s \in [1..n -> S]
  BY <1>7
<1> HIDE DEF s
<1>9. ASSUME NEW i \in 1..n, NEW k \in 1..n, i < k
      PROVE  <<s[i], s[k]>> \in R
  <2>1. s[i] \in S /\ s[k] \in S /\ place[s[i]] = i /\ place[s[k]] = k
    BY <1>7
  <2>2. s[i] # s[k] /\ ~ <<s[k], s[i]>> \in R
    BY <1>1, <1>3, <1>9, <2>1
  <2>3. QED
    BY <2>1, <2>2 DEF Orders
<1>10. QED
  BY <1>8, <1>9 DEF SortedBy, n

\* A sorted sequence of a set lists each of its members, once.
LEMMA SortingIsComplete ==
  ASSUME NEW S, IsFiniteSet(S), NEW R, Orders(R, S), NEW s, SortedBy(s, R, S)
  PROVE  /\ \A i, k \in 1..Cardinality(S) : s[i] = s[k] => i = k
         /\ \A x \in S : \E i \in 1..Cardinality(S) : s[i] = x
<1> DEFINE n == Cardinality(S)
<1>1. n \in Nat
  BY FS_CardinalityType
<1>2. ASSUME NEW i \in 1..n, NEW k \in 1..n, s[i] = s[k], i # k
      PROVE  FALSE
  <2>1. i < k \/ k < i
    BY <1>1, <1>2
  <2>2. QED
    BY <1>2, <2>1 DEF SortedBy, Orders
<1>3. s \in Injection(1..n, S)
  BY <1>2 DEF SortedBy, Injection, IsInjective
<1>4. s \in Surjection(1..n, S)
  <2>1. Cardinality(1..n) = n
    BY <1>1, FS_Interval
  <2>2. QED
    BY <1>3, <2>1, FS_Injection
<1>5. QED
  BY <1>2, <1>4 DEF Surjection

\* There is one way only to sort a set by a total order.
LEMMA SortingIsUnique ==
  ASSUME NEW S, IsFiniteSet(S), NEW R, Orders(R, S),
         NEW s, SortedBy(s, R, S), NEW t, SortedBy(t, R, S)
  PROVE  s = t
<1> DEFINE n == Cardinality(S)
           apart == {i \in 1..n : s[i] # t[i]}
<1>1. n \in Nat
  BY FS_CardinalityType
<1>2. /\ s \in [1..n -> S] /\ \A i, k \in 1..n : i < k => <<s[i], s[k]>> \in R
      /\ t \in [1..n -> S] /\ \A i, k \in 1..n : i < k => <<t[i], t[k]>> \in R
  BY DEF SortedBy
<1>3. /\ \A x \in S : \E i \in 1..n : s[i] = x
      /\ \A x \in S : \E i \in 1..n : t[i] = x
  BY SortingIsComplete
<1> HIDE DEF n
<1>4. ASSUME apart # {}
      PROVE  FALSE
  <2>1. PICK i \in apart : \A k \in apart : i <= k
    <3>1. apart \in SUBSET Nat
      OBVIOUS
    <3> HIDE DEF apart
    <3>2. QED
      BY <1>4, <3>1, LeastNatural
  <2>2. PICK k \in 1..n : t[k] = s[i]
    BY <1>2, <1>3
  <2>3. PICK j \in 1..n : s[j] = t[i]
    BY <1>2, <1>3
  <2>4. i < k
    <3>1. k < i => s[k] = t[k]
      BY <2>1
    <3>2. k < i => FALSE
      BY <1>2, <2>2, <3>1 DEF Orders
    <3>3. QED
      BY <2>1, <2>2, <3>2
  <2>5. i < j
    <3>1. j < i => s[j] = t[j]
      BY <2>1
    <3>2. j < i => FALSE
      BY <1>2, <2>3, <3>1 DEF Orders
    <3>3. QED
      BY <2>1, <2>3, <3>2
  <2>6. <<t[i], s[i]>> \in R /\ <<s[i], t[i]>> \in R
    BY <1>2, <2>2, <2>3, <2>4, <2>5
  <2>7. QED
    BY <1>2, <2>6 DEF Orders
<1>5. \A i \in 1..n : s[i] = t[i]
  BY <1>4
<1>6. s = [i \in 1..n |-> s[i]] /\ t = [i \in 1..n |-> t[i]]
  BY <1>2
<1>7. [i \in 1..n |-> s[i]] = [i \in 1..n |-> t[i]]
  BY <1>5
<1>8. QED
  BY <1>6, <1>7
=============================================================================
