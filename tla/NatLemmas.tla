----------------------------- MODULE NatLemmas -----------------------------
(***************************************************************************)
(* Facts about numbers and about sorting that several proofs use.          *)
(***************************************************************************)
EXTENDS Integers, FiniteSetTheorems, WellFoundedInduction, TLAPS

\* A set of numbers that is not empty has a least one: the first block, the
\* first database, the first row with some property.
LEMMA LeastNat ==
    ASSUME NEW S \in SUBSET Nat, S # {}
    PROVE  \E n \in S : \A m \in S : n <= m
<1> DEFINE Less == {p \in Nat \X Nat : p[1] < p[2]}
<1>1. IsWellFoundedOn(Less, Nat)
  BY NatLessThanWellFounded DEF OpToRel
<1> HIDE DEF Less
<1>2. PICK n \in S : \A m \in S : ~(<<m, n>> \in Less)
  BY <1>1, WFMin
<1>3. ASSUME NEW m \in S PROVE n <= m
  <2>1. ~(<<m, n>> \in Less)
    BY <1>2
  <2>2. m \in Nat /\ n \in Nat
    OBVIOUS
  <2>3. m < n => <<m, n>> \in Less
    BY <2>2 DEF Less
  <2> QED
    BY <2>1, <2>2, <2>3
<1> QED
  BY <1>3

\* What holds at the first number of an interval, and is handed on from each one
\* to the next, holds in all of it: a fact about one block becomes one about all.
LEMMA IntervalInduction ==
    ASSUME NEW a \in Nat, NEW z \in Nat, NEW S, a \in S,
           \A n \in a..z : n \in S /\ n < z => n + 1 \in S
    PROVE  \A n \in a..z : n \in S
<1> DEFINE T == {n \in a..z : n \notin S}
<1> SUFFICES ASSUME T # {} PROVE FALSE
  OBVIOUS
<1>1. T \in SUBSET Nat
  OBVIOUS
<1>2. PICK n \in T : \A m \in T : n <= m
  <2> HIDE DEF T
  <2> QED
    BY <1>1, LeastNat
<1>3. n # a /\ n - 1 \in a..z /\ n - 1 < z
  OBVIOUS
<1>4. n - 1 \in S
  BY <1>2, <1>3
<1> QED
  BY <1>2, <1>3, <1>4

-----------------------------------------------------------------------------
(* Sorting.  An order is the set of the pairs it puts in this order.       *)

StrictOrder(S, R) ==
    /\ \A x \in S : <<x, x>> \notin R
    /\ \A x, y \in S : x = y \/ <<x, y>> \in R \/ <<y, x>> \in R
    /\ \A x, y, z \in S : <<x, y>> \in R /\ <<y, z>> \in R => <<x, z>> \in R

\* f lists S from 1 to n as the order says.
Lists(f, n, S, R) ==
    /\ f \in [1..n -> S]
    /\ \A x \in S : \E i \in 1..n : f[i] = x
    /\ \A i, j \in 1..n : i < j => <<f[i], f[j]>> \in R

\* An order of part of the set is an order.
LEMMA OrderOfPart ==
    ASSUME NEW S, NEW R, StrictOrder(S, R), NEW Q \in SUBSET S
    PROVE  StrictOrder(Q, R)
BY DEF StrictOrder

\* What is after all of a list makes the list one longer.
LEMMA OneMoreListed ==
    ASSUME NEW Q, NEW R, NEW n \in Nat, NEW x \in Q, NEW f, Lists(f, n, Q \ {x}, R),
           \A y \in Q \ {x} : <<y, x>> \in R
    PROVE  Lists([i \in 1 .. n + 1 |-> IF i = n + 1 THEN x ELSE f[i]], n + 1, Q, R)
<1> DEFINE g == [i \in 1 .. n + 1 |-> IF i = n + 1 THEN x ELSE f[i]]
<1>1. \A i \in 1 .. n + 1 : i # n + 1 => i \in 1..n
  OBVIOUS
<1>2. \A i \in 1..n : f[i] \in Q \ {x}
  BY DEF Lists
<1>3. \A i \in 1 .. n + 1 : g[i] = IF i = n + 1 THEN x ELSE f[i]
  OBVIOUS
<1>4. g \in [1 .. n + 1 -> Q]
  BY <1>1, <1>2
<1> HIDE DEF g
<1>5. \A y \in Q : \E i \in 1 .. n + 1 : g[i] = y
  <2> SUFFICES ASSUME NEW y \in Q PROVE \E i \in 1 .. n + 1 : g[i] = y
    OBVIOUS
  <2>1. CASE y = x
    BY <1>3, <2>1
  <2>2. CASE y # x
    <3>1. PICK i \in 1..n : f[i] = y
      BY <2>2 DEF Lists
    <3>2. i \in 1 .. n + 1 /\ i # n + 1
      BY <3>1
    <3> QED
      BY <1>3, <3>1, <3>2
  <2> QED
    BY <2>1, <2>2
<1>6. ASSUME NEW i \in 1 .. n + 1, NEW j \in 1 .. n + 1, i < j PROVE <<g[i], g[j]>> \in R
  <2>1. i \in 1..n /\ g[i] = f[i] /\ f[i] \in Q \ {x}
    BY <1>2, <1>3, <1>6
  <2>2. CASE j = n + 1
    <3>1. g[j] = x
      BY <1>3, <2>2
    <3> QED
      BY <2>1, <3>1
  <2>3. CASE j # n + 1
    <3>1. j \in 1..n /\ g[j] = f[j]
      BY <1>1, <1>3, <2>3
    <3>2. <<f[i], f[j]>> \in R
      BY <1>6, <2>1, <3>1 DEF Lists
    <3> QED
      BY <2>1, <3>1, <3>2
  <2> QED
    BY <2>2, <2>3
<1>7. Lists(g, n + 1, Q, R)
  BY <1>4, <1>5, <1>6 DEF Lists
<1> QED
  BY <1>7 DEF g

\* Every finite set can be listed in order: sorting always has a result.
LEMMA SomeList ==
    ASSUME NEW S, IsFiniteSet(S), NEW R, StrictOrder(S, R)
    PROVE  \E f : Lists(f, Cardinality(S), S, R)
<1> DEFINE N == Cardinality(S)
           Listed(n) == \A Q \in SUBSET S : Cardinality(Q) = n => \E f : Lists(f, n, Q, R)
           T == {n \in 0..N : Listed(n)}
<1>1. N \in Nat
  BY FS_CardinalityType
<1>2. \A Q \in SUBSET S : IsFiniteSet(Q) /\ Cardinality(Q) \in Nat
  BY FS_Subset, FS_CardinalityType
<1>3. Listed(0)
  <2> SUFFICES ASSUME NEW Q \in SUBSET S, Cardinality(Q) = 0 PROVE \E f : Lists(f, 0, Q, R)
    OBVIOUS
  <2>1. Q = {}
    BY <1>2, FS_EmptySet
  <2>2. Lists([i \in 1..0 |-> i], 0, Q, R)
    BY <2>1 DEF Lists
  <2> QED
    BY <2>2
<1>4. ASSUME NEW n \in 0..N, Listed(n) PROVE Listed(n + 1)
  <2> SUFFICES ASSUME NEW Q \in SUBSET S, Cardinality(Q) = n + 1
               PROVE  \E f : Lists(f, n + 1, Q, R)
    OBVIOUS
  <2>1. n \in Nat
    BY <1>1
  <2>2. \A x \in Q : Cardinality(Q \ {x}) = n
    <3>1. \A x \in Q : Cardinality(Q \ {x}) = Cardinality(Q) - 1
      BY <1>2, FS_RemoveElement
    <3> QED
      BY <2>1, <3>1
  <2>3. \A x \in Q : \E f : Lists(f, n, Q \ {x}, R)
    <3> SUFFICES ASSUME NEW x \in Q PROVE \E f : Lists(f, n, Q \ {x}, R)
      OBVIOUS
    <3>1. Q \ {x} \in SUBSET S
      OBVIOUS
    <3> QED
      BY <1>4, <2>2, <3>1
  <2>4. StrictOrder(Q, R)
    BY OrderOfPart
  <2>5. \E x \in Q : \A y \in Q \ {x} : <<y, x>> \in R
    <3>1. PICK q : q \in Q
      <4>1. Q # {}
        BY <2>1, FS_EmptySet
      <4> QED
        BY <4>1
    <3>2. PICK f : Lists(f, n, Q \ {q}, R)
      BY <2>3, <3>1
    <3>3. CASE n = 0
      <4>1. Q \ {q} = {}
        BY <3>2, <3>3 DEF Lists
      <4> QED
        BY <3>1, <4>1
    <3>4. CASE n # 0
      <4>1. n \in 1..n /\ f[n] \in Q \ {q}
        BY <2>1, <3>2, <3>4 DEF Lists
      <4>2. \A y \in Q \ {q} : y = f[n] \/ <<y, f[n]>> \in R
        <5> SUFFICES ASSUME NEW y \in Q \ {q} PROVE y = f[n] \/ <<y, f[n]>> \in R
          OBVIOUS
        <5>1. PICK i \in 1..n : f[i] = y
          BY <3>2 DEF Lists
        <5>2. i = n \/ i < n
          BY <2>1
        <5> QED
          BY <3>2, <4>1, <5>1, <5>2 DEF Lists
      <4>3. CASE <<f[n], q>> \in R
        <5>1. ASSUME NEW y \in Q \ {q} PROVE <<y, q>> \in R
          BY <2>4, <3>1, <4>1, <4>2, <4>3 DEF StrictOrder
        <5> QED
          BY <3>1, <5>1
      <4>4. CASE <<q, f[n]>> \in R
        <5>1. ASSUME NEW y \in Q \ {f[n]} PROVE <<y, f[n]>> \in R
          BY <4>2, <4>4
        <5> QED
          BY <4>1, <5>1
      <4> QED
        BY <2>4, <3>1, <4>1, <4>3, <4>4 DEF StrictOrder
    <3> QED
      BY <3>3, <3>4
  <2>6. PICK x \in Q : \A y \in Q \ {x} : <<y, x>> \in R
    BY <2>5
  <2>7. PICK f : Lists(f, n, Q \ {x}, R)
    BY <2>3
  <2> QED
    BY <2>1, <2>6, <2>7, OneMoreListed
<1> HIDE DEF Listed
<1>5. \A n \in 0..N : n \in T
  <2>1. 0 \in T
    BY <1>1, <1>3
  <2>2. \A n \in 0..N : n \in T /\ n < N => n + 1 \in T
    <3> SUFFICES ASSUME NEW n \in 0..N, n \in T, n < N PROVE n + 1 \in T
      OBVIOUS
    <3>1. n + 1 \in 0..N /\ Listed(n)
      BY <1>1
    <3> QED
      BY <1>4, <3>1
  <2> HIDE DEF T, N
  <2> QED
    BY <1>1, <2>1, <2>2, IntervalInduction
<1>6. Listed(N)
  BY <1>1, <1>5
<1> QED
  BY <1>6 DEF Listed

\* There is only one way to list a set in order.
LEMMA OneList ==
    ASSUME NEW S, NEW R, StrictOrder(S, R), NEW n \in Nat,
           NEW f, Lists(f, n, S, R), NEW g, Lists(g, n, S, R)
    PROVE  f = g
<1> DEFINE T == {i \in 0..n : \A k \in 1..i : f[k] = g[k]}
<1>1. 0 \in T
  OBVIOUS
<1>2. ASSUME NEW i \in 0..n, i \in T, i < n PROVE i + 1 \in T
  <2> DEFINE m == i + 1
  <2>1. m \in 1..n /\ \A k \in 1..n : k < m => k \in 1..i
    BY <1>2
  <2>2. \A k \in 1..n : k < m => f[k] = g[k]
    BY <1>2, <2>1
  <2> HIDE DEF m
  <2>3. f[m] = g[m]
    <3> SUFFICES ASSUME f[m] # g[m] PROVE FALSE
      OBVIOUS
    <3>1. PICK j \in 1..n : f[j] = g[m]
      BY <2>1 DEF Lists
    <3>2. PICK k \in 1..n : g[k] = f[m]
      BY <2>1 DEF Lists
    <3>3. f[m] \in S /\ g[m] \in S
      BY <2>1 DEF Lists
    <3>4. ~(j < m)
      <4> SUFFICES ASSUME j < m PROVE FALSE
        OBVIOUS
      <4>1. g[j] = g[m] /\ <<g[j], g[m]>> \in R
        BY <2>1, <2>2, <3>1 DEF Lists
      <4> QED
        BY <3>3, <4>1 DEF StrictOrder
    <3>5. ~(k < m)
      <4> SUFFICES ASSUME k < m PROVE FALSE
        OBVIOUS
      <4>1. f[k] = f[m] /\ <<f[k], f[m]>> \in R
        BY <2>1, <2>2, <3>2 DEF Lists
      <4> QED
        BY <3>3, <4>1 DEF StrictOrder
    <3>6. m < j /\ m < k
      <4>1. j # m /\ k # m
        BY <3>1, <3>2
      <4> QED
        BY <2>1, <3>4, <3>5, <4>1
    <3>7. <<f[m], g[m]>> \in R /\ <<g[m], f[m]>> \in R
      BY <2>1, <3>1, <3>2, <3>6 DEF Lists
    <3> QED
      BY <3>3, <3>7 DEF StrictOrder
  <2>4. \A k \in 1..m : k \in 1..n /\ (k = m \/ k < m)
    BY <2>1
  <2>5. \A k \in 1..m : f[k] = g[k]
    BY <2>2, <2>3, <2>4
  <2> QED
    BY <1>2, <2>5 DEF m
<1> HIDE DEF T
<1>3. \A i \in 0..n : i \in T
  BY <1>1, <1>2, IntervalInduction
<1>4. \A k \in 1..n : f[k] = g[k]
  BY <1>3 DEF T
<1> QED
  BY <1>4 DEF Lists

\* The ways to list each element of a finite set once, in any order.
Listings(S) ==
    {f \in [1..Cardinality(S) -> S] : \A i, j \in 1..Cardinality(S) : i # j => f[i] # f[j]}

\* One of them is in order, and such a one lists all of the set.
LEMMA SortedListing ==
    ASSUME NEW S, IsFiniteSet(S), NEW R, StrictOrder(S, R), NEW n \in Nat, n = Cardinality(S)
    PROVE  /\ \E s \in Listings(S) : \A i, j \in 1..n : i < j => <<s[i], s[j]>> \in R
           /\ \A s \in Listings(S) :
                 (\A i, j \in 1..n : i < j => <<s[i], s[j]>> \in R) => Lists(s, n, S, R)
<1>1. PICK f : Lists(f, n, S, R)
  BY SomeList
<1>2. f \in Listings(S)
  <2>1. f \in [1..n -> S]
    BY <1>1 DEF Lists
  <2>2. \A i, j \in 1..n : i # j => f[i] # f[j]
    <3> SUFFICES ASSUME NEW i \in 1..n, NEW j \in 1..n, i # j PROVE f[i] # f[j]
      OBVIOUS
    <3>1. i < j \/ j < i
      OBVIOUS
    <3>2. <<f[i], f[j]>> \in R \/ <<f[j], f[i]>> \in R
      BY <1>1, <3>1 DEF Lists
    <3> QED
      BY <2>1, <3>2 DEF StrictOrder
  <2> QED
    BY <2>1, <2>2 DEF Listings
<1>3. \A i, j \in 1..n : i < j => <<f[i], f[j]>> \in R
  BY <1>1 DEF Lists
<1>4. ASSUME NEW s \in Listings(S), \A i, j \in 1..n : i < j => <<s[i], s[j]>> \in R
      PROVE  Lists(s, n, S, R)
  <2>1. s \in [1..n -> S] /\ \A i, j \in 1..n : i # j => s[i] # s[j]
    BY DEF Listings
  <2>2. s \in Injection(1..n, S)
    BY <2>1 DEF Injection, IsInjective
  <2>3. IsFiniteSet(1..n) /\ Cardinality(1..n) = n
    BY FS_Interval
  <2>4. s \in Surjection(1..n, S)
    BY <2>2, <2>3, FS_Injection
  <2> QED
    BY <1>4, <2>1, <2>4 DEF Lists, Surjection
<1> QED
  BY <1>2, <1>3, <1>4

\* The same elements under other names and in the opposite order.
Opposite(S, R, T, Q, h) ==
    /\ StrictOrder(T, Q)
    /\ h \in [S -> T] /\ \A y \in T : \E x \in S : h[x] = y
    /\ \A x, y \in S : <<x, y>> \in R => <<h[y], h[x]>> \in Q

\* The one list is the other one read from its end.
LEMMA OppositeLists ==
    ASSUME NEW S, NEW R, NEW T, NEW Q, NEW h, Opposite(S, R, T, Q, h),
           NEW n \in Nat, NEW s, Lists(s, n, S, R), NEW t, Lists(t, n, T, Q)
    PROVE  \A i \in 1..n : t[n - i + 1] = h[s[i]]
<1> DEFINE f == [i \in 1..n |-> h[s[n - i + 1]]]
<1>1. \A i \in 1..n : n - i + 1 \in 1..n /\ n - (n - i + 1) + 1 = i
  OBVIOUS
<1>2. /\ s \in [1..n -> S] /\ \A x \in S : \E i \in 1..n : s[i] = x
      /\ \A i, j \in 1..n : i < j => <<s[i], s[j]>> \in R
  BY DEF Lists
<1>3. \A i \in 1..n : f[i] = h[s[n - i + 1]] /\ f[i] \in T /\ s[i] \in S
  BY <1>1, <1>2 DEF Opposite
<1>4. f \in [1..n -> T]
  BY <1>3
<1> HIDE DEF f
<1>5. ASSUME NEW y \in T PROVE \E i \in 1..n : f[i] = y
  <2>1. PICK x \in S : h[x] = y
    BY DEF Opposite
  <2>2. PICK k \in 1..n : s[k] = x
    BY <1>2
  <2>3. n - k + 1 \in 1..n /\ f[n - k + 1] = h[s[n - (n - k + 1) + 1]]
    BY <1>1, <1>3
  <2> QED
    BY <1>1, <2>1, <2>2, <2>3
<1>6. ASSUME NEW i \in 1..n, NEW j \in 1..n, i < j PROVE <<f[i], f[j]>> \in Q
  <2>1. n - j + 1 < n - i + 1
    BY <1>6
  <2>2. <<s[n - j + 1], s[n - i + 1]>> \in R /\ s[n - j + 1] \in S /\ s[n - i + 1] \in S
    BY <1>1, <1>2, <1>3, <2>1
  <2>3. <<h[s[n - i + 1]], h[s[n - j + 1]]>> \in Q
    BY <2>2 DEF Opposite
  <2> QED
    BY <1>3, <2>3
<1>7. Lists(f, n, T, Q)
  BY <1>4, <1>5, <1>6 DEF Lists
<1>8. f = t
  BY <1>7, OneList DEF Opposite
<1>9. ASSUME NEW i \in 1..n PROVE t[n - i + 1] = h[s[i]]
  <2>1. f[n - i + 1] = h[s[n - (n - i + 1) + 1]]
    BY <1>1, <1>3
  <2> QED
    BY <1>1, <1>8, <2>1
<1> QED
  BY <1>9
=============================================================================
