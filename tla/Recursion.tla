----------------------------- MODULE Recursion -----------------------------
(***************************************************************************)
(* Least and greatest members of sets of numbers, functions that are       *)
(* defined by recursion over the parts of finite structures, and lists     *)
(* that are arranged: what proofs use in place of induction over data.     *)
(***************************************************************************)
EXTENDS Arranging, FiniteSetTheorems, WellFoundedInduction, TLAPS

LEMMA LeastOf ==
  ASSUME NEW T \in SUBSET Nat, T # {}
  PROVE  \E x \in T : \A y \in T : x <= y
<1>1. PICK t \in T : TRUE
  OBVIOUS
<1> DEFINE Below == {k \in T : k <= t}
           Segments == {0 .. k : k \in Below}
<1>2. Segments \subseteq FiniteSubsetsOf(0 .. t)
  <2>1. \A k \in Below : IsFiniteSet(0 .. k) /\ 0 .. k \in SUBSET (0 .. t)
    BY FS_Interval
  <2>2. QED
    BY <2>1 DEF FiniteSubsetsOf
<1>3. Segments # {}
  OBVIOUS
<1>4. PICK shortest \in Segments : \A s \in Segments : <<s, shortest>> \notin StrictSubsetOrdering(0 .. t)
  <2> HIDE DEF Segments
  <2> QED
    BY <1>2, <1>3, FS_StrictSubsetOrderingWellFounded, WFMin
<1>5. PICK x \in Below : shortest = 0 .. x
  OBVIOUS
<1>6. ASSUME NEW y \in T, y < x PROVE FALSE
  <2>1. y \in Below /\ 0 .. y \in Segments
    BY <1>6
  <2>2. 0 .. y \in SUBSET (0 .. x) /\ x \notin 0 .. y /\ x \in 0 .. x /\ 0 .. x \in SUBSET (0 .. t)
    BY <1>6
  <2>3. <<0 .. y, 0 .. x>> \in StrictSubsetOrdering(0 .. t)
    <3> HIDE DEF Below
    <3> QED BY <2>2 DEF StrictSubsetOrdering
  <2>4. QED
    BY <1>4, <1>5, <2>1, <2>3
<1>7. QED
  BY <1>6

LEMMA GreatestOf ==
  ASSUME NEW n \in Nat, NEW T \in SUBSET (1 .. n), T # {}
  PROVE  \E x \in T : \A y \in T : y <= x
<1> DEFINE Mirror == {n - y : y \in T}
<1>1. Mirror \in SUBSET Nat /\ Mirror # {}
  <2>1. \A y \in T : n - y \in Nat
    OBVIOUS
  <2>2. QED
    BY <2>1
<1>2. PICK z \in Mirror : \A y \in Mirror : z <= y
  <2> HIDE DEF Mirror
  <2> QED
    BY <1>1, LeastOf
<1>3. PICK x \in T : z = n - x
  OBVIOUS
<1>4. \A y \in T : n - x <= n - y
  BY <1>2, <1>3
<1>5. QED
  BY <1>4

----------------------------------------------------------------------------
(***************************************************************************)
(* Structures X have parts; height tells that no structure is a part of    *)
(* itself.  value[x][g] is the value of x, if g has the values of its      *)
(* parts.                                                                  *)
(***************************************************************************)
Parted(X, height, parts) ==
  /\ height \in [X -> Nat]
  /\ parts \in [X -> SUBSET X]
  /\ \A x \in X : \A c \in parts[x] : height[c] < height[x]

Valued(X, parts, V, value) ==
  \A x \in X : \A g \in [parts[x] -> V] : value[x][g] \in V

\* f has the value that the recursion gives it at x.
FollowsAt(f, parts, value, x) == f[x] = value[x][[c \in parts[x] |-> f[c]]]

FollowsBelow(f, X, height, parts, value, n) ==
  \A x \in X : height[x] < n => FollowsAt(f, parts, value, x)

\* Least counterexamples: a set of structures has a lowest one, none of whose
\* parts is in the set.
LEMMA Lowest ==
  ASSUME NEW X, NEW height, NEW parts, Parted(X, height, parts),
         NEW T \in SUBSET X, T # {}
  PROVE  \E x \in T : parts[x] \cap T = {}
<1> DEFINE H == {height[x] : x \in T}
<1>1. H \in SUBSET Nat /\ H # {}
  BY DEF Parted
<1>2. PICK h \in H : \A k \in H : h <= k
  <2> HIDE DEF H
  <2> QED
    BY <1>1, LeastOf
<1>3. PICK x \in T : height[x] = h
  BY <1>2
<1>4. \A c \in parts[x] : height[c] \in Nat /\ height[x] \in Nat /\ height[c] < height[x]
  BY DEF Parted
<1>5. \A c \in parts[x] : c \notin T
  BY <1>2, <1>3, <1>4
<1>6. QED
  BY <1>3, <1>5

\* Two functions that follow the recursion on all structures below a height are
\* the same there.
LEMMA RecursionUnique ==
  ASSUME NEW X, NEW height, NEW parts, Parted(X, height, parts), NEW value,
         NEW n \in Nat, NEW f, NEW g,
         FollowsBelow(f, X, height, parts, value, n), FollowsBelow(g, X, height, parts, value, n)
  PROVE  \A x \in X : height[x] < n => f[x] = g[x]
<1> DEFINE T == {x \in X : height[x] < n /\ f[x] # g[x]}
<1>1. SUFFICES ASSUME T # {} PROVE FALSE
  OBVIOUS
<1>2. PICK x \in T : parts[x] \cap T = {}
  <2> HIDE DEF T
  <2>1. T \in SUBSET X
    BY DEF T
  <2>2. QED
    BY <1>1, <2>1, Lowest
<1>3. \A c \in parts[x] : c \in X /\ height[c] < n
  <2>1. \A c \in parts[x] : c \in X /\ height[c] \in Nat /\ height[x] \in Nat /\ height[c] < height[x]
    BY DEF Parted
  <2>2. QED
    BY <2>1
<1>4. \A c \in parts[x] : f[c] = g[c]
  BY <1>2, <1>3
<1>5. [c \in parts[x] |-> f[c]] = [c \in parts[x] |-> g[c]]
  BY <1>4
<1>6. f[x] = g[x]
  BY <1>5 DEF FollowsAt, FollowsBelow
<1>7. QED
  BY <1>6

\* Functions that agree on a structure whenever they agree on its parts.
LEMMA RecursionAgrees ==
  ASSUME NEW X, NEW height, NEW parts, Parted(X, height, parts), NEW f, NEW g,
         \A x \in X : (\A c \in parts[x] : f[c] = g[c]) => f[x] = g[x]
  PROVE  \A x \in X : f[x] = g[x]
<1> DEFINE T == {x \in X : f[x] # g[x]}
<1>1. SUFFICES ASSUME T # {} PROVE FALSE
  OBVIOUS
<1>2. PICK x \in T : parts[x] \cap T = {}
  <2> HIDE DEF T
  <2>1. T \in SUBSET X
    BY DEF T
  <2>2. QED
    BY <1>1, <2>1, Lowest
<1>3. \A c \in parts[x] : c \in X
  BY DEF Parted
<1>4. \A c \in parts[x] : f[c] = g[c]
  BY <1>2, <1>3
<1>5. QED
  BY <1>2, <1>4

\* There is a function that follows the recursion on all structures below n.
LEMMA RecursionBelow ==
  ASSUME NEW X, NEW height, NEW parts, Parted(X, height, parts),
         NEW V, NEW value, Valued(X, parts, V, value), V # {},
         NEW n \in Nat
  PROVE  \E f \in [X -> V] : \A x \in X : height[x] < n => FollowsAt(f, parts, value, x)
<1> DEFINE Good(k) == \E f \in [X -> V] : \A x \in X : height[x] < k => FollowsAt(f, parts, value, x)
           T == {k \in Nat : ~Good(k)}
<1>1. SUFFICES ASSUME T # {} PROVE FALSE
  OBVIOUS
<1>2. PICK k \in T : \A l \in T : k <= l
  <2> HIDE DEF T
  <2>1. T \in SUBSET Nat
    BY DEF T
  <2>2. QED
    BY <1>1, <2>1, LeastOf
<1>3. \A x \in X : height[x] \in Nat
  BY DEF Parted
<1>4. CASE k = 0
  <2>1. PICK v \in V : TRUE
    OBVIOUS
  <2>2. [x \in X |-> v] \in [X -> V] /\ \A x \in X : ~(height[x] < 0)
    BY <1>3
  <2>3. Good(0)
    BY <2>2
  <2>4. QED
    BY <1>4, <2>3
<1>5. CASE k > 0
  <2>1. k - 1 \in Nat /\ k - 1 \notin T
    BY <1>2, <1>5
  <2>2. PICK f \in [X -> V] : \A x \in X : height[x] < k - 1 => FollowsAt(f, parts, value, x)
    BY <2>1
  <2> DEFINE below(x) == [c \in parts[x] |-> f[c]]
             g == [x \in X |-> IF height[x] < k - 1 THEN f[x] ELSE value[x][below(x)]]
  <2>3. ASSUME NEW x \in X PROVE below(x) \in [parts[x] -> V]
    BY DEF Parted
  <2>4. g \in [X -> V]
    <3> HIDE DEF below
    <3> QED
      BY <2>3 DEF Valued
  <2>5. ASSUME NEW x \in X, height[x] < k - 1 PROVE g[x] = f[x]
    BY <2>5
  <2>6. ASSUME NEW x \in X, height[x] < k PROVE FollowsAt(g, parts, value, x)
    <3>1. \A c \in parts[x] : c \in X /\ height[c] \in Nat /\ height[x] \in Nat /\ height[c] < height[x]
      BY DEF Parted
    <3>2. \A c \in parts[x] : c \in X /\ height[c] < k - 1
      BY <2>6, <3>1
    <3>3. [c \in parts[x] |-> g[c]] = below(x)
      <4>1. \A c \in parts[x] : g[c] = f[c]
        <5> HIDE DEF g
        <5> QED
          BY <2>5, <3>2
      <4>2. QED
        <5> HIDE DEF g
        <5> QED
          BY <4>1
    <3>4. g[x] = value[x][below(x)]
      <4>1. CASE height[x] < k - 1
        BY <2>2, <2>5, <4>1 DEF FollowsAt
      <4>2. CASE ~(height[x] < k - 1)
        BY <4>2
      <4>3. QED
        BY <4>1, <4>2
    <3>5. QED
      <4> HIDE DEF g, below
      <4> QED
        BY <3>3, <3>4 DEF FollowsAt
  <2>7. Good(k)
    <3> HIDE DEF g
    <3> QED
      BY <2>4, <2>6
  <2>8. QED
    BY <2>7
<1>6. QED
  BY <1>4, <1>5

LEMMA RecursionExists ==
  ASSUME NEW X, NEW height, NEW parts, Parted(X, height, parts),
         NEW V, NEW value, Valued(X, parts, V, value), V # {}
  PROVE  \E f \in [X -> V] : \A x \in X : FollowsAt(f, parts, value, x)
<1> DEFINE Below(f, n) == \A x \in X : height[x] < n => FollowsAt(f, parts, value, x)
           pick == [n \in Nat |-> CHOOSE f \in [X -> V] : Below(f, n)]
           f == [x \in X |-> pick[height[x] + 1][x]]
<1>1. \A x \in X : height[x] \in Nat /\ height[x] + 1 \in Nat
  BY DEF Parted
<1>2. ASSUME NEW n \in Nat PROVE pick[n] \in [X -> V] /\ Below(pick[n], n)
  <2>1. \E g \in [X -> V] : Below(g, n)
    BY RecursionBelow
  <2>2. QED
    <3> HIDE DEF Below
    <3> QED
      BY <2>1
<1>3. ASSUME NEW x \in X, NEW n \in Nat, height[x] < n PROVE pick[n][x] = f[x]
  <2> DEFINE m == height[x] + 1
  <2>1. m \in Nat /\ m <= n /\ height[x] < m
    BY <1>1, <1>3
  <2>2. \A y \in X : height[y] < m => height[y] < n
    BY <1>1, <2>1
  <2> HIDE DEF m, pick
  <2>3. /\ FollowsBelow(pick[n], X, height, parts, value, m)
        /\ FollowsBelow(pick[m], X, height, parts, value, m)
    BY <1>2, <2>1, <2>2 DEF FollowsBelow
  <2>4. pick[n][x] = pick[m][x]
    <3>1. \A y \in X : height[y] < m => pick[n][y] = pick[m][y]
      BY <2>1, <2>3, RecursionUnique
    <3>2. QED
      BY <2>1, <3>1
  <2>5. QED
    BY <2>4 DEF m
<1>4. f \in [X -> V]
  <2> HIDE DEF pick
  <2> QED
    BY <1>1, <1>2
<1>5. ASSUME NEW x \in X PROVE FollowsAt(f, parts, value, x)
  <2> DEFINE n == height[x] + 1
  <2>1. n \in Nat /\ height[x] < n
    BY <1>1
  <2>2. \A c \in parts[x] : c \in X /\ height[c] < n
    <3>1. \A c \in parts[x] : c \in X /\ height[c] \in Nat /\ height[x] \in Nat /\ height[c] < height[x]
      BY DEF Parted
    <3>2. QED
      BY <3>1
  <2> HIDE DEF n, pick, f
  <2>3. \A c \in parts[x] : pick[n][c] = f[c]
    BY <1>3, <2>1, <2>2
  <2>4. [c \in parts[x] |-> pick[n][c]] = [c \in parts[x] |-> f[c]]
    BY <2>3
  <2>5. pick[n][x] = f[x] /\ FollowsAt(pick[n], parts, value, x)
    BY <1>2, <1>3, <2>1
  <2>6. QED
    BY <2>4, <2>5 DEF FollowsAt
<1>6. QED
  <2> HIDE DEF f
  <2> QED
    BY <1>4, <1>5
\* The numbers from 0 to n, each of which has the one before it as a part.
Preceding(n) == [k \in 0 .. n |-> IF k = 0 THEN {} ELSE {k - 1}]

LEMMA FromZeroParted ==
  ASSUME NEW n \in Nat
  PROVE  Parted(0 .. n, [k \in 0 .. n |-> k], Preceding(n))
  BY DEF Parted, Preceding

\* A function on numbers each of whose values is made of the one before.
Counts(f, n, base, step) == f = [k \in 0 .. n |-> IF k = 0 THEN base ELSE step[k][f[k - 1]]]

LEMMA CountingExists ==
  ASSUME NEW n \in Nat, NEW V, NEW base \in V, NEW step \in [1 .. n -> [V -> V]]
  PROVE  \E f \in [0 .. n -> V] : Counts(f, n, base, step)
<1> DEFINE value == [k \in 0 .. n |-> [g \in [Preceding(n)[k] -> V] |->
                       IF k = 0 THEN base ELSE step[k][g[k - 1]]]]
<1>1. Valued(0 .. n, Preceding(n), V, value)
  <2>1. ASSUME NEW k \in 0 .. n, NEW g \in [Preceding(n)[k] -> V]
        PROVE  value[k][g] \in V
    <3>1. value[k][g] = IF k = 0 THEN base ELSE step[k][g[k - 1]]
      OBVIOUS
    <3>2. CASE k = 0
      BY <3>1, <3>2
    <3>3. CASE k # 0
      <4>1. g[k - 1] \in V /\ k \in 1 .. n
        BY <3>3 DEF Preceding
      <4>2. step[k][g[k - 1]] \in V
        BY <4>1
      <4> HIDE DEF value
      <4>3. QED
        BY <3>1, <3>3, <4>2
    <3>4. QED
      BY <3>2, <3>3
  <2>2. QED
    <3> HIDE DEF value
    <3> QED BY <2>1 DEF Valued
<1>2. PICK f \in [0 .. n -> V] : \A k \in 0 .. n : FollowsAt(f, Preceding(n), value, k)
  <2> HIDE DEF value
  <2> QED
    BY <1>1, FromZeroParted, RecursionExists
<1>3. ASSUME NEW k \in 0 .. n
      PROVE  f[k] = IF k = 0 THEN base ELSE step[k][f[k - 1]]
  <2> DEFINE g == [c \in Preceding(n)[k] |-> f[c]]
  <2>1. g \in [Preceding(n)[k] -> V]
    BY DEF Preceding
  <2>2. f[k] = value[k][g]
    <3> HIDE DEF value
    <3> QED BY <1>2 DEF FollowsAt
  <2>3. f[k] = IF k = 0 THEN base ELSE step[k][g[k - 1]]
    <3> HIDE DEF g
    <3> QED BY <2>1, <2>2
  <2>4. k # 0 => g[k - 1] = f[k - 1]
    BY DEF Preceding
  <2>5. QED
    <3> HIDE DEF g
    <3> QED BY <2>3, <2>4
<1>4. QED
  <2> HIDE DEF value
  <2> QED
    BY <1>3 DEF Counts

\* What holds at 0, and at each number after one at which it holds.
LEMMA CountingHolds ==
  ASSUME NEW n \in Nat, NEW T \in SUBSET (0 .. n), 0 \in T,
         \A k \in 1 .. n : k - 1 \in T => k \in T
  PROVE  T = 0 .. n
<1>1. SUFFICES ASSUME (0 .. n) \ T # {} PROVE FALSE
  OBVIOUS
<1>2. (0 .. n) \ T \in SUBSET Nat
  OBVIOUS
<1>3. PICK k \in (0 .. n) \ T : \A l \in (0 .. n) \ T : k <= l
  BY <1>1, <1>2, LeastOf
<1>4. k \in 1 .. n /\ k - 1 \in T
  BY <1>3
<1>5. QED
  BY <1>3, <1>4

----------------------------------------------------------------------------
(* Items arranged by rank. *)

\* A rank for every position, and a position for every rank.
IsRanking(rank, S) ==
  /\ rank \in [S -> 0 .. Cardinality(S) - 1]
  /\ \A i, j \in S : rank[i] = rank[j] => i = j

LEMMA EveryRank ==
  ASSUME NEW S, IsFiniteSet(S), NEW rank, IsRanking(rank, S),
         NEW k \in 1 .. Cardinality(S)
  PROVE  \E i \in S : rank[i] = k - 1
<1> DEFINE n == Cardinality(S)
           T == 0 .. n - 1
<1>1. n \in Nat
  BY FS_CardinalityType
<1>2. IsFiniteSet(T) /\ Cardinality(T) = n
  <2> HIDE DEF n
  <2>1. n - 1 \in Int /\ 0 \in Int
    BY <1>1
  <2>2. IsFiniteSet(T) /\ Cardinality(T) = IF 0 > n - 1 THEN 0 ELSE n - 1 - 0 + 1
    BY <2>1, FS_Interval
  <2>3. QED
    BY <1>1, <2>2
<1>3. rank \in Injection(S, T)
  BY DEF IsRanking, Injection, IsInjective
<1>4. rank \in Surjection(S, T)
  BY <1>2, <1>3, FS_Injection
<1>5. k - 1 \in T
  BY <1>1
<1>6. QED
  BY <1>4, <1>5 DEF Surjection

\* A list of n members, which are what the items at the positions are.
Lists(list, n, items, S) ==
  /\ list = [k \in 1 .. n |-> list[k]]
  /\ DOMAIN list = 1 .. n
  /\ \A k \in 1 .. n : \E i \in S : list[k] = items[i]
  /\ \A i \in S : \E k \in 1 .. n : list[k] = items[i]
  /\ \A k, l \in 1 .. n : k # l =>
        \E i, j \in S : i # j /\ list[k] = items[i] /\ list[l] = items[j]

\* What is arranged is what is at the positions.
LEMMA Arranged ==
  ASSUME NEW S, IsFiniteSet(S), NEW rank, IsRanking(rank, S), NEW items
  PROVE  Cardinality(S) \in Nat /\ Lists(arranged(items, rank), Cardinality(S), items, S)
<1> DEFINE n == Cardinality(S)
           pos(k) == CHOOSE i \in S : rank[i] = k - 1
<1>1. n \in Nat
  BY FS_CardinalityType
<1>2. DOMAIN rank = S
  BY DEF IsRanking
<1>3. \A k \in 1 .. n : pos(k) \in S /\ rank[pos(k)] = k - 1
  BY EveryRank
<1>4. arranged(items, rank) = [k \in 1 .. n |-> items[pos(k)]]
  BY <1>2 DEF arranged
<1>5. ASSUME NEW i \in S PROVE \E k \in 1 .. n : arranged(items, rank)[k] = items[i]
  <2>1. rank[i] \in 0 .. n - 1
    BY DEF IsRanking
  <2>2. rank[i] + 1 \in 1 .. n
    BY <1>1, <2>1
  <2>3. pos(rank[i] + 1) = i
    BY <1>3, <2>1, <2>2 DEF IsRanking
  <2>4. QED
    BY <1>4, <2>2, <2>3
<1>6. ASSUME NEW k \in 1 .. n, NEW l \in 1 .. n, k # l
      PROVE  \E i, j \in S : /\ i # j
                             /\ arranged(items, rank)[k] = items[i]
                             /\ arranged(items, rank)[l] = items[j]
  <2>1. pos(k) \in S /\ pos(l) \in S /\ pos(k) # pos(l)
    BY <1>1, <1>3, <1>6
  <2>2. QED
    BY <1>4, <2>1
<1>7. /\ DOMAIN arranged(items, rank) = 1 .. n
      /\ arranged(items, rank) = [k \in 1 .. n |-> arranged(items, rank)[k]]
  BY <1>4
<1>8. ASSUME NEW k \in 1 .. n PROVE \E i \in S : arranged(items, rank)[k] = items[i]
  BY <1>3, <1>4
<1>9. QED
  <2> DEFINE list == arranged(items, rank)
  <2>1. \A k, l \in 1 .. n : k # l =>
          \E i, j \in S : i # j /\ list[k] = items[i] /\ list[l] = items[j]
    BY <1>6
  <2>2. /\ list = [k \in 1 .. n |-> list[k]]
        /\ DOMAIN list = 1 .. n
        /\ \A k \in 1 .. n : \E i \in S : list[k] = items[i]
        /\ \A i \in S : \E k \in 1 .. n : list[k] = items[i]
    BY <1>5, <1>7, <1>8
  <2>3. Lists(list, n, items, S)
    <3> HIDE DEF list, n
    <3> QED
      BY <2>1, <2>2 DEF Lists
  <2>4. QED
    BY <1>1, <2>3

\* before is a strict total order of S.
Orders(before, S) ==
  /\ \A i, j \in S : <<i, j>> \in before => <<j, i>> \notin before
  /\ \A i, j \in S : i # j => <<i, j>> \in before \/ <<j, i>> \in before
  /\ \A i, j, k \in S : <<i, j>> \in before /\ <<j, k>> \in before => <<i, k>> \in before

\* Counting what is before each position ranks them.
LEMMA CountingRanks ==
  ASSUME NEW S, IsFiniteSet(S), NEW before, Orders(before, S)
  PROVE  IsRanking([i \in S |-> Cardinality({j \in S : <<j, i>> \in before})], S)
<1> DEFINE Before(i) == {j \in S : <<j, i>> \in before}
           rank == [i \in S |-> Cardinality(Before(i))]
<1>1. ASSUME NEW i \in S
      PROVE  IsFiniteSet(Before(i)) /\ Cardinality(Before(i)) \in 0 .. Cardinality(S) - 1
  <2>1. Before(i) \in SUBSET S /\ i \in S \ Before(i)
    BY DEF Orders
  <2>2. /\ IsFiniteSet(Before(i)) /\ Cardinality(Before(i)) <= Cardinality(S)
        /\ Cardinality(Before(i)) # Cardinality(S)
    <3> HIDE DEF Before
    <3> QED
      BY <2>1, FS_Subset
  <2>3. Cardinality(Before(i)) \in Nat /\ Cardinality(S) \in Nat
    <3> HIDE DEF Before
    <3> QED
      BY <2>2, FS_CardinalityType
  <2>4. QED
    BY <2>2, <2>3
<1>2. ASSUME NEW i \in S, NEW j \in S, <<i, j>> \in before
      PROVE  Cardinality(Before(i)) # Cardinality(Before(j))
  <2>1. Before(i) \in SUBSET Before(j) /\ i \in Before(j) \ Before(i)
    BY <1>2 DEF Orders
  <2>2. IsFiniteSet(Before(j))
    BY <1>1
  <2>3. QED
    <3> HIDE DEF Before
    <3> QED
      BY <2>1, <2>2, FS_Subset
<1>3. \A i, j \in S : Cardinality(Before(i)) = Cardinality(Before(j)) => i = j
  <2> SUFFICES ASSUME NEW i \in S, NEW j \in S, i # j
               PROVE  Cardinality(Before(i)) # Cardinality(Before(j))
    OBVIOUS
  <2>1. <<i, j>> \in before \/ <<j, i>> \in before
    BY DEF Orders
  <2>2. QED
    <3> HIDE DEF Before
    <3> QED
      BY <1>2, <2>1
<1>4. QED
  <2> HIDE DEF Before
  <2>1. \A i \in S : rank[i] = Cardinality(Before(i))
    OBVIOUS
  <2>2. rank \in [S -> 0 .. Cardinality(S) - 1]
    BY <1>1
  <2>3. IsRanking(rank, S)
    BY <1>3, <2>1, <2>2 DEF IsRanking
  <2>4. QED
    BY <2>3 DEF Before

LEMMA AtPositions ==
  ASSUME NEW items, NEW n \in Nat, NEW S \in SUBSET (1 .. n)
  PROVE  \E m \in Nat : Lists(at_positions(items, S), m, items, S)
<1> DEFINE before == {e \in S \X S : e[1] < e[2]}
           rank == [i \in S |-> Cardinality({j \in S : j < i})]
<1>1. IsFiniteSet(S)
  <2>1. IsFiniteSet(1 .. n)
    BY FS_Interval
  <2>2. QED
    BY <2>1, FS_Subset
<1>2. Orders(before, S)
  BY DEF Orders
<1>3. \A i \in S : {j \in S : <<j, i>> \in before} = {j \in S : j < i}
  OBVIOUS
<1>4. IsRanking([i \in S |-> Cardinality({j \in S : <<j, i>> \in before})], S)
  <2> HIDE DEF before
  <2> QED
    BY <1>1, <1>2, CountingRanks
<1>5. IsRanking(rank, S)
  <2> HIDE DEF before
  <2>1. [i \in S |-> Cardinality({j \in S : <<j, i>> \in before})] = rank
    BY <1>3
  <2>2. QED
    BY <1>4, <2>1
<1>6. at_positions(items, S) = arranged(items, rank)
  BY DEF at_positions
<1>7. QED
  <2> HIDE DEF rank
  <2>1. Cardinality(S) \in Nat /\ Lists(arranged(items, rank), Cardinality(S), items, S)
    BY <1>1, <1>5, Arranged
  <2>2. QED
    BY <1>6, <2>1
=============================================================================
