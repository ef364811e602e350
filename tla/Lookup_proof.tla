---------------------------- MODULE Lookup_proof ----------------------------
(***************************************************************************)
(* Lookups of any entries over keys of any width: the hash stays within    *)
(* the bits of its mask and is the key when no bit is left out, so that    *)
(* the tables that are built answer as the map and are read within their   *)
(* bounds, whatever else the hash does.                                    *)
(***************************************************************************)
EXTENDS Lookup, Recursion, FiniteSetTheorems, WellFoundedInduction, TLAPS

----------------------------------------------------------------------------
(* Least and greatest elements. *)

LEMMA LeastExists ==
  ASSUME NEW T \in SUBSET Nat, T # {}
  PROVE  Min(T) \in T /\ \A y \in T : Min(T) <= y
<1>1. PICK t \in T : TRUE
  OBVIOUS
<1> DEFINE Below == {k \in T : k <= t}
           Segments == {0 .. k : k \in Below}
<1>2. Segments \subseteq FiniteSubsetsOf(0 .. t)
  <2>1. \A k \in Below : IsFiniteSet(0 .. k) /\ 0 .. k \in SUBSET (0 .. t)
    BY FS_Interval
  <2>2. QED
    BY <2>1 DEF FiniteSubsetsOf
<1>3. Segments # {}
  OBVIOUS
<1>4. PICK shortest \in Segments : \A s \in Segments : <<s, shortest>> \notin StrictSubsetOrdering(0 .. t)
  <2> HIDE DEF Segments
  <2> QED
    BY <1>2, <1>3, FS_StrictSubsetOrderingWellFounded, WFMin
<1>5. PICK x \in Below : shortest = 0 .. x
  OBVIOUS
<1>6. ASSUME NEW y \in T, y < x PROVE FALSE
  <2>1. y \in Below /\ 0 .. y \in Segments
    BY <1>6
  <2>2. 0 .. y \in SUBSET (0 .. x) /\ x \notin 0 .. y /\ x \in 0 .. x /\ 0 .. x \in SUBSET (0 .. t)
    BY <1>6
  <2>3. <<0 .. y, 0 .. x>> \in StrictSubsetOrdering(0 .. t)
    <3> HIDE DEF Below
    <3> QED BY <2>2 DEF StrictSubsetOrdering
  <2>4. QED
    BY <1>4, <1>5, <2>1, <2>3
<1>7. x \in T /\ \A y \in T : x <= y
  BY <1>6
<1>8. QED
  BY <1>7 DEF Min

LEMMA GreatestExists ==
  ASSUME NEW T \in SUBSET Nat, T # {}, NEW bound \in Nat, \A y \in T : y <= bound
  PROVE  Max(T) \in T /\ \A y \in T : y <= Max(T)
<1> DEFINE Bounds == {n \in Nat : \A y \in T : y <= n}
           least == Min(Bounds)
<1>1. least \in Bounds /\ \A n \in Bounds : least <= n
  BY LeastExists
<1> HIDE DEF least
<1>2. least \in T
  <2> SUFFICES ASSUME least \notin T PROVE FALSE
    OBVIOUS
  <2>1. \A y \in T : y <= least - 1
    BY <1>1
  <2>2. least \in Nat /\ least # 0
    <3>1. PICK y \in T : y \in Nat /\ y <= least
      BY <1>1
    <3>2. QED
      BY <1>1, <3>1
  <2>3. least - 1 \in Bounds
    BY <2>1, <2>2
  <2>4. QED
    BY <1>1, <2>3
<1>3. QED
  BY <1>1, <1>2 DEF Max

----------------------------------------------------------------------------
(* Powers of two count subsets. *)

\* There are twice as many subsets with one element more.
LEMMA TwoToThe ==
  /\ 2 ^ 0 = 1
  /\ \A n \in Nat : 2 ^ n \in Nat \ {0} /\ 2 ^ (n + 1) = 2 * 2 ^ n
<1>1. ASSUME NEW n \in Nat
      PROVE  /\ IsFiniteSet(SUBSET (1 .. n)) /\ Cardinality(SUBSET (1 .. n)) = 2 ^ n
             /\ 2 ^ n \in Nat \ {0}
  <2>1. IsFiniteSet(1 .. n) /\ Cardinality(1 .. n) = n
    BY FS_Interval
  <2>2. IsFiniteSet(SUBSET (1 .. n)) /\ Cardinality(SUBSET (1 .. n)) = 2 ^ n
    BY <2>1, FS_SUBSET
  <2>3. SUBSET (1 .. n) # {}
    OBVIOUS
  <2>4. QED
    BY <2>2, <2>3, FS_EmptySet, FS_CardinalityType
<1>2. ASSUME NEW n \in Nat PROVE 2 ^ (n + 1) = 2 * 2 ^ n
  <2> DEFINE Old == SUBSET (1 .. n)
             New == {s \cup {n + 1} : s \in Old}
             add == [s \in Old |-> s \cup {n + 1}]
  <2>1. SUBSET (1 .. n + 1) = Old \cup New
    <3>1. ASSUME NEW s \in SUBSET (1 .. n + 1) PROVE s \in Old \cup New
      <4>1. CASE n + 1 \in s
        <5>1. s \ {n + 1} \in Old /\ s = (s \ {n + 1}) \cup {n + 1}
          BY <4>1
        <5>2. QED
          BY <5>1
      <4>2. CASE n + 1 \notin s
        <5>1. s \in Old
          BY <4>2
        <5>2. QED
          BY <5>1
      <4>3. QED
        BY <4>1, <4>2
    <3>2. Old \subseteq SUBSET (1 .. n + 1) /\ New \subseteq SUBSET (1 .. n + 1)
      <4>1. 1 .. n \subseteq 1 .. n + 1 /\ n + 1 \in 1 .. n + 1
        OBVIOUS
      <4>2. QED
        BY <4>1
    <3>3. QED
      BY <3>1, <3>2
  <2>2. Old \cap New = {}
    OBVIOUS
  <2>3. ExistsBijection(Old, New)
    <3>1. add \in [Old -> New] /\ \A t \in New : \E s \in Old : add[s] = t
      OBVIOUS
    <3>2. \A s, t \in Old : add[s] = add[t] => s = t
      <4>1. \A s \in Old : (s \cup {n + 1}) \ {n + 1} = s
        OBVIOUS
      <4>2. QED
        BY <4>1
    <3>3. add \in Bijection(Old, New)
      BY <3>1, <3>2 DEF Bijection, Injection, Surjection, IsInjective
    <3>4. QED
      BY <3>3 DEF ExistsBijection
  <2>4. IsFiniteSet(Old) /\ Cardinality(Old) = 2 ^ n /\ 2 ^ n \in Nat
    BY <1>1
  <2> HIDE DEF Old, New
  <2>5. IsFiniteSet(New) /\ Cardinality(New) = 2 ^ n
    BY <2>3, <2>4, FS_Bijection
  <2>6. Cardinality(Old \cup New) = 2 ^ n + 2 ^ n
    BY <2>2, <2>4, <2>5, FS_Union, FS_EmptySet
  <2>7. n + 1 \in Nat
    OBVIOUS
  <2>8. 2 ^ (n + 1) = 2 ^ n + 2 ^ n
    BY <1>1, <2>1, <2>6, <2>7
  <2>9. QED
    BY <2>4, <2>8
<1>3. 2 ^ 0 = 1
  OBVIOUS
<1>4. QED
  BY <1>1, <1>2, <1>3

----------------------------------------------------------------------------
(* Sums over finite sets of weighted elements, in whichever order. *)

pick(s) == CHOOSE x \in s : TRUE

Sums(f, S, w) ==
  f = [s \in SUBSET S |-> IF s = {} THEN 0 ELSE w[pick(s)] + f[s \ {pick(s)}]]

SizeOf(S) == [s \in SUBSET S |-> Cardinality(s)]

OneLess(S) == [s \in SUBSET S |-> {s \ {x} : x \in s}]

LEMMA SubsetsParted ==
  ASSUME NEW S, IsFiniteSet(S)
  PROVE  Parted(SUBSET S, SizeOf(S), OneLess(S))
<1>1. ASSUME NEW s \in SUBSET S PROVE IsFiniteSet(s) /\ Cardinality(s) \in Nat
  BY FS_Subset, FS_CardinalityType
<1>2. ASSUME NEW s \in SUBSET S, NEW x \in s PROVE Cardinality(s \ {x}) < Cardinality(s)
  BY <1>1, FS_RemoveElement
<1>3. SizeOf(S) \in [SUBSET S -> Nat] /\ OneLess(S) \in [SUBSET S -> SUBSET SUBSET S]
  BY <1>1 DEF SizeOf, OneLess
<1>4. \A s \in SUBSET S : \A c \in OneLess(S)[s] : SizeOf(S)[c] < SizeOf(S)[s]
  <2> SUFFICES ASSUME NEW s \in SUBSET S, NEW x \in s
               PROVE  SizeOf(S)[s \ {x}] < SizeOf(S)[s]
    BY DEF OneLess
  <2>1. s \ {x} \in SUBSET S
    OBVIOUS
  <2>2. QED
    BY <1>2, <2>1 DEF SizeOf
<1>5. QED
  BY <1>3, <1>4 DEF Parted

LEMMA PickIs == \A s : s # {} => pick(s) \in s
  BY DEF pick

LEMMA SumsExist ==
  ASSUME NEW S, IsFiniteSet(S), NEW w \in [S -> Nat]
  PROVE  \E f \in [SUBSET S -> Nat] : Sums(f, S, w)
<1> DEFINE value == [s \in SUBSET S |-> [g \in [OneLess(S)[s] -> Nat] |->
                       IF s = {} THEN 0 ELSE w[pick(s)] + g[s \ {pick(s)}]]]
<1>1. ASSUME NEW s \in SUBSET S, s # {}
      PROVE  pick(s) \in S /\ s \ {pick(s)} \in OneLess(S)[s]
  BY <1>1, PickIs DEF OneLess
<1>2. Valued(SUBSET S, OneLess(S), Nat, value)
  BY <1>1 DEF Valued
<1>3. PICK f \in [SUBSET S -> Nat] : \A s \in SUBSET S : FollowsAt(f, OneLess(S), value, s)
  <2> HIDE DEF value
  <2>1. Nat # {}
    OBVIOUS
  <2> QED
    BY <1>2, <2>1, SubsetsParted, RecursionExists
<1>4. ASSUME NEW s \in SUBSET S
      PROVE  f[s] = IF s = {} THEN 0 ELSE w[pick(s)] + f[s \ {pick(s)}]
  <2> DEFINE g == [c \in OneLess(S)[s] |-> f[c]]
  <2>1. OneLess(S)[s] \subseteq SUBSET S
    BY DEF OneLess
  <2>2. g \in [OneLess(S)[s] -> Nat]
    BY <2>1
  <2>3. f[s] = value[s][g]
    BY <1>3 DEF FollowsAt
  <2>4. f[s] = IF s = {} THEN 0 ELSE w[pick(s)] + g[s \ {pick(s)}]
    BY <2>2, <2>3
  <2>5. QED
    BY <1>1, <2>4
<1>5. QED
  BY <1>4 DEF Sums

LEMMA SumsUnique ==
  ASSUME NEW S, IsFiniteSet(S), NEW w, NEW f, NEW g, Sums(f, S, w), Sums(g, S, w)
  PROVE  f = g
<1>1. /\ f = [s \in SUBSET S |-> f[s]] /\ g = [s \in SUBSET S |-> g[s]]
      /\ \A s \in SUBSET S : /\ f[s] = IF s = {} THEN 0 ELSE w[pick(s)] + f[s \ {pick(s)}]
                             /\ g[s] = IF s = {} THEN 0 ELSE w[pick(s)] + g[s \ {pick(s)}]
  BY DEF Sums
<1>2. \A s \in SUBSET S : (\A c \in OneLess(S)[s] : f[c] = g[c]) => f[s] = g[s]
  <2> SUFFICES ASSUME NEW s \in SUBSET S, \A c \in OneLess(S)[s] : f[c] = g[c]
               PROVE  f[s] = g[s]
    OBVIOUS
  <2>1. CASE s = {}
    BY <1>1, <2>1
  <2>2. CASE s # {}
    <3>1. s \ {pick(s)} \in OneLess(S)[s]
      BY <2>2, PickIs DEF OneLess
    <3>2. QED
      BY <1>1, <2>2, <3>1
  <2>3. QED
    BY <2>1, <2>2
<1>3. \A s \in SUBSET S : f[s] = g[s]
  <2>1. Parted(SUBSET S, SizeOf(S), OneLess(S))
    BY SubsetsParted
  <2> DEFINE X == SUBSET S
  <2> HIDE DEF X
  <2>2. Parted(X, SizeOf(S), OneLess(S)) /\ \A s \in X : (\A c \in OneLess(S)[s] : f[c] = g[c]) => f[s] = g[s]
    BY <1>2, <2>1 DEF X
  <2>3. \A s \in X : f[s] = g[s]
    BY <2>2, RecursionAgrees
  <2>4. QED
    BY <2>3 DEF X
<1>4. QED
  BY <1>1, <1>3

\* Any element may be taken first.
LEMMA SumsTake ==
  ASSUME NEW S, IsFiniteSet(S), NEW w \in [S -> Nat], NEW f \in [SUBSET S -> Nat], Sums(f, S, w)
  PROVE  /\ f[{}] = 0
         /\ \A s \in SUBSET S : \A x \in s : f[s] = w[x] + f[s \ {x}]
<1> DEFINE T == {s \in SUBSET S : \E x \in s : f[s] # w[x] + f[s \ {x}]}
<1>1. \A s \in SUBSET S : f[s] = IF s = {} THEN 0 ELSE w[pick(s)] + f[s \ {pick(s)}]
  BY DEF Sums
<1>2. SUFFICES ASSUME T # {} PROVE FALSE
  BY <1>1
<1>3. PICK s \in T : OneLess(S)[s] \cap T = {}
  <2>1. Parted(SUBSET S, SizeOf(S), OneLess(S)) /\ T \in SUBSET SUBSET S
    BY SubsetsParted
  <2> DEFINE X == SUBSET S
  <2> HIDE DEF X, T
  <2>2. Parted(X, SizeOf(S), OneLess(S)) /\ T \in SUBSET X
    BY <2>1 DEF X
  <2>3. QED
    BY <1>2, <2>2, Lowest
<1>4. PICK x \in s : f[s] # w[x] + f[s \ {x}]
  OBVIOUS
<1>5. s \in SUBSET S /\ s # {}
  BY <1>4
<1> DEFINE p == pick(s)
<1>6. p \in s /\ f[s] = w[p] + f[s \ {p}]
  BY <1>1, <1>5, PickIs
<1>7. \A y \in s : \A z \in s \ {y} : f[s \ {y}] = w[z] + f[(s \ {y}) \ {z}]
  <2>1. \A y \in s : s \ {y} \in OneLess(S)[s] /\ s \ {y} \in SUBSET S
    BY <1>5 DEF OneLess
  <2>2. \A y \in s : s \ {y} \notin T
    BY <1>3, <2>1
  <2>3. QED
    BY <2>1, <2>2
<1> HIDE DEF p
<1>8. p # x
  BY <1>4, <1>6
<1>9. f[s \ {p}] = w[x] + f[(s \ {p}) \ {x}] /\ f[s \ {x}] = w[p] + f[(s \ {x}) \ {p}]
  BY <1>4, <1>6, <1>7, <1>8
<1>10. (s \ {p}) \ {x} = (s \ {x}) \ {p}
  OBVIOUS
<1>11. w[p] \in Nat /\ w[x] \in Nat /\ f[(s \ {p}) \ {x}] \in Nat
  <2>1. (s \ {p}) \ {x} \in SUBSET S /\ p \in S /\ x \in S
    BY <1>5, <1>6
  <2>2. QED
    BY <2>1
<1>12. f[s] \in Int /\ f[s \ {p}] \in Int /\ f[s \ {x}] \in Int
  BY <1>5
<1>13. f[s] = w[x] + f[s \ {x}]
  <2> DEFINE a == f[s]
             b == f[s \ {p}]
             c == f[s \ {x}]
             r == f[(s \ {p}) \ {x}]
             u == w[p]
             v == w[x]
  <2>1. a \in Int /\ b \in Int /\ c \in Int /\ r \in Int /\ u \in Int /\ v \in Int
    BY <1>11, <1>12
  <2>2. a = u + b /\ b = v + r /\ c = u + r
    BY <1>6, <1>9, <1>10
  <2> HIDE DEF a, b, c, r, u, v
  <2>3. a = v + c
    BY <2>1, <2>2
  <2>4. QED
    BY <2>3 DEF a, c, v
<1>14. QED
  BY <1>4, <1>13

Restricted(f, t) == [s \in SUBSET t |-> f[s]]

LEMMA SumsRestricted ==
  ASSUME NEW S, NEW w, NEW f, Sums(f, S, w), NEW t \in SUBSET S
  PROVE  Sums(Restricted(f, t), t, w)
<1> DEFINE g == [s \in SUBSET t |-> f[s]]
<1>1. f = [s \in SUBSET S |-> IF s = {} THEN 0 ELSE w[pick(s)] + f[s \ {pick(s)}]]
  BY DEF Sums
<1>2. ASSUME NEW s \in SUBSET t
      PROVE  g[s] = IF s = {} THEN 0 ELSE w[pick(s)] + g[s \ {pick(s)}]
  <2>1. s \in SUBSET S /\ s \ {pick(s)} \in SUBSET t /\ g[s] = f[s]
        /\ g[s \ {pick(s)}] = f[s \ {pick(s)}]
    OBVIOUS
  <2>2. f[s] = IF s = {} THEN 0 ELSE w[pick(s)] + f[s \ {pick(s)}]
    BY <1>1, <2>1
  <2>3. QED
    BY <2>1, <2>2
<1>3. g = [s \in SUBSET t |-> IF s = {} THEN 0 ELSE w[pick(s)] + g[s \ {pick(s)}]]
  BY <1>2
<1>4. QED
  BY <1>3 DEF Sums, Restricted

----------------------------------------------------------------------------
(* The number that a set of bits stands for. *)

BitWeight == [b \in Bits |-> 2 ^ b]

LEMMA BitWeightType == BitWeight \in [Bits -> Nat] /\ IsFiniteSet(Bits)
<1>1. \A b \in Bits : b \in Nat
  BY WidthIsPositive DEF Bits
<1>2. \A b \in Bits : 2 ^ b \in Nat
  BY <1>1, TwoToThe
<1>3. IsFiniteSet(Bits)
  BY WidthIsPositive, FS_Interval DEF Bits
<1>4. QED
  BY <1>2, <1>3 DEF BitWeight

LEMMA NumberIs ==
  ASSUME NEW f, Sums(f, Bits, BitWeight), NEW t \in RawKeys
  PROVE  as_number(t) = f[t]
<1> DEFINE added == CHOOSE h : h = [s \in SUBSET t |-> IF s = {} THEN 0
                      ELSE 2 ^ (CHOOSE x \in s : TRUE) + h[s \ {CHOOSE x \in s : TRUE}]]
           g == Restricted(f, t)
<1>1. t \in SUBSET Bits /\ \A s \in SUBSET t : s # {} => pick(s) \in Bits
  BY PickIs DEF RawKeys
<1>2. Sums(g, t, BitWeight)
  BY <1>1, SumsRestricted
<1> HIDE DEF g
<1>3. ASSUME NEW h
      PROVE  [s \in SUBSET t |-> IF s = {} THEN 0 ELSE BitWeight[pick(s)] + h[s \ {pick(s)}]]
             = [s \in SUBSET t |-> IF s = {} THEN 0
                  ELSE 2 ^ (CHOOSE x \in s : TRUE) + h[s \ {CHOOSE x \in s : TRUE}]]
  <2>1. ASSUME NEW s \in SUBSET t, s # {}
        PROVE  BitWeight[pick(s)] = 2 ^ (CHOOSE x \in s : TRUE) /\ pick(s) = CHOOSE x \in s : TRUE
    <3>1. BitWeight[pick(s)] = 2 ^ pick(s)
      BY <1>1, <2>1 DEF BitWeight
    <3>2. QED
      BY <3>1 DEF pick
  <2>2. QED
    BY <2>1
<1>4. g = [s \in SUBSET t |-> IF s = {} THEN 0
             ELSE 2 ^ (CHOOSE x \in s : TRUE) + g[s \ {CHOOSE x \in s : TRUE}]]
  BY <1>2, <1>3 DEF Sums
<1>5. added = [s \in SUBSET t |-> IF s = {} THEN 0
                 ELSE 2 ^ (CHOOSE x \in s : TRUE) + added[s \ {CHOOSE x \in s : TRUE}]]
  BY <1>4
<1> HIDE DEF added
<1>6. Sums(added, t, BitWeight)
  BY <1>3, <1>5 DEF Sums
<1>7. added = g
  BY <1>1, <1>2, <1>6, BitWeightType, FS_Subset, SumsUnique
<1>8. as_number(t) = added[t]
  BY DEF as_number, MapThenSumSet, MapThenFoldSet, added
<1>9. QED
  BY <1>7, <1>8 DEF g, Restricted

LEMMA NumberTakes ==
  /\ as_number({}) = 0
  /\ \A s \in RawKeys : as_number(s) \in Nat
  /\ \A s \in RawKeys : \A b \in s : as_number(s) = 2 ^ b + as_number(s \ {b})
<1>1. PICK f \in [SUBSET Bits -> Nat] : Sums(f, Bits, BitWeight)
  BY BitWeightType, SumsExist
<1>2. \A s \in SUBSET Bits : as_number(s) = f[s]
  BY <1>1, NumberIs DEF RawKeys
<1>3. f[{}] = 0 /\ \A s \in SUBSET Bits : \A b \in s : f[s] = BitWeight[b] + f[s \ {b}]
  BY <1>1, BitWeightType, SumsTake
<1>4. {} \in SUBSET Bits /\ \A s \in SUBSET Bits : \A b \in s : s \ {b} \in SUBSET Bits /\ b \in Bits
  OBVIOUS
<1>5. \A b \in Bits : BitWeight[b] = 2 ^ b
  BY DEF BitWeight
<1>6. QED
  BY <1>1, <1>2, <1>3, <1>4, <1>5 DEF RawKeys

\* The lowest n bits stand for the numbers below 2 ^ n, each number for one set.
LEMMA NumbersFit ==
  ASSUME NEW n \in 0 .. Width
  PROVE  /\ \A s \in SUBSET (0 .. n - 1) : as_number(s) \in 0 .. 2 ^ n - 1
         /\ \A s, t \in SUBSET (0 .. n - 1) : as_number(s) = as_number(t) => s = t
<1> DEFINE Fit(k) == \A s \in SUBSET (0 .. k - 1) : as_number(s) \in 0 .. 2 ^ k - 1
           Apart(k) == \A s, t \in SUBSET (0 .. k - 1) : as_number(s) = as_number(t) => s = t
           T == {k \in 0 .. Width : Fit(k) /\ Apart(k)}
<1>1. 0 \in T
  <2>1. SUBSET (0 .. 0 - 1) = {{}}
    OBVIOUS
  <2>2. as_number({}) \in 0 .. 2 ^ 0 - 1
    BY NumberTakes, TwoToThe
  <2>3. Fit(0) /\ Apart(0)
    BY <2>1, <2>2
  <2>4. QED
    BY <2>3, WidthIsPositive
<1>2. ASSUME NEW k \in 1 .. Width, k - 1 \in T PROVE k \in T
  <2> DEFINE j == k - 1
             half == 2 ^ j
  <2>1. j \in Nat /\ k = j + 1 /\ j \in Bits /\ half \in Nat \ {0} /\ 2 ^ k = 2 * half
    <3>1. j \in Nat /\ k = j + 1 /\ j \in Bits
      BY WidthIsPositive DEF Bits
    <3>2. QED
      BY <3>1, TwoToThe
  <2>2. ASSUME NEW s \in SUBSET (0 .. k - 1)
        PROVE  /\ s \in RawKeys /\ s \ {j} \in SUBSET (0 .. j - 1)
               /\ as_number(s \ {j}) \in 0 .. half - 1
               /\ j \in s => as_number(s) = half + as_number(s \ {j})
               /\ j \notin s => as_number(s) = as_number(s \ {j}) /\ s = s \ {j}
    <3>1. s \in RawKeys
      BY WidthIsPositive DEF RawKeys, Bits
    <3>2. s \ {j} \in SUBSET (0 .. j - 1)
      BY <2>1
    <3>3. as_number(s \ {j}) \in 0 .. half - 1
      BY <1>2, <3>2
    <3>4. j \in s => as_number(s) = half + as_number(s \ {j})
      BY <3>1, NumberTakes
    <3>5. j \notin s => s = s \ {j}
      OBVIOUS
    <3>6. QED
      BY <3>1, <3>2, <3>3, <3>4, <3>5
  <2> HIDE DEF half
  <2>3. Fit(k)
    <3> SUFFICES ASSUME NEW s \in SUBSET (0 .. k - 1) PROVE as_number(s) \in 0 .. 2 ^ k - 1
      OBVIOUS
    <3> DEFINE all == as_number(s)
               low == as_number(s \ {j})
    <3>1. low \in 0 .. half - 1 /\ (all = half + low \/ all = low)
      BY <2>2
    <3> HIDE DEF all, low
    <3>2. all \in 0 .. 2 * half - 1
      BY <2>1, <3>1
    <3>3. QED
      BY <2>1, <3>2 DEF all
  <2>4. Apart(k)
    <3> SUFFICES ASSUME NEW s \in SUBSET (0 .. k - 1), NEW t \in SUBSET (0 .. k - 1),
                        as_number(s) = as_number(t)
                 PROVE  s = t
      OBVIOUS
    <3>1. (j \in s <=> j \in t) /\ as_number(s \ {j}) = as_number(t \ {j})
      <4> DEFINE a == as_number(s \ {j})
                 c == as_number(t \ {j})
      <4>1. a \in 0 .. half - 1 /\ c \in 0 .. half - 1
        BY <2>2
      <4>2. /\ (j \in s => as_number(s) = half + a) /\ (j \notin s => as_number(s) = a)
            /\ (j \in t => as_number(t) = half + c) /\ (j \notin t => as_number(t) = c)
        BY <2>2
      <4> HIDE DEF a, c
      <4>3. (j \in s <=> j \in t) /\ a = c
        BY <2>1, <4>1, <4>2
      <4>4. QED
        BY <4>3 DEF a, c
    <3>2. s \ {j} = t \ {j}
      BY <1>2, <2>2, <3>1
    <3>3. QED
      BY <3>1, <3>2
  <2>5. QED
    BY <2>3, <2>4
<1>3. T \in SUBSET (0 .. Width)
  OBVIOUS
<1> HIDE DEF T
<1>4. T = 0 .. Width
  BY <1>1, <1>2, <1>3, WidthIsPositive, CountingHolds
<1>5. QED
  BY <1>4 DEF T

----------------------------------------------------------------------------
(* What the multiplication by the coefficient does. *)

\* The gaps are zeros of the mask, below its top bit.
LEMMA GapsOf ==
  ASSUME NEW m \in RawKeys
  PROVE  /\ IsFiniteSet(m) /\ Cardinality(m) \in Nat /\ gap_bits(m) \in Nat
         /\ \A src \in m : gap_bits(m) + Cardinality({b \in m : b < src}) - src \in Nat
<1> DEFINE top == Max(m)
           n == Cardinality(m)
<1>1. IsFiniteSet(m) /\ n \in Nat
  BY BitWeightType, FS_Subset, FS_CardinalityType DEF RawKeys
<1>2. CASE m = {}
  <2>1. n = 0 /\ gap_bits(m) = 0
    BY <1>2, WidthIsPositive, FS_EmptySet DEF gap_bits, countl_zero
  <2>2. QED
    BY <1>1, <1>2, <2>1
<1>3. CASE m # {}
  <2>1. m \in SUBSET Nat /\ \A b \in m : b <= Width - 1
    BY WidthIsPositive DEF RawKeys, Bits
  <2>2. Width - 1 \in Nat
    BY WidthIsPositive
  <2>3. top \in m /\ \A b \in m : b <= top
    BY <1>3, <2>1, <2>2, GreatestExists
  <2> HIDE DEF top
  <2>4. top \in Nat /\ gap_bits(m) = top + 1 - n
    <3>1. top \in Nat
      BY <2>1, <2>3
    <3>2. gap_bits(m) = Width - n - (Width - 1 - top)
      BY <1>3 DEF gap_bits, countl_zero, top
    <3> HIDE DEF n
    <3>3. QED
      BY <1>1, <3>1, <3>2, WidthIsPositive
  <2>5. n <= top + 1
    <3>1. m \in SUBSET (0 .. top)
      BY <2>1, <2>3, <2>4
    <3>2. IsFiniteSet(0 .. top) /\ Cardinality(0 .. top) = top + 1
      BY <2>4, FS_Interval
    <3>3. QED
      BY <3>1, <3>2, FS_Subset
  <2>6. ASSUME NEW src \in m
        PROVE  gap_bits(m) + Cardinality({b \in m : b < src}) - src \in Nat
    <3> DEFINE Below == {b \in m : b < src}
               Above == {b \in m : b >= src}
               l == Cardinality(Below)
               h == Cardinality(Above)
    <3>1. src \in Nat /\ src <= top
      BY <2>1, <2>3
    <3>2. IsFiniteSet(Below) /\ IsFiniteSet(Above) /\ l \in Nat /\ h \in Nat
      <4>1. Below \in SUBSET m /\ Above \in SUBSET m
        OBVIOUS
      <4>2. QED
        BY <1>1, <4>1, FS_Subset, FS_CardinalityType
    <3>3. n = l + h
      <4>1. m = Below \cup Above /\ Below \cap Above = {}
        <5>1. \A b \in m : (b < src \/ b >= src) /\ ~(b < src /\ b >= src)
          BY <2>1, <3>1
        <5>2. QED
          BY <5>1
      <4> HIDE DEF Below, Above
      <4>2. Cardinality(Below \cup Above) = l + h - Cardinality(Below \cap Above)
        BY <3>2, FS_Union
      <4>3. Cardinality(Below \cap Above) = 0
        BY <4>1, FS_EmptySet
      <4>4. QED
        BY <3>2, <4>1, <4>2, <4>3
    <3>4. h <= top - src + 1
      <4>1. Above \in SUBSET (src .. top)
        <5>1. \A b \in m : b >= src => b \in src .. top
          BY <2>1, <2>3, <2>4, <3>1
        <5>2. QED
          BY <5>1
      <4>2. IsFiniteSet(src .. top) /\ Cardinality(src .. top) = top - src + 1
        BY <2>4, <3>1, FS_Interval
      <4>3. QED
        BY <4>1, <4>2, FS_Subset
    <3> HIDE DEF l, h, n
    <3>5. top + 1 - n + l - src \in Nat
      BY <1>1, <2>4, <3>1, <3>2, <3>3, <3>4
    <3>6. QED
      BY <2>4, <3>5 DEF l
  <2> HIDE DEF n
  <2>7. gap_bits(m) \in Nat
    BY <1>1, <2>4, <2>5
  <2>8. QED
    BY <1>1, <2>6, <2>7 DEF n
<1>4. QED
  BY <1>2, <1>3

StretchesOf(m) == {src \in m : src - 1 \notin m}

Shifts(m) == [src \in StretchesOf(m) |-> 2 ^ (gap_bits(m) + Cardinality({b \in m : b < src}) - src)]

LEMMA ShiftsType ==
  ASSUME NEW m \in RawKeys
  PROVE  IsFiniteSet(StretchesOf(m)) /\ Shifts(m) \in [StretchesOf(m) -> Nat]
<1>1. StretchesOf(m) \in SUBSET m
  BY DEF StretchesOf
<1>2. IsFiniteSet(StretchesOf(m))
  BY <1>1, GapsOf, FS_Subset
<1>3. \A src \in m : 2 ^ (gap_bits(m) + Cardinality({b \in m : b < src}) - src) \in Nat
  <2>1. ASSUME NEW src \in m
        PROVE  2 ^ (gap_bits(m) + Cardinality({b \in m : b < src}) - src) \in Nat
    <3> DEFINE e == gap_bits(m) + Cardinality({b \in m : b < src}) - src
    <3>1. e \in Nat
      BY GapsOf
    <3> HIDE DEF e
    <3>2. 2 ^ e \in Nat
      BY <3>1, TwoToThe
    <3>3. QED
      BY <3>2 DEF e
  <2>2. QED
    BY <2>1
<1>4. QED
  BY <1>1, <1>2, <1>3 DEF Shifts

LEMMA CoefficientIs ==
  ASSUME NEW m \in RawKeys, NEW f, Sums(f, StretchesOf(m), Shifts(m))
  PROVE  compute_pack_coefficient(m) = f[StretchesOf(m)]
<1> DEFINE S == StretchesOf(m)
           power(x) == 2 ^ (gap_bits(m) + Cardinality({b \in m : b < x}) - x)
           added == CHOOSE h : h = [s \in SUBSET S |-> IF s = {} THEN 0
                      ELSE power(CHOOSE x \in s : TRUE) + h[s \ {CHOOSE x \in s : TRUE}]]
<1>1. ASSUME NEW h
      PROVE  [s \in SUBSET S |-> IF s = {} THEN 0 ELSE Shifts(m)[pick(s)] + h[s \ {pick(s)}]]
             = [s \in SUBSET S |-> IF s = {} THEN 0
                  ELSE power(CHOOSE x \in s : TRUE) + h[s \ {CHOOSE x \in s : TRUE}]]
  <2>1. ASSUME NEW s \in SUBSET S, s # {}
        PROVE  Shifts(m)[pick(s)] = power(CHOOSE x \in s : TRUE) /\ pick(s) = CHOOSE x \in s : TRUE
    <3>1. pick(s) \in S
      BY <2>1, PickIs
    <3>2. Shifts(m)[pick(s)] = power(pick(s))
      BY <3>1 DEF Shifts
    <3>3. QED
      BY <3>2 DEF pick
  <2> HIDE DEF S, power
  <2>2. QED
    BY <2>1
<1>2. f = [s \in SUBSET S |-> IF s = {} THEN 0
             ELSE power(CHOOSE x \in s : TRUE) + f[s \ {CHOOSE x \in s : TRUE}]]
  BY <1>1 DEF Sums
<1>3. compute_pack_coefficient(m) = added[S]
  BY DEF compute_pack_coefficient, MapThenSumSet, MapThenFoldSet, StretchesOf
<1> HIDE DEF power
<1>4. added = [s \in SUBSET S |-> IF s = {} THEN 0
                 ELSE power(CHOOSE x \in s : TRUE) + added[s \ {CHOOSE x \in s : TRUE}]]
  BY <1>2
<1> HIDE DEF added
<1>5. Sums(added, S, Shifts(m))
  BY <1>1, <1>4 DEF Sums
<1>6. added = f
  BY <1>5, ShiftsType, SumsUnique
<1>7. QED
  BY <1>3, <1>6

LEMMA CoefficientType == \A m \in RawKeys : compute_pack_coefficient(m) \in Nat
<1> SUFFICES ASSUME NEW m \in RawKeys PROVE compute_pack_coefficient(m) \in Nat
  OBVIOUS
<1>1. PICK f \in [SUBSET StretchesOf(m) -> Nat] : Sums(f, StretchesOf(m), Shifts(m))
  BY ShiftsType, SumsExist
<1>2. compute_pack_coefficient(m) = f[StretchesOf(m)]
  BY <1>1, CoefficientIs
<1>3. QED
  BY <1>1, <1>2

(* pseudo_pext_lookup: whatever the mask and however the carries of the     *)
(* multiplication disturb the packed bits, the hash has as many bits as     *)
(* the mask: it indexes a table of that size.                               *)
THEOREM HashInRange == \A m, k \in RawKeys : pseudo_pext(m, k) \in HashesOf(m)
<1> SUFFICES ASSUME NEW m \in RawKeys, NEW k \in RawKeys PROVE pseudo_pext(m, k) \in HashesOf(m)
  OBVIOUS
<1> DEFINE packed == as_number(k \cap m) * compute_pack_coefficient(m)
           below == 2 ^ gap_bits(m)
           size == 2 ^ Cardinality(m)
<1>1. k \cap m \in RawKeys
  BY DEF RawKeys
<1>2. as_number(k \cap m) \in Nat /\ compute_pack_coefficient(m) \in Nat
  BY <1>1, NumberTakes, CoefficientType
<1>3. packed \in Nat
  <2> DEFINE a == as_number(k \cap m)
             c == compute_pack_coefficient(m)
  <2>1. a \in Nat /\ c \in Nat
    BY <1>2
  <2> HIDE DEF a, c
  <2>2. a * c \in Nat
    BY <2>1
  <2>3. QED
    BY <2>2 DEF a, c
<1>4. below \in Nat \ {0} /\ size \in Nat \ {0}
  BY GapsOf, TwoToThe
<1>5. pseudo_pext(m, k) = (packed \div below) % size
  BY DEF pseudo_pext
<1> HIDE DEF packed, below, size
<1>6. packed \div below \in Nat
  BY <1>3, <1>4
<1>7. (packed \div below) % size \in 0 .. size - 1
  BY <1>4, <1>6
<1>8. QED
  BY <1>5, <1>7 DEF HashesOf, size

(* calc_pseudo_pext_mask starts from the mask with all bits: with it the    *)
(* hash is the key, so that no two keys share a hash.                       *)
THEOREM FullMaskIsKey == \A k \in RawKeys : pseudo_pext(Bits, k) = as_number(k)
<1>1. /\ Bits \in RawKeys /\ 0 \in Bits /\ \A b \in Bits : b \in 0 .. Width - 1
      /\ Cardinality(Bits) = Width /\ Width \in Nat \ {0}
  <2>1. Width \in Nat \ {0} /\ Cardinality(0 .. Width - 1) = Width
    BY WidthIsPositive, FS_Interval
  <2>2. QED
    BY <2>1 DEF RawKeys, Bits
<1>2. Max(Bits) = Width - 1
  <2> DEFINE top == Max(Bits)
  <2>1. Bits \in SUBSET Nat /\ Width - 1 \in Nat /\ Width - 1 \in Bits /\ \A b \in Bits : b <= Width - 1
    BY <1>1 DEF Bits
  <2>2. top \in Bits /\ \A b \in Bits : b <= top
    BY <1>1, <2>1, GreatestExists
  <2> HIDE DEF top
  <2>3. top = Width - 1
    BY <2>1, <2>2
  <2>4. QED
    BY <2>3 DEF top
<1>3. gap_bits(Bits) = 0
  <2>1. countl_zero(Bits) = Width - 1 - (Width - 1)
    BY <1>1, <1>2 DEF countl_zero
  <2>2. gap_bits(Bits) = Width - Width - (Width - 1 - (Width - 1))
    BY <1>1, <2>1 DEF gap_bits
  <2>3. QED
    BY <1>1, <2>2
<1>4. StretchesOf(Bits) = {0}
  BY <1>1 DEF StretchesOf, Bits
<1>5. Shifts(Bits)[0] = 1
  <2>1. {b \in Bits : b < 0} = {}
    BY <1>1
  <2>2. Cardinality({b \in Bits : b < 0}) = 0
    BY <2>1, FS_EmptySet
  <2>3. Shifts(Bits)[0] = 2 ^ (gap_bits(Bits) + Cardinality({b \in Bits : b < 0}) - 0)
    BY <1>4 DEF Shifts
  <2>4. Shifts(Bits)[0] = 2 ^ 0
    BY <1>3, <2>2, <2>3
  <2>5. QED
    BY <2>4, TwoToThe
<1>6. compute_pack_coefficient(Bits) = 1
  <2> DEFINE S == StretchesOf(Bits)
             w == Shifts(Bits)
  <2>1. IsFiniteSet(S) /\ w \in [S -> Nat] /\ S = {0} /\ w[0] = 1
    BY <1>1, <1>4, <1>5, ShiftsType
  <2>2. \A f : Sums(f, S, w) => compute_pack_coefficient(Bits) = f[S]
    BY <1>1, CoefficientIs
  <2> HIDE DEF S, w
  <2>3. PICK f \in [SUBSET S -> Nat] : Sums(f, S, w)
    BY <2>1, SumsExist
  <2>4. f[{}] = 0 /\ \A s \in SUBSET S : \A x \in s : f[s] = w[x] + f[s \ {x}]
    <3>1. IsFiniteSet(S) /\ w \in [S -> Nat]
      BY <2>1
    <3>2. QED
      BY <3>1, <2>3, SumsTake
  <2>5. S \in SUBSET S /\ 0 \in S /\ S \ {0} = {}
    BY <2>1
  <2>6. f[S] = 1
    BY <2>1, <2>4, <2>5
  <2>7. QED
    BY <2>2, <2>3, <2>6
<1> SUFFICES ASSUME NEW k \in RawKeys PROVE pseudo_pext(Bits, k) = as_number(k)
  OBVIOUS
<1> DEFINE a == as_number(k)
           size == 2 ^ Width
<1>7. a \in 0 .. size - 1 /\ size \in Nat \ {0}
  <2>1. k \in SUBSET (0 .. Width - 1) /\ Width \in 0 .. Width
    BY <1>1 DEF RawKeys, Bits
  <2>2. QED
    BY <1>1, <2>1, NumbersFit, TwoToThe
<1>8. k \cap Bits = k
  BY DEF RawKeys
<1>9. pseudo_pext(Bits, k) = ((a * 1) \div 1) % size
  BY <1>1, <1>3, <1>6, <1>8, TwoToThe DEF pseudo_pext
<1> HIDE DEF a, size
<1>10. ((a * 1) \div 1) % size = a
  BY <1>7
<1>11. QED
  BY <1>9, <1>10 DEF a

LEMMA FullMaskIsUnique == \A K \in SUBSET RawKeys : keys_are_unique(Bits, K)
<1> SUFFICES ASSUME NEW k \in RawKeys, NEW l \in RawKeys,
                    pseudo_pext(Bits, k) = pseudo_pext(Bits, l)
             PROVE  k = l
  BY DEF keys_are_unique
<1>1. as_number(k) = as_number(l)
  BY FullMaskIsKey
<1>2. k \in SUBSET (0 .. Width - 1) /\ l \in SUBSET (0 .. Width - 1) /\ Width \in 0 .. Width
  BY WidthIsPositive DEF RawKeys, Bits
<1>3. QED
  BY <1>1, <1>2, NumbersFit

----------------------------------------------------------------------------
(* Buckets. *)

LEMMA BucketsAreFinite ==
  ASSUME NEW m, NEW K \in SUBSET RawKeys, IsFiniteSet(K), NEW k \in K
  PROVE  /\ Bucket(m, K, k) \in SUBSET K
         /\ IsFiniteSet(Bucket(m, K, k))
         /\ Cardinality(Bucket(m, K, k)) \in Nat \ {0}
         /\ Cardinality(Bucket(m, K, k)) <= Cardinality(K)
         /\ k \in Bucket(m, K, k)
<1>1. Bucket(m, K, k) \in SUBSET K /\ k \in Bucket(m, K, k)
  BY DEF Bucket
<1> HIDE DEF Bucket
<1>2. IsFiniteSet(Bucket(m, K, k)) /\ Cardinality(Bucket(m, K, k)) <= Cardinality(K)
  BY <1>1, FS_Subset
<1>3. Cardinality(Bucket(m, K, k)) \in Nat /\ Cardinality(Bucket(m, K, k)) # 0
  BY <1>1, <1>2, FS_CardinalityType, FS_EmptySet
<1>4. QED
  BY <1>1, <1>2, <1>3

\* run goes with the hash of a mask: it is one less than the largest bucket.
RunFits(m, K, run) ==
  /\ run \in Nat
  /\ \A k \in K : Cardinality(Bucket(m, K, k)) <= run + 1
  /\ K # {} => \E k \in K : Cardinality(Bucket(m, K, k)) = run + 1

LEMMA CountedRunFits ==
  ASSUME NEW m, NEW K \in SUBSET RawKeys, IsFiniteSet(K)
  PROVE  RunFits(m, K, count_longest_run(m, K))
<1>1. CASE K = {}
  BY <1>1 DEF RunFits, count_longest_run
<1>2. CASE K # {}
  <2> DEFINE Sizes == {Cardinality(Bucket(m, K, k)) : k \in K}
  <2>1. \A k \in K : Cardinality(Bucket(m, K, k)) \in Nat \ {0} /\ Cardinality(Bucket(m, K, k)) <= Cardinality(K)
    BY BucketsAreFinite
  <2>2. Sizes \in SUBSET Nat /\ Sizes # {} /\ Cardinality(K) \in Nat /\ \A n \in Sizes : n <= Cardinality(K)
    BY <1>2, <2>1, FS_CardinalityType
  <2>3. Max(Sizes) \in Sizes /\ \A n \in Sizes : n <= Max(Sizes)
    <3> HIDE DEF Sizes
    <3> QED BY <2>2, GreatestExists
  <2>4. count_longest_run(m, K) = Max(Sizes) - 1
    BY <1>2 DEF count_longest_run
  <2>5. /\ \A k \in K : Cardinality(Bucket(m, K, k)) <= Max(Sizes)
        /\ \E k \in K : Cardinality(Bucket(m, K, k)) = Max(Sizes)
        /\ Max(Sizes) \in Nat \ {0}
    <3> DEFINE top == Max(Sizes)
    <3>1. top \in Sizes /\ \A n \in Sizes : n <= top
      BY <2>3
    <3> HIDE DEF top
    <3>2. PICK k \in K : Cardinality(Bucket(m, K, k)) = top
      BY <3>1
    <3>3. QED
      BY <2>1, <3>1, <3>2 DEF top
  <2> HIDE DEF Sizes
  <2>6. QED
    BY <2>4, <2>5 DEF RunFits
<1>3. QED
  BY <1>1, <1>2

LEMMA UniqueRunFits ==
  ASSUME NEW m, NEW K \in SUBSET RawKeys, keys_are_unique(m, K)
  PROVE  RunFits(m, K, 0)
<1>1. \A k \in K : Bucket(m, K, k) = {k}
  BY DEF Bucket, keys_are_unique
<1>2. \A k \in K : Cardinality(Bucket(m, K, k)) = 1
  BY <1>1, FS_Singleton
<1>3. QED
  BY <1>2 DEF RunFits
----------------------------------------------------------------------------
(* The order of the storage, of which only the hashes count. *)

LEMMA RotatedIndex ==
  ASSUME NEW S \in Nat \ {0}, NEW e \in 1 .. S, NEW n \in 1 .. S
  PROVE  ((n + e - 1) % S) + 1 = IF n + e <= S THEN n + e ELSE n + e - S
<1>1. CASE n + e <= S
  <2>1. n + e - 1 \in 0 .. S - 1
    BY <1>1
  <2>2. (n + e - 1) % S = n + e - 1
    BY <2>1
  <2>3. QED
    BY <1>1, <2>2
<1>2. CASE n + e > S
  <2>1. n + e - 1 - S \in 0 .. S - 1
    BY <1>2
  <2>2. (n + e - 1) % S = n + e - 1 - S
    BY <2>1
  <2>3. QED
    BY <1>2, <2>2
<1>3. QED
  BY <1>1, <1>2

LEMMA RotatedOnce ==
  ASSUME NEW S \in Nat \ {0}, NEW e \in 1 .. S, NEW m \in 1 .. S, NEW n \in 1 .. S,
         ((m + e - 1) % S) + 1 = ((n + e - 1) % S) + 1
  PROVE  m = n
<1>1. (IF m + e <= S THEN m + e ELSE m + e - S) = (IF n + e <= S THEN n + e ELSE n + e - S)
  BY RotatedIndex
<1>2. QED
  BY <1>1

ContiguousTo(S, g) ==
  \A m, n \in 1 .. S : g[m] = g[n] => \A j \in m .. n : g[j] = g[m]

LEMMA Between ==
  ASSUME NEW a \in Int, NEW b \in Int, NEW c \in Int, NEW d \in Int, a <= b, b <= c, c # b, c <= d
  PROVE  d > a
OBVIOUS

NonDecreasing(S, g) == \A m, n \in 1 .. S : m <= n => g[m] <= g[n]
IsRotation(S, g, gr, e) == \A n \in 1 .. S : gr[n] = g[((n + e - 1) % S) + 1]

EndsAlike(S, len, g) == \A j \in S - len .. S : g[j] = g[S]

LEMMA RotationKeepsBuckets ==
  ASSUME NEW S \in Nat \ {0}, NEW g \in [1 .. S -> Int], NEW gr \in [1 .. S -> Int],
         NonDecreasing(S, g),
         NEW e \in 1 .. S, NEW len \in Nat,
         e - len >= 1, g[e - len] = g[e],
         e < S => g[e + 1] # g[e],
         IsRotation(S, g, gr, e)
  PROVE  ContiguousTo(S, gr) /\ EndsAlike(S, len, gr)
<1>1. /\ \A n \in 1 .. S : n + e <= S => gr[n] = g[n + e]
      /\ \A n \in 1 .. S : n + e > S => gr[n] = g[n + e - S]
  <2>1. ASSUME NEW n \in 1 .. S PROVE gr[n] = g[IF n + e <= S THEN n + e ELSE n + e - S]
    <3>1. gr[n] = g[((n + e - 1) % S) + 1]
      BY DEF IsRotation
    <3>2. QED
      BY <3>1, RotatedIndex
  <2>2. QED
    BY <2>1
<1>2. ASSUME NEW m \in 1 .. S, NEW n \in 1 .. S, m + e > S, n + e <= S PROVE gr[n] > gr[m]
  <2>1. e + 1 \in 1 .. S /\ e + 1 <= n + e /\ m + e - S \in 1 .. S /\ m + e - S <= e /\ n + e \in 1 .. S
    BY <1>2
  <2>2. g[n + e] \in Int /\ g[e] \in Int /\ g[e + 1] \in Int /\ g[m + e - S] \in Int
    BY <2>1
  <2>3. g[e + 1] <= g[n + e]
    BY <2>1 DEF NonDecreasing
  <2>4. g[m + e - S] <= g[e] /\ g[e] <= g[e + 1]
    BY <2>1 DEF NonDecreasing
  <2>5. gr[n] = g[n + e] /\ gr[m] = g[m + e - S]
    BY <1>1, <1>2
  <2>6. g[e + 1] # g[e]
    BY <2>1
  <2>7. g[n + e] > g[m + e - S]
    BY <2>2, <2>3, <2>4, <2>6, Between
  <2>8. QED
    BY <2>5, <2>7
<1>3. ASSUME NEW m \in 1 .. S, NEW n \in 1 .. S, gr[m] = gr[n], NEW j \in m .. n PROVE gr[j] = gr[m]
  <2>1. j \in 1 .. S /\ m <= j /\ j <= n
    OBVIOUS
  <2>2. CASE n + e <= S
    <3>1. m + e \in 1 .. S /\ j + e \in 1 .. S /\ n + e \in 1 .. S
      BY <2>1, <2>2
    <3>2. gr[m] = g[m + e] /\ gr[j] = g[j + e] /\ gr[n] = g[n + e]
      BY <1>1, <2>1, <2>2
    <3>3. g[m + e] <= g[j + e] /\ g[j + e] <= g[n + e]
      BY <2>1, <3>1 DEF NonDecreasing
    <3>4. g[m + e] \in Int /\ g[j + e] \in Int /\ g[n + e] \in Int
      BY <3>1
    <3>5. g[m + e] = g[n + e]
      BY <1>3, <3>2
    <3>6. g[j + e] = g[m + e]
      BY <3>3, <3>4, <3>5
    <3>7. QED
      BY <3>2, <3>6
  <2>3. CASE m + e > S
    <3>1. m + e - S \in 1 .. S /\ j + e - S \in 1 .. S /\ n + e - S \in 1 .. S
      BY <2>1, <2>3
    <3>2. gr[m] = g[m + e - S] /\ gr[j] = g[j + e - S] /\ gr[n] = g[n + e - S]
      BY <1>1, <2>1, <2>3
    <3>3. g[m + e - S] <= g[j + e - S] /\ g[j + e - S] <= g[n + e - S]
      BY <2>1, <3>1 DEF NonDecreasing
    <3>4. g[m + e - S] \in Int /\ g[j + e - S] \in Int /\ g[n + e - S] \in Int
      BY <3>1
    <3>5. g[m + e - S] = g[n + e - S]
      BY <1>3, <3>2
    <3>6. g[j + e - S] = g[m + e - S]
      BY <3>3, <3>4, <3>5
    <3>7. QED
      BY <3>2, <3>6
  <2>4. CASE m + e <= S /\ n + e > S
    <3>1. gr[n] \in Int /\ gr[m] \in Int
      OBVIOUS
    <3>2. QED
      BY <1>2, <1>3, <2>4, <3>1
  <2>5. QED
    BY <2>1, <2>2, <2>3, <2>4
<1>4. ASSUME NEW j \in S - len .. S PROVE gr[j] = gr[S]
  <2>1. j \in 1 .. S /\ j + e > S /\ j + e - S \in 1 .. S /\ e - len <= j + e - S /\ j + e - S <= e /\ e - len \in 1 .. S
    OBVIOUS
  <2>2. gr[j] = g[j + e - S] /\ gr[S] = g[e]
    BY <1>1, <2>1
  <2>3. g[e - len] <= g[j + e - S] /\ g[j + e - S] <= g[e]
    BY <2>1 DEF NonDecreasing
  <2>4. g[e - len] \in Int /\ g[j + e - S] \in Int /\ g[e] \in Int
    BY <2>1
  <2>5. QED
    BY <2>2, <2>3, <2>4
<1>5. QED
  BY <1>3, <1>4 DEF ContiguousTo, EndsAlike
----------------------------------------------------------------------------
(* Keys in a storage that has each of them once. *)

SameHashes(m, keys, a, b) ==
  \A j \in a .. b : pseudo_pext(m, keys[j]) = pseudo_pext(m, keys[a])

LEMMA SameHashesFit ==
  ASSUME NEW m, NEW K \in SUBSET RawKeys, IsFiniteSet(K), NEW run, RunFits(m, K, run),
         NEW S \in Nat, NEW keys \in Injection(1 .. S, K),
         NEW a \in 1 .. S, NEW b \in 1 .. S, a <= b,
         SameHashes(m, keys, a, b)
  PROVE  b - a <= run
<1> DEFINE B == Bucket(m, K, keys[a])
           f == [j \in a .. b |-> keys[j]]
<1>0. keys \in [1 .. S -> K] /\ \A x, y \in 1 .. S : keys[x] = keys[y] => x = y
  BY DEF Injection, IsInjective
<1>1. \A j \in a .. b : j \in 1 .. S /\ keys[j] \in K
  BY <1>0
<1>2. \A j \in a .. b : keys[j] \in B
  BY <1>1 DEF Bucket, SameHashes
<1>3. f \in Injection(a .. b, B)
  BY <1>0, <1>1, <1>2 DEF Injection, IsInjective
<1>4. IsFiniteSet(B) /\ Cardinality(B) \in Nat
  BY <1>0, BucketsAreFinite
<1>5. Cardinality(a .. b) <= Cardinality(B)
  <2> HIDE DEF B, f
  <2> QED BY <1>3, <1>4, FS_Injection
<1>6. Cardinality(B) <= run + 1 /\ run \in Nat
  BY <1>1 DEF RunFits
<1>7. Cardinality(a .. b) = b - a + 1
  BY FS_Interval
<1>8. QED
  BY <1>4, <1>5, <1>6, <1>7

SortedBy(m, S, keys) ==
  \A x, y \in 1 .. S : x <= y => pseudo_pext(m, keys[x]) <= pseudo_pext(m, keys[y])

LEMMA LongestBucket ==
  ASSUME NEW m \in RawKeys, NEW K \in SUBSET RawKeys, IsFiniteSet(K), NEW run, RunFits(m, K, run),
         NEW S \in Nat \ {0}, NEW keys \in Injection(1 .. S, K),
         keys \in Surjection(1 .. S, K), SortedBy(m, S, keys)
  PROVE  \E a, b \in 1 .. S :
           /\ b - a = run
           /\ pseudo_pext(m, keys[a]) = pseudo_pext(m, keys[b])
           /\ b < S => pseudo_pext(m, keys[b + 1]) # pseudo_pext(m, keys[b])
<1>0. /\ keys \in [1 .. S -> K]
      /\ \A k \in K : \E x \in 1 .. S : keys[x] = k
      /\ \A x, y \in 1 .. S : x <= y => pseudo_pext(m, keys[x]) <= pseudo_pext(m, keys[y])
  BY DEF Injection, Surjection, SortedBy
<1>1. PICK k \in K : Cardinality(Bucket(m, K, k)) = run + 1
  <2>1. 1 \in 1 .. S /\ K # {}
    BY <1>0
  <2>2. QED
    BY <2>1 DEF RunFits
<1> DEFINE h == pseudo_pext(m, k)
           P == {x \in 1 .. S : pseudo_pext(m, keys[x]) = h}
           a == Min(P)
           b == Max(P)
<1>2. P \in SUBSET Nat /\ P # {} /\ \A x \in P : x <= S
  BY <1>0, <1>1
<1>3. a \in P /\ b \in P /\ \A x \in P : a <= x /\ x <= b
  <2> HIDE DEF P
  <2>1. Min(P) \in P /\ \A x \in P : Min(P) <= x
    BY <1>2, LeastExists
  <2>2. Max(P) \in P /\ \A x \in P : x <= Max(P)
    BY <1>2, GreatestExists
  <2>3. QED
    BY <2>1, <2>2
<1> HIDE DEF a, b
<1>4. a \in 1 .. S /\ b \in 1 .. S /\ a <= b /\ pseudo_pext(m, keys[a]) = h /\ pseudo_pext(m, keys[b]) = h
  BY <1>3
<1>5. \A x \in 1 .. S : pseudo_pext(m, keys[x]) \in Int
  BY <1>0, HashInRange DEF HashesOf
<1>6. \A j \in a .. b : pseudo_pext(m, keys[j]) = pseudo_pext(m, keys[a])
  <2> SUFFICES ASSUME NEW j \in a .. b PROVE pseudo_pext(m, keys[j]) = pseudo_pext(m, keys[a])
    OBVIOUS
  <2>1. j \in 1 .. S /\ a <= j /\ j <= b
    BY <1>4
  <2>2. pseudo_pext(m, keys[a]) <= pseudo_pext(m, keys[j]) /\ pseudo_pext(m, keys[j]) <= pseudo_pext(m, keys[b])
    BY <1>0, <1>4, <2>1
  <2>3. QED
    BY <1>4, <1>5, <2>1, <2>2
<1>7. b - a <= run
  BY <1>4, <1>6, SameHashesFit DEF SameHashes
<1>8. run <= b - a
  <2> DEFINE B == Bucket(m, K, k)
             f == [j \in a .. b |-> keys[j]]
  <2>1. \A j \in a .. b : j \in 1 .. S /\ keys[j] \in B
    BY <1>0, <1>4, <1>6 DEF Bucket
  <2>2. \A l \in B : \E j \in a .. b : keys[j] = l
    <3> SUFFICES ASSUME NEW l \in B PROVE \E j \in a .. b : keys[j] = l
      OBVIOUS
    <3>1. l \in K /\ pseudo_pext(m, l) = h
      BY DEF Bucket
    <3>2. PICK x \in 1 .. S : keys[x] = l
      BY <1>0, <3>1
    <3>3. x \in a .. b
      BY <1>3, <1>4, <3>1, <3>2
    <3>4. QED
      BY <3>2, <3>3
  <2>3. f \in Surjection(a .. b, B)
    <3> HIDE DEF B
    <3> QED BY <2>1, <2>2 DEF Surjection
  <2>4. IsFiniteSet(a .. b) /\ Cardinality(a .. b) = b - a + 1
    BY <1>4, FS_Interval
  <2>5. Cardinality(B) <= Cardinality(a .. b)
    <3> HIDE DEF B, f
    <3> QED BY <2>3, <2>4, FS_Surjection
  <2>6. run \in Nat
    BY DEF RunFits
  <2>7. QED
    BY <1>1, <1>4, <2>4, <2>5, <2>6
<1>9. b < S => pseudo_pext(m, keys[b + 1]) # pseudo_pext(m, keys[b])
  <2> SUFFICES ASSUME b < S PROVE pseudo_pext(m, keys[b + 1]) # h
    BY <1>4
  <2>1. b + 1 \in 1 .. S /\ b + 1 \notin P
    BY <1>3, <1>4
  <2>2. QED
    BY <2>1
<1>10. b - a = run
  <2>1. run \in Nat
    BY DEF RunFits
  <2>2. QED
    BY <1>4, <1>7, <1>8, <2>1
<1>11. QED
  BY <1>4, <1>9, <1>10

\* As many keys as there are, each of them once, are all of them.
LEMMA NoKeyIsLeft ==
  ASSUME NEW S \in Nat, NEW K,
         NEW entry_keys \in Surjection(1 .. S, K), NEW keys \in Injection(1 .. S, K)
  PROVE  keys \in Surjection(1 .. S, K)
<1>1. IsFiniteSet(1 .. S) /\ Cardinality(1 .. S) = S
  BY FS_Interval
<1>2. IsFiniteSet(K) /\ Cardinality(K) <= S
  BY <1>1, FS_Surjection
<1>3. S <= Cardinality(K) /\ (S = Cardinality(K) => keys \in Surjection(1 .. S, K))
  BY <1>1, <1>2, FS_Injection
<1>4. QED
  BY <1>2, <1>3, FS_CardinalityType

----------------------------------------------------------------------------
(* The inputs that are taken, and the map that they stand for. *)

LEMMA TakenInput ==
  ASSUME NEW i \in Inputs, Takes(i)
  PROVE  /\ Len(i.entries) \in Nat
         /\ DOMAIN i.entries = 1 .. Len(i.entries)
         /\ \A n \in 1 .. Len(i.entries) : i.entries[n] \in Entry /\ i.entries[n].key \in RawKeys
         /\ KeysOf(i.entries) \in SUBSET RawKeys /\ IsFiniteSet(KeysOf(i.entries))
         /\ make(i).kind \in {"linear", "pext"}
         /\ make(i).kind = "pext" =>
              /\ make(i).indirect \in BOOLEAN
              /\ make(i).max_search_len \in Nat \ {0}
              /\ make(i).indirect \/ make(i).max_search_len = 1
              /\ \A m, n \in 1 .. Len(i.entries) : i.entries[m].key = i.entries[n].key => m = n
<1>1. /\ i.entries \in Seq(Entry) /\ Len(i.entries) \in Nat /\ DOMAIN i.entries = 1 .. Len(i.entries)
      /\ \A n \in 1 .. Len(i.entries) : i.entries[n] \in Entry
  BY LookupTypes
<1>2. \A n \in 1 .. Len(i.entries) : i.entries[n].key \in RawKeys
  BY <1>1 DEF Entry
<1>3. KeysOf(i.entries) \in SUBSET RawKeys /\ IsFiniteSet(KeysOf(i.entries))
  <2> DEFINE f == [n \in 1 .. Len(i.entries) |-> i.entries[n].key]
  <2>1. KeysOf(i.entries) \in SUBSET RawKeys
    BY <1>1, <1>2 DEF KeysOf
  <2>2. f \in Surjection(1 .. Len(i.entries), KeysOf(i.entries))
    BY <1>1 DEF KeysOf, Surjection
  <2>3. IsFiniteSet(1 .. Len(i.entries))
    BY <1>1, FS_Interval
  <2> HIDE DEF f
  <2>4. QED
    BY <2>1, <2>2, <2>3, FS_Surjection
<1>4. make(i) \in Strategy
  <2> DEFINE Fit == {n \in DOMAIN i.strategies : ~strategy_failed(i.strategies[n], i)}
  <2>1. i.strategies \in Seq(Strategy) /\ DOMAIN i.strategies = 1 .. Len(i.strategies)
    BY LookupTypes
  <2>2. Fit \in SUBSET Nat /\ Fit # {}
    BY <2>1 DEF Takes
  <2>3. Min(Fit) \in Fit
    <3> HIDE DEF Fit
    <3> QED BY <2>2, LeastExists
  <2>4. i.strategies[Min(Fit)] \in Strategy
    <3>1. Min(Fit) \in 1 .. Len(i.strategies)
      BY <2>1, <2>3
    <3>2. \A n \in 1 .. Len(i.strategies) : i.strategies[n] \in Strategy
      BY <2>1
    <3> HIDE DEF Fit
    <3>3. QED
      BY <3>1, <3>2
  <2>5. QED
    BY <2>4 DEF make
<1>5. QED
  BY <1>1, <1>2, <1>3, <1>4 DEF Takes, Strategy

LEMMA MapFound ==
  ASSUME Size \in Nat, NEW k, NEW n \in 1 .. Size, input.entries[n].key = k,
         \A m \in 1 .. Size : input.entries[m].key = k => m <= n
  PROVE  AsMap(k) = input.entries[n].value
<1> DEFINE with_key == {m \in 1 .. Size : input.entries[m].key = k}
<1>1. with_key \in SUBSET Nat /\ with_key # {} /\ n \in with_key /\ \A m \in with_key : m <= n
  OBVIOUS
<1>2. Max(with_key) \in with_key /\ \A m \in with_key : m <= Max(with_key)
  <2> HIDE DEF with_key
  <2> QED BY <1>1, GreatestExists
<1>3. Max(with_key) = n
  <2> DEFINE top == Max(with_key)
  <2> HIDE DEF top
  <2>1. top \in with_key /\ n <= top
    BY <1>1, <1>2 DEF top
  <2>2. top \in Nat /\ n \in Nat /\ top <= n
    BY <1>1, <2>1
  <2>3. QED
    BY <2>1, <2>2 DEF top
<1>4. QED
  BY <1>1, <1>3 DEF AsMap

LEMMA MapMissing ==
  ASSUME NEW k, \A m \in 1 .. Size : input.entries[m].key # k
  PROVE  AsMap(k) = input.default_value
BY DEF AsMap

----------------------------------------------------------------------------
(* The inductive invariant. *)

Indexed == strategy.kind = "pext" /\ strategy.indirect /\ Size > 0
Slotted == strategy.kind = "pext" /\ ~strategy.indirect /\ Size > 0
Built == stage \in {"ready", "search", "answered"}

(* The mask that is used so far, and the longest run that goes with it. *)
MaskInv ==
  /\ input \in Inputs /\ Takes(input)
  /\ stage \in Stages
  /\ mask \in RawKeys
  /\ RunFits(mask, Keys, longest_run)
  /\ stage = "mask" \/ Slotted => keys_are_unique(mask, Keys)
  /\ stage = "mask" => longest_run = 0
  /\ ~Built => strategy.kind = "pext"
  /\ stage \in {"sort", "rotate", "fill"} => Indexed
  /\ stage = "direct" => Slotted

Stored ==
  /\ storage \in Seq(Entry)
  /\ \A x \in 1 .. Len(storage) : \E n \in 1 .. Size : storage[x] = input.entries[n]
  /\ \A x, y \in 1 .. Len(storage) : storage[x].key = storage[y].key => x = y

InOrder ==
  /\ \A x, y \in 1 .. Len(storage) : x <= y => HashAt(x) <= HashAt(y)
  /\ \A x \in 1 .. Len(storage) : \A n \in Unplaced : HashAt(x) <= hash(input.entries[n].key)

(* Rotated: the entries of one hash lie together, and the largest bucket is *)
(* the last, so that a search that starts at the first entry of any bucket  *)
(* ends within the storage.                                                 *)
TableArranged ==
  /\ Stored /\ Len(storage) = Size
  /\ \A m, n \in 1 .. Size : HashAt(m) = HashAt(n) => \A j \in m .. n : HashAt(j) = HashAt(m)
  /\ Size - longest_run >= 1
  /\ \A j \in Size - longest_run .. Size : HashAt(j) = HashAt(Size)

(* The table has the first of the entries from first on that have a hash.  *)
FilledFrom(first) ==
  /\ lookup_table \in [HashesOf(mask) -> 1 .. Size]
  /\ \A n \in first .. Size :
       /\ lookup_table[HashAt(n)] \in first .. n
       /\ HashAt(lookup_table[HashAt(n)]) = HashAt(n)
  /\ \A h \in HashesOf(mask) : (\A n \in first .. Size : HashAt(n) # h) => lookup_table[h] = 1

SlotsFilled(last) ==
  /\ DOMAIN slots = HashesOf(mask)
  /\ \A n \in 1 .. last : slots[hash(input.entries[n].key)] = input.entries[n]
  /\ \A h \in HashesOf(mask) :
       \/ slots[h] = [key |-> {}, value |-> input.default_value]
       \/ \E n \in 1 .. last : slots[h] = input.entries[n]

(* What has been built at each stage. *)
TableInv ==
  /\ stage \in {"mask", "cheapen"} => storage = <<>> /\ at = 1
  /\ stage = "sort" => Stored /\ InOrder /\ Len(storage) < Size
  /\ stage = "rotate" => Stored /\ InOrder /\ Len(storage) = Size
  /\ stage = "fill" => TableArranged /\ at \in 1 .. Size /\ FilledFrom(at + 1)
  /\ stage = "direct" => at \in 1 .. Size /\ SlotsFilled(at - 1)
  /\ Built /\ Indexed => TableArranged /\ FilledFrom(1)
  /\ Built /\ Slotted => SlotsFilled(Size)

(* The linear search has the last of the entries up to last that has the key. *)
Selected(last) ==
  \/ /\ answer = input.default_value
     /\ \A m \in 1 .. last : input.entries[m].key # key
  \/ \E n \in 1 .. last :
       /\ input.entries[n].key = key /\ answer = input.entries[n].value
       /\ \A m \in 1 .. last : input.entries[m].key = key => m <= n

(* How far a search has come. *)
SearchInv ==
  /\ stage = "search" => key \in RawKeys
  /\ stage = "search" /\ strategy.kind = "linear" => at \in 1 .. Size + 1 /\ Selected(at - 1)
  /\ stage = "search" /\ Indexed =>
       /\ searched \in 0 .. search_len
       /\ at = FirstIndex(key) + searched
       /\ \A x \in FirstIndex(key) .. at - 1 : storage[x].key # key
  /\ stage = "answered" => answer = AsMap(key)

IInv == MaskInv /\ TableInv /\ SearchInv

LEMMA InitIInv == Init => IInv
<1> SUFFICES ASSUME Init PROVE IInv
  OBVIOUS
<1>1. input \in Inputs /\ Takes(input) /\ mask = Bits /\ longest_run = 0 /\ at = 1 /\ storage = <<>>
  BY DEF Init
<1>2. Keys \in SUBSET RawKeys /\ strategy.kind \in {"linear", "pext"}
  BY <1>1, TakenInput DEF Keys, strategy
<1>3. keys_are_unique(mask, Keys)
  BY <1>1, <1>2, FullMaskIsUnique
<1>4. RunFits(mask, Keys, longest_run)
  BY <1>1, <1>2, <1>3, UniqueRunFits
<1>5. /\ stage \in {"ready", "mask"}
      /\ stage = "ready" <=> strategy.kind = "linear"
  BY DEF Init
<1>6. MaskInv
  BY <1>1, <1>2, <1>3, <1>4, <1>5 DEF MaskInv, Stages, Built, RawKeys
<1>7. TableInv
  BY <1>1, <1>5 DEF TableInv, Built, Indexed, Slotted
<1>8. SearchInv
  BY <1>5 DEF SearchInv
<1>9. QED
  BY <1>6, <1>7, <1>8 DEF IInv

----------------------------------------------------------------------------
(* The mask. *)

LEMMA Frame ==
  ASSUME IInv, [Next]_vars
  PROVE  /\ input' = input /\ Size' = Size /\ Keys' = Keys /\ strategy' = strategy
         /\ Indexed' = Indexed /\ Slotted' = Slotted
<1>1. input' = input
  BY DEF Next, DropBit, RemoveBit, KeepMask, PlaceEntry, Rotate, FillTable, FillSlot, Ask,
         SelectEntry, AnswerSelected, AnswerFromSlot, SearchEntry, AnswerDefault, Return, vars, built
<1>2. QED
  BY <1>1 DEF Size, Keys, strategy, Indexed, Slotted

LEMMA Given ==
  ASSUME IInv
  PROVE  /\ Size \in Nat
         /\ DOMAIN input.entries = 1 .. Size
         /\ \A n \in 1 .. Size : input.entries[n] \in Entry /\ input.entries[n].key \in RawKeys
         /\ Keys \in SUBSET RawKeys /\ IsFiniteSet(Keys)
         /\ strategy.kind \in {"linear", "pext"}
         /\ strategy.kind = "pext" =>
              /\ strategy.indirect \in BOOLEAN
              /\ strategy.max_search_len \in Nat \ {0}
              /\ strategy.indirect \/ strategy.max_search_len = 1
              /\ \A m, n \in 1 .. Size : input.entries[m].key = input.entries[n].key => m = n
<1>1. input \in Inputs /\ Takes(input)
  BY DEF IInv, MaskInv
<1>2. QED
  BY <1>1, TakenInput DEF Size, Keys, strategy

LEMMA MaskStep ==
  ASSUME IInv, [Next]_vars
  PROVE  MaskInv'
<1> USE Frame, Given
<1>1. MaskInv
  BY DEF IInv
<1>2. Takes(input)'
  BY <1>1 DEF MaskInv
<1>3. CASE DropBit
  <2>1. mask' \in RawKeys /\ keys_are_unique(mask', Keys) /\ longest_run' = 0
    BY <1>1, <1>3 DEF DropBit, MaskInv, RawKeys
  <2>2. RunFits(mask', Keys', longest_run')
    BY <2>1, UniqueRunFits
  <2>3. QED
    BY <1>1, <1>2, <1>3, <2>1, <2>2 DEF DropBit, MaskInv, Stages, Built
<1>4. strategy.kind = "pext" =>
        /\ AfterMask \in {"ready", "sort", "direct"}
        /\ AfterMask = "ready" <=> Size = 0
        /\ AfterMask = "sort" <=> Indexed
        /\ AfterMask = "direct" <=> Slotted
  BY DEF AfterMask, Indexed, Slotted
<1>5. CASE RemoveBit
  <2> DEFINE try_mask == remove_cheapest_bit(mask, Keys)
             run == count_longest_run(try_mask, Keys)
  <2>1. try_mask \in RawKeys
    BY <1>1 DEF MaskInv, RawKeys, remove_cheapest_bit
  <2>2. RunFits(try_mask, Keys, run)
    BY CountedRunFits
  <2>3. ~Slotted /\ strategy.kind = "pext" /\ stage = "cheapen"
    BY <1>1, <1>5 DEF RemoveBit, MaskInv, Slotted, Built
  <2>4. \/ mask' = try_mask /\ longest_run' = run /\ stage' = "cheapen"
        \/ mask' = mask /\ longest_run' = longest_run /\ stage' = AfterMask
    <3> HIDE DEF try_mask, run
    <3> QED BY <1>5 DEF RemoveBit, RunAfter, try_mask, run
  <2>5. mask' \in RawKeys /\ RunFits(mask', Keys', longest_run')
    <3> HIDE DEF try_mask, run
    <3> QED BY <1>1, <2>1, <2>2, <2>4 DEF MaskInv
  <2>6. QED
    <3> HIDE DEF try_mask, run
    <3> QED BY <1>1, <1>2, <1>4, <2>3, <2>4, <2>5 DEF MaskInv, Stages, Built
<1>6. CASE KeepMask
  <2>1. stage' = AfterMask /\ mask' = mask /\ longest_run' = longest_run /\ stage = "cheapen"
    BY <1>6 DEF KeepMask
  <2>2. QED
    BY <1>1, <1>2, <1>4, <2>1 DEF MaskInv, Stages, Built
<1>7. CASE /\ mask' = mask /\ longest_run' = longest_run
           /\ \/ /\ stage \in {"sort", "rotate", "fill"} /\ stage' \in {"sort", "rotate", "fill", "ready"}
              \/ stage = "direct" /\ stage' \in {"direct", "ready"}
              \/ Built /\ stage' \in {"ready", "search", "answered"}
              \/ stage' = stage
  BY <1>1, <1>2, <1>7 DEF MaskInv, Stages, Built
<1>8. CASE PlaceEntry \/ Rotate \/ FillTable \/ FillSlot
  BY <1>7, <1>8 DEF PlaceEntry, Rotate, FillTable, FillSlot
<1>9. CASE \/ \E k \in Asked : Ask(k)
           \/ SelectEntry \/ AnswerSelected \/ AnswerFromSlot \/ SearchEntry \/ AnswerDefault
           \/ Return
  BY <1>7, <1>9 DEF Ask, SelectEntry, AnswerSelected, AnswerFromSlot, SearchEntry, AnswerDefault,
                    Return, Answer, Built, built
<1>10. CASE UNCHANGED vars
  BY <1>7, <1>10 DEF vars
<1>11. QED
  BY <1>3, <1>5, <1>6, <1>8, <1>9, <1>10 DEF Next

----------------------------------------------------------------------------
(* The tables. *)

\* No hash is out of the table's range.
LEMMA HashType ==
  ASSUME mask \in RawKeys
  PROVE  /\ \A k \in RawKeys : hash(k) \in HashesOf(mask) /\ hash(k) \in Int
         /\ storage \in Seq(Entry) => \A n \in 1 .. Len(storage) :
              storage[n].key \in RawKeys /\ HashAt(n) \in HashesOf(mask) /\ HashAt(n) \in Int
<1>1. \A k \in RawKeys : hash(k) \in HashesOf(mask)
  BY HashInRange DEF hash
<1>2. HashesOf(mask) \in SUBSET Int
  BY DEF HashesOf
<1>3. storage \in Seq(Entry) => \A n \in 1 .. Len(storage) : storage[n].key \in RawKeys
  <2>1. storage \in Seq(Entry) => \A n \in 1 .. Len(storage) : storage[n] \in Entry
    OBVIOUS
  <2>2. \A e \in Entry : e.key \in RawKeys
    BY DEF Entry
  <2>3. QED
    BY <2>1, <2>2
<1>4. storage \in Seq(Entry) => \A n \in 1 .. Len(storage) : HashAt(n) = hash(storage[n].key)
  BY DEF HashAt
<1>5. QED
  BY <1>1, <1>2, <1>3, <1>4

\* A storage of full size has every entry.
LEMMA NoEntryIsLeft ==
  ASSUME IInv, strategy.kind = "pext", Stored, Len(storage) = Size
  PROVE  /\ \A n \in 1 .. Size : \E x \in 1 .. Size : storage[x] = input.entries[n]
         /\ \A x \in 1 .. Size : storage[x].key \in Keys
         /\ \A k \in Keys : \E x \in 1 .. Size : storage[x].key = k
<1>0. /\ Size \in Nat /\ DOMAIN input.entries = 1 .. Size
      /\ \A m, n \in 1 .. Size : input.entries[m].key = input.entries[n].key => m = n
  <2>1. Size \in Nat /\ DOMAIN input.entries = 1 .. Size
    BY Given
  <2>2. \A m, n \in 1 .. Size : input.entries[m].key = input.entries[n].key => m = n
    BY Given
  <2>3. QED
    BY <2>1, <2>2
<1>1. \A x \in 1 .. Size : \E n \in 1 .. Size : storage[x] = input.entries[n]
  BY DEF Stored
<1>2. Keys = {input.entries[n].key : n \in 1 .. Size}
  BY <1>0 DEF Keys, KeysOf
<1>3. /\ \A n \in 1 .. Size : input.entries[n].key \in Keys
      /\ \A x \in 1 .. Size : storage[x].key \in Keys
  BY <1>1, <1>2
<1>4. PICK keys \in [1 .. Size -> Keys] : \A x \in 1 .. Size : keys[x] = storage[x].key
  <2>1. [x \in 1 .. Size |-> storage[x].key] \in [1 .. Size -> Keys]
    BY <1>3
  <2>2. QED
    BY <2>1
<1>5. PICK entry_keys \in [1 .. Size -> Keys] : \A n \in 1 .. Size : entry_keys[n] = input.entries[n].key
  <2>1. [n \in 1 .. Size |-> input.entries[n].key] \in [1 .. Size -> Keys]
    BY <1>3
  <2>2. QED
    BY <2>1
<1>6. \A k \in Keys : \E x \in 1 .. Size : keys[x] = k
  <2>1. entry_keys \in Surjection(1 .. Size, Keys)
    BY <1>2, <1>5 DEF Surjection
  <2>2. keys \in Injection(1 .. Size, Keys)
    <3>1. \A x, y \in 1 .. Size : storage[x].key = storage[y].key => x = y
      BY DEF Stored
    <3>2. DOMAIN keys = 1 .. Size /\ \A x, y \in 1 .. Size : keys[x] = keys[y] => x = y
      BY <1>4, <3>1
    <3>3. QED
      BY <3>2 DEF Injection, IsInjective
  <2>3. keys \in Surjection(1 .. Size, Keys)
    BY <1>0, <2>1, <2>2, NoKeyIsLeft
  <2>4. QED
    BY <2>3 DEF Surjection
<1>7. ASSUME NEW n \in 1 .. Size PROVE \E x \in 1 .. Size : storage[x] = input.entries[n]
  <2>1. PICK x \in 1 .. Size : storage[x].key = input.entries[n].key
    <3>1. input.entries[n].key \in Keys
      BY <1>3
    <3>2. PICK x \in 1 .. Size : keys[x] = input.entries[n].key
      BY <1>6, <3>1
    <3>3. QED
      BY <1>4, <3>2
  <2>2. PICK m \in 1 .. Size : storage[x] = input.entries[m]
    BY <1>1
  <2>3. m = n
    BY <1>0, <2>1, <2>2
  <2>4. QED
    BY <2>2, <2>3
<1>8. \A k \in Keys : \E x \in 1 .. Size : storage[x].key = k
  BY <1>4, <1>6
<1>9. QED
  BY <1>3, <1>7, <1>8, Zenon

LEMMA PlaceEntryStep ==
  ASSUME IInv, PlaceEntry
  PROVE  TableInv'
<1> USE Given
<1>1. /\ Stored /\ InOrder /\ Len(storage) < Size /\ mask \in RawKeys /\ Indexed
      /\ stage = "sort" /\ input' = input /\ mask' = mask
  BY DEF PlaceEntry, IInv, TableInv, MaskInv
<1>2. Size' = Size /\ Indexed' = Indexed /\ Slotted' = Slotted /\ Size \in Nat
  BY Frame DEF Next
<1>3. PICK p \in Unplaced :
        /\ \A m \in Unplaced : hash(input.entries[p].key) <= hash(input.entries[m].key)
        /\ storage' = Append(storage, input.entries[p])
  BY DEF PlaceEntry
<1> DEFINE e == input.entries[p]
           L == Len(storage)
<1>4. p \in 1 .. Size /\ e \in Entry /\ e.key \in RawKeys /\ e \notin Range(storage)
  BY <1>3 DEF Unplaced
<1>5. storage \in Seq(Entry) /\ L \in Nat /\ DOMAIN storage = 1 .. L
  BY <1>1 DEF Stored
<1>6. /\ storage' \in Seq(Entry) /\ Len(storage') = L + 1
      /\ \A x \in 1 .. L : storage'[x] = storage[x]
      /\ storage'[L + 1] = e
  BY <1>3, <1>4, <1>5
<1>7. \A x \in 1 .. L : storage[x] # e /\ storage[x] \in Range(storage)
  BY <1>4, <1>5 DEF Range
<1>8. \A x \in 1 .. L : storage[x].key # e.key
  <2> SUFFICES ASSUME NEW x \in 1 .. L, storage[x].key = e.key PROVE FALSE
    OBVIOUS
  <2>1. PICK n \in 1 .. Size : storage[x] = input.entries[n]
    BY <1>1 DEF Stored
  <2>2. n = p
    BY <1>1, <1>4, <2>1 DEF Indexed
  <2>3. QED
    BY <1>7, <2>1, <2>2
<1>9. Stored'
  <2>1. \A x \in 1 .. L + 1 : x \in 1 .. L \/ x = L + 1
    BY <1>5
  <2>2. ASSUME NEW x \in 1 .. L + 1 PROVE \E n \in 1 .. Size : storage'[x] = input.entries[n]
    <3>1. CASE x = L + 1
      BY <1>4, <1>6, <3>1
    <3>2. CASE x \in 1 .. L
      <4>1. PICK n \in 1 .. Size : storage[x] = input.entries[n]
        BY <1>1, <3>2 DEF Stored
      <4>2. QED
        BY <1>6, <3>2, <4>1
    <3>3. QED
      BY <2>1, <3>1, <3>2
  <2>3. ASSUME NEW x \in 1 .. L + 1, NEW y \in 1 .. L + 1, storage'[x].key = storage'[y].key PROVE x = y
    <3>1. \A v, w \in 1 .. L : storage[v].key = storage[w].key => v = w
      BY <1>1 DEF Stored
    <3> HIDE DEF e, L
    <3>2. QED
      BY <1>6, <1>8, <2>1, <2>3, <3>1
  <2>4. QED
    BY <1>1, <1>2, <1>6, <2>2, <2>3 DEF Stored
<1>10. InOrder'
  <2>1. Range(storage') = Range(storage) \cup {e}
    <3>1. DOMAIN storage' = 1 .. L + 1
      BY <1>6
    <3>2. QED
      BY <1>5, <1>6, <3>1 DEF Range
  <2>2. Unplaced' \subseteq Unplaced
    BY <1>1, <1>2, <2>1 DEF Unplaced
  <2>3. /\ \A x \in 1 .. L : pseudo_pext(mask', storage'[x].key) = HashAt(x)
        /\ pseudo_pext(mask', storage'[L + 1].key) = hash(e.key)
    BY <1>1, <1>6 DEF HashAt, hash
  <2>4. \A n \in Unplaced : pseudo_pext(mask', input'.entries[n].key) = hash(input.entries[n].key)
    BY <1>1 DEF hash
  <2>5. /\ \A x, y \in 1 .. L : x <= y => HashAt(x) <= HashAt(y)
        /\ \A x \in 1 .. L : \A n \in Unplaced : HashAt(x) <= hash(input.entries[n].key)
        /\ hash(e.key) <= hash(e.key)
        /\ \A x \in 1 .. L + 1 : x \in 1 .. L \/ x = L + 1
    BY <1>1, <1>4, <1>5, HashType DEF InOrder
  <2>6. ASSUME NEW x \in 1 .. L + 1, NEW y \in 1 .. L + 1, x <= y
        PROVE  pseudo_pext(mask', storage'[x].key) <= pseudo_pext(mask', storage'[y].key)
    <3>1. CASE y = L + 1 /\ x # L + 1
      BY <1>3, <2>3, <2>5, <3>1
    <3>2. CASE x = L + 1
      BY <1>5, <2>3, <2>5, <2>6, <3>2
    <3>3. CASE y # L + 1 /\ x # L + 1
      BY <2>3, <2>5, <2>6, <3>3
    <3>4. QED
      BY <3>1, <3>2, <3>3
  <2>7. ASSUME NEW x \in 1 .. L + 1, NEW n \in Unplaced
        PROVE  pseudo_pext(mask', storage'[x].key) <= pseudo_pext(mask', input'.entries[n].key)
    BY <1>3, <2>3, <2>4, <2>5
  <2> HIDE DEF e
  <2>8. QED
    BY <1>6, <2>2, <2>6, <2>7 DEF InOrder, HashAt, hash
<1>11. stage' \in {"sort", "rotate"} /\ Len(storage') <= Size /\ (stage' = "rotate" <=> Len(storage') = Size)
  BY <1>1, <1>2, <1>5, <1>6 DEF PlaceEntry
<1>12. QED
  BY <1>2, <1>5, <1>6, <1>9, <1>10, <1>11 DEF TableInv, Built

LEMMA RotateStep ==
  ASSUME IInv, Rotate
  PROVE  TableInv'
<1>1. /\ Stored /\ InOrder /\ Len(storage) = Size /\ mask \in RawKeys /\ Indexed
      /\ RunFits(mask, Keys, longest_run)
      /\ input' = input /\ mask' = mask /\ longest_run' = longest_run
  BY DEF Rotate, IInv, TableInv, MaskInv
<1>2. Size' = Size /\ Indexed' = Indexed /\ Slotted' = Slotted /\ Size \in Nat \ {0}
  BY <1>1, Given, Frame DEF Next, Indexed
<1>3. /\ storage \in Seq(Entry) /\ longest_run \in Nat
      /\ \A n \in 1 .. Size : HashAt(n) \in Int
  BY <1>1, HashType DEF Stored, RunFits
<1>4. PICK keys \in Injection(1 .. Size, Keys) :
        /\ keys \in Surjection(1 .. Size, Keys)
        /\ \A x \in 1 .. Size : keys[x] = storage[x].key
  <2> DEFINE keys == [x \in 1 .. Size |-> storage[x].key]
  <2>1. /\ \A x \in 1 .. Size : storage[x].key \in Keys
        /\ \A k \in Keys : \E x \in 1 .. Size : storage[x].key = k
    BY <1>1, NoEntryIsLeft DEF Indexed
  <2>2. \A x, y \in 1 .. Size : storage[x].key = storage[y].key => x = y
    BY <1>1 DEF Stored
  <2>3. keys \in Injection(1 .. Size, Keys)
    BY <2>1, <2>2 DEF Injection, IsInjective
  <2>4. keys \in Surjection(1 .. Size, Keys)
    BY <2>1 DEF Surjection
  <2>5. QED
    BY <2>3, <2>4
<1>5. \A x \in 1 .. Size : pseudo_pext(mask, keys[x]) = HashAt(x)
  BY <1>4 DEF HashAt, hash
<1>6. SortedBy(mask, Size, keys)
  BY <1>1, <1>5 DEF SortedBy, InOrder
<1>7. PICK a \in 1 .. Size, b \in 1 .. Size :
        /\ b - a = longest_run
        /\ HashAt(a) = HashAt(b)
        /\ b < Size => HashAt(b + 1) # HashAt(b)
  <2>1. Keys \in SUBSET RawKeys /\ IsFiniteSet(Keys)
    BY Given
  <2>2. PICK a \in 1 .. Size, b \in 1 .. Size :
          /\ b - a = longest_run
          /\ pseudo_pext(mask, keys[a]) = pseudo_pext(mask, keys[b])
          /\ b < Size => pseudo_pext(mask, keys[b + 1]) # pseudo_pext(mask, keys[b])
    BY <1>1, <1>2, <1>4, <1>6, <2>1, LongestBucket
  <2>3. QED
    BY <1>2, <1>5, <2>2
<1> DEFINE e == end_of_longest_bucket
<1>8. /\ e \in 1 .. Size
      /\ e < Size => HashAt(e + 1) # HashAt(e)
      /\ e - longest_run >= 1 /\ HashAt(e - longest_run) = HashAt(e)
  <2> DEFINE Ends == {n \in 1 .. Size : IsEndOfLongest(n)}
  <2>1. IsEndOfLongest(b)
    <3>1. b >= search_len /\ b - longest_run = a
      BY <1>2, <1>3, <1>7 DEF search_len
    <3>2. QED
      BY <1>7, <3>1 DEF IsEndOfLongest
  <2>2. Ends \in SUBSET Nat /\ b \in Ends
    BY <1>2, <2>1
  <2>3. Min(Ends) \in Ends /\ Min(Ends) <= b
    <3> HIDE DEF Ends
    <3> QED BY <2>2, LeastExists
  <2>4. e \in 1 .. Size /\ IsEndOfLongest(e) /\ e <= b
    BY <2>3 DEF end_of_longest_bucket
  <2> HIDE DEF e
  <2>5. CASE e < Size
    BY <1>3, <2>4, <2>5 DEF IsEndOfLongest, search_len
  <2>6. CASE e = Size
    <3>1. b = Size /\ e - longest_run = a
      BY <1>2, <1>3, <1>7, <2>4, <2>6
    <3>2. QED
      BY <1>2, <1>7, <2>6, <3>1
  <2>7. QED
    BY <1>2, <2>4, <2>5, <2>6
<1> HIDE DEF e
<1>9. PICK g \in [1 .. Size -> Int] : \A n \in 1 .. Size : g[n] = HashAt(n)
  <2>1. [n \in 1 .. Size |-> HashAt(n)] \in [1 .. Size -> Int]
    BY <1>3
  <2>2. QED
    BY <2>1
<1> DEFINE from(n) == ((n + e - 1) % Size) + 1
<1>10. /\ \A n \in 1 .. Size : from(n) \in 1 .. Size
       /\ \A m, n \in 1 .. Size : from(m) = from(n) => m = n
  <2>1. \A n \in 1 .. Size : from(n) = IF n + e <= Size THEN n + e ELSE n + e - Size
    BY <1>2, <1>8, RotatedIndex
  <2> HIDE DEF from
  <2>2. e \in 1 .. Size /\ Size \in Nat
    BY <1>2, <1>8
  <2>3. ASSUME NEW n \in 1 .. Size PROVE from(n) \in 1 .. Size
    BY <2>1, <2>2
  <2>4. ASSUME NEW m \in 1 .. Size, NEW n \in 1 .. Size, from(m) = from(n) PROVE m = n
    BY <1>2, <1>8, <2>4, RotatedOnce DEF from
  <2>5. QED
    BY <2>3, <2>4
<1>11. /\ storage' \in Seq(Entry) /\ Len(storage') = Size
       /\ \A n \in 1 .. Size : storage'[n] = storage[from(n)]
  <2>1. storage' = [n \in 1 .. Size |-> storage[from(n)]]
    BY <1>1 DEF Rotate, rotated, e
  <2>2. \A n \in 1 .. Size : storage[from(n)] \in Entry
    BY <1>1, <1>3, <1>10
  <2> HIDE DEF from
  <2>3. QED
    BY <1>2, <2>1, <2>2
<1>12. PICK gr \in [1 .. Size -> Int] : \A n \in 1 .. Size : gr[n] = g[from(n)]
  <2> HIDE DEF from
  <2>1. [n \in 1 .. Size |-> g[from(n)]] \in [1 .. Size -> Int]
    BY <1>10
  <2>2. QED
    BY <2>1
<1>13. \A n \in 1 .. Size : pseudo_pext(mask', storage'[n].key) = gr[n]
  <2> HIDE DEF from
  <2>1. \A n \in 1 .. Size : g[from(n)] = pseudo_pext(mask, storage[from(n)].key)
    BY <1>9, <1>10 DEF HashAt, hash
  <2>2. QED
    BY <1>1, <1>11, <1>12, <2>1
<1>14. ContiguousTo(Size, gr) /\ EndsAlike(Size, longest_run, gr)
  <2>1. NonDecreasing(Size, g) /\ IsRotation(Size, g, gr, e)
    BY <1>1, <1>9, <1>12 DEF InOrder, NonDecreasing, IsRotation
  <2>2. e - longest_run >= 1 /\ g[e - longest_run] = g[e] /\ (e < Size => g[e + 1] # g[e])
    BY <1>2, <1>3, <1>8, <1>9
  <2>3. QED
    BY <1>2, <1>3, <1>8, <2>1, <2>2, RotationKeepsBuckets
<1>15. TableArranged'
  <2> HIDE DEF from
  <2>0. /\ \A x \in 1 .. Size : \E n \in 1 .. Size : storage[x] = input.entries[n]
        /\ \A x, y \in 1 .. Size : storage[x].key = storage[y].key => x = y
    BY <1>1 DEF Stored
  <2>1. ASSUME NEW x \in 1 .. Size PROVE \E n \in 1 .. Size : storage'[x] = input.entries[n]
    <3>1. from(x) \in 1 .. Size
      BY <1>10
    <3>2. PICK n \in 1 .. Size : storage[from(x)] = input.entries[n]
      BY <2>0, <3>1
    <3>3. QED
      BY <1>11, <3>2
  <2>2. ASSUME NEW x \in 1 .. Size, NEW y \in 1 .. Size, storage'[x].key = storage'[y].key PROVE x = y
    <3>1. storage[from(x)].key = storage[from(y)].key
      BY <1>11, <2>2
    <3>2. from(x) = from(y)
      BY <1>10, <2>0, <3>1
    <3>3. QED
      BY <1>10, <3>2
  <2>3. Stored'
    BY <1>1, <1>2, <1>11, <2>1, <2>2 DEF Stored
  <2>4. Size - longest_run >= 1
    BY <1>2, <1>3, <1>8
  <2>5. Size - longest_run .. Size \subseteq 1 .. Size /\ Size \in 1 .. Size
    BY <1>2, <1>3, <2>4
  <2>6. \A j \in Size - longest_run .. Size :
          pseudo_pext(mask', storage'[j].key) = pseudo_pext(mask', storage'[Size].key)
    BY <1>13, <1>14, <2>5 DEF EndsAlike
  <2>7. \A m, n \in 1 .. Size :
          pseudo_pext(mask', storage'[m].key) = pseudo_pext(mask', storage'[n].key)
            => \A j \in m .. n : pseudo_pext(mask', storage'[j].key) = pseudo_pext(mask', storage'[m].key)
    <3>1. \A m, n \in 1 .. Size : \A j \in m .. n : j \in 1 .. Size
      BY <1>2
    <3>2. QED
      BY <1>13, <1>14, <3>1 DEF ContiguousTo
  <2>8. QED
    BY <1>1, <1>2, <1>11, <2>3, <2>4, <2>6, <2>7 DEF TableArranged, HashAt, hash
<1>16. FilledFrom(at + 1)'
  <2>1. at' = Size /\ lookup_table' = [h \in HashesOf(mask) |-> 1]
    BY DEF Rotate
  <2>2. QED
    BY <1>1, <1>2, <2>1 DEF FilledFrom
<1>17. QED
  BY <1>2, <1>15, <1>16 DEF TableInv, Built, Rotate

\* What has been arranged stays so.
LEMMA StaysArranged ==
  ASSUME TableArranged, input' = input, Size' = Size, mask' = mask, longest_run' = longest_run, storage' = storage
  PROVE  TableArranged'
<1>1. Stored'
  BY DEF TableArranged, Stored
<1>2. \A n \in 1 .. Size : pseudo_pext(mask', storage'[n].key) = pseudo_pext(mask, storage[n].key)
  OBVIOUS
<1>3. QED
  BY <1>1 DEF TableArranged, HashAt, hash

LEMMA FillTableStep ==
  ASSUME IInv, FillTable
  PROVE  TableInv'
<1>1. /\ TableArranged /\ at \in 1 .. Size /\ FilledFrom(at + 1) /\ mask \in RawKeys /\ Indexed
      /\ UNCHANGED <<input, mask, longest_run, storage>>
      /\ lookup_table' = [lookup_table EXCEPT ![HashAt(at)] = at] /\ at' = at - 1
  BY DEF FillTable, IInv, TableInv, MaskInv
<1>2. Size' = Size /\ Indexed' = Indexed /\ Slotted' = Slotted /\ Size \in Nat
  BY Given, Frame DEF Next
<1>3. \A n \in 1 .. Size : HashAt(n) \in HashesOf(mask)
  BY <1>1, HashType DEF TableArranged, Stored
<1>4. TableArranged'
  BY <1>1, <1>2, StaysArranged
<1>5. /\ lookup_table' \in [HashesOf(mask) -> 1 .. Size]
      /\ lookup_table'[HashAt(at)] = at
      /\ \A h \in HashesOf(mask) : h # HashAt(at) => lookup_table'[h] = lookup_table[h]
  BY <1>1, <1>3 DEF FilledFrom
<1>6. ASSUME NEW n \in at .. Size
      PROVE  lookup_table'[HashAt(n)] \in at .. n /\ HashAt(lookup_table'[HashAt(n)]) = HashAt(n)
  <2>1. n \in 1 .. Size /\ (n = at \/ n \in at + 1 .. Size)
    BY <1>1, <1>2
  <2>2. CASE HashAt(n) = HashAt(at)
    BY <1>1, <1>5, <2>1, <2>2
  <2>3. CASE HashAt(n) # HashAt(at)
    <3>1. lookup_table'[HashAt(n)] = lookup_table[HashAt(n)]
      BY <1>3, <1>5, <2>1, <2>3
    <3>2. lookup_table[HashAt(n)] \in at + 1 .. n /\ HashAt(lookup_table[HashAt(n)]) = HashAt(n)
      BY <1>1, <2>1, <2>3 DEF FilledFrom
    <3>3. QED
      BY <1>1, <3>1, <3>2
  <2>4. QED
    BY <2>2, <2>3
<1>7. ASSUME NEW h \in HashesOf(mask), \A n \in at .. Size : HashAt(n) # h
      PROVE  lookup_table'[h] = 1
  <2>1. at \in at .. Size /\ at + 1 .. Size \subseteq at .. Size
    BY <1>1, <1>2
  <2>2. QED
    BY <1>1, <1>5, <1>7, <2>1 DEF FilledFrom
<1>8. stage' \in {"fill", "ready"} /\ (stage' = "fill" => at' \in 1 .. Size) /\ (stage' = "ready" => at = 1)
  BY <1>1, <1>2 DEF FillTable
<1>9. /\ \A n \in at .. Size :
           /\ lookup_table'[pseudo_pext(mask', storage'[n].key)] \in at .. n
           /\ pseudo_pext(mask', storage'[lookup_table'[pseudo_pext(mask', storage'[n].key)]].key)
                = pseudo_pext(mask', storage'[n].key)
      /\ \A h \in HashesOf(mask') :
           (\A n \in at .. Size : pseudo_pext(mask', storage'[n].key) # h) => lookup_table'[h] = 1
  BY <1>1, <1>6, <1>7 DEF HashAt, hash
<1>10. at = at' + 1
  BY <1>1, <1>2
<1>11. CASE stage' = "fill"
  <2>1. FilledFrom(at + 1)'
    BY <1>1, <1>2, <1>5, <1>9, <1>10 DEF FilledFrom, HashAt, hash
  <2>2. QED
    BY <1>2, <1>4, <1>8, <1>11, <2>1 DEF TableInv, Built
<1>12. CASE stage' = "ready"
  <2>1. FilledFrom(1)'
    BY <1>1, <1>2, <1>5, <1>8, <1>9, <1>12 DEF FilledFrom, HashAt, hash
  <2>2. QED
    BY <1>1, <1>2, <1>4, <1>12, <2>1 DEF TableInv, Built, Indexed, Slotted
<1>13. QED
  BY <1>8, <1>11, <1>12

LEMMA FillSlotStep ==
  ASSUME IInv, FillSlot
  PROVE  TableInv'
<1> DEFINE e == input.entries[at]
<1>1. /\ at \in 1 .. Size /\ SlotsFilled(at - 1) /\ mask \in RawKeys /\ Slotted /\ keys_are_unique(mask, Keys)
      /\ UNCHANGED <<input, mask>>
      /\ slots' = [slots EXCEPT ![hash(e.key)] = e] /\ at' = at + 1
  BY DEF FillSlot, IInv, TableInv, MaskInv
<1>2. Size' = Size /\ Indexed' = Indexed /\ Slotted' = Slotted /\ Size \in Nat
  BY Given, Frame DEF Next
<1>3. \A n \in 1 .. Size : input.entries[n].key \in RawKeys /\ input.entries[n].key \in Keys
  BY Given DEF Keys, KeysOf
<1>4. \A n \in 1 .. Size : hash(input.entries[n].key) \in HashesOf(mask)
  BY <1>1, <1>3, HashType
<1>5. \A n \in 1 .. Size : hash(input.entries[n].key) = hash(e.key) => n = at
  <2>1. \A m, n \in 1 .. Size : input.entries[m].key = input.entries[n].key => m = n
    BY <1>1, Given DEF Slotted
  <2>2. \A k, l \in Keys : hash(k) = hash(l) => k = l
    BY <1>1 DEF keys_are_unique, hash
  <2>3. QED
    BY <1>1, <1>3, <2>1, <2>2
<1> HIDE DEF e
<1>6. /\ DOMAIN slots' = HashesOf(mask)
      /\ slots'[hash(e.key)] = e
      /\ \A h \in HashesOf(mask) : h # hash(e.key) => slots'[h] = slots[h]
  BY <1>1, <1>4 DEF SlotsFilled, e
<1>7. \A n \in 1 .. at : n = at \/ n \in 1 .. at - 1
  BY <1>1
<1>8. \A n \in 1 .. at : slots'[hash(input.entries[n].key)] = input.entries[n]
  <2> SUFFICES ASSUME NEW n \in 1 .. at PROVE slots'[hash(input.entries[n].key)] = input.entries[n]
    OBVIOUS
  <2>1. CASE n = at
    BY <1>6, <2>1 DEF e
  <2>2. CASE n # at
    <3>1. n \in 1 .. at - 1 /\ n \in 1 .. Size
      BY <1>1, <1>2, <2>2
    <3>2. slots'[hash(input.entries[n].key)] = slots[hash(input.entries[n].key)]
      BY <1>4, <1>5, <1>6, <2>2, <3>1
    <3>3. QED
      BY <1>1, <3>1, <3>2 DEF SlotsFilled
  <2>3. QED
    BY <2>1, <2>2
<1>9. \A h \in HashesOf(mask) :
        \/ slots'[h] = [key |-> {}, value |-> input.default_value]
        \/ \E n \in 1 .. at : slots'[h] = input.entries[n]
  <2> SUFFICES ASSUME NEW h \in HashesOf(mask), slots'[h] # [key |-> {}, value |-> input.default_value]
               PROVE  \E n \in 1 .. at : slots'[h] = input.entries[n]
    OBVIOUS
  <2>1. CASE h = hash(e.key)
    BY <1>1, <1>6, <2>1 DEF e
  <2>2. CASE h # hash(e.key)
    <3>1. PICK n \in 1 .. at - 1 : slots[h] = input.entries[n]
      BY <1>1, <1>6, <2>2 DEF SlotsFilled
    <3>2. n \in 1 .. at
      BY <1>1
    <3>3. QED
      BY <1>6, <2>2, <3>1, <3>2
  <2>3. QED
    BY <2>1, <2>2
<1>10. /\ DOMAIN slots' = HashesOf(mask')
       /\ \A n \in 1 .. at : slots'[pseudo_pext(mask', input'.entries[n].key)] = input'.entries[n]
       /\ \A h \in HashesOf(mask') :
            \/ slots'[h] = [key |-> {}, value |-> input'.default_value]
            \/ \E n \in 1 .. at : slots'[h] = input'.entries[n]
  <2>1. input' = input /\ mask' = mask
    BY <1>1
  <2>2. \A n \in 1 .. at : slots'[pseudo_pext(mask, input.entries[n].key)] = input.entries[n]
    BY <1>8 DEF hash
  <2>3. QED
    BY <1>6, <1>9, <2>1, <2>2
<1>11. stage' \in {"direct", "ready"} /\ (stage' = "direct" => at' \in 1 .. Size) /\ (stage' = "ready" => at = Size)
  BY <1>1, <1>2 DEF FillSlot
<1>12. CASE stage' = "direct"
  <2>1. at' - 1 = at
    BY <1>1
  <2>2. SlotsFilled(at - 1)'
    BY <1>10, <2>1 DEF SlotsFilled, hash
  <2>3. QED
    BY <1>2, <1>11, <1>12, <2>2 DEF TableInv, Built
<1>13. CASE stage' = "ready"
  <2>1. Size' = at
    BY <1>2, <1>11, <1>13
  <2>2. SlotsFilled(Size)'
    BY <1>10, <2>1 DEF SlotsFilled, hash
  <2>3. QED
    BY <1>1, <1>2, <1>13, <2>2 DEF TableInv, Built, Indexed, Slotted
<1>14. QED
  BY <1>11, <1>12, <1>13

LEMMA KeepMaskStep ==
  ASSUME IInv, KeepMask
  PROVE  TableInv'
<1>1. /\ strategy.kind = "pext" /\ storage = <<>> /\ storage' = <<>> /\ at = 1 /\ at' = 1
      /\ input' = input /\ mask' = mask /\ stage' = AfterMask
      /\ stage' = "direct" => slots' = [h \in HashesOf(mask) |-> [key |-> {}, value |-> input.default_value]]
  BY DEF KeepMask, IInv, TableInv, MaskInv, Built, asking
<1>2. /\ Size' = Size /\ Indexed' = Indexed /\ Slotted' = Slotted /\ Size \in Nat
      /\ strategy.indirect \in BOOLEAN
  BY <1>1, Given, Frame DEF Next
<1>3. CASE Size = 0
  <2>1. stage' = "ready"
    BY <1>1, <1>3 DEF AfterMask
  <2>2. QED
    BY <1>2, <1>3, <2>1 DEF TableInv, Built, Indexed, Slotted
<1>4. CASE Indexed
  <2>1. stage' = "sort"
    BY <1>1, <1>4 DEF AfterMask, Indexed
  <2>2. Stored' /\ InOrder' /\ Len(storage') = 0
    BY <1>1 DEF Stored, InOrder
  <2>3. QED
    BY <1>2, <1>4, <2>1, <2>2 DEF TableInv, Built, Indexed
<1>5. CASE Slotted
  <2>1. stage' = "direct"
    BY <1>1, <1>5 DEF AfterMask, Slotted
  <2>2. SlotsFilled(at - 1)'
    BY <1>1, <2>1 DEF SlotsFilled
  <2>3. QED
    BY <1>1, <1>2, <1>5, <2>1, <2>2 DEF TableInv, Built, Slotted
<1>6. QED
  BY <1>1, <1>2, <1>3, <1>4, <1>5 DEF Indexed, Slotted

\* Building the mask leaves the tables empty, asking leaves them as they are.
LEMMA OtherTableStep ==
  ASSUME IInv, DropBit \/ RemoveBit \/ (UNCHANGED built /\ Built /\ Built') \/ UNCHANGED vars
  PROVE  TableInv'
<1>1. TableInv
  BY DEF IInv
<1>2. CASE DropBit
  BY <1>1, <1>2 DEF DropBit, TableInv, Built, asking
<1>3. CASE RemoveBit
  <2>1. /\ strategy.kind = "pext" /\ ~Slotted /\ storage = <<>> /\ storage' = <<>> /\ at = 1 /\ at' = 1
        /\ stage' \in {"cheapen", AfterMask}
    BY <1>1, <1>3, Given DEF RemoveBit, IInv, TableInv, MaskInv, Built, Slotted
  <2>2. Size' = Size /\ Indexed' = Indexed /\ Slotted' = Slotted /\ Size \in Nat
    BY <1>3, Given, Frame DEF Next
  <2>3. stage' = "cheapen" \/ (stage' = "ready" /\ ~Indexed) \/ (stage' = "sort" /\ Indexed)
    <3>1. strategy.indirect \in BOOLEAN
      BY <2>1, Given
    <3>2. QED
      BY <2>1, <2>2, <3>1 DEF AfterMask, Indexed, Slotted
  <2>4. Stored' /\ InOrder' /\ Len(storage') = 0
    BY <2>1 DEF Stored, InOrder
  <2>5. QED
    BY <2>1, <2>2, <2>3, <2>4 DEF TableInv, Built, Indexed
<1>4. ASSUME UNCHANGED built
      PROVE  /\ Size' = Size /\ Indexed' = Indexed /\ Slotted' = Slotted
             /\ TableArranged => TableArranged'
             /\ FilledFrom(1) => FilledFrom(1)'
             /\ SlotsFilled(Size) => SlotsFilled(Size)'
  <2>1. /\ input' = input /\ mask' = mask /\ longest_run' = longest_run /\ storage' = storage
        /\ lookup_table' = lookup_table /\ slots' = slots
    BY <1>4 DEF built
  <2>2. Size' = Size /\ Indexed' = Indexed /\ Slotted' = Slotted
    BY <2>1 DEF Size, Indexed, Slotted, strategy
  <2>3. TableArranged => TableArranged'
    BY <2>1, <2>2, StaysArranged
  <2>4. FilledFrom(1) => FilledFrom(1)'
    BY <2>1, <2>2 DEF FilledFrom, HashAt, hash
  <2>5. SlotsFilled(Size) => SlotsFilled(Size)'
    BY <2>1, <2>2 DEF SlotsFilled, hash
  <2>6. QED
    BY <2>2, <2>3, <2>4, <2>5
<1>5. CASE UNCHANGED built /\ Built /\ Built'
  BY <1>1, <1>4, <1>5 DEF TableInv, Built
<1>6. CASE UNCHANGED vars
  <2>1. /\ UNCHANGED built /\ input' = input /\ mask' = mask /\ storage' = storage
        /\ lookup_table' = lookup_table /\ slots' = slots /\ at' = at /\ stage' = stage
    BY <1>6 DEF vars, built
  <2>2. Stored => Stored'
    BY <1>4, <2>1 DEF Stored
  <2>3. InOrder => InOrder'
    BY <1>4, <2>1 DEF InOrder, Unplaced, HashAt, hash
  <2>4. FilledFrom(at + 1) => FilledFrom(at + 1)'
    BY <1>4, <2>1 DEF FilledFrom, HashAt, hash
  <2>5. SlotsFilled(at - 1) => SlotsFilled(at - 1)'
    BY <1>4, <2>1 DEF SlotsFilled, hash
  <2>6. QED
    BY <1>1, <1>4, <2>1, <2>2, <2>3, <2>4, <2>5 DEF TableInv, Built
<1>7. QED
  BY <1>2, <1>3, <1>5, <1>6

LEMMA TableStep ==
  ASSUME IInv, [Next]_vars
  PROVE  TableInv'
<1>1. CASE \/ \E k \in Asked : Ask(k)
           \/ SelectEntry \/ AnswerSelected \/ AnswerFromSlot \/ SearchEntry \/ AnswerDefault
           \/ Return
  <2>1. UNCHANGED built /\ Built /\ Built'
    BY <1>1 DEF Ask, SelectEntry, AnswerSelected, AnswerFromSlot, SearchEntry, AnswerDefault,
                Return, Answer, Built
  <2>2. QED
    BY <2>1, OtherTableStep
<1>2. CASE DropBit \/ RemoveBit \/ UNCHANGED vars
  BY <1>2, OtherTableStep
<1>3. CASE KeepMask \/ PlaceEntry \/ Rotate \/ FillTable \/ FillSlot
  BY <1>3, KeepMaskStep, PlaceEntryStep, RotateStep, FillTableStep, FillSlotStep
<1>4. QED
  BY <1>1, <1>2, <1>3 DEF Next

----------------------------------------------------------------------------
(* The searches. *)

\* Wherever a search of the storage starts, it can take its full length.
LEMMA FirstInBounds ==
  ASSUME IInv, Built, Indexed, NEW k \in RawKeys
  PROVE  /\ FirstIndex(k) \in 1 .. Size - longest_run
         /\ \A x \in 1 .. Size : HashAt(x) = hash(k) =>
              FirstIndex(k) <= x /\ HashAt(FirstIndex(k)) = hash(k)
<1>1. TableArranged /\ FilledFrom(1) /\ mask \in RawKeys /\ longest_run \in Nat /\ Size \in Nat
  BY Given DEF IInv, TableInv, MaskInv, RunFits
<1>2. hash(k) \in HashesOf(mask)
  BY <1>1, HashType
<1> DEFINE f == lookup_table[hash(k)]
<1>3. FirstIndex(k) = f /\ f \in 1 .. Size
  BY <1>1, <1>2 DEF FirstIndex, Indexed, FilledFrom
<1>4. ASSUME NEW x \in 1 .. Size, HashAt(x) = hash(k)
      PROVE  f <= x /\ HashAt(f) = hash(k)
  BY <1>1, <1>4 DEF FilledFrom
<1>5. f <= Size - longest_run
  <2> HIDE DEF f
  <2>1. CASE \A x \in 1 .. Size : HashAt(x) # hash(k)
    <3>1. f = 1
      BY <1>1, <1>2, <2>1 DEF FilledFrom, f
    <3>2. QED
      BY <1>1, <3>1 DEF TableArranged
  <2>2. CASE \E x \in 1 .. Size : HashAt(x) = hash(k)
    <3>1. HashAt(f) = hash(k)
      BY <1>4, <2>2
    <3> SUFFICES ASSUME f > Size - longest_run PROVE FALSE
      BY <1>1, <1>3
    <3>2. Size - longest_run \in 1 .. Size /\ f \in Size - longest_run .. Size
          /\ Size - longest_run \in Size - longest_run .. Size
      BY <1>1, <1>3 DEF TableArranged
    <3>3. HashAt(Size - longest_run) = HashAt(f)
      BY <1>1, <3>2 DEF TableArranged
    <3>4. f <= Size - longest_run
      BY <1>4, <3>1, <3>2, <3>3
    <3>5. QED
      BY <1>1, <1>3, <3>4
  <2>3. QED
    BY <2>1, <2>2
<1>6. QED
  BY <1>1, <1>3, <1>4, <1>5

\* A search that has gone to its full length has missed no entry.
LEMMA NothingIsMissed ==
  ASSUME IInv, Built, Indexed, NEW k \in RawKeys,
         \A x \in FirstIndex(k) .. FirstIndex(k) + longest_run : storage[x].key # k
  PROVE  \A n \in 1 .. Size : input.entries[n].key # k
<1> DEFINE F == FirstIndex(k)
<1>1. /\ TableArranged /\ Stored /\ Len(storage) = Size /\ mask \in RawKeys
      /\ RunFits(mask, Keys, longest_run) /\ longest_run \in Nat
  BY DEF IInv, TableInv, MaskInv, RunFits, TableArranged
<1>2. Size \in Nat /\ Keys \in SUBSET RawKeys /\ IsFiniteSet(Keys)
  BY Given
<1>3. /\ F \in 1 .. Size - longest_run
      /\ \A x \in 1 .. Size : HashAt(x) = hash(k) => F <= x /\ HashAt(F) = hash(k)
  BY FirstInBounds
<1> SUFFICES ASSUME NEW n \in 1 .. Size, input.entries[n].key = k PROVE FALSE
  OBVIOUS
<1>4. PICK x \in 1 .. Size : storage[x] = input.entries[n]
  BY <1>1, NoEntryIsLeft DEF Indexed
<1>5. HashAt(x) = hash(k) /\ storage[x].key = k
  BY <1>4 DEF HashAt
<1>6. F <= x /\ HashAt(F) = HashAt(x) /\ F \in 1 .. Size
  BY <1>1, <1>2, <1>3, <1>5
<1>7. \A j \in F .. x : HashAt(j) = HashAt(F)
  BY <1>1, <1>6 DEF TableArranged
<1>8. PICK keys \in Injection(1 .. Size, Keys) : \A j \in 1 .. Size : keys[j] = storage[j].key
  <2> DEFINE keys == [j \in 1 .. Size |-> storage[j].key]
  <2>1. \A j \in 1 .. Size : storage[j].key \in Keys
    BY <1>1, NoEntryIsLeft DEF Indexed
  <2>2. \A i, j \in 1 .. Size : storage[i].key = storage[j].key => i = j
    BY <1>1 DEF Stored
  <2>3. keys \in Injection(1 .. Size, Keys)
    BY <2>1, <2>2 DEF Injection, IsInjective
  <2>4. QED
    BY <2>3
<1> HIDE DEF F
<1>9. \A j \in F .. x : pseudo_pext(mask, keys[j]) = pseudo_pext(mask, keys[F])
  <2>1. \A j \in F .. x : j \in 1 .. Size
    BY <1>2, <1>6
  <2>2. \A j \in 1 .. Size : pseudo_pext(mask, keys[j]) = HashAt(j)
    BY <1>8 DEF HashAt, hash
  <2>3. QED
    BY <1>6, <1>7, <2>1, <2>2
<1>10. x - F <= longest_run
  <2>1. SameHashes(mask, keys, F, x)
    BY <1>9 DEF SameHashes
  <2>2. QED
    BY <1>1, <1>2, <1>6, <1>8, <2>1, SameHashesFit
<1>11. x \in F .. F + longest_run
  BY <1>1, <1>2, <1>6, <1>10
<1>12. QED
  BY <1>5, <1>11 DEF F

LEMMA SearchStep ==
  ASSUME IInv, [Next]_vars
  PROVE  SearchInv'
<1>1. SearchInv /\ Size \in Nat /\ strategy.kind \in {"linear", "pext"}
  BY Given DEF IInv
<1>2. input' = input /\ Size' = Size /\ strategy' = strategy /\ Indexed' = Indexed /\ Slotted' = Slotted
  BY Frame
<1>3. CASE stage' \notin {"search", "answered"}
  BY <1>3 DEF SearchInv
<1>4. ASSUME NEW k \in Asked, Ask(k) PROVE SearchInv'
  <2>1. /\ key' = k /\ k \in RawKeys /\ at' = FirstIndex(k) /\ searched' = 0 /\ answer' = input.default_value
        /\ stage' = "search" /\ UNCHANGED built
    BY <1>4, LookupTypes DEF Ask
  <2>2. FirstIndex(key)' = FirstIndex(k)
    BY <1>2, <2>1 DEF FirstIndex, built, hash
  <2>3. ASSUME strategy.kind = "linear"
        PROVE  at' \in 1 .. Size + 1 /\ Selected(at - 1)'
    <3>1. at' = 1
      BY <2>1, <2>3 DEF FirstIndex
    <3>2. QED
      BY <1>1, <2>1, <3>1, <1>2 DEF Selected, built
  <2>4. ASSUME Indexed
        PROVE  /\ searched' \in 0 .. search_len'
               /\ \A x \in FirstIndex(key)' .. at' - 1 : storage'[x].key # key'
    <3>1. Built /\ longest_run \in Nat
      BY <1>4, <2>1 DEF Ask, Built, IInv, MaskInv, RunFits
    <3>2. at' \in Int
      BY <1>1, <2>1, <2>4, <3>1, FirstInBounds DEF IInv, MaskInv, RunFits
    <3>3. FirstIndex(key)' .. at' - 1 = {}
      BY <2>1, <2>2, <3>2
    <3>4. searched' \in 0 .. search_len'
      <4>1. search_len' = longest_run + 1 /\ searched' = 0
        BY <2>1 DEF search_len, built
      <4>2. 0 \in 0 .. longest_run + 1
        BY <3>1
      <4>3. QED
        BY <4>1, <4>2
    <3>5. QED
      BY <3>3, <3>4
  <2>5. at' = FirstIndex(key)' + searched'
    <3>1. FirstIndex(k) \in Int \/ ~Indexed
      BY <1>1, <1>4, <2>1, FirstInBounds DEF IInv, MaskInv, RunFits, Ask, Built
    <3>2. FirstIndex(k) = 1 \/ Indexed
      BY DEF FirstIndex, Indexed
    <3>3. QED
      BY <2>1, <2>2, <3>1, <3>2
  <2>6. QED
    BY <1>2, <2>1, <2>3, <2>4, <2>5 DEF SearchInv
<1>5. ASSUME key' = key, stage' = "answered", answer' = AsMap(key) PROVE SearchInv'
  <2>1. AsMap(key)' = AsMap(key)
    BY <1>2, <1>5 DEF AsMap
  <2>2. QED
    BY <1>5, <2>1 DEF SearchInv
<1>6. CASE SelectEntry
  <2>1. /\ strategy.kind = "linear" /\ at \in 1 .. Size /\ Selected(at - 1) /\ at' = at + 1 /\ key' = key
        /\ key \in RawKeys /\ stage' = "search"
        /\ answer' = IF input.entries[at].key = key THEN input.entries[at].value ELSE answer
    BY <1>1, <1>6 DEF SelectEntry, SearchInv
  <2>2. at' \in 1 .. Size + 1 /\ at' - 1 = at /\ \A m \in 1 .. at : m = at \/ m \in 1 .. at - 1
    BY <1>1, <2>1
  <2>3. \/ /\ answer' = input.default_value
           /\ \A m \in 1 .. at : input.entries[m].key # key
        \/ \E n \in 1 .. at :
             /\ input.entries[n].key = key /\ answer' = input.entries[n].value
             /\ \A m \in 1 .. at : input.entries[m].key = key => m <= n
    <3>1. CASE input.entries[at].key = key
      BY <1>1, <2>1, <3>1
    <3>2. CASE input.entries[at].key # key
      <4>1. CASE answer = input.default_value /\ \A m \in 1 .. at - 1 : input.entries[m].key # key
        BY <2>1, <2>2, <3>2, <4>1
      <4>2. ASSUME NEW n \in 1 .. at - 1, input.entries[n].key = key, answer = input.entries[n].value,
                   \A m \in 1 .. at - 1 : input.entries[m].key = key => m <= n
            PROVE  \E i \in 1 .. at :
                     /\ input.entries[i].key = key /\ answer' = input.entries[i].value
                     /\ \A m \in 1 .. at : input.entries[m].key = key => m <= i
        <5>1. n \in 1 .. at /\ answer' = input.entries[n].value
              /\ \A m \in 1 .. at : input.entries[m].key = key => m <= n
          BY <2>1, <2>2, <3>2, <4>2
        <5>2. QED
          BY <4>2, <5>1
      <4>3. QED
        BY <2>1, <4>1, <4>2 DEF Selected
    <3>3. QED
      BY <3>1, <3>2
  <2>4. Selected(at - 1)'
    BY <1>2, <2>1, <2>2, <2>3 DEF Selected
  <2>5. QED
    BY <1>2, <2>1, <2>2, <2>4 DEF SearchInv, Indexed
<1>7. CASE AnswerSelected
  <2>1. at \in 1 .. Size + 1 /\ Selected(at - 1) /\ at > Size /\ answer' = answer /\ key' = key /\ stage' = "answered"
    BY <1>1, <1>7 DEF AnswerSelected, SearchInv, Answer
  <2>2. Selected(Size)
    <3>1. at - 1 = Size
      BY <1>1, <2>1
    <3>2. QED
      BY <2>1, <3>1
  <2>3. answer = AsMap(key)
    BY <1>1, <2>2, MapFound, MapMissing DEF Selected
  <2>4. QED
    BY <1>5, <2>1, <2>3
<1>8. ASSUME strategy.kind = "pext"
      PROVE  /\ \A n \in 1 .. Size : AsMap(input.entries[n].key) = input.entries[n].value
             /\ \A k : (\A n \in 1 .. Size : input.entries[n].key # k) => AsMap(k) = input.default_value
  <2>1. \A m, n \in 1 .. Size : input.entries[m].key = input.entries[n].key => m = n
    BY <1>8, Given
  <2>2. ASSUME NEW n \in 1 .. Size PROVE AsMap(input.entries[n].key) = input.entries[n].value
    <3>1. \A m \in 1 .. Size : input.entries[m].key = input.entries[n].key => m <= n
      BY <1>1, <2>1
    <3>2. QED
      BY <1>1, <3>1, MapFound
  <2>3. QED
    BY <2>2, MapMissing
<1>9. CASE AnswerFromSlot
  <2>1. /\ strategy.kind = "pext" /\ key' = key /\ stage' = "answered" /\ key \in RawKeys /\ Built
        /\ \/ Size = 0 /\ answer' = input.default_value
           \/ /\ Slotted
              /\ answer' = IF slots[hash(key)].key = key THEN slots[hash(key)].value ELSE input.default_value
    BY <1>1, <1>9 DEF AnswerFromSlot, SearchInv, Answer, Built, Slotted, SlotHas
  <2>2. CASE Size = 0
    <3>1. AsMap(key) = input.default_value
      BY <2>2, MapMissing
    <3>2. QED
      BY <1>5, <2>1, <2>2, <3>1 DEF Slotted
  <2>3. CASE Slotted
    <3>1. SlotsFilled(Size) /\ mask \in RawKeys
      BY <2>1, <2>3 DEF IInv, TableInv, MaskInv
    <3>2. hash(key) \in HashesOf(mask)
      BY <2>1, <3>1, HashType
    <3>3. CASE \E n \in 1 .. Size : input.entries[n].key = key
      <4>1. PICK n \in 1 .. Size : input.entries[n].key = key
        BY <3>3
      <4>2. slots[hash(key)] = input.entries[n]
        BY <3>1, <4>1 DEF SlotsFilled
      <4>3. answer' = input.entries[n].value
        BY <2>1, <2>3, <4>1, <4>2 DEF Slotted
      <4>4. QED
        BY <1>5, <1>8, <2>1, <4>1, <4>3
    <3>4. CASE \A n \in 1 .. Size : input.entries[n].key # key
      <4>1. \/ slots[hash(key)].value = input.default_value
            \/ slots[hash(key)].key # key
        BY <3>1, <3>2, <3>4 DEF SlotsFilled
      <4>2. answer' = input.default_value
        BY <2>1, <4>1
      <4>3. QED
        BY <1>5, <1>8, <2>1, <3>4, <4>2
    <3>5. QED
      BY <3>3, <3>4
  <2>4. QED
    BY <2>1, <2>2, <2>3
<1>10. CASE SearchEntry \/ AnswerDefault
  <2>1. /\ Indexed /\ strategy.kind = "pext" /\ key' = key /\ key \in RawKeys /\ Built /\ UNCHANGED built
        /\ searched \in 0 .. search_len /\ at = FirstIndex(key) + searched
        /\ \A x \in FirstIndex(key) .. at - 1 : storage[x].key # key
        /\ stage = "search"
    BY <1>1, <1>10 DEF SearchEntry, AnswerDefault, SearchInv, Built, Indexed
  <2>2. /\ longest_run \in Nat /\ TableArranged /\ Stored /\ Len(storage) = Size
        /\ FirstIndex(key) \in 1 .. Size - longest_run
    BY <2>1, FirstInBounds DEF IInv, TableInv, MaskInv, RunFits, TableArranged
  <2>3. CASE SearchEntry /\ storage[at].key = key
    <3>1. at \in 1 .. Size
      BY <1>1, <2>1, <2>2, <2>3 DEF SearchEntry, search_len
    <3>2. PICK n \in 1 .. Size : storage[at] = input.entries[n]
      BY <2>2, <3>1 DEF Stored
    <3>3. answer' = input.entries[n].value /\ stage' = "answered" /\ input.entries[n].key = key
      BY <2>3, <3>2 DEF SearchEntry, Answer
    <3>4. QED
      BY <1>5, <1>8, <2>1, <3>3
  <2>4. CASE SearchEntry /\ storage[at].key # key
    <3>1. at' = at + 1 /\ searched' = searched + 1 /\ searched < search_len /\ stage' = "search"
      BY <2>1, <2>4 DEF SearchEntry
    <3>2. FirstIndex(key)' = FirstIndex(key) /\ search_len' = search_len /\ storage' = storage
      BY <1>2, <2>1 DEF FirstIndex, search_len, built, hash
    <3>3. search_len \in Nat
      BY <2>2 DEF search_len
    <3>4. searched' \in 0 .. search_len' /\ at' = FirstIndex(key)' + searched'
      BY <2>1, <2>2, <3>1, <3>2, <3>3
    <3>5. ASSUME NEW x \in FirstIndex(key) .. at' - 1 PROVE storage[x].key # key
      <4>1. x = at \/ x \in FirstIndex(key) .. at - 1
        BY <2>1, <2>2, <3>1, <3>3
      <4>2. QED
        BY <2>1, <2>4, <4>1
    <3>6. QED
      BY <1>2, <2>1, <3>1, <3>2, <3>4, <3>5 DEF SearchInv
  <2>5. CASE AnswerDefault
    <3>1. searched = longest_run + 1 /\ answer' = input.default_value /\ stage' = "answered"
      BY <2>5 DEF AnswerDefault, Answer, search_len
    <3>2. at - 1 = FirstIndex(key) + longest_run
      BY <1>1, <2>1, <2>2, <3>1
    <3>3. \A x \in FirstIndex(key) .. FirstIndex(key) + longest_run : storage[x].key # key
      BY <2>1, <3>2
    <3>4. \A n \in 1 .. Size : input.entries[n].key # key
      BY <2>1, <3>3, NothingIsMissed
    <3>5. QED
      BY <1>5, <1>8, <2>1, <3>1, <3>4
  <2>6. QED
    BY <1>10, <2>3, <2>4, <2>5
<1>11. CASE UNCHANGED vars
  <2>1. /\ stage' = stage /\ key' = key /\ at' = at /\ searched' = searched /\ answer' = answer
        /\ mask' = mask /\ longest_run' = longest_run /\ storage' = storage /\ lookup_table' = lookup_table
    BY <1>11 DEF vars
  <2>2. FirstIndex(key)' = FirstIndex(key) /\ search_len' = search_len /\ AsMap(key)' = AsMap(key)
    BY <1>2, <2>1 DEF FirstIndex, search_len, AsMap, hash
  <2>3. Selected(at - 1) => Selected(at - 1)'
    BY <1>2, <2>1 DEF Selected
  <2>4. QED
    BY <1>1, <1>2, <2>1, <2>2, <2>3 DEF SearchInv
<1>12. CASE DropBit \/ RemoveBit \/ KeepMask \/ PlaceEntry \/ Rotate \/ FillTable \/ FillSlot \/ Return
  <2>1. stage' \in {"mask", "cheapen", "sort", "rotate", "fill", "direct", "ready"}
    <3>1. CASE RemoveBit \/ KeepMask
      <4>1. stage' \in {"cheapen", AfterMask}
        BY <3>1 DEF RemoveBit, KeepMask
      <4>2. AfterMask \in {"ready", "sort", "direct"}
        <5>1. strategy.kind = "pext" /\ strategy.indirect \in BOOLEAN
          BY <3>1, Given DEF IInv, MaskInv, Built, RemoveBit, KeepMask
        <5>2. QED
          BY <1>1, <5>1 DEF AfterMask
      <4>3. QED
        BY <4>1, <4>2
    <3>2. CASE DropBit \/ PlaceEntry \/ Rotate \/ FillTable \/ FillSlot \/ Return
      BY <3>2 DEF DropBit, PlaceEntry, Rotate, FillTable, FillSlot, Return
    <3>3. QED
      BY <1>12, <3>1, <3>2
  <2>2. QED
    BY <1>3, <2>1
<1>13. QED
  BY <1>4, <1>6, <1>7, <1>9, <1>10, <1>11, <1>12 DEF Next

----------------------------------------------------------------------------
(* The theorems. *)

LEMMA Inductive == Spec => []IInv
<1>1. IInv /\ [Next]_vars => IInv'
  BY MaskStep, TableStep, SearchStep DEF IInv
<1>2. QED
  BY InitIInv, <1>1, PTL DEF Spec

(* input.hpp: for any entries, any width of the keys and any hash that      *)
(* stays within the bits of its mask, each strategy's lookup answers as the *)
(* map of its entries and its default.                                      *)
THEOREM LookupAnswersAsMap == Spec => []AnswersAsMap
<1>1. IInv => AnswersAsMap
  BY DEF IInv, SearchInv, AnswersAsMap
<1>2. QED
  BY Inductive, <1>1, PTL

(* indirect_impl::operator[] has no test for the end of the storage, and    *)
(* needs none: the rotation of make has put the largest bucket last.        *)
THEOREM LookupReadsInBounds == Spec => []ReadsInBounds
<1>1. IInv => ReadsInBounds
  <2> SUFFICES ASSUME IInv, stage = "search", Indexed, searched < search_len
               PROVE  at \in 1 .. Size
    BY DEF ReadsInBounds, Indexed
  <2>1. /\ key \in RawKeys /\ searched \in 0 .. search_len /\ at = FirstIndex(key) + searched /\ Built
        /\ longest_run \in Nat /\ Size \in Nat
    BY Given DEF IInv, SearchInv, MaskInv, RunFits, Built
  <2>2. FirstIndex(key) \in 1 .. Size - longest_run
    BY <2>1, FirstInBounds
  <2>3. QED
    BY <2>1, <2>2 DEF search_len
<1>2. QED
  BY Inductive, <1>1, PTL

(* calc_pseudo_pext_mask returns a mask and a search length that belong     *)
(* together, whichever bits it has tried to give up.                        *)
THEOREM LookupSearchLenFits == Spec => []SearchLenFitsMask
<1>1. IInv => SearchLenFitsMask
  <2> SUFFICES ASSUME IInv, Size > 0
               PROVE  /\ \A k \in Keys : Cardinality(Bucket(mask, Keys, k)) <= search_len
                      /\ \E k \in Keys : Cardinality(Bucket(mask, Keys, k)) = search_len
    BY DEF SearchLenFitsMask
  <2>1. Keys # {}
    <3>1. 1 \in DOMAIN input.entries
      BY Given
    <3>2. QED
      BY <3>1 DEF Keys, KeysOf
  <2>2. QED
    BY <2>1 DEF IInv, MaskInv, RunFits, search_len
<1>2. QED
  BY Inductive, <1>1, PTL
=============================================================================
