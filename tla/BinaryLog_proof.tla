-------------------------- MODULE BinaryLog_proof --------------------------
(***************************************************************************)
(* The IDs of the string catalog, for any programs and any number of       *)
(* builds; the delivery of log messages, for any number of contexts and    *)
(* destinations; and that their logs decode, for any strings, argument     *)
(* types and values that fit the words.                                    *)
(***************************************************************************)
EXTENDS BinaryLog, Recursion

----------------------------------------------------------------------------
(* The lists that the generator makes. *)

LEMMA SortedItems ==
  ASSUME NEW items, NEW n \in Nat, DOMAIN items = 1 .. n,
         \A i \in 1 .. n : items[i].text \in Nat
  PROVE  Lists(sorted(items), n, items, 1 .. n)
<1> DEFINE S == 1 .. n
           Precedes(j, i) == \/ items[j].text < items[i].text
                             \/ (items[j].text = items[i].text /\ j < i)
           before == {e \in S \X S : Precedes(e[1], e[2])}
           rank == [i \in DOMAIN items |-> Cardinality({j \in DOMAIN items : Precedes(j, i)})]
<1>1. IsFiniteSet(S) /\ Cardinality(S) = n
  <2>1. IsFiniteSet(1 .. n) /\ Cardinality(1 .. n) = IF 1 > n THEN 0 ELSE n - 1 + 1
    BY FS_Interval
  <2>2. QED
    BY <2>1
<1>2. Orders(before, S)
  <2>1. \A i, j \in S : <<i, j>> \in before <=> Precedes(i, j)
    OBVIOUS
  <2>2. \A i, j \in S : Precedes(i, j) => ~Precedes(j, i)
    OBVIOUS
  <2>3. \A i, j \in S : i # j => Precedes(i, j) \/ Precedes(j, i)
    OBVIOUS
  <2>4. \A i, j, k \in S : Precedes(i, j) /\ Precedes(j, k) => Precedes(i, k)
    OBVIOUS
  <2>5. QED
    <3> HIDE DEF before, Precedes
    <3> QED
      BY <2>1, <2>2, <2>3, <2>4 DEF Orders
<1>3. \A i \in S : {j \in S : <<j, i>> \in before} = {j \in S : Precedes(j, i)}
  <2> HIDE DEF Precedes
  <2> QED
    OBVIOUS
<1>4. IsRanking([i \in S |-> Cardinality({j \in S : <<j, i>> \in before})], S)
  <2> HIDE DEF before, S
  <2> QED
    BY <1>1, <1>2, CountingRanks
<1>5. IsRanking(rank, S)
  <2>1. [i \in S |-> Cardinality({j \in S : <<j, i>> \in before})] = rank
    <3> HIDE DEF before, Precedes
    <3> QED
      BY <1>3
  <2>2. QED
    <3> HIDE DEF before, Precedes, rank, S
    <3> QED
      BY <1>4, <2>1
<1>6. sorted(items) = arranged(items, rank)
  BY DEF sorted
<1>7. QED
  <2> HIDE DEF rank, S
  <2>1. Lists(arranged(items, rank), Cardinality(S), items, S)
    BY <1>1, <1>5, Arranged
  <2>2. QED
    BY <1>1, <1>6, <2>1 DEF S

\* Every key in E is in F.
KeysIn(E, F) == \A m \in E : \E n \in F : key(n) = key(m)

UniqueKeys(list) == \A i, j \in DOMAIN list : key(list[i]) = key(list[j]) => i = j

LEMMA LastOf ==
  ASSUME NEW items \in Seq(Strings), NEW m, \E i \in DOMAIN items : key(items[i]) = key(m)
  PROVE  last_of(items, m) \in Range(items) /\ key(last_of(items, m)) = key(m)
<1> DEFINE T == {i \in DOMAIN items : key(items[i]) = key(m)}
<1>1. Len(items) \in Nat /\ DOMAIN items = 1 .. Len(items)
  OBVIOUS
<1>2. T # {} /\ T \in SUBSET (1 .. Len(items))
  BY <1>1
<1>3. PICK x \in T : \A y \in T : y <= x
  <2> HIDE DEF T
  <2> QED
    BY <1>1, <1>2, GreatestOf
<1>4. \A j \in x + 1 .. Len(items) : key(items[j]) # key(m)
  BY <1>1, <1>3
<1>5. \E i \in DOMAIN items :
        /\ key(items[i]) = key(m)
        /\ \A j \in i + 1 .. Len(items) : key(items[j]) # key(m)
  BY <1>3, <1>4
<1>6. QED
  BY <1>5 DEF last_of, Range

LEMMA UniqueList ==
  ASSUME NEW items \in Seq(Strings)
  PROVE  /\ unique(items) \in Seq(Strings)
         /\ Range(unique(items)) \subseteq Range(items)
         /\ KeysIn(Range(items), Range(unique(items)))
         /\ UniqueKeys(unique(items))
<1> DEFINE S == firsts(items)
           kept == at_positions(items, S)
<1>1. Len(items) \in Nat /\ DOMAIN items = 1 .. Len(items)
  OBVIOUS
<1>2. S \in SUBSET (1 .. Len(items))
  BY <1>1 DEF firsts
<1>3. PICK n \in Nat : Lists(kept, n, items, S)
  <2> HIDE DEF S
  <2> QED
    BY <1>1, <1>2, AtPositions
<1>4. unique(items) = [k \in 1 .. n |-> last_of(items, kept[k])]
  BY <1>3 DEF unique, Lists
<1>5. ASSUME NEW k \in 1 .. n
      PROVE  /\ last_of(items, kept[k]) \in Range(items)
             /\ key(last_of(items, kept[k])) = key(kept[k])
  <2>1. PICK i \in S : kept[k] = items[i]
    BY <1>3 DEF Lists
  <2>2. \E j \in DOMAIN items : key(items[j]) = key(kept[k])
    BY <1>1, <1>2, <2>1
  <2>3. QED
    BY <2>2, LastOf
<1>6. ASSUME NEW i \in DOMAIN items
      PROVE  \E k \in 1 .. n : key(kept[k]) = key(items[i])
  <2> DEFINE T == {j \in DOMAIN items : key(items[j]) = key(items[i])}
  <2>1. T \in SUBSET Nat /\ T # {}
    BY <1>1
  <2>2. PICK x \in T : \A y \in T : x <= y
    <3> HIDE DEF T
    <3> QED
      BY <2>1, LeastOf
  <2>3. x \in S
    BY <1>1, <2>2 DEF firsts
  <2>4. PICK k \in 1 .. n : kept[k] = items[x]
    BY <1>3, <2>3 DEF Lists
  <2>5. QED
    BY <2>2, <2>4
<1>7. Range(items) \subseteq Strings
  BY DEF Range
<1>8. unique(items) \in Seq(Strings) /\ Range(unique(items)) \subseteq Range(items)
  BY <1>4, <1>5, <1>7 DEF Range
<1>9. KeysIn(Range(items), Range(unique(items)))
  <2> SUFFICES ASSUME NEW i \in DOMAIN items
               PROVE  \E n2 \in Range(unique(items)) : key(n2) = key(items[i])
    BY DEF KeysIn, Range
  <2>1. PICK k \in 1 .. n : key(kept[k]) = key(items[i])
    BY <1>6
  <2>2. unique(items)[k] \in Range(unique(items))
    BY <1>4 DEF Range
  <2>3. unique(items)[k] = last_of(items, kept[k])
    BY <1>4
  <2>4. QED
    BY <1>5, <2>1, <2>2, <2>3
<1>10. UniqueKeys(unique(items))
  <2> SUFFICES ASSUME NEW k \in 1 .. n, NEW l \in 1 .. n, k # l
               PROVE  key(unique(items)[k]) # key(unique(items)[l])
    BY <1>4 DEF UniqueKeys
  <2>1. PICK i \in S, j \in S : i # j /\ kept[k] = items[i] /\ kept[l] = items[j]
    BY <1>3 DEF Lists
  <2>2. key(items[i]) # key(items[j])
    <3>1. CASE i < j
      BY <1>1, <3>1 DEF firsts
    <3>2. CASE j < i
      BY <1>1, <3>2 DEF firsts
    <3>3. QED
      BY <1>2, <2>1, <3>1, <3>2
  <2>3. /\ key(unique(items)[k]) = key(kept[k])
        /\ key(unique(items)[l]) = key(kept[l])
    BY <1>4, <1>5
  <2>4. QED
    BY <2>1, <2>2, <2>3
<1>11. QED
  BY <1>8, <1>9, <1>10

LEMMA PositionsList ==
  ASSUME NEW items \in Seq(Strings), NEW S \in SUBSET DOMAIN items
  PROVE  /\ at_positions(items, S) \in Seq(Strings)
         /\ Range(at_positions(items, S)) = {items[i] : i \in S}
<1>1. Len(items) \in Nat /\ DOMAIN items = 1 .. Len(items)
  OBVIOUS
<1>2. PICK n \in Nat : Lists(at_positions(items, S), n, items, S)
  BY <1>1, AtPositions
<1>3. at_positions(items, S) = [k \in DOMAIN at_positions(items, S) |-> at_positions(items, S)[k]]
  BY DEF at_positions, arranged
<1>4. \A k \in 1 .. n : at_positions(items, S)[k] \in Strings
  BY <1>2 DEF Lists
<1>5. at_positions(items, S) \in [1 .. n -> Strings]
  BY <1>2, <1>3, <1>4 DEF Lists
<1>6. at_positions(items, S) \in Seq(Strings)
  BY <1>5
<1>7. Range(at_positions(items, S)) = {items[i] : i \in S}
  <2> DEFINE list == at_positions(items, S)
  <2> HIDE DEF list
  <2>1. /\ DOMAIN list = 1 .. n
        /\ \A k \in 1 .. n : \E i \in S : list[k] = items[i]
        /\ \A i \in S : \E k \in 1 .. n : list[k] = items[i]
    BY <1>2 DEF Lists, list
  <2>2. ASSUME NEW k \in DOMAIN list PROVE list[k] \in {items[i] : i \in S}
    BY <2>1
  <2>3. ASSUME NEW i \in S PROVE items[i] \in {list[k] : k \in DOMAIN list}
    BY <2>1
  <2>4. Range(list) = {list[k] : k \in DOMAIN list}
    BY DEF Range
  <2>5. QED
    BY <2>2, <2>3, <2>4 DEF list
<1>8. QED
  BY <1>6, <1>7

LEMMA RangeOfConcat ==
  ASSUME NEW T, NEW s \in Seq(T), NEW t \in Seq(T)
  PROVE  s \o t \in Seq(T) /\ Range(s \o t) = Range(s) \cup Range(t)
<1> DEFINE u == s \o t
<1>1. u \in Seq(T)
  OBVIOUS
<1>2. \A i \in DOMAIN s : i \in DOMAIN u /\ u[i] = s[i]
  OBVIOUS
<1>3. \A i \in DOMAIN t : Len(s) + i \in DOMAIN u /\ u[Len(s) + i] = t[i]
  OBVIOUS
<1>4. ASSUME NEW i \in DOMAIN u
      PROVE  \/ i \in DOMAIN s /\ u[i] = s[i]
             \/ i - Len(s) \in DOMAIN t /\ u[i] = t[i - Len(s)]
  <2>1. i \in 1 .. Len(s) + Len(t)
    OBVIOUS
  <2>2. CASE i <= Len(s)
    BY <2>1, <2>2
  <2>3. CASE i > Len(s)
    BY <2>1, <2>3
  <2>4. QED
    BY <2>1, <2>2, <2>3
<1>5. QED
  <2> HIDE DEF u
  <2>1. Range(u) = Range(s) \cup Range(t)
    BY <1>2, <1>3, <1>4 DEF Range
  <2>2. QED
    BY <1>1, <2>1 DEF u

\* The strings that the generator remembers for a build.
LEMMA StablesList ==
  ASSUME NEW remembered \in Seq(Strings), NEW items \in Seq(Strings)
  PROVE  /\ stables(remembered, items) \in Seq(Strings)
         /\ Range(stables(remembered, items))
              \subseteq Range(remembered) \cup {m \in Range(items) : m.id # -1}
         /\ KeysIn(Range(remembered) \cup {m \in Range(items) : m.id # -1},
                   Range(stables(remembered, items)))
         /\ UniqueKeys(stables(remembered, items))
<1> DEFINE asking == at_positions(items, {i \in DOMAIN items : items[i].id # -1})
<1>1. /\ asking \in Seq(Strings)
      /\ Range(asking) = {items[i] : i \in {j \in DOMAIN items : items[j].id # -1}}
  BY PositionsList
<1>2. Range(asking) = {m \in Range(items) : m.id # -1}
  <2> HIDE DEF asking
  <2> QED
    BY <1>1 DEF Range
<1>3. /\ remembered \o asking \in Seq(Strings)
      /\ Range(remembered \o asking) = Range(remembered) \cup Range(asking)
  <2> HIDE DEF asking
  <2> QED
    BY <1>1, RangeOfConcat
<1>4. QED
  <2> HIDE DEF asking
  <2>1. stables(remembered, items) = unique(remembered \o asking)
    BY DEF stables, asking
  <2>2. QED
    BY <1>2, <1>3, <2>1, UniqueList

----------------------------------------------------------------------------
(* The IDs that the generator hands out. *)

\* itertools.count(0) without what is taken has a k-th value.
LEMMA GeneratedIs ==
  ASSUME NEW taken \in SUBSET Nat, IsFiniteSet(taken), NEW k \in Nat \ {0}
  PROVE  /\ generated(taken, k) \in Nat \ taken
         /\ Cardinality((0 .. generated(taken, k)) \ taken) = k
<1> DEFINE free_to(n) == Cardinality((0 .. n) \ taken)
           T == {n \in Nat : free_to(n) >= k}
           last == Cardinality(taken) + k
<1>1. Cardinality(taken) \in Nat /\ last \in Nat
  BY FS_CardinalityType
<1>2. ASSUME NEW n \in Nat
      PROVE  IsFiniteSet((0 .. n) \ taken) /\ free_to(n) \in Nat
  <2>1. IsFiniteSet(0 .. n)
    BY FS_Interval
  <2>2. IsFiniteSet((0 .. n) \ taken)
    BY <2>1, FS_Difference
  <2>3. QED
    BY <2>2, FS_CardinalityType
<1>3. last \in T
  <2> HIDE DEF last
  <2> DEFINE S == 0 .. last
  <2>1. IsFiniteSet(S) /\ Cardinality(S) = last + 1
    BY <1>1, FS_Interval
  <2> HIDE DEF S
  <2>2. Cardinality(S \ taken) = Cardinality(S) - Cardinality(S \cap taken)
    BY <2>1, FS_Difference
  <2>3. /\ Cardinality(S \cap taken) <= Cardinality(taken)
        /\ IsFiniteSet(S \cap taken)
    BY FS_Intersection
  <2>4. Cardinality(S \cap taken) \in Nat
    BY <2>3, FS_CardinalityType
  <2>5. Cardinality(S \ taken) >= k
    BY <1>1, <2>1, <2>2, <2>3, <2>4 DEF last
  <2>6. free_to(last) >= k
    BY <2>5 DEF S
  <2>7. QED
    BY <1>1, <2>6
<1>4. PICK x \in T : \A y \in T : x <= y
  <2> HIDE DEF T
  <2>1. T \in SUBSET Nat
    BY DEF T
  <2>2. QED
    BY <1>3, <2>1, LeastOf
<1> free_to(x) >= k
  BY <1>4
<1>5. x \notin taken /\ free_to(x) = k
  <2>1. CASE x = 0
    <3>1. (0 .. 0) = {0}
      OBVIOUS
    <3>2. CASE 0 \in taken
      <4>1. (0 .. x) \ taken = {}
        BY <2>1, <3>1, <3>2
      <4>2. free_to(x) = 0
        BY <4>1, FS_EmptySet
      <4>3. QED
        <5> HIDE DEF free_to
        <5> QED
          BY <4>2
    <3>3. CASE 0 \notin taken
      <4>1. (0 .. x) \ taken = {0}
        BY <2>1, <3>1, <3>3
      <4>2. free_to(x) = 1
        BY <4>1, FS_Singleton
      <4>3. QED
        BY <1>4, <2>1, <3>3, <4>2
    <3>4. QED
      BY <3>2, <3>3
  <2>2. CASE x > 0
    <3>1. x - 1 \in Nat /\ x - 1 \notin T
      BY <1>4, <2>2
    <3>2. free_to(x - 1) < k
      BY <1>2, <3>1
    <3>3. CASE x \in taken
      <4>1. (0 .. x) \ taken = (0 .. (x - 1)) \ taken
        BY <2>2, <3>3
      <4>2. free_to(x) = free_to(x - 1)
        BY <4>1
      <4>3. QED
        <5> HIDE DEF free_to
        <5> QED
          BY <1>2, <3>1, <3>2, <4>2
    <3>4. CASE x \notin taken
      <4>1. (0 .. x) \ taken = ((0 .. (x - 1)) \ taken) \cup {x}
        BY <2>2, <3>4
      <4>2. x \notin (0 .. (x - 1)) \ taken
        BY <2>2
      <4>3. free_to(x) = free_to(x - 1) + 1
        BY <1>2, <3>1, <4>1, <4>2, FS_AddElement
      <4>4. QED
        <5> HIDE DEF free_to
        <5>1. free_to(x) >= k
          BY <1>4
        <5>2. free_to(x - 1) \in Nat /\ k \in Nat
          BY <1>2, <3>1
        <5>3. free_to(x) = k
          <6> HIDE DEF T
          <6> QED
            BY <3>2, <4>3, <5>1, <5>2
        <5>4. QED
          BY <3>4, <5>3
    <3>5. QED
      <4> HIDE DEF free_to
      <4> QED
        BY <3>3, <3>4
  <2>3. QED
    <3> HIDE DEF free_to
    <3> QED
      BY <1>4, <2>1, <2>2
<1>6. x \in 0 .. last
  BY <1>1, <1>3, <1>4
<1>7. \E n \in 0 .. last : n \notin taken /\ Cardinality((0 .. n) \ taken) = k
  BY <1>5, <1>6
<1>8. /\ generated(taken, k) \in 0 .. last
      /\ generated(taken, k) \notin taken
      /\ Cardinality((0 .. generated(taken, k)) \ taken) = k
  <2> HIDE DEF free_to, T
  <2> QED
    BY <1>7 DEF generated
<1>9. QED
  BY <1>1, <1>8

LEMMA FinitelyManyIds ==
  ASSUME NEW list \in Seq(Strings)
  PROVE  IsFiniteSet(Ids(Range(list)))
<1> DEFINE f == [i \in 1 .. Len(list) |-> list[i].id]
<1>1. IsFiniteSet(1 .. Len(list))
  BY FS_Interval
<1>2. f \in Surjection(1 .. Len(list), Ids(Range(list)))
  BY DEF Surjection, Ids, Range
<1>3. QED
  <2> HIDE DEF f
  <2> QED
    BY <1>1, <1>2, FS_Surjection

LEMMA StringTypes ==
  ASSUME NEW m \in Strings
  PROVE  /\ m.text \in Nat /\ m.id \in Nat \cup {-1}
         /\ \A id \in Nat : /\ [m EXCEPT !.id = id] \in Strings
                            /\ [m EXCEPT !.id = id].id = id
                            /\ key([m EXCEPT !.id = id]) = key(m)
  BY DEF Strings, key

\* A string that kept its ID, and one that got a fresh one.
KeptId(m, E) == \E o \in E : key(o) = key(m) /\ o.id = m.id

FreshId(m, E, reserved) ==
  /\ \A o \in E : key(o) # key(m)
  /\ m.id \in Nat \ (Ids(E) \cup reserved)

WithIds(list, items, old, reserved) ==
  /\ list \in Seq(Strings)
  /\ \A i \in DOMAIN list : KeptId(list[i], Range(old)) \/ FreshId(list[i], Range(old), reserved)
  /\ \A i, j \in DOMAIN list :
        FreshId(list[i], Range(old), reserved) /\ list[i].id = list[j].id /\ i # j
          => KeptId(list[j], Range(old))
  /\ \A i \in DOMAIN list : \E m \in Range(items) : list[i] = [m EXCEPT !.id = list[i].id]
  /\ \A m \in Range(items) : \E n \in Range(list) : n = [m EXCEPT !.id = n.id]
  /\ UniqueKeys(items) => UniqueKeys(list)

\* How many of the first n members of a list are not stable.
FreshTo(list, n, old) == Cardinality({j \in 1 .. n : ~is_stable(list[j], old)})

LEMMA FreshCounts ==
  ASSUME NEW list, NEW old, NEW i \in Nat \ {0}, ~is_stable(list[i], old)
  PROVE  /\ FreshTo(list, i, old) \in Nat \ {0}
         /\ \A k \in Nat \ {0} : k < i => FreshTo(list, k, old) # FreshTo(list, i, old)
<1> DEFINE F(n) == {j \in 1 .. n : ~is_stable(list[j], old)}
<1>1. IsFiniteSet(F(i))
  <2>1. IsFiniteSet(1 .. i)
    BY FS_Interval
  <2>2. F(i) \in SUBSET (1 .. i)
    OBVIOUS
  <2>3. QED
    <3> HIDE DEF F
    <3> QED
      BY <2>1, <2>2, FS_Subset
<1>2. i \in F(i)
  OBVIOUS
<1>3. Cardinality(F(i)) \in Nat \ {0}
  <2> HIDE DEF F
  <2> QED
    BY <1>1, <1>2, FS_CardinalityType, FS_EmptySet
<1>4. ASSUME NEW k \in Nat \ {0}, k < i
      PROVE  Cardinality(F(k)) # Cardinality(F(i))
  <2>1. F(k) \in SUBSET F(i) /\ i \notin F(k)
    BY <1>4
  <2>2. QED
    <3> HIDE DEF F
    <3> QED
      BY <1>1, <1>2, <2>1, FS_Subset
<1>5. QED
  BY <1>3, <1>4 DEF FreshTo

LEMMA AssignIds ==
  ASSUME NEW items \in Seq(Strings), NEW old \in Seq(Strings),
         Ids(Range(old)) \subseteq Nat,
         NEW reserved \in SUBSET Nat, IsFiniteSet(reserved)
  PROVE  WithIds(assign_ids(items, old, reserved), items, old, reserved)
<1> DEFINE n == Len(items)
           in_order == sorted(items)
           taken == Ids(Range(old)) \cup reserved
           id_of(i) == IF is_stable(in_order[i], old) THEN last_of(old, in_order[i]).id
                       ELSE generated(taken, FreshTo(in_order, i, old))
           list == assign_ids(items, old, reserved)
<1>1. n \in Nat /\ DOMAIN items = 1 .. n
  OBVIOUS
<1>2. Lists(in_order, n, items, 1 .. n)
  <2>1. \A i \in 1 .. n : items[i].text \in Nat
    BY <1>1, StringTypes
  <2>2. QED
    BY <1>1, <2>1, SortedItems
<1>3. ASSUME NEW i \in 1 .. n PROVE in_order[i] \in Strings
  BY <1>1, <1>2 DEF Lists
<1>4. list = [i \in 1 .. n |-> [in_order[i] EXCEPT !.id = id_of(i)]]
  BY <1>2 DEF assign_ids, Lists, Ids, FreshTo
<1>5. taken \in SUBSET Nat /\ IsFiniteSet(taken)
  BY FinitelyManyIds, FS_Union
<1>6. ASSUME NEW i \in 1 .. n, is_stable(in_order[i], old)
      PROVE  id_of(i) \in Nat /\ \E o \in Range(old) : key(o) = key(in_order[i]) /\ o.id = id_of(i)
  <2>1. \E k \in DOMAIN old : key(old[k]) = key(in_order[i])
    BY <1>6 DEF is_stable, Range
  <2>2. /\ last_of(old, in_order[i]) \in Range(old)
        /\ key(last_of(old, in_order[i])) = key(in_order[i])
    BY <2>1, LastOf
  <2>3. QED
    BY <1>6, <2>2 DEF Ids
<1>7. ASSUME NEW i \in 1 .. n, ~is_stable(in_order[i], old)
      PROVE  /\ id_of(i) \in Nat \ taken
             /\ Cardinality((0 .. id_of(i)) \ taken) = FreshTo(in_order, i, old)
  <2>1. FreshTo(in_order, i, old) \in Nat \ {0}
    BY <1>7, FreshCounts
  <2>2. QED
    <3> HIDE DEF in_order, taken
    <3> QED
      BY <1>5, <1>7, <2>1, GeneratedIs
<1>8. ASSUME NEW i \in 1 .. n, NEW j \in 1 .. n, i # j,
             ~is_stable(in_order[i], old), ~is_stable(in_order[j], old)
      PROVE  id_of(i) # id_of(j)
  <2>1. FreshTo(in_order, i, old) # FreshTo(in_order, j, old)
    <3> HIDE DEF in_order
    <3>1. CASE i < j
      BY <1>8, <3>1, FreshCounts
    <3>2. CASE j < i
      BY <1>8, <3>2, FreshCounts
    <3>3. QED
      BY <1>8, <3>1, <3>2
  <2>2. QED
    <3> HIDE DEF id_of, in_order, taken
    <3> QED
      BY <1>7, <1>8, <2>1
<1>9. ASSUME NEW i \in 1 .. n
      PROVE  /\ list[i] \in Strings /\ list[i].id = id_of(i)
             /\ key(list[i]) = key(in_order[i])
             /\ list[i] = [in_order[i] EXCEPT !.id = id_of(i)]
  <2>1. id_of(i) \in Nat
    BY <1>6, <1>7
  <2>2. QED
    <3> HIDE DEF list, id_of, in_order
    <3>1. list[i] = [in_order[i] EXCEPT !.id = id_of(i)]
      BY <1>4
    <3>2. in_order[i] \in Strings
      BY <1>3
    <3>3. QED
      BY <2>1, <3>1, <3>2, StringTypes
<1>10. ASSUME NEW i \in 1 .. n
       PROVE  /\ is_stable(in_order[i], old) => KeptId(list[i], Range(old))
              /\ ~is_stable(in_order[i], old) => FreshId(list[i], Range(old), reserved)
              /\ FreshId(list[i], Range(old), reserved) => ~is_stable(in_order[i], old)
  <2> HIDE DEF list, id_of, in_order
  <2>1. /\ list[i].id = id_of(i)
        /\ key(list[i]) = key(in_order[i])
    BY <1>9
  <2>2. CASE is_stable(in_order[i], old)
    BY <1>6, <2>1, <2>2 DEF KeptId, FreshId
  <2>3. CASE ~is_stable(in_order[i], old)
    BY <1>7, <2>1, <2>3 DEF FreshId, is_stable
  <2>4. QED
    BY <2>2, <2>3
<1>11. DOMAIN list = 1 .. n /\ list \in Seq(Strings)
  <2>1. DOMAIN list = 1 .. n
    BY <1>4
  <2>2. list = [i \in 1 .. n |-> list[i]]
    BY <1>4
  <2>3. QED
    <3> HIDE DEF list
    <3> QED
      BY <1>1, <1>9, <2>1, <2>2
<1>12. QED
  <2> HIDE DEF list, id_of, in_order
  <2>1. ASSUME NEW i \in 1 .. n, NEW j \in 1 .. n, i # j, list[i].id = list[j].id,
               FreshId(list[i], Range(old), reserved)
        PROVE  KeptId(list[j], Range(old))
    <3>1. ~is_stable(in_order[i], old)
      BY <1>10, <2>1
    <3>2. id_of(i) = id_of(j)
      BY <1>9, <2>1
    <3>3. is_stable(in_order[j], old)
      BY <1>8, <2>1, <3>1, <3>2
    <3>4. QED
      BY <1>10, <3>3
  <2>2. \A i \in 1 .. n : \E m \in Range(items) : list[i] = [m EXCEPT !.id = list[i].id]
    <3> SUFFICES ASSUME NEW i \in 1 .. n
                 PROVE  \E m \in Range(items) : list[i] = [m EXCEPT !.id = list[i].id]
      OBVIOUS
    <3>1. PICK k \in 1 .. n : in_order[i] = items[k]
      BY <1>2 DEF Lists
    <3>2. items[k] \in Range(items)
      BY <1>1 DEF Range
    <3>3. list[i] = [items[k] EXCEPT !.id = list[i].id]
      BY <1>9, <3>1
    <3>4. QED
      BY <3>2, <3>3
  <2>3. \A m \in Range(items) : \E x \in Range(list) : x = [m EXCEPT !.id = x.id]
    <3> SUFFICES ASSUME NEW i \in 1 .. n
                 PROVE  \E x \in Range(list) : x = [items[i] EXCEPT !.id = x.id]
      BY <1>1 DEF Range
    <3>1. PICK k \in 1 .. n : in_order[k] = items[i]
      BY <1>2 DEF Lists
    <3>2. list[k] \in Range(list) /\ list[k] = [items[i] EXCEPT !.id = list[k].id]
      BY <1>9, <1>11, <3>1 DEF Range
    <3>3. QED
      BY <3>2
  <2>4. ASSUME UniqueKeys(items) PROVE UniqueKeys(list)
    <3> SUFFICES ASSUME NEW i \in 1 .. n, NEW j \in 1 .. n, i # j
                 PROVE  key(list[i]) # key(list[j])
      BY <1>11 DEF UniqueKeys
    <3>1. PICK k \in 1 .. n, l \in 1 .. n :
            k # l /\ in_order[i] = items[k] /\ in_order[j] = items[l]
      BY <1>2 DEF Lists
    <3>2. key(items[k]) # key(items[l])
      BY <1>1, <2>4, <3>1 DEF UniqueKeys
    <3>3. QED
      BY <1>9, <3>1, <3>2
  <2>5. WithIds(list, items, old, reserved)
    BY <1>10, <1>11, <2>1, <2>2, <2>3, <2>4 DEF WithIds
  <2>6. QED
    BY <2>5 DEF list

----------------------------------------------------------------------------
(***************************************************************************)
(* One ID is one string, if the IDs that strings ask for are reserved.     *)
(***************************************************************************)
\* The strings have IDs, a reserved one only if they ask for it, and no two
\* keys have the same.
WellNumbered(E, asks, reserved) ==
  /\ Ids(E) \subseteq Nat
  /\ \A m \in E : m.id \in reserved => \E a \in asks : a.id = m.id /\ key(a) = key(m)
  /\ \A m, n \in E : m.id = n.id => key(m) = key(n)

LEMMA SubsetWellNumbered ==
  ASSUME NEW asks, NEW reserved, NEW E, NEW F \in SUBSET E, WellNumbered(E, asks, reserved)
  PROVE  WellNumbered(F, asks, reserved)
  BY DEF WellNumbered, Ids

LEMMA AskingWellNumbered ==
  ASSUME NEW reserved \in SUBSET Nat, NEW asks, AskedForOneKey(asks, reserved),
         NEW E, WellNumbered(E, asks, reserved), NEW F \in SUBSET asks
  PROVE  WellNumbered(E \cup F, asks, reserved)
<1>1. Ids(E \cup F) \subseteq Nat
  BY DEF Ids, WellNumbered, AskedForOneKey
<1>2. ASSUME NEW m \in E \cup F, m.id \in reserved
      PROVE  \E a \in asks : a.id = m.id /\ key(a) = key(m)
  BY <1>2 DEF WellNumbered
<1>3. ASSUME NEW m \in E \cup F, NEW n \in E \cup F, m.id = n.id
      PROVE  key(m) = key(n)
  <2>1. CASE m \in E /\ n \in E
    BY <1>3, <2>1 DEF WellNumbered
  <2>2. CASE m \in F \/ n \in F
    <3>1. m.id \in reserved /\ n.id \in reserved
      BY <1>3, <2>2 DEF AskedForOneKey, Ids
    <3>2. PICK a \in asks : a.id = m.id /\ key(a) = key(m)
      BY <1>2, <3>1
    <3>3. PICK b \in asks : b.id = n.id /\ key(b) = key(n)
      BY <1>2, <3>1
    <3>4. QED
      BY <1>3, <3>2, <3>3 DEF AskedForOneKey
  <2>3. QED
    BY <2>1, <2>2
<1>4. QED
  BY <1>1, <1>2, <1>3 DEF WellNumbered

LEMMA AssignedWellNumbered ==
  ASSUME NEW items \in Seq(Strings), NEW old \in Seq(Strings),
         NEW reserved \in SUBSET Nat, IsFiniteSet(reserved), NEW asks,
         WellNumbered(Range(old), asks, reserved)
  PROVE  WellNumbered(Range(assign_ids(items, old, reserved)) \cup Range(old), asks, reserved)
<1> DEFINE list == assign_ids(items, old, reserved)
           E == Range(old)
<1>1. WithIds(list, items, old, reserved)
  BY AssignIds DEF WellNumbered
<1> HIDE DEF list
<1>2. ASSUME NEW m \in Range(list) \cup E
      PROVE  KeptId(m, E) \/ (m \in Range(list) /\ FreshId(m, E, reserved))
  <2>1. CASE m \in E
    BY <2>1 DEF KeptId
  <2>2. CASE m \in Range(list)
    <3>1. PICK i \in DOMAIN list : m = list[i]
      BY <2>2 DEF Range
    <3>2. KeptId(list[i], E) \/ FreshId(list[i], E, reserved)
      BY <1>1 DEF WithIds
    <3>3. QED
      BY <2>2, <3>1, <3>2
  <2>3. QED
    BY <1>2, <2>1, <2>2
<1>3. ASSUME NEW m \in Range(list) \cup E, NEW n \in Range(list) \cup E, m.id = n.id
      PROVE  key(m) = key(n)
  <2>1. CASE KeptId(m, E) /\ KeptId(n, E)
    BY <1>3, <2>1 DEF KeptId, WellNumbered
  <2>2. CASE (KeptId(m, E) /\ FreshId(n, E, reserved)) \/ (KeptId(n, E) /\ FreshId(m, E, reserved))
    BY <1>3, <2>2 DEF KeptId, FreshId, Ids
  <2>3. CASE FreshId(m, E, reserved) /\ ~KeptId(m, E) /\ FreshId(n, E, reserved) /\ ~KeptId(n, E)
    <3>1. m \in Range(list) /\ n \in Range(list)
      BY <1>2, <2>3
    <3>2. PICK i \in DOMAIN list : m = list[i]
      BY <3>1 DEF Range
    <3>3. PICK j \in DOMAIN list : n = list[j]
      BY <3>1 DEF Range
    <3>4. i = j
      BY <1>1, <1>3, <2>3, <3>2, <3>3 DEF WithIds
    <3>5. QED
      BY <3>2, <3>3, <3>4
  <2>4. QED
    BY <1>2, <2>1, <2>2, <2>3
<1>4. \A m \in Range(list) \cup E : m.id \in Nat
  BY <1>2 DEF KeptId, FreshId, WellNumbered, Ids
<1>5. ASSUME NEW m \in Range(list) \cup E, m.id \in reserved
      PROVE  \E a \in asks : a.id = m.id /\ key(a) = key(m)
  <2>1. KeptId(m, E)
    BY <1>2, <1>5 DEF FreshId
  <2>2. PICK o \in E : key(o) = key(m) /\ o.id = m.id
    BY <2>1 DEF KeptId
  <2>3. QED
    BY <1>5, <2>2 DEF WellNumbered
<1>6. QED
  BY <1>3, <1>4, <1>5 DEF WellNumbered, Ids, list

----------------------------------------------------------------------------
(* One build, for one kind of strings. *)

NewList(items, remembered, reserved, kept) ==
  write_json(assign_ids(unique(items), stables(remembered, unique(items)), reserved), kept)

LEMMA EmptyList == <<>> \in Seq(Strings) /\ Range(<<>>) = {}
  BY DEF Range

LEMMA WriteJson ==
  ASSUME NEW items \in Seq(Strings), NEW kept \in Seq(Strings)
  PROVE  /\ write_json(items, kept) \in Seq(Strings)
         /\ Range(write_json(items, kept)) = Range(items) \cup Range(kept)
<1> DEFINE S == {i \in DOMAIN kept : kept[i] \notin Range(items)}
           rest == at_positions(kept, S)
<1>1. rest \in Seq(Strings) /\ Range(rest) = {kept[i] : i \in S}
  BY PositionsList
<1>2. /\ items \o rest \in Seq(Strings)
      /\ Range(items \o rest) = Range(items) \cup Range(rest)
  <2> HIDE DEF rest
  <2> QED
    BY <1>1, RangeOfConcat
<1>3. Range(items) \cup Range(rest) = Range(items) \cup Range(kept)
  <2>1. \A i \in DOMAIN kept : kept[i] \in Range(items) \/ kept[i] \in Range(rest)
    BY <1>1
  <2>2. Range(rest) \subseteq Range(kept)
    BY <1>1 DEF Range
  <2>3. Range(kept) \subseteq Range(items) \cup Range(rest)
    BY <2>1 DEF Range
  <2>4. QED
    BY <2>2, <2>3
<1>4. QED
  BY <1>2, <1>3 DEF write_json

LEMMA NewListIs ==
  ASSUME NEW items \in Seq(Strings), NEW remembered \in Seq(Strings),
         NEW reserved \in SUBSET Nat, IsFiniteSet(reserved), NEW asks,
         AskedForOneKey(asks, reserved), {m \in Range(items) : m.id # -1} \subseteq asks,
         WellNumbered(Range(remembered), asks, reserved),
         NEW kept \in {<<>>, stables(remembered, unique(items))}
  PROVE  /\ NewList(items, remembered, reserved, kept) \in Seq(Strings)
         /\ WellNumbered(Range(NewList(items, remembered, reserved, kept)), asks, reserved)
<1> DEFINE u == unique(items)
           old == stables(remembered, u)
           list == assign_ids(u, old, reserved)
<1>1. u \in Seq(Strings) /\ Range(u) \subseteq Range(items)
  BY UniqueList
<1>2. /\ old \in Seq(Strings)
      /\ Range(old) \subseteq Range(remembered) \cup {m \in Range(u) : m.id # -1}
  <2> HIDE DEF u
  <2> QED
    BY <1>1, StablesList
<1>3. WellNumbered(Range(old), asks, reserved)
  <2> HIDE DEF u, old
  <2>1. {m \in Range(u) : m.id # -1} \in SUBSET asks
    BY <1>1
  <2>2. WellNumbered(Range(remembered) \cup {m \in Range(u) : m.id # -1}, asks, reserved)
    BY <2>1, AskingWellNumbered
  <2>3. QED
    BY <1>2, <2>2, SubsetWellNumbered
<1>4. list \in Seq(Strings) /\ WellNumbered(Range(list) \cup Range(old), asks, reserved)
  <2> HIDE DEF u, old
  <2>1. WithIds(list, u, old, reserved)
    BY <1>1, <1>2, <1>3, AssignIds DEF WellNumbered
  <2>2. QED
    BY <1>1, <1>2, <1>3, <2>1, AssignedWellNumbered DEF WithIds
<1>5. kept \in Seq(Strings) /\ Range(kept) \subseteq Range(old)
  BY <1>2, EmptyList
<1>6. /\ write_json(list, kept) \in Seq(Strings)
      /\ Range(write_json(list, kept)) \subseteq Range(list) \cup Range(old)
  <2> HIDE DEF u, old, list
  <2> QED
    BY <1>4, <1>5, WriteJson
<1>7. WellNumbered(Range(write_json(list, kept)), asks, reserved)
  <2> HIDE DEF u, old, list
  <2> QED
    BY <1>4, <1>6, SubsetWellNumbered
<1>8. QED
  BY <1>6, <1>7 DEF NewList

----------------------------------------------------------------------------
(* The builds. *)

CatalogTypeOK == collaterals \in Seq([messages : Seq(Strings), modules : Seq(Strings)])

CatalogInv ==
  /\ CatalogTypeOK
  /\ \A kind \in Kinds : WellNumbered(Entries(kind), Asks(kind), Reserved(kind))

LEMMA LastOfAppend ==
  ASSUME NEW T, NEW s \in Seq(T), NEW e
  PROVE  Append(s, e) # <<>> /\ Last(Append(s, e)) = e
<1>1. s \in Seq(T \cup {e})
  OBVIOUS
<1>2. Append(s, e) \in Seq(T \cup {e}) /\ Len(Append(s, e)) = Len(s) + 1
  BY <1>1
<1>3. Append(s, e)[Len(s) + 1] = e
  BY <1>1
<1>4. Append(s, e) # <<>>
  BY <1>1, <1>2
<1>5. QED
  BY <1>2, <1>3, <1>4 DEF Last

LEMMA LastIsIn ==
  ASSUME NEW T, NEW s \in Seq(T), s # <<>>
  PROVE  Last(s) \in T
<1>1. Len(s) \in 1 .. Len(s)
  OBVIOUS
<1>2. QED
  BY <1>1 DEF Last

\* What a build remembers of the one before.
Remembered(kind) == read_stable(previous)[kind]

LEMMA PreviousIs ==
  ASSUME CatalogTypeOK, NEW kind \in Kinds
  PROVE  /\ Remembered(kind) \in Seq(Strings)
         /\ Range(Remembered(kind)) \subseteq Entries(kind)
         /\ KeysIn(Entries(kind), Range(Remembered(kind)))
<1>1. CASE collaterals = <<>>
  <2>1. previous = <<>>
    BY <1>1 DEF previous
  <2>2. Remembered(kind) = <<>> /\ Entries(kind) = {}
    BY <1>1, <2>1 DEF Remembered, read_stable, Kinds, Entries
  <2>3. QED
    BY <2>2, EmptyList DEF KeysIn
<1>2. CASE collaterals # <<>>
  <2>1. previous = <<Last(collaterals)>> /\ Last(previous) = Last(collaterals)
    BY <1>2 DEF previous, Last
  <2>2. Last(collaterals) \in [messages : Seq(Strings), modules : Seq(Strings)]
    BY <1>2, LastIsIn DEF CatalogTypeOK
  <2>3. Last(collaterals)[kind] \in Seq(Strings)
    BY <2>2 DEF Kinds
  <2>4. Remembered(kind) = unique(Last(collaterals)[kind])
    BY <2>1 DEF Remembered, read_stable, Kinds
  <2>5. Entries(kind) = Range(Last(collaterals)[kind])
    BY <1>2 DEF Entries
  <2>6. QED
    BY <2>3, <2>4, <2>5, UniqueList
<1>3. QED
  BY <1>1, <1>2

LEMMA ReservedTypes ==
  ASSUME NEW kind \in Kinds
  PROVE  Reserved(kind) \in SUBSET Nat /\ IsFiniteSet(Reserved(kind))
  BY CatalogAssumption, FS_EmptySet DEF Reserved

LEMMA ProgramItems ==
  ASSUME NEW program \in Programs, NEW kind \in Kinds
  PROVE  /\ program[kind] \in Seq(Strings)
         /\ Range(program[kind]) \subseteq Mentioned(kind)
         /\ {m \in Range(program[kind]) : m.id # -1} \subseteq Asks(kind)
<1>1. program \in [messages : Seq(Strings), modules : Seq(Strings)]
  BY ProgramTypes
<1>2. program[kind] \in Seq(Strings)
  BY <1>1 DEF Kinds
<1>3. QED
  BY <1>2 DEF Mentioned, Asks

\* What a build appends, kind by kind.
Appended(program, forget, kind) ==
  NewList(program[kind], Remembered(kind), Reserved(kind),
          IF forget THEN <<>> ELSE stables(Remembered(kind), unique(program[kind])))

LEMMA BuildAppends ==
  ASSUME CatalogTypeOK, NEW program \in Programs, NEW forget \in Forgets,
         BuildStrings(program, forget)
  PROVE  /\ collaterals' = Append(collaterals,
                              [messages |-> Appended(program, forget, "messages"),
                               modules  |-> Appended(program, forget, "modules")])
  BY DEF BuildStrings, Appended, NewList, Remembered, Reserved

LEMMA AppendedEntries ==
  ASSUME CatalogTypeOK, NEW program \in Programs, NEW forget \in Forgets,
         BuildStrings(program, forget), NEW kind \in Kinds
  PROVE  /\ Last(collaterals')[kind] = Appended(program, forget, kind)
         /\ Entries(kind)' = Range(Appended(program, forget, kind))
<1> DEFINE new == [messages |-> Appended(program, forget, "messages"),
                   modules  |-> Appended(program, forget, "modules")]
<1>1. collaterals' = Append(collaterals, new)
  BY BuildAppends
<1>2. collaterals' # <<>> /\ Last(collaterals') = new
  <2> HIDE DEF new
  <2> QED
    BY <1>1, LastOfAppend DEF CatalogTypeOK
<1>3. new[kind] = Appended(program, forget, kind)
  BY DEF Kinds
<1>4. QED
  BY <1>2, <1>3 DEF Entries

LEMMA BuildKeeps ==
  ASSUME AskedAreReserved, CatalogInv, NEW program \in Programs, NEW forget \in Forgets,
         BuildStrings(program, forget)
  PROVE  CatalogInv'
<1>1. ASSUME NEW kind \in Kinds
      PROVE  /\ Appended(program, forget, kind) \in Seq(Strings)
             /\ WellNumbered(Range(Appended(program, forget, kind)), Asks(kind), Reserved(kind))
  <2>1. /\ Remembered(kind) \in Seq(Strings)
        /\ WellNumbered(Range(Remembered(kind)), Asks(kind), Reserved(kind))
    BY PreviousIs, SubsetWellNumbered DEF CatalogInv
  <2>2. AskedForOneKey(Asks(kind), Reserved(kind))
    BY DEF AskedAreReserved
  <2> DEFINE kept == IF forget THEN <<>> ELSE stables(Remembered(kind), unique(program[kind]))
  <2>3. kept \in {<<>>, stables(Remembered(kind), unique(program[kind]))}
    OBVIOUS
  <2>4. QED
    <3> HIDE DEF kept
    <3>1. /\ NewList(program[kind], Remembered(kind), Reserved(kind), kept) \in Seq(Strings)
          /\ WellNumbered(Range(NewList(program[kind], Remembered(kind), Reserved(kind), kept)),
                          Asks(kind), Reserved(kind))
      BY <2>1, <2>2, <2>3, ReservedTypes, ProgramItems, NewListIs
    <3>2. QED
      BY <3>1 DEF Appended, kept
<1>2. CatalogTypeOK'
  <2>1. /\ Appended(program, forget, "messages") \in Seq(Strings)
        /\ Appended(program, forget, "modules") \in Seq(Strings)
    BY <1>1 DEF Kinds
  <2> DEFINE new == [messages |-> Appended(program, forget, "messages"),
                     modules  |-> Appended(program, forget, "modules")]
  <2>2. new \in [messages : Seq(Strings), modules : Seq(Strings)]
    BY <2>1
  <2>3. collaterals' = Append(collaterals, new)
    BY BuildAppends DEF CatalogInv
  <2>4. QED
    <3> HIDE DEF new
    <3> QED
      BY <2>2, <2>3 DEF CatalogInv, CatalogTypeOK
<1>3. QED
  BY <1>1, <1>2, AppendedEntries DEF CatalogInv

LEMMA CatalogInvInit == Init => CatalogInv
<1> SUFFICES ASSUME collaterals = <<>> PROVE CatalogInv
  BY DEF Init, CatalogInit
<1>1. Entries("messages") = {} /\ Entries("modules") = {}
  BY DEF Entries
<1>2. QED
  BY <1>1 DEF CatalogInv, CatalogTypeOK, Kinds, WellNumbered, Ids

LEMMA OnlyBuildsChange ==
  ASSUME [Next]_vars
  PROVE  Build \/ UNCHANGED catalogVars
<1>1. CASE BuildNext
  BY <1>1 DEF BuildNext
<1>2. CASE Boot
  BY <1>2 DEF Boot, catalogVars
<1>3. ASSUME NEW c \in Contexts, StartLog(c) \/ Deliver(c) PROVE UNCHANGED catalogVars
  BY <1>3 DEF StartLog, Log, LogVersion, Start, Deliver, Enter, Write, Leave, catalogVars
<1>4. CASE UNCHANGED vars
  BY <1>4 DEF vars, catalogVars
<1>5. QED
  BY <1>1, <1>2, <1>3, <1>4 DEF Next

LEMMA CatalogInvNext ==
  ASSUME AskedAreReserved, CatalogInv, [Next]_vars
  PROVE  CatalogInv'
<1>1. CASE Build
  BY <1>1, BuildKeeps DEF Build
<1>2. CASE UNCHANGED catalogVars
  BY <1>2 DEF catalogVars, CatalogInv, CatalogTypeOK, Entries
<1>3. QED
  BY <1>1, <1>2, OnlyBuildsChange

LEMMA CatalogInvariance == ASSUME AskedAreReserved PROVE Spec => []CatalogInv
<1>1. CatalogInv /\ [Next]_vars => CatalogInv'
  BY AskedAreReserved, CatalogInvNext
<1>2. QED
  BY <1>1, CatalogInvInit, PTL DEF Spec

(* One ID is one string, in every catalog of every series of builds: an ID *)
(* that the generator hands out is never one it remembers, reserves or was *)
(* asked for, whether or not it forgets old IDs.                           *)
THEOREM OneIdOneString == ASSUME AskedAreReserved PROVE Spec => []IdsUnique
<1>1. CatalogInv => IdsUnique
  BY DEF CatalogInv, IdsUnique, WellNumbered, Kinds
<1>2. QED
  BY <1>1, AskedAreReserved, CatalogInvariance, PTL

----------------------------------------------------------------------------
(***************************************************************************)
(* What is remembered keeps its ID, when no build forgets and a string     *)
(* that asks for an ID asks for the same one wherever it is mentioned.     *)
(***************************************************************************)
\* A key has one ID, the one it asks for if it does.
Settled(E, asks) ==
  /\ Ids(E) \subseteq Nat
  /\ \A m, n \in E : key(m) = key(n) => m.id = n.id
  /\ \A m \in E, a \in asks : key(m) = key(a) => m.id = a.id

LEMMA SubsetSettled ==
  ASSUME NEW asks, NEW E, NEW F \in SUBSET E, Settled(E, asks)
  PROVE  Settled(F, asks)
  BY DEF Settled, Ids

LEMMA AskingSettled ==
  ASSUME NEW asks, Ids(asks) \subseteq Nat, \A a, b \in asks : key(a) = key(b) => a.id = b.id,
         NEW E, Settled(E, asks), NEW F \in SUBSET asks
  PROVE  Settled(E \cup F, asks)
<1>1. Ids(E \cup F) \subseteq Nat
  BY DEF Settled, Ids
<1>2. ASSUME NEW m \in E \cup F, NEW n \in E \cup F, key(m) = key(n) PROVE m.id = n.id
  BY <1>2 DEF Settled
<1>3. ASSUME NEW m \in E \cup F, NEW a \in asks, key(m) = key(a) PROVE m.id = a.id
  BY <1>3 DEF Settled
<1>4. QED
  BY <1>1, <1>2, <1>3 DEF Settled

\* A string with a key that asks is stable.
StableIfAsked(items, old, asks) ==
  \A m \in Range(items), a \in asks :
    key(m) = key(a) => \E o \in Range(old) : key(o) = key(m)

LEMMA AssignedSettled ==
  ASSUME NEW items \in Seq(Strings), UniqueKeys(items), NEW old \in Seq(Strings),
         NEW reserved \in SUBSET Nat, IsFiniteSet(reserved), NEW asks,
         Settled(Range(old), asks), StableIfAsked(items, old, asks)
  PROVE  Settled(Range(assign_ids(items, old, reserved)) \cup Range(old), asks)
<1> DEFINE list == assign_ids(items, old, reserved)
           E == Range(old)
<1>1. WithIds(list, items, old, reserved)
  BY AssignIds DEF Settled
<1> HIDE DEF list
<1>2. ASSUME NEW m \in Range(list) \cup E
      PROVE  KeptId(m, E) \/ (m \in Range(list) /\ FreshId(m, E, reserved))
  <2>1. CASE m \in E
    BY <2>1 DEF KeptId
  <2>2. CASE m \in Range(list)
    <3>1. PICK i \in DOMAIN list : m = list[i]
      BY <2>2 DEF Range
    <3>2. KeptId(list[i], E) \/ FreshId(list[i], E, reserved)
      BY <1>1 DEF WithIds
    <3>3. QED
      BY <2>2, <3>1, <3>2
  <2>3. QED
    BY <1>2, <2>1, <2>2
<1>3. ASSUME NEW m \in Range(list) \cup E, NEW n \in Range(list) \cup E, key(m) = key(n)
      PROVE  m.id = n.id
  <2>1. CASE KeptId(m, E) /\ KeptId(n, E)
    BY <1>3, <2>1 DEF KeptId, Settled
  <2>2. CASE (KeptId(m, E) /\ FreshId(n, E, reserved)) \/ (KeptId(n, E) /\ FreshId(m, E, reserved))
    BY <1>3, <2>2 DEF KeptId, FreshId
  <2>3. CASE FreshId(m, E, reserved) /\ ~KeptId(m, E) /\ FreshId(n, E, reserved) /\ ~KeptId(n, E)
    <3>1. m \in Range(list) /\ n \in Range(list)
      BY <1>2, <2>3
    <3>2. PICK i \in DOMAIN list : m = list[i]
      BY <3>1 DEF Range
    <3>3. PICK j \in DOMAIN list : n = list[j]
      BY <3>1 DEF Range
    <3>4. i = j
      BY <1>1, <1>3, <3>2, <3>3 DEF WithIds, UniqueKeys
    <3>5. QED
      BY <3>2, <3>3, <3>4
  <2>4. QED
    BY <1>2, <2>1, <2>2, <2>3
<1>4. \A m \in Range(list) \cup E : m.id \in Nat
  BY <1>2 DEF KeptId, FreshId, Settled, Ids
<1>5. ASSUME NEW m \in Range(list) \cup E, NEW a \in asks, key(m) = key(a)
      PROVE  m.id = a.id
  <2>1. CASE KeptId(m, E)
    BY <1>5, <2>1 DEF KeptId, Settled
  <2>2. CASE m \in Range(list) /\ FreshId(m, E, reserved)
    <3>1. PICK i \in DOMAIN list : m = list[i]
      BY <2>2 DEF Range
    <3>2. PICK w \in Range(items) : list[i] = [w EXCEPT !.id = list[i].id]
      BY <1>1 DEF WithIds
    <3>3. w \in Strings /\ m.id \in Nat
      BY <1>4, <1>5 DEF Range
    <3>4. key(m) = key(w)
      BY <3>1, <3>2, <3>3, StringTypes
    <3>5. \E o \in E : key(o) = key(w)
      BY <1>5, <3>4 DEF StableIfAsked
    <3>6. QED
      BY <2>2, <3>4, <3>5 DEF FreshId
  <2>3. QED
    BY <1>2, <2>1, <2>2
<1>6. QED
  BY <1>3, <1>4, <1>5 DEF Settled, Ids, list

\* One build of one kind: what is written is settled, and nothing is lost.
AsksItsId(items, asks) ==
  /\ Ids(asks) \subseteq Nat
  /\ \A a, b \in asks : key(a) = key(b) => a.id = b.id
  /\ {m \in Range(items) : m.id # -1} \subseteq asks
  /\ \A m \in Range(items), a \in asks : key(m) = key(a) => m.id # -1

KeepsAll(E, F) == \A m \in E : \E n \in F : key(n) = key(m) /\ n.id = m.id

LEMMA NewListKeeps ==
  ASSUME NEW items \in Seq(Strings), NEW remembered \in Seq(Strings),
         NEW reserved \in SUBSET Nat, IsFiniteSet(reserved), NEW asks,
         AsksItsId(items, asks), Settled(Range(remembered), asks)
  PROVE  /\ NewList(items, remembered, reserved, stables(remembered, unique(items))) \in Seq(Strings)
         /\ Settled(Range(NewList(items, remembered, reserved,
                                  stables(remembered, unique(items)))), asks)
         /\ KeepsAll(Range(remembered),
                     Range(NewList(items, remembered, reserved,
                                   stables(remembered, unique(items)))))
<1> DEFINE u == unique(items)
           old == stables(remembered, u)
           list == assign_ids(u, old, reserved)
           new == write_json(list, old)
           asking == {m \in Range(u) : m.id # -1}
<1>1. u \in Seq(Strings) /\ Range(u) \subseteq Range(items) /\ UniqueKeys(u)
  BY UniqueList
<1>2. /\ old \in Seq(Strings)
      /\ Range(old) \subseteq Range(remembered) \cup asking
      /\ KeysIn(Range(remembered) \cup asking, Range(old))
  <2> HIDE DEF u
  <2> QED
    BY <1>1, StablesList
<1>3. asking \in SUBSET asks
  BY <1>1 DEF AsksItsId
<1>4. Settled(Range(remembered) \cup asking, asks)
  <2> HIDE DEF asking
  <2> QED
    BY <1>3, AskingSettled DEF AsksItsId
<1>5. Settled(Range(old), asks)
  <2> HIDE DEF asking, old
  <2> QED
    BY <1>2, <1>4, SubsetSettled
<1>6. ASSUME NEW m \in Range(u), NEW a \in asks, key(m) = key(a)
      PROVE  \E o \in Range(old) : key(o) = key(m)
  <2>1. m.id # -1
    BY <1>1, <1>6 DEF AsksItsId
  <2>2. m \in asking
    BY <1>6, <2>1
  <2>3. QED
    <3> HIDE DEF u, old, asking
    <3> QED
      BY <1>2, <2>2 DEF KeysIn
<1>7. list \in Seq(Strings) /\ Settled(Range(list) \cup Range(old), asks)
  <2> HIDE DEF u, old
  <2>1. WithIds(list, u, old, reserved)
    BY <1>1, <1>2, <1>5, AssignIds DEF Settled
  <2>2. StableIfAsked(u, old, asks)
    BY <1>6 DEF StableIfAsked
  <2>3. Settled(Range(list) \cup Range(old), asks)
    BY <1>1, <1>2, <1>5, <2>2, AssignedSettled
  <2>4. QED
    BY <2>1, <2>3 DEF WithIds
<1>8. new \in Seq(Strings) /\ Range(new) = Range(list) \cup Range(old)
  <2> HIDE DEF u, old, list
  <2> QED
    BY <1>2, <1>7, WriteJson
<1>9. ASSUME NEW m \in Range(remembered)
      PROVE  \E n \in Range(new) : key(n) = key(m) /\ n.id = m.id
  <2> HIDE DEF u, old, list, new, asking
  <2>1. PICK o \in Range(old) : key(o) = key(m)
    BY <1>2 DEF KeysIn
  <2>2. o \in Range(new)
    BY <1>8
  <2>3. o.id = m.id
    BY <1>2, <1>4, <2>1 DEF Settled
  <2>4. QED
    BY <2>1, <2>2, <2>3
<1>10. NewList(items, remembered, reserved, old) = new
  BY DEF NewList
<1>11. QED
  <2> HIDE DEF list, new
  <2>1. Settled(Range(new), asks)
    BY <1>7, <1>8
  <2>2. KeepsAll(Range(remembered), Range(new))
    BY <1>9 DEF KeepsAll
  <2>3. QED
    BY <1>8, <1>10, <2>1, <2>2

SettledInv ==
  /\ CatalogTypeOK
  /\ \A kind \in Kinds : Settled(Entries(kind), Asks(kind))

\* What a build writes is settled, and has every string there was, with its ID.
LEMMA BuildSettles ==
  ASSUME AskedAlike, NoneForgotten, SettledInv, NEW program \in Programs, NEW forget \in Forgets,
         BuildStrings(program, forget), NEW kind \in Kinds
  PROVE  /\ Appended(program, forget, kind) \in Seq(Strings)
         /\ Settled(Entries(kind)', Asks(kind))
         /\ KeepsAll(Entries(kind), Range(Last(collaterals')[kind]))
<1> DEFINE remembered == Remembered(kind)
           items == program[kind]
           new == NewList(items, remembered, Reserved(kind), stables(remembered, unique(items)))
<1>1. /\ remembered \in Seq(Strings) /\ Range(remembered) \subseteq Entries(kind)
      /\ KeysIn(Entries(kind), Range(remembered))
  BY PreviousIs DEF SettledInv
<1>2. Settled(Entries(kind), Asks(kind))
  BY DEF SettledInv
<1>3. Settled(Range(remembered), Asks(kind))
  <2> HIDE DEF remembered
  <2> QED
    BY <1>1, <1>2, SubsetSettled
<1>4. /\ items \in Seq(Strings) /\ Range(items) \subseteq Mentioned(kind)
      /\ {m \in Range(items) : m.id # -1} \subseteq Asks(kind)
  BY ProgramItems
<1>5. Ids(Asks(kind)) \subseteq Nat
  <2>1. Mentioned(kind) \subseteq Strings
    <3>1. ASSUME NEW p \in Programs PROVE Range(p[kind]) \subseteq Strings
      <4>1. p[kind] \in Seq(Strings)
        BY ProgramItems
      <4>2. QED
        BY <4>1 DEF Range
    <3>2. QED
      BY <3>1 DEF Mentioned
  <2>2. \A m \in Asks(kind) : m.id \in Nat \cup {-1} /\ m.id # -1
    BY <2>1, StringTypes DEF Asks
  <2>3. QED
    BY <2>2 DEF Ids
<1>6. \A a, b \in Asks(kind) : key(a) = key(b) => a.id = b.id
  BY DEF Asks, AskedAlike
<1>7. \A m \in Range(items), a \in Asks(kind) : key(m) = key(a) => m.id # -1
  BY <1>4 DEF Asks, AskedAlike
<1>8. AsksItsId(items, Asks(kind))
  BY <1>4, <1>5, <1>6, <1>7 DEF AsksItsId
<1>9. /\ new \in Seq(Strings)
      /\ Settled(Range(new), Asks(kind))
      /\ KeepsAll(Range(remembered), Range(new))
  <2> HIDE DEF remembered, items
  <2> QED
    BY <1>1, <1>3, <1>4, <1>8, ReservedTypes, NewListKeeps
<1>10. forget = FALSE
  BY DEF NoneForgotten
<1>11. Appended(program, forget, kind) = new
  BY <1>10 DEF Appended
<1>12. /\ Last(collaterals')[kind] = new
       /\ Entries(kind)' = Range(new)
  BY <1>11, AppendedEntries DEF SettledInv
<1>13. ASSUME NEW m \in Entries(kind)
       PROVE  \E n \in Range(new) : key(n) = key(m) /\ n.id = m.id
  <2> HIDE DEF remembered, new
  <2>1. PICK o \in Range(remembered) : key(o) = key(m)
    BY <1>1 DEF KeysIn
  <2>2. o.id = m.id
    BY <1>1, <1>2, <2>1 DEF Settled
  <2>3. QED
    BY <1>9, <2>1, <2>2 DEF KeepsAll
<1>14. QED
  <2> HIDE DEF new
  <2> QED
    BY <1>9, <1>11, <1>12, <1>13 DEF KeepsAll

LEMMA SettledInvInit == Init => SettledInv
<1> SUFFICES ASSUME collaterals = <<>> PROVE SettledInv
  BY DEF Init, CatalogInit
<1>1. Entries("messages") = {} /\ Entries("modules") = {}
  BY DEF Entries
<1>2. QED
  BY <1>1 DEF SettledInv, CatalogTypeOK, Kinds, Settled, Ids

LEMMA SettledInvNext ==
  ASSUME AskedAlike, NoneForgotten, SettledInv, [Next]_vars
  PROVE  SettledInv'
<1>1. ASSUME NEW program \in Programs, NEW forget \in Forgets, BuildStrings(program, forget)
      PROVE  SettledInv'
  <2>1. /\ Appended(program, forget, "messages") \in Seq(Strings)
        /\ Appended(program, forget, "modules") \in Seq(Strings)
    BY <1>1, BuildSettles DEF Kinds
  <2>2. CatalogTypeOK'
    <3> DEFINE new == [messages |-> Appended(program, forget, "messages"),
                       modules  |-> Appended(program, forget, "modules")]
    <3>1. new \in [messages : Seq(Strings), modules : Seq(Strings)]
      BY <2>1
    <3>2. collaterals' = Append(collaterals, new)
      BY <1>1, BuildAppends DEF SettledInv
    <3>3. QED
      <4> HIDE DEF new
      <4> QED
        BY <3>1, <3>2 DEF SettledInv, CatalogTypeOK
  <2>3. \A kind \in Kinds : Settled(Entries(kind)', Asks(kind))
    BY <1>1, BuildSettles
  <2>4. QED
    BY <2>2, <2>3 DEF SettledInv
<1>2. CASE Build
  BY <1>1, <1>2 DEF Build
<1>3. CASE UNCHANGED catalogVars
  BY <1>3 DEF catalogVars, SettledInv, CatalogTypeOK, Entries
<1>4. QED
  BY <1>2, <1>3, OnlyBuildsChange

LEMMA SettledInvariance == ASSUME AskedAlike, NoneForgotten PROVE Spec => []SettledInv
<1>1. SettledInv /\ [Next]_vars => SettledInv'
  BY AskedAlike, NoneForgotten, SettledInvNext
<1>2. QED
  BY <1>1, SettledInvInit, PTL DEF Spec

\* What a build may do to the entries there are.
Keeps == \A kind \in Kinds : KeepsAll(Entries(kind), Range(Last(collaterals')[kind]))

(* A string keeps its ID over every series of builds that forget nothing,  *)
(* also through builds of programs that do not mention it: what            *)
(* assign_ids, unique and write_json do to the remembered strings loses    *)
(* none of them and renumbers none of them.                                *)
THEOREM IdsAlwaysKept == ASSUME AskedAlike, NoneForgotten PROVE Spec => IdsKept
<1>1. SettledInv /\ [Next]_vars => [Keeps]_catalogVars
  <2> SUFFICES ASSUME SettledInv, [Next]_vars, Build
               PROVE  Keeps
    BY OnlyBuildsChange
  <2>1. PICK program \in Programs, forget \in Forgets : BuildStrings(program, forget)
    BY DEF Build
  <2>2. QED
    BY <2>1, AskedAlike, NoneForgotten, BuildSettles DEF Keeps
<1>2. Spec => [][Keeps]_catalogVars
  BY <1>1, AskedAlike, NoneForgotten, SettledInvariance, PTL DEF Spec
<1>3. [Keeps]_catalogVars =>
        [\A kind \in {"messages", "modules"} : \A m \in Entries(kind) :
           \E n \in Range(Last(collaterals')[kind]) : key(n) = key(m) /\ n.id = m.id]_catalogVars
  BY DEF Keeps, KeepsAll, Kinds
<1>4. QED
  BY <1>2, <1>3, PTL DEF IdsKept

----------------------------------------------------------------------------
(***************************************************************************)
(* The delivery of messages, and the panic after it.                       *)
(***************************************************************************)
Lines == {Raised} \cup {line_of(site) : site \in CallSites}

DeliveryTypeOK ==
  /\ pc \in [Contexts -> {"idle", "at", "inside", "panicked"}]
  /\ at \in [Contexts -> 1 .. Len(Destinations)]
  /\ DOMAIN packet = Contexts /\ \A c \in Contexts : packet[c].line \in Lines
  /\ sent \in [Range_of(Destinations) -> Seq(Lines)]

Got(line, i) == line \in Range_of(sent[Destinations[i]])

\* How far the packet of a context has come: the destinations before the one
\* in hand have its line, the one in hand from the moment it is entered, and
\* all of them when the context panics.
Progress(c) ==
  /\ \A i \in 1 .. Len(Destinations) :
       pc[c] \in {"at", "inside"} /\ i < at[c] => Got(packet[c].line, i)
  /\ pc[c] = "inside" => Got(packet[c].line, at[c])
  /\ pc[c] = "panicked" => \A i \in 1 .. Len(Destinations) : Got(packet[c].line, i)

DeliveryInv == DeliveryTypeOK /\ \A c \in Contexts : Progress(c)

LEMMA DestinationsAre ==
  /\ Len(Destinations) \in Nat \ {0} /\ DOMAIN Destinations = 1 .. Len(Destinations)
  /\ \A i \in 1 .. Len(Destinations) : Destinations[i] \in Range_of(Destinations)
  /\ \A d \in Range_of(Destinations) : \E i \in 1 .. Len(Destinations) : d = Destinations[i]
<1>1. Len(Destinations) \in Nat \ {0} /\ DOMAIN Destinations = 1 .. Len(Destinations)
  BY LogAssumption
<1>2. QED
  BY <1>1 DEF Range_of

LEMMA AppendGrows ==
  ASSUME NEW s \in Seq(Lines), NEW line \in Lines
  PROVE  /\ Append(s, line) \in Seq(Lines)
         /\ Range_of(s) \subseteq Range_of(Append(s, line))
         /\ line \in Range_of(Append(s, line))
<1> DEFINE t == Append(s, line)
<1>1. t \in Seq(Lines) /\ Len(t) = Len(s) + 1 /\ t[Len(s) + 1] = line
  OBVIOUS
<1>2. \A i \in DOMAIN s : i \in DOMAIN t /\ t[i] = s[i]
  OBVIOUS
<1>3. Len(s) + 1 \in DOMAIN t
  OBVIOUS
<1>4. QED
  <2> HIDE DEF t
  <2>1. Range_of(s) \subseteq Range_of(t) /\ line \in Range_of(t)
    BY <1>1, <1>2, <1>3 DEF Range_of
  <2>2. QED
    BY <1>1, <2>1 DEF t

LEMMA DeliveryInit == Init => DeliveryInv
<1> SUFFICES ASSUME LogInit PROVE DeliveryInv
  BY DEF Init
<1>1. DeliveryTypeOK
  BY DestinationsAre DEF LogInit, DeliveryTypeOK, nothing, Lines
<1>2. ASSUME NEW c \in Contexts PROVE Progress(c)
  BY DEF LogInit, Progress
<1>3. QED
  BY <1>1, <1>2 DEF DeliveryInv

LEMMA DeliveryStart ==
  ASSUME DeliveryInv, NEW c \in Contexts, NEW new_packet, new_packet.line \in Lines,
         Start(c, new_packet)
  PROVE  DeliveryInv'
<1> USE DEF DeliveryInv, DeliveryTypeOK
<1>1. DeliveryTypeOK'
  BY DestinationsAre DEF Start
<1>2. ASSUME NEW d \in Contexts PROVE Progress(d)'
  <2>1. Progress(d)
    OBVIOUS
  <2>2. CASE d = c
    BY <2>2 DEF Start, Progress
  <2>3. CASE d # c
    BY <2>1, <2>3 DEF Start, Progress, Got
  <2>4. QED
    BY <2>2, <2>3
<1>3. QED
  BY <1>1, <1>2

LEMMA DeliveryEnter ==
  ASSUME DeliveryInv, NEW c \in Contexts, Enter(c)
  PROVE  DeliveryInv'
<1> USE DEF DeliveryInv, DeliveryTypeOK
<1>1. /\ destination(c) \in Range_of(Destinations)
      /\ sent' = [sent EXCEPT ![destination(c)] = Append(@, packet[c].line)]
      /\ packet[c].line \in Lines /\ pc[c] = "at"
      /\ pc' = [pc EXCEPT ![c] = "inside"] /\ at' = at /\ packet' = packet
  BY DestinationsAre DEF Enter, destination
<1>2. /\ sent[destination(c)] \in Seq(Lines)
      /\ sent'[destination(c)] = Append(sent[destination(c)], packet[c].line)
      /\ \A d \in Range_of(Destinations) : d # destination(c) => sent'[d] = sent[d]
  BY <1>1
<1>3. /\ sent'[destination(c)] \in Seq(Lines)
      /\ \A d \in Range_of(Destinations) : Range_of(sent[d]) \subseteq Range_of(sent'[d])
      /\ packet[c].line \in Range_of(sent'[destination(c)])
  BY <1>1, <1>2, AppendGrows
<1>4. DeliveryTypeOK'
  BY <1>1, <1>2, <1>3
<1>5. ASSUME NEW line, NEW i \in 1 .. Len(Destinations), Got(line, i) PROVE Got(line, i)'
  BY <1>3, <1>5, DestinationsAre DEF Got
<1>6. Got(packet[c].line, at[c])'
  BY <1>1, <1>3 DEF Got, destination
<1>7. ASSUME NEW d \in Contexts PROVE Progress(d)'
  <2>1. Progress(d) /\ at[d] \in 1 .. Len(Destinations)
    OBVIOUS
  <2>2. CASE d = c
    BY <1>1, <1>5, <1>6, <2>1, <2>2 DEF Progress
  <2>3. CASE d # c
    <3>1. pc'[d] = pc[d] /\ at'[d] = at[d] /\ packet'[d] = packet[d]
      BY <1>1, <2>3
    <3>2. QED
      BY <1>5, <2>1, <3>1 DEF Progress
  <2>4. QED
    BY <2>2, <2>3
<1>8. QED
  BY <1>4, <1>7

LEMMA DeliveryLeave ==
  ASSUME DeliveryInv, NEW c \in Contexts, Leave(c)
  PROVE  DeliveryInv'
<1> USE DEF DeliveryInv, DeliveryTypeOK
<1>1. /\ pc[c] = "inside" /\ sent' = sent
      /\ pc' = [pc EXCEPT ![c] = after_destination(c)]
      /\ at' = [at EXCEPT ![c] = IF @ < Len(Destinations) THEN @ + 1 ELSE 1]
      /\ packet' = [packet EXCEPT ![c] = IF after_destination(c) = "idle" THEN nothing ELSE @]
  BY DEF Leave
<1>2. at[c] \in 1 .. Len(Destinations) /\ Progress(c)
  OBVIOUS
<1>3. \/ at[c] < Len(Destinations) /\ after_destination(c) = "at"
      \/ at[c] = Len(Destinations) /\ after_destination(c) \in {"idle", "panicked"}
  BY <1>2, DestinationsAre DEF after_destination
<1>4. DeliveryTypeOK'
  <2>1. nothing.line \in Lines
    BY DEF nothing, Lines
  <2>2. QED
    BY <1>1, <1>2, <1>3, <2>1, DestinationsAre
<1>5. ASSUME NEW d \in Contexts PROVE Progress(d)'
  <2>1. Progress(d) /\ at[d] \in 1 .. Len(Destinations)
    OBVIOUS
  <2>2. CASE d # c
    <3>1. pc'[d] = pc[d] /\ at'[d] = at[d] /\ packet'[d] = packet[d]
      BY <1>1, <2>2
    <3>2. QED
      BY <1>1, <2>1, <3>1 DEF Progress, Got
  <2>3. CASE d = c /\ after_destination(c) = "at"
    <3>1. pc'[c] = "at" /\ at'[c] = at[c] + 1 /\ packet'[c] = packet[c]
      BY <1>1, <1>2, <1>3, <2>3
    <3>2. \A i \in 1 .. Len(Destinations) : i < at[c] + 1 => i < at[c] \/ i = at[c]
      BY <1>2
    <3>3. QED
      BY <1>1, <1>2, <2>3, <3>1, <3>2 DEF Progress, Got
  <2>4. CASE d = c /\ after_destination(c) = "panicked"
    <3>1. pc'[c] = "panicked" /\ packet'[c] = packet[c] /\ at[c] = Len(Destinations)
      BY <1>1, <1>3, <2>4
    <3>2. \A i \in 1 .. Len(Destinations) : i < at[c] \/ i = at[c]
      BY <1>2, <3>1
    <3>3. QED
      BY <1>1, <1>2, <2>4, <3>1, <3>2 DEF Progress, Got
  <2>5. CASE d = c /\ after_destination(c) = "idle"
    <3>1. pc'[c] = "idle"
      BY <1>1, <2>5
    <3>2. QED
      BY <2>5, <3>1 DEF Progress
  <2>6. QED
    BY <1>3, <2>2, <2>3, <2>4, <2>5
<1>6. QED
  BY <1>4, <1>5

LEMMA DeliveryNext ==
  ASSUME DeliveryInv, [Next]_vars
  PROVE  DeliveryInv'
<1>1. CASE UNCHANGED <<pc, at, packet, sent>>
  BY <1>1 DEF DeliveryInv, DeliveryTypeOK, Progress, Got
<1>2. CASE BuildNext \/ Boot \/ UNCHANGED vars
  BY <1>1, <1>2 DEF BuildNext, Boot, logVars, vars
<1>3. ASSUME NEW c \in Contexts, StartLog(c) PROVE DeliveryInv'
  <2>1. ASSUME NEW site \in CallSites, NEW unit \in Units, Log(c, site, unit) PROVE DeliveryInv'
    <3>1. line_of(site) \in Lines
      BY DEF Lines
    <3>2. \E new : new.line = line_of(site) /\ Start(c, new)
      BY <2>1 DEF Log
    <3>3. QED
      BY <3>1, <3>2, DeliveryStart
  <2>2. ASSUME NEW version \in Versions, LogVersion(c, version) PROVE DeliveryInv'
    <3>1. Raised \in Lines
      BY DEF Lines
    <3>2. \E new : new.line = Raised /\ Start(c, new)
      BY <2>2 DEF LogVersion
    <3>3. QED
      BY <3>1, <3>2, DeliveryStart
  <2>3. QED
    BY <1>3, <2>1, <2>2 DEF StartLog
<1>4. ASSUME NEW c \in Contexts, Deliver(c) PROVE DeliveryInv'
  <2>1. CASE Write(c)
    BY <1>1, <2>1 DEF Write
  <2>2. QED
    BY <1>4, <2>1, DeliveryEnter, DeliveryLeave DEF Deliver
<1>5. QED
  BY <1>2, <1>3, <1>4 DEF Next

(* The log of a program that panicked tells why, at every destination, for *)
(* any number of destinations and of contexts that log at the same time: a *)
(* context goes through all of the destinations in the log call before it  *)
(* gets to the panic.                                                      *)
THEOREM FatalAlwaysLogged == Spec => []FatalIsLogged
<1>1. DeliveryInv => FatalIsLogged
  <2> SUFFICES ASSUME DeliveryInv, NEW c \in Contexts, pc[c] = "panicked", NEW d \in DOMAIN sent
               PROVE  packet[c].line \in Range_of(sent[d])
    BY DEF FatalIsLogged
  <2>1. PICK i \in 1 .. Len(Destinations) : d = Destinations[i]
    BY DestinationsAre DEF DeliveryInv, DeliveryTypeOK
  <2>2. QED
    BY <2>1 DEF DeliveryInv, Progress, Got
<1>2. DeliveryInv /\ [Next]_vars => DeliveryInv'
  BY DeliveryNext
<1>3. QED
  BY <1>1, <1>2, DeliveryInit, PTL DEF Spec

----------------------------------------------------------------------------
(***************************************************************************)
(* Numbers as bytes.                                                       *)
(***************************************************************************)
LEMMA WeightIs ==
  /\ \A n \in 0 .. 8 : weight[n] \in Nat \ {0}
  /\ weight[0] = 1
  /\ \A n \in 1 .. 8 : weight[n] = ByteValues * weight[n - 1]
<1> DEFINE step == [n \in 1 .. 8 |-> [v \in Nat \ {0} |-> ByteValues * v]]
<1>1. ByteValues \in Nat \ {0}
  BY RangesArePositive
<1>2. \A v \in Nat \ {0} : ByteValues * v \in Nat \ {0}
  BY <1>1
<1>3. step \in [1 .. 8 -> [Nat \ {0} -> Nat \ {0}]]
  BY <1>2
<1>4. PICK f \in [0 .. 8 -> Nat \ {0}] : Counts(f, 8, 1, step)
  <2>1. 8 \in Nat /\ 1 \in Nat \ {0}
    OBVIOUS
  <2> HIDE DEF step
  <2> QED
    BY <1>3, <2>1, CountingExists
<1>5. f = [n \in 0 .. 8 |-> IF n = 0 THEN 1 ELSE step[n][f[n - 1]]]
  BY <1>4 DEF Counts
<1>6. f = [n \in 0 .. 8 |-> IF n = 0 THEN 1 ELSE ByteValues * f[n - 1]]
  <2>1. \A n \in 1 .. 8 : f[n - 1] \in Nat \ {0} /\ step[n][f[n - 1]] = ByteValues * f[n - 1]
    OBVIOUS
  <2> HIDE DEF step
  <2> QED
    BY <1>5, <2>1
<1>7. weight = [n \in 0 .. 8 |-> IF n = 0 THEN 1 ELSE ByteValues * weight[n - 1]]
  BY <1>6 DEF weight
<1>8. \A n \in 0 .. 8 : weight[n] = IF n = 0 THEN 1 ELSE ByteValues * weight[n - 1]
  BY <1>7
<1> DEFINE T == {n \in 0 .. 8 : weight[n] \in Nat \ {0}}
<1>9. T = 0 .. 8
  <2>1. T \in SUBSET (0 .. 8) /\ 0 \in T
    BY <1>8
  <2>2. ASSUME NEW n \in 1 .. 8, n - 1 \in T PROVE n \in T
    <3>1. weight[n] = ByteValues * weight[n - 1]
      BY <1>8
    <3>2. weight[n - 1] \in Nat \ {0}
      BY <2>2
    <3>3. QED
      BY <1>2, <3>1, <3>2
  <2>3. 8 \in Nat
    OBVIOUS
  <2> HIDE DEF T
  <2> QED
    BY <2>1, <2>2, <2>3, CountingHolds
<1>10. QED
  BY <1>8, <1>9

LEMMA DividingIs ==
  ASSUME NEW v \in Int, NEW w \in Nat \ {0}
  PROVE  /\ v \div w \in Int /\ v % w \in 0 .. w - 1
         /\ v = w * (v \div w) + (v % w)
  OBVIOUS

LEMMA DivisionIs ==
  ASSUME NEW w \in Nat \ {0}, NEW q \in Int, NEW r \in 0 .. w - 1
  PROVE  (w * q + r) \div w = q /\ (w * q + r) % w = r
<1> DEFINE v == w * q + r
           p == v \div w
           s == v % w
<1>1. v \in Int
  OBVIOUS
<1>2. p \in Int /\ s \in 0 .. w - 1 /\ v = w * p + s
  BY <1>1, DividingIs
<1> HIDE DEF p, s
<1>3. w * (q - p) = s - r
  BY <1>2
<1>4. q - p = 0
  <2>1. CASE q - p >= 1
    <3>1. w * (q - p) >= w
      BY <1>2, <2>1
    <3>2. QED
      BY <1>2, <1>3, <3>1
  <2>2. CASE q - p <= -1
    <3>1. w * (q - p) <= -w
      BY <1>2, <2>2
    <3>2. QED
      BY <1>2, <1>3, <3>1
  <2>3. QED
    BY <1>2, <2>1, <2>2
<1>5. QED
  BY <1>2, <1>3, <1>4 DEF p, s

\* One more byte.
LEMMA NextByte ==
  ASSUME NEW v \in Int, NEW w \in Nat \ {0}, NEW m \in Nat \ {0}
  PROVE  v % (m * w) = (v % w) + ((v \div w) % m) * w
<1> DEFINE q == v \div w
           r == v % w
           b == q % m
           p == q \div m
<1>1. q \in Int /\ r \in 0 .. w - 1 /\ v = w * q + r
  BY DividingIs
<1>2. p \in Int /\ b \in 0 .. m - 1 /\ q = m * p + b
  <2> HIDE DEF q
  <2> QED
    BY <1>1, DividingIs
<1> DEFINE low == r + b * w
           mw == m * w
<1> HIDE DEF q, r, b, p
<1>3. mw \in Nat \ {0}
  OBVIOUS
<1>4. low \in 0 .. mw - 1
  <2>1. b * w \in Nat /\ b * w <= (m - 1) * w
    BY <1>2
  <2>2. (m - 1) * w = mw - w
    OBVIOUS
  <2>3. QED
    BY <1>1, <2>1, <2>2
<1>5. v = mw * p + low
  <2>1. w * q = w * (m * p) + w * b
    BY <1>1, <1>2
  <2>2. w * (m * p) = mw * p
    BY <1>2
  <2>3. QED
    BY <1>1, <1>2, <2>1, <2>2
<1>6. v % mw = low
  <2> HIDE DEF mw, low
  <2> QED
    BY <1>2, <1>3, <1>4, <1>5, DivisionIs
<1>7. QED
  BY <1>6 DEF b, q, r

LEMMA BytesIs ==
  ASSUME NEW v \in Int, NEW n \in 0 .. 8
  PROVE  /\ Bytes(v, n) \in Seq(Nat) /\ Len(Bytes(v, n)) = n
         /\ \A i \in 1 .. n : Bytes(v, n)[i] = (v \div weight[i - 1]) % ByteValues
<1>1. ASSUME NEW i \in 1 .. n PROVE (v \div weight[i - 1]) % ByteValues \in Nat
  <2>0. i - 1 \in 0 .. 8
    OBVIOUS
  <2>1. weight[i - 1] \in Nat \ {0} /\ ByteValues \in Nat \ {0}
    BY <2>0, WeightIs, RangesArePositive
  <2>2. v \div weight[i - 1] \in Int
    BY <2>1, DividingIs
  <2>3. QED
    BY <2>1, <2>2, DividingIs
<1>2. Bytes(v, n) \in [1 .. n -> Nat]
  BY <1>1 DEF Bytes
<1>3. QED
  BY <1>2 DEF Bytes

\* The sums that Unsigned is made of.
LEMMA SumsAre ==
  ASSUME NEW bytes \in Seq(Nat), Len(bytes) \in 0 .. 8
  PROVE  \E sum : /\ Unsigned(bytes) = sum[Len(bytes)] /\ sum[0] = 0
                  /\ \A k \in 1 .. Len(bytes) : sum[k] = sum[k - 1] + bytes[k] * weight[k - 1]
<1> DEFINE n == Len(bytes)
           step == [k \in 1 .. n |-> [v \in Int |-> v + bytes[k] * weight[k - 1]]]
           Follows(f) == f = [k \in 0 .. n |-> IF k = 0 THEN 0 ELSE f[k - 1] + bytes[k] * weight[k - 1]]
           sum == CHOOSE f : Follows(f)
<1>1. \A k \in 1 .. n : bytes[k] * weight[k - 1] \in Int
  <2>1. ASSUME NEW k \in 1 .. n PROVE bytes[k] \in Nat /\ weight[k - 1] \in Nat
    <3>1. k - 1 \in 0 .. 8
      <4>1. n \in 0 .. 8 /\ k \in 1 .. n
        OBVIOUS
      <4> HIDE DEF n
      <4>2. QED
        BY <4>1
    <3>2. weight[k - 1] \in Nat
      BY <3>1, WeightIs
    <3>3. QED
      BY <3>2
  <2>2. QED
    BY <2>1
<1>2. step \in [1 .. n -> [Int -> Int]]
  BY <1>1
<1>3. PICK f \in [0 .. n -> Int] : Counts(f, n, 0, step)
  <2>1. n \in Nat /\ 0 \in Int
    OBVIOUS
  <2> HIDE DEF step, n
  <2> QED
    BY <1>2, <2>1, CountingExists
<1>4. Follows(f)
  <2>1. f = [k \in 0 .. n |-> IF k = 0 THEN 0 ELSE step[k][f[k - 1]]]
    BY <1>3 DEF Counts
  <2>2. \A k \in 1 .. n : f[k - 1] \in Int /\ step[k][f[k - 1]] = f[k - 1] + bytes[k] * weight[k - 1]
    OBVIOUS
  <2>3. n \in Nat /\ \A k \in 0 .. n : k # 0 => k \in 1 .. n
    OBVIOUS
  <2> HIDE DEF step, n
  <2> QED
    BY <2>1, <2>2, <2>3
<1>5. Follows(sum)
  <2> HIDE DEF Follows
  <2> QED
    BY <1>4
<1>6. Unsigned(bytes) = sum[n]
  BY DEF Unsigned
<1>7. sum[0] = 0 /\ \A k \in 1 .. n : sum[k] = sum[k - 1] + bytes[k] * weight[k - 1]
  <2>1. n \in Nat
    OBVIOUS
  <2>2. sum = [k \in 0 .. n |-> IF k = 0 THEN 0 ELSE sum[k - 1] + bytes[k] * weight[k - 1]]
    <3> HIDE DEF sum
    <3> QED
      BY <1>5
  <2> HIDE DEF sum, n
  <2>3. \A k \in 0 .. n : sum[k] = IF k = 0 THEN 0 ELSE sum[k - 1] + bytes[k] * weight[k - 1]
    BY <2>2
  <2>4. QED
    BY <2>1, <2>3
<1>8. QED
  <2> HIDE DEF sum
  <2> QED
    BY <1>6, <1>7

\* Bytes that are read as an unsigned number give what of the number they hold.
LEMMA UnsignedBytes ==
  ASSUME NEW v \in Int, NEW n \in 0 .. 8
  PROVE  Unsigned(Bytes(v, n)) = v % weight[n]
<1> DEFINE bytes == Bytes(v, n)
<1>1. /\ bytes \in Seq(Nat) /\ Len(bytes) = n
      /\ \A i \in 1 .. n : bytes[i] = (v \div weight[i - 1]) % ByteValues
  BY BytesIs
<1> HIDE DEF bytes
<1>2. PICK sum : /\ Unsigned(bytes) = sum[n] /\ sum[0] = 0
                 /\ \A k \in 1 .. n : sum[k] = sum[k - 1] + bytes[k] * weight[k - 1]
  BY <1>1, SumsAre
<1> DEFINE T == {k \in 0 .. n : sum[k] = v % weight[k]}
<1>3. 0 \in T
  <2>1. v % 1 = 0
    <3>1. v % 1 \in 0 .. 1 - 1
      BY DividingIs
    <3>2. QED
      BY <3>1
  <2>2. QED
    BY <1>2, <2>1, WeightIs
<1>4. ASSUME NEW k \in 1 .. n, k - 1 \in T PROVE k \in T
  <2>1. /\ weight[k - 1] \in Nat \ {0} /\ ByteValues \in Nat \ {0}
        /\ weight[k] = ByteValues * weight[k - 1]
    <3>1. k - 1 \in 0 .. 8 /\ k \in 1 .. 8
      OBVIOUS
    <3>2. QED
      BY <3>1, WeightIs, RangesArePositive
  <2>2. v % (ByteValues * weight[k - 1])
          = (v % weight[k - 1]) + ((v \div weight[k - 1]) % ByteValues) * weight[k - 1]
    BY <2>1, NextByte
  <2>3. sum[k] = v % weight[k]
    <3>1. sum[k] = sum[k - 1] + bytes[k] * weight[k - 1] /\ sum[k - 1] = v % weight[k - 1]
      BY <1>2, <1>4
    <3>2. bytes[k] = (v \div weight[k - 1]) % ByteValues
      BY <1>1
    <3>3. QED
      BY <2>1, <2>2, <3>1, <3>2
  <2>4. QED
    BY <2>3
<1>5. T = 0 .. n
  <2>1. n \in Nat /\ T \in SUBSET (0 .. n)
    OBVIOUS
  <2> HIDE DEF T
  <2> QED
    BY <1>3, <1>4, <2>1, CountingHolds
<1>6. n \in T
  BY <1>5
<1>7. QED
  BY <1>2, <1>6 DEF bytes

LEMMA UnsignedReads ==
  ASSUME NEW n \in 0 .. 8, NEW v \in Int, 0 <= v, v < weight[n]
  PROVE  Unsigned(Bytes(v, n)) = v
<1>1. weight[n] \in Nat \ {0}
  BY WeightIs
<1>2. v = weight[n] * 0 + v /\ v \in 0 .. weight[n] - 1
  BY <1>1
<1>3. (weight[n] * 0 + v) % weight[n] = v
  BY <1>1, <1>2, DivisionIs
<1>4. QED
  BY <1>2, <1>3, UnsignedBytes

LEMMA SignedReads ==
  ASSUME NEW n \in 0 .. 8, NEW v \in Int, -weight[n] <= 2 * v, 2 * v < weight[n]
  PROVE  Signed(Bytes(v, n)) = v
<1> DEFINE w == weight[n]
           bytes == Bytes(v, n)
           u == Unsigned(bytes)
<1>1. w \in Nat \ {0}
  BY WeightIs
<1>2. Len(bytes) = n /\ u = v % w
  BY BytesIs, UnsignedBytes
<1>3. Signed(bytes) = IF 2 * u >= w THEN u - w ELSE u
  BY <1>2 DEF Signed
<1> HIDE DEF w, bytes, u
<1>4. CASE v >= 0
  <2>1. v = w * 0 + v /\ v \in 0 .. w - 1
    BY <1>1, <1>4 DEF w
  <2>2. (w * 0 + v) % w = v
    BY <1>1, <2>1, DivisionIs
  <2>3. QED
    BY <1>1, <1>2, <1>3, <2>1, <2>2 DEF w, bytes
<1>5. CASE v < 0
  <2>1. v = w * (-1) + (v + w) /\ v + w \in 0 .. w - 1
    BY <1>1, <1>5 DEF w
  <2>2. (w * (-1) + (v + w)) % w = v + w
    <3>1. -1 \in Int
      OBVIOUS
    <3>2. \A q \in Int : \A r \in 0 .. w - 1 : (w * q + r) % w = r
      BY <1>1, DivisionIs
    <3> DEFINE r == v + w
    <3> HIDE DEF r
    <3>3. r \in 0 .. w - 1
      BY <2>1 DEF r
    <3>4. (w * (-1) + r) % w = r
      BY <3>1, <3>2, <3>3
    <3>5. QED
      BY <3>4 DEF r
  <2>3. u = v + w /\ 2 * u >= w
    BY <1>1, <1>2, <2>1, <2>2 DEF w
  <2>4. QED
    BY <1>1, <1>3, <2>3 DEF bytes
<1>6. QED
  BY <1>4, <1>5

\* The bytes that are used of those that are read.
LEMMA FirstBytes ==
  ASSUME NEW v \in Int, NEW n \in 0 .. 8, NEW k \in 0 .. n
  PROVE  SubSeq(Bytes(v, n), 1, k) = Bytes(v, k)
<1>1. /\ Bytes(v, n) \in Seq(Nat) /\ Len(Bytes(v, n)) = n
      /\ \A i \in 1 .. n : Bytes(v, n)[i] = (v \div weight[i - 1]) % ByteValues
  BY BytesIs
<1>2. SubSeq(Bytes(v, n), 1, k) = [i \in 1 .. k |-> Bytes(v, n)[i]]
  BY <1>1
<1>3. QED
  BY <1>1, <1>2 DEF Bytes

(* An argument is read as it was written. *)
LEMMA ArgumentReads ==
  ASSUME NEW T \in ArgumentTypes, NEW v \in Int, Fits(T, v)
  PROVE  extract_arg(T, Bytes(v, pack_size(T))) = v
<1>1. T.size \in 1 .. 8 /\ T.signed \in BOOLEAN
  BY DEF ArgumentTypes
<1>2. pack_size(T) \in {4, 8} /\ T.size \in 0 .. pack_size(T) /\ pack_size(T) \in 0 .. 8 /\ T.size \in 0 .. 8
  BY <1>1 DEF pack_size
<1>3. CASE T.kind = "enum"
  BY <1>2, <1>3, UnsignedReads DEF Fits, extract_arg
<1>4. CASE T.kind # "enum" /\ T.signed
  <2>1. -weight[T.size] <= 2 * v /\ 2 * v < weight[T.size]
    BY <1>4 DEF Fits
  <2>2. SubSeq(Bytes(v, pack_size(T)), 1, T.size) = Bytes(v, T.size)
    BY <1>2, FirstBytes
  <2>3. QED
    BY <1>2, <1>4, <2>1, <2>2, SignedReads DEF extract_arg, convert
<1>5. CASE T.kind # "enum" /\ ~T.signed
  <2>1. 0 <= v /\ v < weight[T.size]
    BY <1>5 DEF Fits
  <2>2. SubSeq(Bytes(v, pack_size(T)), 1, T.size) = Bytes(v, T.size)
    BY <1>2, FirstBytes
  <2>3. QED
    BY <1>2, <1>5, <2>1, <2>2, UnsignedReads DEF extract_arg, convert
<1>6. QED
  BY <1>1, <1>3, <1>4, <1>5

----------------------------------------------------------------------------
(***************************************************************************)
(* The words of a message.                                                 *)
(***************************************************************************)
Data == [type : {"data"}, bytes : [1 .. 4 -> Nat]]

Words ==
  Data \cup {[type |-> "Short32", id |-> n] : n \in Nat}
       \cup {catalog_header(site.level, m, unit) : site \in CallSites, m \in Nat, unit \in Units}
       \cup {[type |-> "Build", subtype |-> k] : k \in {0, 1, 2}}

LEMMA WordsAre ==
  ASSUME NEW bytes \in Seq(Nat), NEW n \in {1, 2}, Len(bytes) = 4 * n
  PROVE  /\ words(bytes) \in Seq(Data) /\ Len(words(bytes)) = n
         /\ \A w \in 1 .. n : /\ words(bytes)[w].type = "data"
                             /\ \A b \in 1 .. 4 : words(bytes)[w].bytes[b] = bytes[4 * (w - 1) + b]
<1>1. Len(bytes) \div 4 = n
  OBVIOUS
<1>2. ASSUME NEW w \in 1 .. n
      PROVE  /\ SubSeq(bytes, 4 * w - 3, 4 * w) \in [1 .. 4 -> Nat]
             /\ \A b \in 1 .. 4 : SubSeq(bytes, 4 * w - 3, 4 * w)[b] = bytes[4 * (w - 1) + b]
  <2>1. SubSeq(bytes, 4 * w - 3, 4 * w) = [b \in 1 .. 4 |-> bytes[4 * (w - 1) + b]]
    <3>1. 4 * w - (4 * w - 3) + 1 = 4 /\ \A b \in 1 .. 4 : (4 * w - 3) + b - 1 = 4 * (w - 1) + b
      OBVIOUS
    <3>2. SubSeq(bytes, 4 * w - 3, 4 * w)
            = [b \in 1 .. 4 * w - (4 * w - 3) + 1 |-> bytes[(4 * w - 3) + b - 1]]
      OBVIOUS
    <3>3. QED
      BY <3>1, <3>2
  <2>2. \A b \in 1 .. 4 : bytes[4 * (w - 1) + b] \in Nat
    OBVIOUS
  <2>3. QED
    BY <2>1, <2>2
<1>3. words(bytes) = [w \in 1 .. n |-> [type |-> "data", bytes |-> SubSeq(bytes, 4 * w - 3, 4 * w)]]
  BY <1>1 DEF words
<1>4. \A w \in 1 .. n : /\ words(bytes)[w].type = "data"
                       /\ words(bytes)[w].bytes = SubSeq(bytes, 4 * w - 3, 4 * w)
                       /\ words(bytes)[w] \in Data
  <2> SUFFICES ASSUME NEW w \in 1 .. n
               PROVE  /\ words(bytes)[w].type = "data"
                      /\ words(bytes)[w].bytes = SubSeq(bytes, 4 * w - 3, 4 * w)
                      /\ words(bytes)[w] \in Data
    OBVIOUS
  <2> DEFINE s == SubSeq(bytes, 4 * w - 3, 4 * w)
  <2>1. s \in [1 .. 4 -> Nat]
    BY <1>2
  <2>2. words(bytes)[w] = [type |-> "data", bytes |-> s]
    BY <1>3
  <2> HIDE DEF s
  <2>3. words(bytes)[w] \in Data /\ words(bytes)[w].bytes = s /\ words(bytes)[w].type = "data"
    BY <2>1, <2>2 DEF Data
  <2>4. QED
    BY <2>3 DEF s
<1>5. words(bytes) \in Seq(Data) /\ Len(words(bytes)) = n
  <2>1. words(bytes) \in [1 .. n -> Data]
    BY <1>3, <1>4
  <2>2. n \in Nat
    OBVIOUS
  <2> HIDE DEF Data
  <2>3. QED
    BY <2>1, <2>2
<1>6. QED
  BY <1>2, <1>4, <1>5

\* How many words an argument takes.
wide(T) == pack_size(T) \div 4

LEMMA PackedArgument ==
  ASSUME NEW T, T.size \in 1 .. 8, NEW v \in Int
  PROVE  /\ wide(T) \in {1, 2} /\ pack_size(T) = 4 * wide(T)
         /\ pack_arg(T, v) \in Seq(Data) /\ Len(pack_arg(T, v)) = wide(T)
         /\ \A w \in 1 .. wide(T) :
              /\ pack_arg(T, v)[w].type = "data"
              /\ \A b \in 1 .. 4 : pack_arg(T, v)[w].bytes[b] = Bytes(v, pack_size(T))[4 * (w - 1) + b]
<1>1. wide(T) \in {1, 2} /\ pack_size(T) = 4 * wide(T) /\ pack_size(T) \in 0 .. 8
  BY DEF wide, pack_size
<1>2. Bytes(v, pack_size(T)) \in Seq(Nat) /\ Len(Bytes(v, pack_size(T))) = 4 * wide(T)
  BY <1>1, BytesIs
<1>3. QED
  BY <1>1, <1>2, WordsAre DEF pack_arg

\* One sequence begins with another.
Begins(long, short) ==
  /\ Len(short) <= Len(long)
  /\ \A j \in 1 .. Len(short) : long[j] = short[j]

LEMMA ConcatIs ==
  ASSUME NEW S, NEW s \in Seq(S), NEW t \in Seq(S)
  PROVE  /\ s \o t \in Seq(S) /\ Len(s \o t) = Len(s) + Len(t)
         /\ \A j \in 1 .. Len(s) : (s \o t)[j] = s[j]
         /\ \A j \in 1 .. Len(t) : (s \o t)[Len(s) + j] = t[j]
  OBVIOUS

\* What a message is made of, argument by argument.
Packing(packed, header, id, types, args) ==
  /\ packed[0] = <<header>> \o words(Bytes(id, 4))
  /\ \A k \in 1 .. Len(types) : packed[k] = packed[k - 1] \o pack_arg(types[k], args[k])
  /\ \A k \in 0 .. Len(types) : packed[k] \in Seq(Words)

LEMMA PackingExists ==
  ASSUME NEW site \in CallSites, NEW m \in Nat, NEW unit \in Units, NEW id \in Nat,
         NEW types \in Seq(ArgumentTypes), NEW args \in Seq(Int), Len(args) = Len(types)
  PROVE  \E packed : /\ Packing(packed, catalog_header(site.level, m, unit), id, types, args)
                     /\ catalog_message(site.level, id, m, unit, types, args) = packed[Len(types)]
<1> DEFINE n == Len(types)
           header == catalog_header(site.level, m, unit)
           first == <<header>> \o words(Bytes(id, 4))
           arg(k) == pack_arg(types[k], args[k])
           step == [k \in 1 .. n |-> [s \in Seq(Words) |-> s \o arg(k)]]
           Follows(f) == f = [k \in 0 .. n |-> IF k = 0 THEN first ELSE f[k - 1] \o arg(k)]
           packed == CHOOSE f : Follows(f)
<1>1. n \in Nat /\ Data \subseteq Words /\ header \in Words
  BY DEF Words
<1>2. first \in Seq(Words)
  <2>1. Bytes(id, 4) \in Seq(Nat) /\ Len(Bytes(id, 4)) = 4 * 1
    <3>1. 4 \in 0 .. 8 /\ id \in Int /\ 4 * 1 = 4
      OBVIOUS
    <3>2. QED
      BY <3>1, BytesIs
  <2>2. words(Bytes(id, 4)) \in Seq(Data)
    BY <2>1, WordsAre
  <2>3. words(Bytes(id, 4)) \in Seq(Words) /\ <<header>> \in Seq(Words)
    <3> HIDE DEF header
    <3> QED
      BY <1>1, <2>2
  <2>4. QED
    <3> HIDE DEF header
    <3> QED
      BY <2>3, ConcatIs
<1>3. ASSUME NEW k \in 1 .. n PROVE arg(k) \in Seq(Words)
  <2>1. types[k] \in ArgumentTypes /\ args[k] \in Int
    OBVIOUS
  <2>2. types[k].size \in 1 .. 8
    BY <2>1 DEF ArgumentTypes
  <2>3. arg(k) \in Seq(Data)
    BY <2>1, <2>2, PackedArgument
  <2> HIDE DEF arg
  <2> QED
    BY <1>1, <2>3
<1>4. step \in [1 .. n -> [Seq(Words) -> Seq(Words)]]
  <2> HIDE DEF arg, n
  <2>1. ASSUME NEW k \in 1 .. n, NEW s \in Seq(Words) PROVE s \o arg(k) \in Seq(Words)
    BY <1>3, ConcatIs
  <2>2. QED
    BY <2>1
<1>5. PICK f \in [0 .. n -> Seq(Words)] : Counts(f, n, first, step)
  <2> HIDE DEF step, n, first
  <2> QED
    BY <1>1, <1>2, <1>4, CountingExists
<1>6. Follows(f)
  <2>1. f = [k \in 0 .. n |-> IF k = 0 THEN first ELSE step[k][f[k - 1]]]
    <3> HIDE DEF step, first, n
    <3> QED
      BY <1>5 DEF Counts
  <2>2. \A k \in 1 .. n : f[k - 1] \in Seq(Words) /\ step[k][f[k - 1]] = f[k - 1] \o arg(k)
    <3> HIDE DEF arg, n, first
    <3> QED
      BY <1>1
  <2>3. \A k \in 0 .. n : k # 0 => k \in 1 .. n
    BY <1>1
  <2> HIDE DEF step, n, first, arg
  <2> QED
    BY <2>1, <2>2, <2>3
<1>7. Follows(packed)
  <2> HIDE DEF Follows
  <2> QED
    BY <1>6
<1>8. catalog_message(site.level, id, m, unit, types, args) = packed[n]
  BY DEF catalog_message
<1> HIDE DEF packed, n, first, arg
<1>9. \A k \in 0 .. n : packed[k] = IF k = 0 THEN first ELSE packed[k - 1] \o arg(k)
  BY <1>7
<1>10. packed[0] = first /\ \A k \in 1 .. n : packed[k] = packed[k - 1] \o arg(k)
  <2>1. 0 \in 0 .. n /\ \A k \in 1 .. n : k \in 0 .. n /\ k # 0
    BY <1>1
  <2>2. QED
    BY <1>9, <2>1
<1> DEFINE T == {k \in 0 .. n : packed[k] \in Seq(Words)}
<1>11. T = 0 .. n
  <2>1. T \in SUBSET (0 .. n) /\ 0 \in T
    BY <1>1, <1>2, <1>10
  <2>2. ASSUME NEW k \in 1 .. n, k - 1 \in T PROVE k \in T
    <3>1. packed[k - 1] \in Seq(Words) /\ arg(k) \in Seq(Words)
      BY <1>3, <2>2
    <3>2. packed[k - 1] \o arg(k) \in Seq(Words)
      BY <3>1, ConcatIs
    <3>3. packed[k] \in Seq(Words) /\ k \in 0 .. n
      <4>1. packed[k] = packed[k - 1] \o arg(k)
        BY <1>10
      <4>2. QED
        BY <1>1, <3>2, <4>1
    <3>4. QED
      BY <3>3
  <2> HIDE DEF T
  <2> QED
    BY <1>1, <2>1, <2>2, CountingHolds
<1>12. Packing(packed, header, id, types, args)
  BY <1>10, <1>11 DEF Packing, n, first, arg
<1>13. QED
  BY <1>8, <1>12 DEF n

\* The words of a message up to an argument are the first words of the message.
LEMMA PackingBegins ==
  ASSUME NEW packed, NEW header, NEW id, NEW types \in Seq(ArgumentTypes), NEW args \in Seq(Int),
         Len(args) = Len(types), Packing(packed, header, id, types, args)
  PROVE  \A k \in 0 .. Len(types) : Begins(packed[Len(types)], packed[k])
<1> DEFINE n == Len(types)
           T == {l \in 0 .. n : \A k \in 0 .. l : Begins(packed[l], packed[k])}
<1>1. /\ n \in Nat /\ \A k \in 0 .. n : packed[k] \in Seq(Words) /\ Len(packed[k]) \in Nat
      /\ \A k \in 1 .. n : packed[k] = packed[k - 1] \o pack_arg(types[k], args[k])
  <2>1. \A k \in 0 .. n : packed[k] \in Seq(Words)
    BY DEF Packing
  <2>2. ASSUME NEW k \in 0 .. n PROVE Len(packed[k]) \in Nat
    <3> DEFINE t == packed[k]
    <3>1. t \in Seq(Words)
      BY <2>1
    <3> HIDE DEF t
    <3>2. Len(t) \in Nat
      BY <3>1
    <3>3. QED
      BY <3>2 DEF t
  <2>3. n \in Nat
    OBVIOUS
  <2>4. QED
    BY <2>1, <2>2, <2>3 DEF Packing
<1>2. \A k \in 0 .. n : Begins(packed[k], packed[k])
  BY <1>1 DEF Begins
<1>3. 0 \in T
  BY <1>1, <1>2
<1>4. ASSUME NEW l \in 1 .. n, l - 1 \in T PROVE l \in T
  <2>1. types[l] \in ArgumentTypes /\ args[l] \in Int /\ l - 1 \in 0 .. n /\ l \in 0 .. n
    OBVIOUS
  <2>2. pack_arg(types[l], args[l]) \in Seq(Words)
    <3>1. types[l].size \in 1 .. 8
      BY <2>1 DEF ArgumentTypes
    <3>2. pack_arg(types[l], args[l]) \in Seq(Data) /\ Data \subseteq Words
      BY <2>1, <3>1, PackedArgument DEF Words
    <3>3. QED
      BY <3>2
  <2> HIDE DEF n
  <2>3. Begins(packed[l], packed[l - 1])
    <3> DEFINE s == packed[l - 1]
               t == pack_arg(types[l], args[l])
    <3>1. s \in Seq(Words) /\ t \in Seq(Words) /\ packed[l] = s \o t
      BY <1>1, <2>1, <2>2
    <3> HIDE DEF s, t
    <3>2. Len(s) <= Len(packed[l]) /\ \A j \in 1 .. Len(s) : packed[l][j] = s[j]
      BY <3>1, ConcatIs
    <3>3. QED
      BY <3>2 DEF Begins, s
  <2>4. ASSUME NEW k \in 0 .. l PROVE Begins(packed[l], packed[k])
    <3>1. CASE k = l
      BY <1>2, <2>1, <3>1
    <3>2. CASE k # l
      <4>1. k \in 0 .. l - 1 /\ k \in 0 .. n
        BY <1>1, <3>2
      <4>2. Begins(packed[l - 1], packed[k])
        BY <1>4, <4>1
      <4>3. Len(packed[k]) \in Nat /\ Len(packed[l - 1]) \in Nat /\ Len(packed[l]) \in Nat
        BY <1>1, <2>1, <4>1
      <4>4. QED
        BY <2>3, <4>2, <4>3 DEF Begins
    <3>3. QED
      BY <3>1, <3>2
  <2>5. QED
    BY <2>1, <2>4
<1>5. T = 0 .. n
  <2> HIDE DEF T, n
  <2>1. T \in SUBSET (0 .. n)
    BY DEF T
  <2>2. QED
    BY <1>1, <1>3, <1>4, <2>1, CountingHolds
<1>6. n \in T
  BY <1>1, <1>5
<1>7. QED
  BY <1>6

\* The words of the header and the identifier, and those that an argument adds.
PackedAs(packed, header, id, types, args) ==
  /\ Len(packed[0]) = 2 /\ packed[0][1] = header /\ packed[0][2] \in Data
  /\ packed[0][2].type = "data" /\ \A b \in 1 .. 4 : packed[0][2].bytes[b] = Bytes(id, 4)[b]
  /\ \A k \in 0 .. Len(types) : Len(packed[k]) \in Nat
  /\ \A k \in 1 .. Len(types) :
       /\ types[k] \in ArgumentTypes /\ args[k] \in Int
       /\ wide(types[k]) \in {1, 2} /\ pack_size(types[k]) = 4 * wide(types[k])
       /\ Len(packed[k]) = Len(packed[k - 1]) + wide(types[k])
       /\ \A w \in 1 .. wide(types[k]) :
            /\ packed[k][Len(packed[k - 1]) + w].type = "data"
            /\ \A b \in 1 .. 4 : packed[k][Len(packed[k - 1]) + w].bytes[b]
                                  = Bytes(args[k], pack_size(types[k]))[4 * (w - 1) + b]

LEMMA PackingIs ==
  ASSUME NEW packed, NEW header \in Words, NEW id \in Nat, NEW types \in Seq(ArgumentTypes), NEW args \in Seq(Int),
         Len(args) = Len(types), Packing(packed, header, id, types, args)
  PROVE  PackedAs(packed, header, id, types, args)
<1>1. /\ packed[0] = <<header>> \o words(Bytes(id, 4))
      /\ \A k \in 0 .. Len(types) : packed[k] \in Seq(Words)
      /\ \A k \in 1 .. Len(types) : packed[k] = packed[k - 1] \o pack_arg(types[k], args[k])
  BY DEF Packing
<1>2. Data \subseteq Words
  BY DEF Words
<1>3. /\ Len(packed[0]) = 2 /\ packed[0][1] = header /\ packed[0][2] \in Data
      /\ packed[0][2].type = "data" /\ \A b \in 1 .. 4 : packed[0][2].bytes[b] = Bytes(id, 4)[b]
  <2>1. Bytes(id, 4) \in Seq(Nat) /\ Len(Bytes(id, 4)) = 4 * 1
    <3>1. 4 \in 0 .. 8 /\ id \in Int /\ 4 * 1 = 4
      OBVIOUS
    <3>2. QED
      BY <3>1, BytesIs
  <2> DEFINE t == words(Bytes(id, 4))
  <2>2. /\ t \in Seq(Data) /\ Len(t) = 1
        /\ t[1].type = "data" /\ \A b \in 1 .. 4 : t[1].bytes[b] = Bytes(id, 4)[4 * (1 - 1) + b]
    <3>1. 1 \in 1 .. 1 /\ 1 \in {1, 2}
      OBVIOUS
    <3>2. QED
      BY <2>1, <3>1, WordsAre
  <2> HIDE DEF t
  <2>3. t[1] \in Data /\ t \in Seq(Words) /\ <<header>> \in Seq(Words) /\ Len(<<header>>) = 1 /\ <<header>>[1] = header
    <3>1. 1 \in 1 .. Len(t)
      BY <2>2
    <3> HIDE DEF Data, Words
    <3>2. t[1] \in Data
      <4>1. \A S : \A q \in Seq(S) : \A j \in 1 .. Len(q) : q[j] \in S
        OBVIOUS
      <4>2. t \in Seq(Data)
        BY <2>2
      <4>3. QED
        BY <3>1, <4>1, <4>2
    <3>3. t \in Seq(Words)
      BY <1>2, <2>2
    <3>4. <<header>> \in Seq(Words) /\ Len(<<header>>) = 1 /\ <<header>>[1] = header
      OBVIOUS
    <3>5. QED
      BY <3>2, <3>3, <3>4
  <2>4. packed[0] = <<header>> \o t
    BY <1>1 DEF t
  <2>5. /\ Len(packed[0]) = 1 + 1 /\ packed[0][1] = header /\ packed[0][1 + 1] = t[1]
    <3> DEFINE s == <<header>>
    <3> HIDE DEF s
    <3>1. s \in Seq(Words) /\ Len(s) = 1 /\ s[1] = header
      BY <2>3 DEF s
    <3>2. 1 \in 1 .. Len(s) /\ 1 \in 1 .. Len(t)
      BY <2>2, <3>1
    <3>3. packed[0] = s \o t
      BY <2>4 DEF s
    <3>4. QED
      BY <2>2, <2>3, <3>1, <3>2, <3>3, ConcatIs
  <2>6. QED
    BY <2>2, <2>3, <2>5
<1>4. \A k \in 0 .. Len(types) : Len(packed[k]) \in Nat
  BY <1>1
<1>5. ASSUME NEW k \in 1 .. Len(types)
      PROVE  /\ types[k] \in ArgumentTypes /\ args[k] \in Int
             /\ wide(types[k]) \in {1, 2} /\ pack_size(types[k]) = 4 * wide(types[k])
             /\ Len(packed[k]) = Len(packed[k - 1]) + wide(types[k])
             /\ \A w \in 1 .. wide(types[k]) :
                   /\ packed[k][Len(packed[k - 1]) + w].type = "data"
                   /\ \A b \in 1 .. 4 : packed[k][Len(packed[k - 1]) + w].bytes[b]
                                         = Bytes(args[k], pack_size(types[k]))[4 * (w - 1) + b]
  <2>1. types[k] \in ArgumentTypes /\ args[k] \in Int /\ k - 1 \in 0 .. Len(types)
    OBVIOUS
  <2>2. types[k].size \in 1 .. 8
    BY <2>1 DEF ArgumentTypes
  <2> DEFINE s == packed[k - 1]
             t == pack_arg(types[k], args[k])
             wd == wide(types[k])
             bytes == Bytes(args[k], pack_size(types[k]))
  <2>3. /\ wd \in {1, 2} /\ pack_size(types[k]) = 4 * wd
        /\ t \in Seq(Data) /\ Len(t) = wd
        /\ \A w \in 1 .. wd : /\ t[w].type = "data"
                             /\ \A b \in 1 .. 4 : t[w].bytes[b] = bytes[4 * (w - 1) + b]
    BY <2>1, <2>2, PackedArgument
  <2>4. s \in Seq(Words) /\ packed[k] = s \o t
    BY <1>1, <2>1
  <2> HIDE DEF s, t, wd, bytes
  <2>5. t \in Seq(Words)
    BY <1>2, <2>3
  <2>6. Len(packed[k]) = Len(s) + wd /\ \A w \in 1 .. wd : packed[k][Len(s) + w] = t[w]
    <3>1. /\ Len(s \o t) = Len(s) + Len(t)
          /\ \A j \in 1 .. Len(t) : (s \o t)[Len(s) + j] = t[j]
      BY <2>4, <2>5, ConcatIs
    <3>2. QED
      BY <2>3, <2>4, <3>1
  <2>7. QED
    BY <2>1, <2>3, <2>6 DEF s, wd, bytes
<1>6. QED
  BY <1>3, <1>4, <1>5 DEF PackedAs

LEMMA AllButHeaderIsData ==
  ASSUME NEW packed, NEW header \in Words, NEW id \in Nat, NEW types \in Seq(ArgumentTypes), NEW args \in Seq(Int),
         Len(args) = Len(types), Packing(packed, header, id, types, args)
  PROVE  \A j \in 2 .. Len(packed[Len(types)]) : packed[Len(types)][j].type = "data"
<1> DEFINE n == Len(types)
           size(k) == Len(packed[k])
           word(j) == packed[n][j]
           T == {l \in 0 .. n : \A j \in 2 .. size(l) : word(j).type = "data"}
<1>1. /\ n \in Nat /\ size(0) = 2 /\ packed[0][2].type = "data"
      /\ \A k \in 0 .. n : size(k) \in Nat /\ \A j \in 1 .. size(k) : word(j) = packed[k][j]
      /\ \A k \in 1 .. n : /\ wide(types[k]) \in {1, 2} /\ size(k) = size(k - 1) + wide(types[k])
                          /\ \A w \in 1 .. wide(types[k]) : packed[k][size(k - 1) + w].type = "data"
  <2>1. n \in Nat
    OBVIOUS
  <2>2. \A k \in 0 .. n : Begins(packed[n], packed[k])
    BY PackingBegins
  <2>3. ASSUME NEW k \in 0 .. n PROVE \A j \in 1 .. size(k) : word(j) = packed[k][j]
    BY <2>2 DEF Begins
  <2>4. /\ size(0) = 2 /\ packed[0][2].type = "data"
        /\ \A k \in 0 .. n : size(k) \in Nat
        /\ \A k \in 1 .. n : /\ wide(types[k]) \in {1, 2} /\ size(k) = size(k - 1) + wide(types[k])
                            /\ \A w \in 1 .. wide(types[k]) : packed[k][size(k - 1) + w].type = "data"
    <3>1. PackedAs(packed, header, id, types, args)
      BY PackingIs
    <3>2. QED
      BY <3>1 DEF PackedAs
  <2> HIDE DEF n, size, word
  <2>5. QED
    BY <2>1, <2>3, <2>4
<1> HIDE DEF n, size, word
<1>2. 0 \in T
  <2>1. \A j \in 2 .. size(0) : j = 2 /\ j \in 1 .. size(0) /\ 0 \in 0 .. n
    BY <1>1
  <2>2. QED
    BY <1>1, <2>1
<1>3. ASSUME NEW l \in 1 .. n, l - 1 \in T PROVE l \in T
  <2>1. l \in 0 .. n /\ l - 1 \in 0 .. n
    BY <1>1
  <2>2. size(l - 1) \in Nat /\ size(l) = size(l - 1) + wide(types[l]) /\ wide(types[l]) \in {1, 2} /\ size(l) \in Nat
    BY <1>1, <2>1
  <2>3. ASSUME NEW j \in 2 .. size(l) PROVE word(j).type = "data"
    <3>1. CASE j <= size(l - 1)
      BY <1>3, <2>2, <3>1
    <3>2. CASE j > size(l - 1)
      <4>1. j - size(l - 1) \in 1 .. wide(types[l]) /\ j \in 1 .. size(l) /\ size(l - 1) + (j - size(l - 1)) = j
        BY <2>2, <3>2
      <4>2. packed[l][j].type = "data"
        <5>1. \A w \in 1 .. wide(types[l]) : packed[l][size(l - 1) + w].type = "data"
          BY <1>1
        <5>2. packed[l][size(l - 1) + (j - size(l - 1))].type = "data"
          BY <4>1, <5>1
        <5>3. QED
          BY <4>1, <5>2
      <4>3. QED
        BY <1>1, <2>1, <4>1, <4>2
    <3>3. QED
      BY <2>2, <3>1, <3>2
  <2>4. QED
    BY <2>1, <2>3
<1>4. T = 0 .. n
  <2>1. T \in SUBSET (0 .. n)
    OBVIOUS
  <2> HIDE DEF T
  <2>2. QED
    BY <1>1, <1>2, <1>3, <2>1, CountingHolds
<1>5. n \in T
  BY <1>1, <1>4
<1>6. QED
  BY <1>5 DEF n, size, word

\* A sequence of words is at a place in a stream.
StandsAt(part, stream, q) ==
  /\ q + Len(part) - 1 <= Len(stream)
  /\ \A j \in 1 .. Len(part) : stream[q + j - 1] = part[j]

\* Arguments of their types, that are read as they were written.
Arguments(types, args) ==
  /\ types \in Seq(ArgumentTypes) /\ args \in Seq(Int) /\ Len(args) = Len(types)
  /\ \A k \in 1 .. Len(types) : Fits(types[k], args[k])

LEMMA ArgumentsRead ==
  ASSUME NEW types, NEW args, Arguments(types, args), NEW packed, NEW header \in Words, NEW id \in Nat,
         Packing(packed, header, id, types, args),
         NEW stream, NEW q \in Nat \ {0}, StandsAt(packed[Len(types)], stream, q)
  PROVE  extract_args(types, stream, q + 2)
           = [raised |-> FALSE, next |-> q + Len(packed[Len(types)]), args |-> args]
<1> USE DEF Arguments
<1> DEFINE n == Len(types)
           size(k) == Len(packed[k])
           word(j) == packed[n][j]
           Follows(f) == f = [k \in 0 .. n |-> IF k = 0 THEN q + 2 ELSE f[k - 1] + pack_size(types[k]) \div 4]
           next == CHOOSE f : Follows(f)
           bytes(k) == [b \in 1 .. pack_size(types[k]) |->
                          stream[next[k - 1] + (b - 1) \div 4].bytes[((b - 1) % 4) + 1]]
           whole == \A w \in q + 2 .. next[n] - 1 : w <= Len(stream) /\ stream[w].type = "data"
<1>1. /\ n \in Nat /\ DOMAIN types = 1 .. n /\ size(0) = 2
      /\ \A k \in 0 .. n : size(k) \in Nat /\ size(k) <= size(n) /\ \A j \in 1 .. size(k) : word(j) = packed[k][j]
      /\ \A k \in 1 .. n : /\ types[k] \in ArgumentTypes /\ args[k] \in Int
                          /\ wide(types[k]) \in {1, 2} /\ pack_size(types[k]) = 4 * wide(types[k])
                          /\ size(k) = size(k - 1) + wide(types[k])
                          /\ \A w \in 1 .. wide(types[k]) : \A b \in 1 .. 4 :
                               packed[k][size(k - 1) + w].bytes[b]
                                 = Bytes(args[k], pack_size(types[k]))[4 * (w - 1) + b]
  <2>1. n \in Nat /\ DOMAIN types = 1 .. n
    OBVIOUS
  <2>2. \A k \in 0 .. n : Begins(packed[n], packed[k])
    BY PackingBegins
  <2>3. ASSUME NEW k \in 0 .. n PROVE size(k) <= size(n) /\ \A j \in 1 .. size(k) : word(j) = packed[k][j]
    BY <2>2 DEF Begins
  <2>4. /\ size(0) = 2
        /\ \A k \in 0 .. n : size(k) \in Nat
        /\ \A k \in 1 .. n : /\ types[k] \in ArgumentTypes /\ args[k] \in Int
                            /\ wide(types[k]) \in {1, 2} /\ pack_size(types[k]) = 4 * wide(types[k])
                            /\ size(k) = size(k - 1) + wide(types[k])
                            /\ \A w \in 1 .. wide(types[k]) : \A b \in 1 .. 4 :
                                 packed[k][size(k - 1) + w].bytes[b]
                                   = Bytes(args[k], pack_size(types[k]))[4 * (w - 1) + b]
    <3>1. PackedAs(packed, header, id, types, args)
      BY PackingIs
    <3>2. QED
      BY <3>1 DEF PackedAs
  <2> HIDE DEF n, size, word
  <2>5. QED
    BY <2>1, <2>3, <2>4
<1>2. /\ q + size(n) - 1 <= Len(stream)
      /\ \A j \in 1 .. size(n) : stream[q + j - 1] = word(j)
  BY DEF StandsAt
<1>3. \A j \in 2 .. size(n) : word(j).type = "data"
  BY AllButHeaderIsData
<1>4. extract_args(types, stream, q + 2)
        = IF whole THEN [raised |-> FALSE, next |-> next[n],
                         args |-> [k \in DOMAIN types |-> extract_arg(types[k], bytes(k))]]
          ELSE Raised
  BY DEF extract_args
<1> HIDE DEF n, size, word
<1>5. \A k \in 1 .. n : k \in 0 .. n /\ k - 1 \in 0 .. n /\ k # 0
  BY <1>1
<1>6. \A k \in 1 .. n : pack_size(types[k]) \div 4 = size(k) - size(k - 1)
  <2>1. ASSUME NEW k \in 1 .. n PROVE pack_size(types[k]) \div 4 = size(k) - size(k - 1)
    <3>1. /\ wide(types[k]) \in {1, 2} /\ pack_size(types[k]) = 4 * wide(types[k])
          /\ size(k) = size(k - 1) + wide(types[k]) /\ size(k) \in Nat /\ size(k - 1) \in Nat
      BY <1>1, <1>5
    <3>2. pack_size(types[k]) \div 4 = wide(types[k])
      BY DEF wide
    <3>3. QED
      BY <3>1, <3>2
  <2>2. QED
    BY <2>1
<1>7. Follows(next)
  <2> DEFINE f == [k \in 0 .. n |-> q + size(k)]
  <2>1. \A k \in 0 .. n : f[k] = IF k = 0 THEN q + 2 ELSE f[k - 1] + pack_size(types[k]) \div 4
    <3>1. ASSUME NEW k \in 0 .. n, k # 0
          PROVE  q + size(k) = q + size(k - 1) + (size(k) - size(k - 1)) /\ k \in 1 .. n /\ k - 1 \in 0 .. n
      <4>1. k \in 1 .. n
        BY <1>1, <3>1
      <4>2. size(k) \in Nat /\ size(k - 1) \in Nat /\ k - 1 \in 0 .. n
        BY <1>1, <1>5, <4>1
      <4>3. QED
        BY <4>1, <4>2
    <3>2. QED
      BY <1>1, <1>6, <3>1
  <2>2. Follows(f)
    BY <2>1
  <2>3. QED
    <3> HIDE DEF Follows
    <3> QED
      BY <2>2
<1> HIDE DEF next
<1>8. \A k \in 0 .. n : next[k] = IF k = 0 THEN q + 2 ELSE next[k - 1] + pack_size(types[k]) \div 4
  BY <1>7
<1>9. \A k \in 0 .. n : next[k] = q + size(k)
  <2> DEFINE T == {k \in 0 .. n : next[k] = q + size(k)}
  <2>1. 0 \in T
    BY <1>1, <1>8
  <2>2. ASSUME NEW k \in 1 .. n, k - 1 \in T PROVE k \in T
    <3>1. next[k] = q + size(k - 1) + (size(k) - size(k - 1))
      BY <1>5, <1>6, <1>8, <2>2
    <3>2. size(k) \in Nat /\ size(k - 1) \in Nat
      BY <1>1, <1>5
    <3>3. QED
      BY <1>5, <3>1, <3>2
  <2>3. T = 0 .. n
    <3>1. T \in SUBSET (0 .. n)
      OBVIOUS
    <3> HIDE DEF T
    <3>2. QED
      BY <1>1, <2>1, <2>2, <3>1, CountingHolds
  <2>4. QED
    BY <2>3
<1>10. next[n] = q + size(n) /\ size(n) \in Nat
  BY <1>1, <1>9
<1>11. whole
  <2>1. ASSUME NEW w \in q + 2 .. next[n] - 1 PROVE w <= Len(stream) /\ stream[w].type = "data"
    <3> DEFINE j == w - q + 1
    <3>1. j \in 2 .. size(n) /\ j \in 1 .. size(n) /\ q + j - 1 = w /\ w <= q + size(n) - 1
      BY <1>10
    <3> HIDE DEF j
    <3>2. stream[w] = word(j) /\ word(j).type = "data"
      BY <1>2, <1>3, <3>1
    <3>3. w <= Len(stream)
      <4>1. w <= q + size(n) - 1 /\ q + size(n) - 1 <= Len(stream)
        BY <1>2, <3>1
      <4>2. QED
        BY <1>10, <4>1
    <3>4. QED
      BY <3>2, <3>3
  <2>2. QED
    BY <2>1
<1>12. ASSUME NEW k \in 1 .. n PROVE bytes(k) = Bytes(args[k], pack_size(types[k]))
  <2> DEFINE given == Bytes(args[k], pack_size(types[k]))
             wd == wide(types[k])
  <2>1. /\ types[k] \in ArgumentTypes /\ args[k] \in Int /\ wd \in {1, 2} /\ pack_size(types[k]) = 4 * wd
        /\ size(k) = size(k - 1) + wd /\ size(k) \in Nat /\ size(k - 1) \in Nat /\ size(k) <= size(n)
        /\ \A w \in 1 .. wd : \A b \in 1 .. 4 : packed[k][size(k - 1) + w].bytes[b] = given[4 * (w - 1) + b]
        /\ \A j \in 1 .. size(k) : word(j) = packed[k][j]
    BY <1>1, <1>5
  <2>2. given \in Seq(Nat) /\ Len(given) = 4 * wd
    <3>1. pack_size(types[k]) \in 0 .. 8
      BY <2>1
    <3>2. QED
      BY <2>1, <3>1, BytesIs
  <2> HIDE DEF given, wd
  <2>3. ASSUME NEW b \in 1 .. 4 * wd
        PROVE  stream[next[k - 1] + (b - 1) \div 4].bytes[((b - 1) % 4) + 1] = given[b]
    <3> DEFINE w == (b - 1) \div 4 + 1
               r == ((b - 1) % 4) + 1
               j == size(k - 1) + w
    <3>1. w \in 1 .. wd /\ r \in 1 .. 4 /\ 4 * (w - 1) + r = b /\ (b - 1) \div 4 = w - 1
      <4>1. wd \in {1, 2}
        BY <2>1
      <4>2. CASE wd = 1
        BY <4>2
      <4>3. CASE wd = 2
        BY <4>3
      <4>4. QED
        BY <4>1, <4>2, <4>3
    <3>2. next[k - 1] = q + size(k - 1)
      BY <1>5, <1>9
    <3> HIDE DEF w, r
    <3>3. j \in 1 .. size(k) /\ j \in 1 .. size(n) /\ next[k - 1] + (w - 1) = q + j - 1
      <4>1. size(k) = size(k - 1) + wd /\ size(k - 1) \in Nat /\ size(k) <= size(n) /\ size(n) \in Nat /\ wd \in Nat
        BY <1>10, <2>1
      <4>2. w \in 1 .. wd
        BY <3>1
      <4>3. QED
        BY <3>2, <4>1, <4>2
    <3>4. stream[q + j - 1] = packed[k][size(k - 1) + w]
      BY <1>2, <2>1, <3>3
    <3>5. packed[k][size(k - 1) + w].bytes[r] = given[4 * (w - 1) + r]
      BY <2>1, <3>1
    <3>6. stream[next[k - 1] + (b - 1) \div 4].bytes[r] = given[b]
      <4> HIDE DEF j
      <4> QED
        BY <3>1, <3>3, <3>4, <3>5
    <3>7. QED
      BY <3>6 DEF r
  <2>4. bytes(k) = [b \in 1 .. 4 * wd |-> given[b]]
    BY <2>1, <2>3
  <2>5. given = [b \in 1 .. 4 * wd |-> given[b]]
    BY <2>1, <2>2
  <2>6. QED
    BY <2>4, <2>5 DEF given
<1>13. [k \in DOMAIN types |-> extract_arg(types[k], bytes(k))] = args
  <2>1. ASSUME NEW k \in 1 .. n PROVE extract_arg(types[k], bytes(k)) = args[k]
    <3>1. types[k] \in ArgumentTypes /\ args[k] \in Int
      BY <1>1
    <3>2. Fits(types[k], args[k])
      BY DEF n
    <3>3. bytes(k) = Bytes(args[k], pack_size(types[k]))
      BY <1>12
    <3> HIDE DEF bytes
    <3>4. QED
      BY <3>1, <3>2, <3>3, ArgumentReads
  <2>2. args = [k \in 1 .. n |-> args[k]]
    BY DEF n
  <2> HIDE DEF bytes
  <2>3. QED
    BY <1>1, <2>1, <2>2
<1>14. QED
  <2> HIDE DEF whole, bytes
  <2> QED
    BY <1>4, <1>10, <1>11, <1>13 DEF n, size

----------------------------------------------------------------------------
(***************************************************************************)
(* A message is decoded with a catalog that has its strings.               *)
(***************************************************************************)
Means(entries, id, m) == Named(entries, id) # {} /\ key(look_up(entries, id)) = key(m)

Decoded(stream, q, db, part, line) ==
  construct_msg(stream, q, db) = [raised |-> FALSE, next |-> q + Len(part), line |-> line]

LEMMA KeyHas ==
  ASSUME NEW m, NEW n, key(m) = key(n)
  PROVE  m.text = n.text /\ m.args = n.args
  BY DEF key

LEMMA IdKept ==
  ASSUME NEW limit \in Nat \ {0}, NEW id \in Nat, id < limit
  PROVE  id % limit = id
<1>1. (limit * 0 + id) % limit = id /\ limit * 0 + id = id
  BY DivisionIs
<1>2. QED
  BY <1>1

LEMMA ShortDecodes ==
  ASSUME NEW site \in CallSites, site.message.args = <<>>, NEW unit, NEW m, NEW id \in Nat, id < ShortIds,
         NEW db, Means(db.messages, id, site.message), NEW stream, NEW q \in Nat \ {0},
         StandsAt(build(site.level, id, m, unit, site.message.args, site.args), stream, q)
  PROVE  Decoded(stream, q, db, build(site.level, id, m, unit, site.message.args, site.args), line_of(site))
<1> DEFINE part == build(site.level, id, m, unit, site.message.args, site.args)
<1>1. part = <<[type |-> "Short32", id |-> id]>>
  <2>1. id % ShortIds = id
    BY IdKept, RangesArePositive
  <2>2. QED
    BY <2>1 DEF build, short32
<1>2. Len(part) = 1 /\ part[1] = [type |-> "Short32", id |-> id]
  BY <1>1
<1>3. stream[q] = [type |-> "Short32", id |-> id]
  <2>1. stream[q + 1 - 1] = part[1] /\ q + 1 - 1 = q
    BY <1>2 DEF StandsAt
  <2>2. QED
    BY <1>2, <2>1
<1> HIDE DEF part
<1>4. construct_msg(stream, q, db) = decode_short(stream, q, db)
  BY <1>3 DEF construct_msg
<1>5. Named(db.messages, stream[q].id) # {} /\ look_up(db.messages, stream[q].id).text = site.message.text
  BY <1>3, KeyHas DEF Means
<1>6. decode_short(stream, q, db) = [raised |-> FALSE, next |-> q + 1, line |-> short_line(site.message.text)]
  BY <1>5 DEF decode_short
<1>7. line_of(site) = short_line(site.message.text)
  BY DEF line_of
<1>8. QED
  BY <1>2, <1>4, <1>6, <1>7 DEF Decoded, part

LEMMA CatalogDecodes ==
  ASSUME CallsFit, IdsFit, NEW site \in CallSites, site.message.args # <<>>, NEW unit \in Units,
         NEW m \in Nat, m < ModuleIds, NEW id \in Nat, id < ShortIds,
         NEW db, Means(db.messages, id, site.message), Means(db.modules, m, site.module),
         NEW stream \in Seq(Words), NEW q \in Nat \ {0},
         StandsAt(build(site.level, id, m, unit, site.message.args, site.args), stream, q)
  PROVE  Decoded(stream, q, db, build(site.level, id, m, unit, site.message.args, site.args), line_of(site))
<1> DEFINE types == site.message.args
           args == site.args
           part == build(site.level, id, m, unit, types, args)
           header == catalog_header(site.level, m, unit)
           read == [raised |-> FALSE, next |-> q + Len(part), args |-> args]
<1>1. /\ types \in Seq(ArgumentTypes) /\ args \in Seq(Int) /\ Len(args) = Len(types)
      /\ \A k \in 1 .. Len(types) : Fits(types[k], args[k])
  <2>1. /\ types \in Seq(ArgumentTypes) /\ args \in Seq(Int) /\ Len(args) = Len(types)
        /\ \A k \in DOMAIN args : Fits(types[k], args[k])
    BY DEF CallsFit
  <2>2. DOMAIN args = 1 .. Len(types)
    BY <2>1
  <2>3. QED
    BY <2>1, <2>2
<1>2. part = catalog_message(site.level, id, m, unit, types, args)
  BY DEF build
<1>3. header \in Words
  BY DEF Words
<1>4. /\ header.type = "Catalog" /\ header.subtype = 1 /\ header.severity = site.level
      /\ header.module_id = m
  <2>1. m % ModuleIds = m
    BY IdKept, RangesArePositive
  <2>2. QED
    BY <2>1 DEF catalog_header
<1> HIDE DEF types, args, header
<1>5. PICK packed : Packing(packed, header, id, types, args) /\ part = packed[Len(types)]
  BY <1>1, <1>2, PackingExists DEF header
<1> HIDE DEF part
<1>6. StandsAt(packed[Len(types)], stream, q)
  BY <1>5 DEF part, types, args
<1>7. extract_args(types, stream, q + 2) = read
  <2>1. extract_args(types, stream, q + 2)
          = [raised |-> FALSE, next |-> q + Len(packed[Len(types)]), args |-> args]
    <3> HIDE DEF read
    <3>1. Arguments(types, args)
      BY <1>1 DEF Arguments
    <3>2. Packing(packed, header, id, types, args)
      BY <1>5
    <3>3. QED
      BY <1>3, <1>6, <3>1, <3>2, ArgumentsRead
  <2>2. QED
    BY <1>5, <2>1
<1>8. /\ stream[q] = header /\ q + 1 <= Len(stream)
      /\ stream[q + 1].type = "data" /\ stream[q + 1].bytes = Bytes(id, 4)
  <2>1. PackedAs(packed, header, id, types, args)
    BY <1>1, <1>3, <1>5, PackingIs
  <2>2. Len(types) \in Nat /\ 0 \in 0 .. Len(types)
    BY <1>1
  <2>3. Begins(part, packed[0])
    BY <1>1, <1>5, <2>2, PackingBegins
  <2>4. /\ Len(packed[0]) = 2 /\ packed[0][1] = header /\ packed[0][2] \in Data /\ packed[0][2].type = "data"
        /\ \A b \in 1 .. 4 : packed[0][2].bytes[b] = Bytes(id, 4)[b]
        /\ Len(part) \in Nat
    BY <1>5, <2>1, <2>2 DEF PackedAs
  <2>5. 2 <= Len(part) /\ part[1] = header /\ part[2] = packed[0][2]
    BY <2>3, <2>4 DEF Begins
  <2>6. /\ q + Len(part) - 1 <= Len(stream)
        /\ \A j \in 1 .. Len(part) : stream[q + j - 1] = part[j]
    BY <1>5, <1>6 DEF StandsAt
  <2>7. stream[q] = header /\ stream[q + 1] = packed[0][2]
    <3>1. 1 \in 1 .. Len(part) /\ 2 \in 1 .. Len(part) /\ q + 1 - 1 = q /\ q + 2 - 1 = q + 1
      BY <2>4, <2>5
    <3>2. stream[q + 1 - 1] = part[1] /\ stream[q + 2 - 1] = part[2]
      BY <2>6, <3>1
    <3>3. QED
      BY <2>5, <3>1, <3>2
  <2>8. Bytes(id, 4) = [b \in 1 .. 4 |-> Bytes(id, 4)[b]]
    BY DEF Bytes
  <2>9. packed[0][2].bytes = [b \in 1 .. 4 |-> packed[0][2].bytes[b]]
    BY <2>4 DEF Data
  <2>10. packed[0][2].bytes = Bytes(id, 4)
    <3> DEFINE x == packed[0][2].bytes
               y == Bytes(id, 4)
    <3>1. \A b \in 1 .. 4 : x[b] = y[b]
      BY <2>4
    <3>2. x = [b \in 1 .. 4 |-> x[b]] /\ y = [b \in 1 .. 4 |-> y[b]]
      BY <2>8, <2>9
    <3> HIDE DEF x, y
    <3>3. x = y
      BY <3>1, <3>2
    <3>4. QED
      BY <3>3 DEF x, y
  <2>11. q + 1 <= Len(stream)
    <3>1. Len(stream) \in Nat
      OBVIOUS
    <3>2. QED
      BY <2>4, <2>5, <2>6, <3>1
  <2>12. QED
    BY <2>4, <2>6, <2>7, <2>10, <2>11
<1>9. Unsigned(stream[q + 1].bytes) = id
  <2>1. 4 \in 0 .. 8 /\ id \in Int /\ 0 <= id /\ id < weight[4]
    <3>1. ShortIds <= weight[4] /\ weight[4] \in Nat /\ ShortIds \in Nat
      <4>1. 4 \in 0 .. 8
        OBVIOUS
      <4>2. QED
        BY <4>1, WeightIs, RangesArePositive DEF IdsFit
    <3>2. QED
      BY <3>1
  <2>2. Unsigned(Bytes(id, 4)) = id
    BY <2>1, UnsignedReads
  <2>3. QED
    BY <1>8, <2>2
<1>10. /\ Named(db.messages, id) # {} /\ look_up(db.messages, id).args = types
       /\ look_up(db.messages, id).text = site.message.text
       /\ Named(db.modules, header.module_id) # {}
       /\ look_up(db.modules, header.module_id).text = site.module.text
  BY <1>4, KeyHas DEF Means, types
<1>11. decode_catalog(stream, q, db)
         = [raised |-> FALSE, next |-> q + Len(part),
            line |-> catalog_line(site.level, site.module.text, site.message.text, args)]
  <2>1. read.raised = FALSE /\ read.next = q + Len(part) /\ read.args = args
    OBVIOUS
  <2>2. ~(q + 1 > Len(stream)) /\ ~(stream[q + 1].type # "data") /\ ~(header.subtype # 1)
    <3>1. Len(stream) \in Nat
      OBVIOUS
    <3>2. QED
      BY <1>4, <1>8, <3>1
  <2> DEFINE message == look_up(db.messages, id)
             module == look_up(db.modules, header.module_id)
  <2>3. message.args = types /\ message.text = site.message.text /\ module.text = site.module.text
    BY <1>10
  <2>4. decode_catalog(stream, q, db)
          = IF \/ header.subtype # 1 \/ Named(db.modules, header.module_id) = {}
               \/ q + 1 > Len(stream) \/ stream[q + 1].type # "data"
               \/ Named(db.messages, id) = {} \/ extract_args(message.args, stream, q + 2).raised
            THEN Raised
            ELSE [raised |-> FALSE, next |-> extract_args(message.args, stream, q + 2).next,
                  line |-> catalog_line(header.severity, module.text, message.text,
                                        extract_args(message.args, stream, q + 2).args)]
    BY <1>8, <1>9 DEF decode_catalog
  <2> HIDE DEF read, message, module
  <2>5. QED
    BY <1>4, <1>7, <1>10, <2>1, <2>2, <2>3, <2>4
<1>12. construct_msg(stream, q, db) = decode_catalog(stream, q, db)
  BY <1>4, <1>8 DEF construct_msg
<1>13. line_of(site) = catalog_line(site.level, site.module.text, site.message.text, args)
  BY DEF line_of, args
<1>14. QED
  BY <1>11, <1>12, <1>13 DEF Decoded, part, types, args

----------------------------------------------------------------------------
(***************************************************************************)
(* A log is read message by message.                                       *)
(***************************************************************************)
\* The n messages of a stream begin at starts[1] to starts[n], and between them
\* nothing can be read.
Readings(stream, db, lines, starts) ==
  /\ starts \in [1 .. Len(lines) + 1 -> 1 .. Len(stream) + 1]
  /\ starts[1] = 1 /\ starts[Len(lines) + 1] = Len(stream) + 1
  /\ \A k, l \in 1 .. Len(lines) + 1 : k < l => starts[k] < starts[l]
  /\ \A k \in 1 .. Len(lines) :
       construct_msg(stream, starts[k], db)
         = IF lines[k] = Raised THEN Raised
           ELSE [raised |-> FALSE, next |-> starts[k + 1], line |-> lines[k]]
  /\ \A p \in 1 .. Len(stream) :
       (\A k \in 1 .. Len(lines) : p # starts[k]) => construct_msg(stream, p, db) = Raised

\* Where the reading of the lines from k on ends.
StopsAt(lines, k, i) ==
  /\ i \in k - 1 .. Len(lines)
  /\ \A j \in k .. i - 1 : lines[j] # Raised
  /\ \/ i \in k .. Len(lines) /\ lines[i] = Raised
     \/ i = Len(lines) /\ \A j \in k .. i : lines[j] # Raised
stop(lines, k) == CHOOSE i \in Nat : StopsAt(lines, k, i)

LEMMA StopIs ==
  ASSUME NEW S, NEW lines \in Seq(S), NEW k \in 1 .. Len(lines) + 1
  PROVE  stop(lines, k) \in Nat /\ StopsAt(lines, k, stop(lines, k))
<1> DEFINE n == Len(lines)
           T == {i \in k .. n : lines[i] = Raised}
<1>1. n \in Nat
  OBVIOUS
<1>2. \E i \in Nat : StopsAt(lines, k, i)
  <2>1. CASE T = {}
    <3>1. StopsAt(lines, k, n)
      BY <1>1, <2>1 DEF StopsAt
    <3>2. QED
      BY <1>1, <3>1
  <2>2. CASE T # {}
    <3>1. PICK i \in T : \A j \in T : i <= j
      <4>1. T \in SUBSET Nat
        BY <1>1
      <4> HIDE DEF T
      <4>2. QED
        BY <2>2, <4>1, LeastOf
    <3>2. \A j \in k .. i - 1 : lines[j] # Raised
      <4>1. ASSUME NEW j \in k .. i - 1, lines[j] = Raised PROVE FALSE
        <5>1. j \in T /\ j < i
          BY <1>1, <4>1
        <5>2. QED
          BY <3>1, <5>1
      <4>2. QED
        BY <4>1
    <3>3. StopsAt(lines, k, i) /\ i \in Nat
      BY <1>1, <3>1, <3>2 DEF StopsAt
    <3>4. QED
      BY <3>3
  <2>3. QED
    BY <2>1, <2>2
<1>3. QED
  BY <1>2 DEF stop

LEMMA StopUnique ==
  ASSUME NEW S, NEW lines \in Seq(S), NEW k \in 1 .. Len(lines) + 1,
         NEW i \in Nat, StopsAt(lines, k, i), NEW j \in Nat, StopsAt(lines, k, j)
  PROVE  i = j
<1>1. Len(lines) \in Nat
  OBVIOUS
<1>2. CASE i < j
  <2>1. CASE i \in k .. Len(lines) /\ lines[i] = Raised
    BY <1>1, <1>2, <2>1 DEF StopsAt
  <2>2. CASE i = Len(lines)
    BY <1>1, <1>2, <2>2 DEF StopsAt
  <2>3. QED
    BY <2>1, <2>2 DEF StopsAt
<1>3. CASE j < i
  <2>1. CASE j \in k .. Len(lines) /\ lines[j] = Raised
    BY <1>1, <1>3, <2>1 DEF StopsAt
  <2>2. CASE j = Len(lines)
    BY <1>1, <1>3, <2>2 DEF StopsAt
  <2>3. QED
    BY <2>1, <2>2 DEF StopsAt
<1>4. QED
  BY <1>2, <1>3

\* The lines from k on, as far as they are read.
tail(lines, k) == SubSeq(lines, k, stop(lines, k))

LEMMA TailIs ==
  ASSUME NEW S, NEW lines \in Seq(S)
  PROVE  /\ tail(lines, Len(lines) + 1) = <<>>
         /\ tail(lines, 1) = Readable(lines)
         /\ \A k \in 1 .. Len(lines) :
              tail(lines, k) = IF lines[k] = Raised THEN <<Raised>>
                               ELSE <<lines[k]>> \o tail(lines, k + 1)
<1> DEFINE n == Len(lines)
<1>1. n \in Nat /\ DOMAIN lines = 1 .. n
  OBVIOUS
<1>2. tail(lines, n + 1) = <<>>
  <2>1. StopsAt(lines, n + 1, stop(lines, n + 1))
    BY <1>1, StopIs
  <2>2. stop(lines, n + 1) = n
    BY <1>1, <2>1 DEF StopsAt
  <2>3. SubSeq(lines, n + 1, n) = <<>>
    BY <1>1
  <2>4. QED
    BY <2>2, <2>3 DEF tail
<1>3. tail(lines, 1) = Readable(lines)
  <2> DEFINE stops == {i \in DOMAIN lines : lines[i] = Raised}
             least == CHOOSE i \in stops : \A j \in stops : i <= j
  <2>1. 1 \in 1 .. n + 1 /\ StopsAt(lines, 1, stop(lines, 1)) /\ stop(lines, 1) \in Nat
    BY <1>1, StopIs
  <2>2. CASE stops = {}
    <3>1. StopsAt(lines, 1, n)
      BY <1>1, <2>2 DEF StopsAt
    <3>2. stop(lines, 1) = n
      BY <1>1, <2>1, <3>1, StopUnique
    <3>3. SubSeq(lines, 1, n) = lines
      OBVIOUS
    <3>4. Readable(lines) = lines
      BY <2>2 DEF Readable
    <3>5. QED
      BY <3>2, <3>3, <3>4 DEF tail
  <2>3. CASE stops # {}
    <3>1. least \in stops /\ \A j \in stops : least <= j
      <4>1. stops \in SUBSET Nat
        BY <1>1
      <4>2. \E i \in stops : \A j \in stops : i <= j
        <5> HIDE DEF stops
        <5> QED
          BY <2>3, <4>1, LeastOf
      <4> HIDE DEF stops
      <4>3. QED
        BY <4>2
    <3>2. Readable(lines) = SubSeq(lines, 1, least)
      BY <2>3 DEF Readable
    <3> HIDE DEF least
    <3>3. StopsAt(lines, 1, least) /\ least \in Nat
      <4>1. \A j \in 1 .. least - 1 : lines[j] # Raised
        <5>1. ASSUME NEW j \in 1 .. least - 1, lines[j] = Raised PROVE FALSE
          <6>1. j \in stops /\ j < least
            BY <1>1, <3>1, <5>1
          <6>2. QED
            BY <1>1, <3>1, <6>1
        <5>2. QED
          BY <5>1
      <4>2. least \in 1 .. n /\ lines[least] = Raised
        BY <1>1, <3>1
      <4>3. least \in 1 - 1 .. Len(lines) /\ least \in 1 .. Len(lines)
        BY <1>1, <4>2
      <4>4. QED
        BY <4>1, <4>2, <4>3 DEF StopsAt
    <3>4. stop(lines, 1) = least
      BY <2>1, <3>3, StopUnique
    <3>5. QED
      BY <3>2, <3>4 DEF tail
  <2>4. QED
    BY <2>2, <2>3
<1>4. ASSUME NEW k \in 1 .. n
      PROVE  tail(lines, k) = IF lines[k] = Raised THEN <<Raised>> ELSE <<lines[k]>> \o tail(lines, k + 1)
  <2> DEFINE i == stop(lines, k)
             j == stop(lines, k + 1)
  <2>1. /\ k \in 1 .. n + 1 /\ StopsAt(lines, k, i) /\ i \in Nat
        /\ k + 1 \in 1 .. n + 1 /\ StopsAt(lines, k + 1, j) /\ j \in Nat
    <3>1. k \in 1 .. n + 1 /\ k + 1 \in 1 .. n + 1
      BY <1>1
    <3>2. QED
      BY <3>1, StopIs
  <2> HIDE DEF i, j
  <2>2. CASE lines[k] = Raised
    <3>1. StopsAt(lines, k, k) /\ k \in Nat
      BY <1>1, <2>2 DEF StopsAt
    <3>2. i = k
      BY <2>1, <3>1, StopUnique
    <3>3. SubSeq(lines, k, k) = <<lines[k]>>
      <4>1. k - k + 1 = 1 /\ \A x \in 1 .. 1 : k + x - 1 = k
        BY <1>1
      <4>2. SubSeq(lines, k, k) = [x \in 1 .. k - k + 1 |-> lines[k + x - 1]]
        BY <1>1
      <4>3. SubSeq(lines, k, k) = [x \in 1 .. 1 |-> lines[k]]
        BY <4>1, <4>2
      <4>4. QED
        BY <4>3
    <3>4. QED
      BY <2>2, <3>2, <3>3 DEF tail, i
  <2>3. CASE lines[k] # Raised
    <3>0. /\ j \in k + 1 - 1 .. Len(lines) /\ \A x \in k + 1 .. j - 1 : lines[x] # Raised
          /\ \/ j \in k + 1 .. Len(lines) /\ lines[j] = Raised
             \/ j = Len(lines) /\ \A x \in k + 1 .. j : lines[x] # Raised
      BY <2>1 DEF StopsAt
    <3>3. j \in k .. n /\ j \in k - 1 .. Len(lines)
      <4>1. k \in Int /\ k + 1 - 1 = k /\ Len(lines) \in Int
        BY <1>1
      <4>2. j \in k + 1 - 1 .. Len(lines)
        BY <3>0
      <4>3. j \in k .. Len(lines)
        BY <4>1, <4>2
      <4>4. QED
        BY <4>1, <4>3
    <3>1. StopsAt(lines, k, j)
      <4> HIDE DEF n
      <4>1. \A x \in k .. j - 1 : lines[x] # Raised
        <5>1. \A x \in k .. j - 1 : x = k \/ x \in k + 1 .. j - 1
          BY <1>1, <3>3
        <5>2. QED
          BY <2>3, <3>0, <5>1
      <4>2. CASE j \in k + 1 .. Len(lines) /\ lines[j] = Raised
        <5>1. j \in k .. Len(lines)
          BY <1>1, <4>2 DEF n
        <5>2. QED
          BY <3>3, <4>1, <4>2, <5>1 DEF StopsAt
      <4>3. CASE j = Len(lines) /\ \A x \in k + 1 .. j : lines[x] # Raised
        <5>1. \A x \in k .. j : x = k \/ x \in k + 1 .. j
          BY <1>1, <3>3
        <5>2. \A x \in k .. j : lines[x] # Raised
          BY <2>3, <4>3, <5>1
        <5>3. QED
          BY <3>3, <4>1, <4>3, <5>2 DEF StopsAt
      <4>4. QED
        BY <3>0, <4>2, <4>3
    <3>2. i = j
      BY <2>1, <3>1, StopUnique
    <3>4. SubSeq(lines, k, j) = <<lines[k]>> \o SubSeq(lines, k + 1, j)
      <4> DEFINE s == SubSeq(lines, k, j)
                 t == <<lines[k]>> \o SubSeq(lines, k + 1, j)
      <4>1. s = [x \in 1 .. j - k + 1 |-> lines[k + x - 1]]
        BY <3>3
      <4>2. SubSeq(lines, k + 1, j) = [x \in 1 .. j - k |-> lines[k + x]]
        BY <3>3
      <4>3. QED
        BY <3>3, <4>1, <4>2
    <3>5. QED
      BY <2>3, <3>2, <3>4 DEF tail, i, j
  <2>4. QED
    BY <2>2, <2>3
<1>5. QED
  BY <1>2, <1>3, <1>4

LEMMA LogReads ==
  ASSUME NEW W, NEW stream \in Seq(W), NEW db, NEW S, NEW lines \in Seq(S), NEW starts,
         Readings(stream, db, lines, starts)
  PROVE  read_logs(stream, db) = Readable(lines)
<1> DEFINE n == Len(lines)
           m == Len(stream)
           message(p) == construct_msg(stream, p, db)
           Follows(f) == f = [p \in 1 .. m + 1 |->
                                IF p > m THEN <<>>
                                ELSE IF message(p).raised THEN <<Raised>>
                                     ELSE <<message(p).line>> \o f[message(p).next]]
           from == CHOOSE f : Follows(f)
           place(p) == CHOOSE k \in 1 .. n + 1 : starts[k] = p
           g == [p \in 1 .. m + 1 |->
                   IF \E k \in 1 .. n + 1 : starts[k] = p THEN tail(lines, place(p)) ELSE <<Raised>>]
<1>1. n \in Nat /\ m \in Nat
  OBVIOUS
<1>2. /\ starts \in [1 .. n + 1 -> 1 .. m + 1] /\ starts[1] = 1 /\ starts[n + 1] = m + 1
      /\ \A k, l \in 1 .. n + 1 : k < l => starts[k] < starts[l]
      /\ \A k \in 1 .. n :
           message(starts[k]) = IF lines[k] = Raised THEN Raised
                                ELSE [raised |-> FALSE, next |-> starts[k + 1], line |-> lines[k]]
      /\ \A p \in 1 .. m : (\A k \in 1 .. n : p # starts[k]) => message(p) = Raised
  BY DEF Readings
<1>3. /\ tail(lines, n + 1) = <<>> /\ tail(lines, 1) = Readable(lines)
      /\ \A k \in 1 .. n : tail(lines, k) = IF lines[k] = Raised THEN <<Raised>>
                                             ELSE <<lines[k]>> \o tail(lines, k + 1)
  BY TailIs
<1>4. Raised.raised = TRUE
  BY DEF Raised
<1>5. read_logs(stream, db) = from[1]
  BY DEF read_logs
<1> HIDE DEF n, m, message
<1>6. \A k \in 1 .. n + 1 : place(starts[k]) = k
  <2> SUFFICES ASSUME NEW k \in 1 .. n + 1 PROVE place(starts[k]) = k
    OBVIOUS
  <2> DEFINE l == place(starts[k])
  <2>1. l \in 1 .. n + 1 /\ starts[l] = starts[k]
    OBVIOUS
  <2> HIDE DEF l
  <2>2. starts[k] \in Int /\ starts[l] \in Int
    BY <1>1, <1>2, <2>1
  <2>3. ~(k < l) /\ ~(l < k)
    <3>1. k < l => starts[k] < starts[l]
      BY <1>2, <2>1
    <3>2. l < k => starts[l] < starts[k]
      BY <1>2, <2>1
    <3>3. QED
      BY <2>1, <2>2, <3>1, <3>2
  <2>4. l = k
    BY <1>1, <2>1, <2>3
  <2>5. QED
    BY <2>4 DEF l
<1> HIDE DEF place
<1>7. \A k \in 1 .. n + 1 : starts[k] \in 1 .. m + 1 /\ g[starts[k]] = tail(lines, k)
  BY <1>2, <1>6
<1>8. Follows(g)
  <2>1. ASSUME NEW p \in 1 .. m + 1
        PROVE  g[p] = IF p > m THEN <<>>
                      ELSE IF message(p).raised THEN <<Raised>> ELSE <<message(p).line>> \o g[message(p).next]
    <3>1. CASE p > m
      <4>1. p = starts[n + 1] /\ n + 1 \in 1 .. n + 1
        BY <1>1, <1>2, <3>1
      <4>2. g[p] = <<>>
        <5> HIDE DEF g
        <5> QED
          BY <1>3, <1>7, <4>1
      <4> HIDE DEF g
      <4>3. QED
        BY <3>1, <4>2
    <3>2. CASE ~(p > m) /\ \E k \in 1 .. n : starts[k] = p
      <4>1. PICK k \in 1 .. n : starts[k] = p
        BY <3>2
      <4>2. k \in 1 .. n + 1 /\ k + 1 \in 1 .. n + 1
        BY <1>1
      <4>3. g[p] = tail(lines, k) /\ g[starts[k + 1]] = tail(lines, k + 1)
        <5> HIDE DEF g
        <5> QED
          BY <1>7, <4>1, <4>2
      <4> HIDE DEF g
      <4>4. CASE lines[k] = Raised
        <5>1. message(p) = Raised /\ tail(lines, k) = <<Raised>>
          BY <1>2, <1>3, <4>1, <4>4
        <5>2. QED
          BY <1>4, <3>2, <4>3, <5>1
      <4>5. CASE lines[k] # Raised
        <5>1. message(p) = [raised |-> FALSE, next |-> starts[k + 1], line |-> lines[k]]
          BY <1>2, <4>1, <4>5
        <5>2. message(p).raised = FALSE /\ message(p).next = starts[k + 1] /\ message(p).line = lines[k]
          BY <5>1
        <5>3. tail(lines, k) = <<lines[k]>> \o tail(lines, k + 1)
          BY <1>3, <4>5
        <5>4. QED
          BY <3>2, <4>3, <5>2, <5>3
      <4>6. QED
        BY <4>4, <4>5
    <3>3. CASE ~(p > m) /\ \A k \in 1 .. n : p # starts[k]
      <4>1. p \in 1 .. m
        BY <1>1, <3>3
      <4>2. message(p) = Raised
        BY <1>2, <3>3, <4>1
      <4>3. \A k \in 1 .. n + 1 : starts[k] # p
        <5>1. \A k \in 1 .. n + 1 : k \in 1 .. n \/ k = n + 1
          BY <1>1
        <5>2. QED
          BY <1>1, <1>2, <3>3, <4>1, <5>1
      <4>4. g[p] = <<Raised>>
        BY <4>3
      <4> HIDE DEF g
      <4>5. QED
        BY <1>4, <3>3, <4>2, <4>4
    <3>4. QED
      BY <3>1, <3>2, <3>3
  <2>2. g = [p \in 1 .. m + 1 |-> g[p]]
    OBVIOUS
  <2> HIDE DEF g
  <2>3. QED
    BY <2>1, <2>2
<1>9. Follows(from)
  <2> HIDE DEF Follows, g
  <2> QED
    BY <1>8
<1> HIDE DEF from
<1>10. \A p \in 1 .. m + 1 : from[p] = IF p > m THEN <<>>
                      ELSE IF message(p).raised THEN <<Raised>> ELSE <<message(p).line>> \o from[message(p).next]
  BY <1>9
<1> DEFINE T == {k \in 1 .. n + 1 : from[starts[k]] # tail(lines, k)}
<1>11. T = {}
  <2>1. SUFFICES ASSUME T # {} PROVE FALSE
    OBVIOUS
  <2>2. PICK k \in T : \A l \in T : l <= k
    <3>1. T \in SUBSET (1 .. n + 1) /\ n + 1 \in Nat
      BY <1>1
    <3> HIDE DEF T
    <3>2. QED
      BY <2>1, <3>1, GreatestOf
  <2>3. CASE k = n + 1
    <3>1. starts[k] = m + 1 /\ m + 1 > m /\ m + 1 \in 1 .. m + 1
      BY <1>1, <1>2, <2>3
    <3>2. from[starts[k]] = <<>>
      BY <1>10, <3>1
    <3>3. QED
      BY <1>3, <2>3, <3>2
  <2>4. CASE k \in 1 .. n
    <3>1. k + 1 \in 1 .. n + 1 /\ k + 1 \notin T
      <4>1. k + 1 \in 1 .. n + 1 /\ ~(k + 1 <= k)
        BY <1>1, <2>4
      <4>2. QED
        BY <2>2, <4>1
    <3>2. from[starts[k + 1]] = tail(lines, k + 1)
      BY <3>1
    <3>3. starts[k] \in 1 .. m + 1 /\ ~(starts[k] > m)
      <4>1. k \in 1 .. n + 1 /\ n + 1 \in 1 .. n + 1 /\ k < n + 1
        BY <1>1, <2>4
      <4>2. starts[k] < starts[n + 1] /\ starts[k] \in 1 .. m + 1
        BY <1>2, <4>1
      <4>3. QED
        BY <1>1, <1>2, <4>2
    <3>4. CASE lines[k] = Raised
      <4>1. message(starts[k]) = Raised /\ tail(lines, k) = <<Raised>>
        BY <1>2, <1>3, <2>4, <3>4
      <4>2. from[starts[k]] = <<Raised>>
        BY <1>4, <1>10, <3>3, <4>1
      <4>3. QED
        BY <4>1, <4>2
    <3>5. CASE lines[k] # Raised
      <4>1. message(starts[k]) = [raised |-> FALSE, next |-> starts[k + 1], line |-> lines[k]]
        BY <1>2, <2>4, <3>5
      <4>2. message(starts[k]).raised = FALSE /\ message(starts[k]).next = starts[k + 1] /\ message(starts[k]).line = lines[k]
        BY <4>1
      <4>3. from[starts[k]] = <<lines[k]>> \o from[starts[k + 1]]
        BY <1>10, <3>3, <4>2
      <4>4. tail(lines, k) = <<lines[k]>> \o tail(lines, k + 1)
        BY <1>3, <2>4, <3>5
      <4>5. QED
        BY <3>2, <4>3, <4>4
    <3>6. QED
      BY <3>4, <3>5
  <2>5. QED
    BY <1>1, <2>3, <2>4
<1>12. from[1] = tail(lines, 1)
  <2>1. 1 \in 1 .. n + 1
    BY <1>1
  <2>2. from[starts[1]] = tail(lines, 1)
    BY <1>11, <2>1
  <2>3. QED
    BY <1>2, <2>2
<1>13. QED
  BY <1>3, <1>5, <1>12

----------------------------------------------------------------------------
(***************************************************************************)
(* What a destination has: packet after packet, the last perhaps in part.  *)
(***************************************************************************)
\* A message or a version, as an image with the IDs ids packs it.
IsPacket(ids, part, line) ==
  \/ \E site \in CallSites, unit \in Units :
       /\ site.message \in DOMAIN ids.messages.ids /\ site.module \in DOMAIN ids.modules.ids
       /\ part = build(site.level, ids.messages.ids[site.message], ids.modules.ids[site.module],
                       unit, site.message.args, site.args)
       /\ line = line_of(site)
  \/ \E version \in Versions :
       part = build_version(version.width, version.named) /\ line = Raised

\* The words of a packet: all but the first are data.
Whole(part) ==
  /\ part \in Seq(Words) /\ Len(part) # 0
  /\ \A j \in 2 .. Len(part) : part[j].type = "data"

\* The packets of lines begin at starts; of the last, the stream has some words.
Laid(ids, lines, stream, starts, parts) ==
  /\ starts \in [1 .. Len(lines) + 1 -> Nat \ {0}] /\ starts[1] = 1
  /\ \A k, l \in 1 .. Len(lines) + 1 : k < l => starts[k] < starts[l]
  /\ \A k \in 1 .. Len(lines) :
       /\ IsPacket(ids, parts[k], lines[k]) /\ Whole(parts[k])
       /\ starts[k + 1] = starts[k] + Len(parts[k])
       /\ \A j \in 1 .. Len(parts[k]) :
            starts[k] + j - 1 <= Len(stream) => stream[starts[k] + j - 1] = parts[k][j]

LEMMA LaidPacket ==
  ASSUME NEW ids, NEW lines \in Seq(Lines), NEW stream \in Seq(Words), NEW starts, NEW parts,
         Laid(ids, lines, stream, starts, parts), starts[Len(lines) + 1] = Len(stream) + 1,
         NEW part, NEW line \in Lines, IsPacket(ids, part, line), Whole(part)
  PROVE  \E new_starts, new_parts :
           /\ Laid(ids, Append(lines, line), stream, new_starts, new_parts)
           /\ new_starts[Len(lines) + 1] = Len(stream) + 1 /\ new_parts[Len(lines) + 1] = part
<1> DEFINE n == Len(lines)
           m == Len(stream)
           size == Len(part)
           more == Append(lines, line)
           new_starts == [k \in 1 .. n + 2 |-> IF k = n + 2 THEN m + 1 + size ELSE starts[k]]
           new_parts == [k \in 1 .. n + 1 |-> IF k = n + 1 THEN part ELSE parts[k]]
<1>1. n \in Nat /\ m \in Nat
  OBVIOUS
<1>2. size \in Nat /\ size > 0
  <2>1. part \in Seq(Words) /\ size # 0
    BY DEF Whole
  <2>2. size \in Nat
    BY <2>1
  <2> HIDE DEF size
  <2> QED
    BY <2>1, <2>2
<1>3. Len(more) = n + 1 /\ more[n + 1] = line /\ \A k \in 1 .. n : more[k] = lines[k]
  OBVIOUS
<1>4. /\ starts \in [1 .. n + 1 -> Nat \ {0}] /\ starts[1] = 1
      /\ \A k, l \in 1 .. n + 1 : k < l => starts[k] < starts[l]
      /\ \A k \in 1 .. n :
           /\ IsPacket(ids, parts[k], lines[k]) /\ Whole(parts[k])
           /\ starts[k + 1] = starts[k] + Len(parts[k])
           /\ \A j \in 1 .. Len(parts[k]) :
                starts[k] + j - 1 <= m => stream[starts[k] + j - 1] = parts[k][j]
  BY DEF Laid
<1>5. starts[n + 1] = m + 1
  OBVIOUS
<1> HIDE DEF n, m, size, more
<1>6. \A k \in 1 .. n + 1 : k \in 1 .. n + 2 /\ k # n + 2 /\ new_starts[k] = starts[k]
  BY <1>1
<1>7. n + 2 \in 1 .. n + 2 /\ new_starts[n + 2] = m + 1 + size
  BY <1>1
<1>8. new_starts \in [1 .. n + 2 -> Nat \ {0}]
  <2>1. ASSUME NEW k \in 1 .. n + 2, k # n + 2 PROVE starts[k] \in Nat \ {0}
    <3>1. k \in 1 .. n + 1
      BY <1>1, <2>1
    <3>2. QED
      BY <1>4, <3>1
  <2>2. m + 1 + size \in Nat \ {0}
    BY <1>1, <1>2
  <2>3. QED
    BY <2>1, <2>2
<1>9. new_parts[n + 1] = part /\ \A k \in 1 .. n : new_parts[k] = parts[k]
  BY <1>1
<1> HIDE DEF new_starts, new_parts
<1>10. \A k \in 1 .. n + 2 : k \in 1 .. n + 1 \/ k = n + 2
  BY <1>1
<1>11. ASSUME NEW k \in 1 .. n + 2, NEW l \in 1 .. n + 2, k < l PROVE new_starts[k] < new_starts[l]
  <2>1. k \in 1 .. n + 1
    BY <1>1, <1>11
  <2>2. CASE l \in 1 .. n + 1
    BY <1>4, <1>6, <1>11, <2>1, <2>2
  <2>3. CASE l = n + 2
    <3>1. starts[k] <= m + 1
      <4>1. CASE k = n + 1
        BY <1>1, <1>5, <4>1
      <4>2. CASE k # n + 1
        <5>1. k < n + 1 /\ n + 1 \in 1 .. n + 1
          BY <1>1, <2>1, <4>2
        <5>2. starts[k] < starts[n + 1]
          BY <1>4, <2>1, <5>1
        <5>3. starts[k] \in Nat
          BY <1>4, <2>1
        <5>4. QED
          BY <1>1, <1>5, <5>2, <5>3
      <4>3. QED
        BY <4>1, <4>2
    <3>2. starts[k] \in Nat
      BY <1>4, <2>1
    <3>3. QED
      BY <1>1, <1>2, <1>6, <1>7, <2>1, <2>3, <3>1, <3>2
  <2>4. QED
    BY <1>10, <2>2, <2>3
<1>12. ASSUME NEW k \in 1 .. n + 1
       PROVE  /\ IsPacket(ids, new_parts[k], more[k]) /\ Whole(new_parts[k])
              /\ new_starts[k + 1] = new_starts[k] + Len(new_parts[k])
              /\ \A j \in 1 .. Len(new_parts[k]) :
                   new_starts[k] + j - 1 <= m => stream[new_starts[k] + j - 1] = new_parts[k][j]
  <2>1. CASE k \in 1 .. n
    <3>1. k + 1 \in 1 .. n + 1
      BY <1>1, <2>1
    <3>2. /\ more[k] = lines[k] /\ new_parts[k] = parts[k] /\ new_starts[k] = starts[k]
          /\ new_starts[k + 1] = starts[k + 1]
      BY <1>3, <1>6, <1>9, <2>1, <3>1
    <3>3. QED
      BY <1>4, <2>1, <3>2
  <2>2. CASE k = n + 1
    <3>1. /\ more[k] = line /\ new_parts[k] = part /\ new_starts[k] = m + 1
          /\ k + 1 = n + 2 /\ new_starts[k + 1] = m + 1 + size
      BY <1>1, <1>3, <1>5, <1>6, <1>7, <1>9, <2>2
    <3>2. \A j \in 1 .. size : ~(m + 1 + j - 1 <= m)
      BY <1>1, <1>2
    <3>3. QED
      BY <3>1, <3>2 DEF size
  <2>3. QED
    BY <1>1, <2>1, <2>2
<1>13. new_starts[1] = 1 /\ new_starts[n + 1] = m + 1
  <2>1. 1 \in 1 .. n + 1 /\ n + 1 \in 1 .. n + 1
    BY <1>1
  <2>2. QED
    BY <1>4, <1>5, <1>6, <2>1
<1>14. Laid(ids, more, stream, new_starts, new_parts)
  <2>1. Len(more) = n + 1 /\ Len(more) + 1 = n + 2
    BY <1>1, <1>3
  <2>2. QED
    BY <1>8, <1>11, <1>12, <1>13, <2>1 DEF Laid, m
<1>15. QED
  BY <1>9, <1>13, <1>14 DEF more, n, m

LEMMA LaidWord ==
  ASSUME NEW ids, NEW lines \in Seq(Lines), NEW stream \in Seq(Words), NEW starts, NEW parts,
         Laid(ids, lines, stream, starts, parts), Len(lines) # 0,
         NEW w \in Nat, w < Len(parts[Len(lines)]), Len(stream) + 1 = starts[Len(lines)] + w
  PROVE  /\ parts[Len(lines)][w + 1] \in Words
         /\ Laid(ids, lines, Append(stream, parts[Len(lines)][w + 1]), starts, parts)
<1> DEFINE n == Len(lines)
           m == Len(stream)
           word == parts[n][w + 1]
           more == Append(stream, word)
<1>1. n \in Nat \ {0} /\ m \in Nat /\ n \in 1 .. n
  OBVIOUS
<1>2. /\ starts \in [1 .. n + 1 -> Nat \ {0}] /\ starts[1] = 1
      /\ \A k, l \in 1 .. n + 1 : k < l => starts[k] < starts[l]
      /\ \A k \in 1 .. n :
           /\ IsPacket(ids, parts[k], lines[k]) /\ Whole(parts[k])
           /\ starts[k + 1] = starts[k] + Len(parts[k])
           /\ \A j \in 1 .. Len(parts[k]) :
                starts[k] + j - 1 <= m => stream[starts[k] + j - 1] = parts[k][j]
  BY DEF Laid
<1>3. m + 1 = starts[n] + w /\ w < Len(parts[n])
  OBVIOUS
<1>4. word \in Words
  <2>1. parts[n] \in Seq(Words)
    BY <1>1, <1>2 DEF Whole
  <2>2. w + 1 \in 1 .. Len(parts[n])
    BY <1>3, <2>1
  <2> DEFINE s == parts[n]
  <2>3. s \in Seq(Words) /\ w + 1 \in 1 .. Len(s)
    BY <2>1, <2>2
  <2> HIDE DEF s
  <2>4. s[w + 1] \in Words
    BY <2>3
  <2>5. QED
    BY <2>4 DEF s
<1>5. Len(more) = m + 1 /\ more[m + 1] = word /\ \A i \in 1 .. m : more[i] = stream[i]
  <2> HIDE DEF word
  <2> QED
    BY <1>4
<1> HIDE DEF n, m, more
<1>6. ASSUME NEW k \in 1 .. n, NEW j \in 1 .. Len(parts[k]), starts[k] + j - 1 <= m + 1
      PROVE  more[starts[k] + j - 1] = parts[k][j]
  <2>1. starts[k] \in Nat \ {0} /\ starts[n] \in Nat \ {0} /\ starts[k + 1] = starts[k] + Len(parts[k])
    <3>1. k \in 1 .. n + 1 /\ n \in 1 .. n + 1
      BY <1>1
    <3>2. QED
      BY <1>2, <3>1
  <2>2. parts[k] \in Seq(Words)
    BY <1>2 DEF Whole
  <2>3. Len(parts[k]) \in Nat
    BY <2>2
  <2>4. CASE starts[k] + j - 1 <= m
    <3>1. starts[k] + j - 1 \in 1 .. m
      BY <1>1, <2>1, <2>3, <2>4
    <3>2. stream[starts[k] + j - 1] = parts[k][j]
      BY <1>2, <2>4
    <3>3. QED
      BY <1>5, <3>1, <3>2
  <2>5. CASE starts[k] + j - 1 = m + 1
    <3>1. k = n
      <4>1. SUFFICES ASSUME k < n PROVE FALSE
        BY <1>1
      <4>2. k + 1 \in 1 .. n + 1 /\ n \in 1 .. n + 1
        BY <1>1, <4>1
      <4>3. starts[k + 1] <= starts[n]
        <5>1. CASE k + 1 = n
          BY <2>1, <5>1
        <5>2. CASE k + 1 # n
          <6>1. k + 1 < n
            BY <1>1, <4>1, <5>2
          <6>2. starts[k + 1] < starts[n] /\ starts[k + 1] \in Nat
            BY <1>2, <4>2, <6>1
          <6>3. QED
            BY <2>1, <6>2
        <5>3. QED
          BY <5>1, <5>2
      <4>4. starts[k] + j - 1 < starts[k + 1] /\ starts[k + 1] \in Nat
        BY <2>1, <2>3
      <4>5. m + 1 < starts[n] /\ m + 1 = starts[n] + w
        BY <1>1, <1>3, <2>1, <2>5, <4>3, <4>4
      <4>6. QED
        BY <1>1, <2>1, <4>5
    <3>2. j = w + 1
      BY <1>1, <1>3, <2>1, <2>3, <2>5, <3>1
    <3>3. QED
      BY <1>5, <2>5, <3>1, <3>2
  <2>6. QED
    BY <1>1, <1>6, <2>1, <2>3, <2>4, <2>5
<1>7. Laid(ids, lines, more, starts, parts)
  <2>1. Len(more) = m + 1
    BY <1>5
  <2>2. QED
    BY <1>2, <1>6, <2>1 DEF Laid, n
<1>8. QED
  BY <1>4, <1>7 DEF n, more

\* The IDs that an image has, and what a catalog knows of them.
IdsAre(ids) ==
  /\ \A m \in DOMAIN ids.messages.ids : ids.messages.ids[m] \in Nat /\ ids.messages.ids[m] < ShortIds
  /\ \A m \in DOMAIN ids.modules.ids : ids.modules.ids[m] \in Nat /\ ids.modules.ids[m] < ModuleIds

Known(ids, db) ==
  /\ \A m \in DOMAIN ids.messages.ids : Means(db.messages, ids.messages.ids[m], m)
  /\ \A m \in DOMAIN ids.modules.ids : Means(db.modules, ids.modules.ids[m], m)

LEMMA BuildWhole ==
  ASSUME CallsFit, NEW site \in CallSites, NEW unit \in Units, NEW m \in Nat, NEW id \in Nat
  PROVE  Whole(build(site.level, id, m, unit, site.message.args, site.args))
<1> DEFINE types == site.message.args
           args == site.args
           part == build(site.level, id, m, unit, types, args)
           header == catalog_header(site.level, m, unit)
<1>1. types \in Seq(ArgumentTypes) /\ args \in Seq(Int) /\ Len(args) = Len(types)
  BY DEF CallsFit
<1>2. CASE types = <<>>
  <2>1. id % ShortIds \in Nat
    <3>1. ShortIds \in Nat \ {0} /\ id \in Int
      BY RangesArePositive
    <3>2. QED
      BY <3>1, DividingIs
  <2> DEFINE word == [type |-> "Short32", id |-> id % ShortIds]
  <2>2. part = <<word>>
    BY <1>2 DEF build, short32
  <2>3. word \in Words
    BY <2>1 DEF Words
  <2> HIDE DEF word, part
  <2>4. part \in Seq(Words) /\ Len(part) = 1
    BY <2>2, <2>3
  <2>5. QED
    BY <2>4 DEF Whole, part
<1>3. CASE types # <<>>
  <2>1. part = catalog_message(site.level, id, m, unit, types, args)
    BY <1>3 DEF build
  <2>2. header \in Words
    BY DEF Words
  <2> HIDE DEF part, types, args
  <2>3. PICK packed : Packing(packed, header, id, types, args) /\ part = packed[Len(types)]
    BY <1>1, <2>1, PackingExists
  <2> HIDE DEF header
  <2>4. \A j \in 2 .. Len(part) : part[j].type = "data"
    BY <1>1, <2>2, <2>3, AllButHeaderIsData
  <2>5. Len(types) \in Nat /\ Len(types) \in 0 .. Len(types) /\ 0 \in 0 .. Len(types)
    BY <1>1
  <2>6. part \in Seq(Words)
    BY <2>3, <2>5 DEF Packing
  <2>7. Begins(part, packed[0])
    BY <1>1, <2>3, <2>5, PackingBegins
  <2>8. Len(packed[0]) = 2
    <3>1. PackedAs(packed, header, id, types, args)
      BY <1>1, <2>2, <2>3, PackingIs
    <3>2. QED
      BY <3>1 DEF PackedAs
  <2>9. 2 <= Len(part)
    BY <2>7, <2>8 DEF Begins
  <2>10. QED
    BY <2>4, <2>6, <2>9 DEF Whole, part, types, args
<1>4. QED
  BY <1>2, <1>3

LEMMA VersionWhole ==
  ASSUME NEW version
  PROVE  LET part == build_version(version.width, version.named)
         IN Whole(part) /\ part[1].type = "Build"
<1> DEFINE subtype == IF version.named THEN 2 ELSE IF version.width <= 22 THEN 0
                      ELSE IF version.width <= 54 THEN 1 ELSE 2
           first == [type |-> "Build", subtype |-> subtype]
           size == CASE subtype = 0 -> 0 [] subtype = 1 -> 1 [] OTHER -> 3
           word == [type |-> "data", bytes |-> Bytes(0, 4)]
           rest == [w \in 1 .. size |-> word]
           part == build_version(version.width, version.named)
<1>1. part = <<first>> \o rest
  BY DEF build_version
<1>2. subtype \in {0, 1, 2}
  OBVIOUS
<1>3. size \in {0, 1, 3}
  <2> HIDE DEF subtype
  <2> QED
    BY <1>2
<1>4. first \in Words /\ first.type = "Build"
  <2> HIDE DEF subtype
  <2> QED
    BY <1>2 DEF Words
<1>5. word \in Words /\ word.type = "data"
  <2>1. Bytes(0, 4) \in Seq(Nat) /\ Len(Bytes(0, 4)) = 4
    BY BytesIs
  <2>2. Bytes(0, 4) \in [1 .. 4 -> Nat]
    <3>1. Bytes(0, 4) = [i \in 1 .. 4 |-> (0 \div weight[i - 1]) % ByteValues]
      BY DEF Bytes
    <3>2. \A i \in 1 .. 4 : Bytes(0, 4)[i] \in Nat
      BY <2>1
    <3>3. QED
      BY <3>1, <3>2
  <2>3. word \in Data
    BY <2>2 DEF Data
  <2>4. QED
    BY <2>3 DEF Words
<1> HIDE DEF first, size, word, part
<1>6. rest \in Seq(Words) /\ Len(rest) = size /\ \A j \in 1 .. size : rest[j] = word
  <2>1. rest \in [1 .. size -> Words] /\ size \in Nat
    BY <1>3, <1>5
  <2>2. QED
    BY <2>1
<1> HIDE DEF rest
<1>7. <<first>> \in Seq(Words) /\ Len(<<first>>) = 1 /\ <<first>>[1] = first
  BY <1>4
<1>8. /\ part \in Seq(Words) /\ Len(part) = 1 + size /\ part[1] = first
      /\ \A j \in 1 .. size : part[1 + j] = word
  <2> DEFINE s == <<first>>
  <2>1. s \in Seq(Words) /\ Len(s) = 1 /\ s[1] = first /\ part = s \o rest /\ 1 \in 1 .. Len(s)
    BY <1>1, <1>7
  <2> HIDE DEF s
  <2>2. QED
    BY <1>6, <2>1, ConcatIs
<1>9. \A j \in 2 .. Len(part) : part[j].type = "data"
  <2>1. ASSUME NEW j \in 2 .. Len(part) PROVE part[j].type = "data"
    <3>1. j - 1 \in 1 .. size /\ 1 + (j - 1) = j
      BY <1>3, <1>8
    <3>2. part[j] = word
      BY <1>8, <3>1
    <3>3. QED
      BY <1>5, <3>2
  <2>2. QED
    BY <2>1
<1>10. QED
  <2>1. Len(part) # 0
    BY <1>3, <1>8
  <2>2. QED
    BY <1>4, <1>8, <1>9, <2>1 DEF Whole, part

LEMMA LineIs ==
  ASSUME NEW site
  PROVE  line_of(site) # Raised
<1>1. DOMAIN Raised = {"raised"}
  BY DEF Raised
<1>2. "text" \in DOMAIN line_of(site)
  BY DEF line_of, short_line, catalog_line
<1>3. QED
  BY <1>1, <1>2

LEMMA PacketWhole ==
  ASSUME CallsFit, NEW ids, IdsAre(ids), NEW part, NEW line, IsPacket(ids, part, line)
  PROVE  Whole(part) /\ line \in Lines
<1>1. ASSUME NEW site \in CallSites, NEW unit \in Units,
             site.message \in DOMAIN ids.messages.ids, site.module \in DOMAIN ids.modules.ids,
             part = build(site.level, ids.messages.ids[site.message], ids.modules.ids[site.module],
                          unit, site.message.args, site.args),
             line = line_of(site)
      PROVE  Whole(part) /\ line \in Lines
  <2>1. ids.messages.ids[site.message] \in Nat /\ ids.modules.ids[site.module] \in Nat
    BY <1>1 DEF IdsAre
  <2>2. Whole(part)
    BY <1>1, <2>1, BuildWhole
  <2>3. line \in Lines
    BY <1>1 DEF Lines
  <2>4. QED
    BY <2>2, <2>3
<1>2. ASSUME NEW version \in Versions, part = build_version(version.width, version.named), line = Raised
      PROVE  Whole(part) /\ line \in Lines
  BY <1>2, VersionWhole DEF Lines
<1>3. QED
  BY <1>1, <1>2 DEF IsPacket

LEMMA PacketDecodes ==
  ASSUME CallsFit, IdsFit, NEW ids, IdsAre(ids), NEW db, Known(ids, db),
         NEW part, NEW line, IsPacket(ids, part, line),
         NEW stream \in Seq(Words), NEW q \in Nat \ {0}, StandsAt(part, stream, q)
  PROVE  construct_msg(stream, q, db)
           = IF line = Raised THEN Raised
             ELSE [raised |-> FALSE, next |-> q + Len(part), line |-> line]
<1>1. ASSUME NEW site \in CallSites, NEW unit \in Units,
             site.message \in DOMAIN ids.messages.ids, site.module \in DOMAIN ids.modules.ids,
             part = build(site.level, ids.messages.ids[site.message], ids.modules.ids[site.module],
                          unit, site.message.args, site.args),
             line = line_of(site)
      PROVE  Decoded(stream, q, db, part, line)
  <2> DEFINE id == ids.messages.ids[site.message]
             m == ids.modules.ids[site.module]
  <2>1. id \in Nat /\ id < ShortIds /\ m \in Nat /\ m < ModuleIds
    BY <1>1 DEF IdsAre
  <2>2. Means(db.messages, id, site.message) /\ Means(db.modules, m, site.module)
    BY <1>1 DEF Known
  <2>3. StandsAt(build(site.level, id, m, unit, site.message.args, site.args), stream, q)
    BY <1>1
  <2> HIDE DEF id, m
  <2>4. Decoded(stream, q, db, build(site.level, id, m, unit, site.message.args, site.args), line_of(site))
    <3>1. CASE site.message.args = <<>>
      BY <2>1, <2>2, <2>3, <3>1, ShortDecodes
    <3>2. CASE site.message.args # <<>>
      BY <2>1, <2>2, <2>3, <3>2, CatalogDecodes
    <3>3. QED
      BY <3>1, <3>2
  <2>5. QED
    BY <1>1, <2>4 DEF id, m
<1>2. CASE \E site \in CallSites, unit \in Units :
             /\ site.message \in DOMAIN ids.messages.ids /\ site.module \in DOMAIN ids.modules.ids
             /\ part = build(site.level, ids.messages.ids[site.message], ids.modules.ids[site.module],
                             unit, site.message.args, site.args)
             /\ line = line_of(site)
  <2>1. Decoded(stream, q, db, part, line)
    BY <1>1, <1>2
  <2>2. line # Raised
    BY <1>2, LineIs
  <2>3. QED
    BY <2>1, <2>2 DEF Decoded
<1>3. ASSUME NEW version \in Versions, part = build_version(version.width, version.named), line = Raised
      PROVE  construct_msg(stream, q, db) = Raised
  <2>1. Whole(part) /\ part[1].type = "Build"
    BY <1>3, VersionWhole
  <2>2. 1 \in 1 .. Len(part) /\ q + 1 - 1 = q
    <3>1. part \in Seq(Words) /\ Len(part) # 0
      BY <2>1 DEF Whole
    <3>2. QED
      BY <3>1
  <2>3. stream[q].type = "Build"
    <3>1. stream[q + 1 - 1] = part[1]
      BY <2>2 DEF StandsAt
    <3>2. QED
      BY <2>1, <2>2, <3>1
  <2>4. QED
    BY <2>3 DEF construct_msg
<1>4. QED
  BY <1>2, <1>3 DEF IsPacket

(* A stream that has whole packets is read line by line. *)
LEMMA StreamDecodes ==
  ASSUME CallsFit, IdsFit, NEW ids, IdsAre(ids), NEW db, Known(ids, db),
         NEW lines \in Seq(Lines), NEW stream \in Seq(Words), NEW starts, NEW parts,
         Laid(ids, lines, stream, starts, parts), starts[Len(lines) + 1] = Len(stream) + 1
  PROVE  read_logs(stream, db) = Readable(lines)
<1> DEFINE n == Len(lines)
           m == Len(stream)
<1>1. n \in Nat /\ m \in Nat
  OBVIOUS
<1>2. /\ starts \in [1 .. n + 1 -> Nat \ {0}] /\ starts[1] = 1
      /\ \A k, l \in 1 .. n + 1 : k < l => starts[k] < starts[l]
      /\ \A k \in 1 .. n :
           /\ IsPacket(ids, parts[k], lines[k]) /\ Whole(parts[k])
           /\ starts[k + 1] = starts[k] + Len(parts[k])
           /\ \A j \in 1 .. Len(parts[k]) :
                starts[k] + j - 1 <= m => stream[starts[k] + j - 1] = parts[k][j]
      /\ starts[n + 1] = m + 1
  BY DEF Laid
<1> HIDE DEF n, m
<1>3. \A k \in 1 .. n + 1 : starts[k] \in 1 .. m + 1
  <2> SUFFICES ASSUME NEW k \in 1 .. n + 1 PROVE starts[k] \in 1 .. m + 1
    OBVIOUS
  <2>1. starts[k] \in Nat \ {0}
    BY <1>2
  <2>2. CASE k = n + 1
    BY <1>1, <1>2, <2>2
  <2>3. CASE k # n + 1
    <3>1. k < n + 1 /\ n + 1 \in 1 .. n + 1
      BY <1>1, <2>3
    <3>2. starts[k] < m + 1
      BY <1>2, <3>1
    <3>3. QED
      BY <1>1, <2>1, <3>2
  <2>4. QED
    BY <2>2, <2>3
<1>4. ASSUME NEW k \in 1 .. n
      PROVE  /\ k \in 1 .. n + 1 /\ k + 1 \in 1 .. n + 1
             /\ Len(parts[k]) \in Nat \ {0} /\ starts[k + 1] = starts[k] + Len(parts[k])
             /\ StandsAt(parts[k], stream, starts[k])
             /\ \A j \in 2 .. Len(parts[k]) : parts[k][j].type = "data"
  <2>1. k \in 1 .. n + 1 /\ k + 1 \in 1 .. n + 1
    BY <1>1
  <2>2. /\ parts[k] \in Seq(Words) /\ Len(parts[k]) # 0
        /\ \A j \in 2 .. Len(parts[k]) : parts[k][j].type = "data"
    BY <1>2 DEF Whole
  <2>3. Len(parts[k]) \in Nat \ {0}
    BY <2>2
  <2>4. starts[k + 1] = starts[k] + Len(parts[k])
    BY <1>2
  <2>5. starts[k] \in 1 .. m + 1 /\ starts[k + 1] \in 1 .. m + 1
    BY <1>3, <2>1
  <2>6. starts[k] + Len(parts[k]) - 1 <= m
    BY <1>1, <2>3, <2>4, <2>5
  <2>7. \A j \in 1 .. Len(parts[k]) : stream[starts[k] + j - 1] = parts[k][j]
    <3>1. \A j \in 1 .. Len(parts[k]) : starts[k] + j - 1 <= m
      BY <1>1, <2>3, <2>5, <2>6
    <3>2. QED
      BY <1>2, <3>1
  <2>8. QED
    BY <2>1, <2>2, <2>3, <2>4, <2>6, <2>7 DEF StandsAt, m
<1>5. ASSUME NEW k \in 1 .. n
      PROVE  construct_msg(stream, starts[k], db)
               = IF lines[k] = Raised THEN Raised
                 ELSE [raised |-> FALSE, next |-> starts[k + 1], line |-> lines[k]]
  <2>1. starts[k] \in Nat \ {0} /\ IsPacket(ids, parts[k], lines[k]) /\ StandsAt(parts[k], stream, starts[k])
    BY <1>2, <1>4
  <2>2. construct_msg(stream, starts[k], db)
          = IF lines[k] = Raised THEN Raised
            ELSE [raised |-> FALSE, next |-> starts[k] + Len(parts[k]), line |-> lines[k]]
    <3> DEFINE part == parts[k]
               line == lines[k]
               q == starts[k]
    <3>1. IsPacket(ids, part, line) /\ q \in Nat \ {0} /\ StandsAt(part, stream, q)
      BY <2>1
    <3> HIDE DEF part, line, q
    <3>2. construct_msg(stream, q, db)
            = IF line = Raised THEN Raised ELSE [raised |-> FALSE, next |-> q + Len(part), line |-> line]
      BY <3>1, PacketDecodes
    <3>3. QED
      BY <3>2 DEF part, line, q
  <2>3. starts[k + 1] = starts[k] + Len(parts[k])
    BY <1>4
  <2>4. QED
    BY <2>2, <2>3
<1>6. ASSUME NEW p \in 1 .. m, \A k \in 1 .. n : p # starts[k]
      PROVE  construct_msg(stream, p, db) = Raised
  <2> DEFINE T == {k \in 1 .. n + 1 : starts[k] <= p}
  <2>1. T \in SUBSET (1 .. n + 1) /\ 1 \in T
    BY <1>1, <1>2
  <2>2. PICK k \in T : \A l \in T : l <= k
    <3>1. n + 1 \in Nat /\ T # {}
      BY <1>1, <2>1
    <3> HIDE DEF T
    <3>2. QED
      BY <2>1, <3>1, GreatestOf
  <2>3. k \in 1 .. n + 1 /\ starts[k] <= p /\ starts[k] \in 1 .. m + 1
    BY <1>3
  <2>4. k # n + 1
    BY <1>1, <1>2, <2>3
  <2>5. k \in 1 .. n
    BY <1>1, <2>3, <2>4
  <2>6. k + 1 \notin T /\ starts[k + 1] \in 1 .. m + 1
    <3>1. k + 1 \in 1 .. n + 1 /\ ~(k + 1 <= k)
      BY <1>1, <2>5
    <3>2. QED
      BY <1>3, <2>2, <3>1
  <2>7. ~(starts[k + 1] <= p)
    <3>1. k + 1 \in 1 .. n + 1
      BY <1>1, <2>5
    <3>2. QED
      BY <2>6, <3>1
  <2>8. starts[k + 1] = starts[k] + Len(parts[k]) /\ Len(parts[k]) \in Nat /\ p # starts[k]
    BY <1>4, <1>6, <2>5
  <2> DEFINE j == p - starts[k] + 1
  <2> HIDE DEF T
  <2>9. j \in 2 .. Len(parts[k]) /\ j \in 1 .. Len(parts[k]) /\ starts[k] + j - 1 = p
    <3> DEFINE a == starts[k]
               b == starts[k + 1]
               z == Len(parts[k])
    <3>1. a \in Nat /\ b \in Nat /\ z \in Nat /\ p \in Nat /\ a <= p /\ p # a /\ p < b /\ b = a + z
      <4>1. a \in Nat /\ b \in Nat /\ p \in Nat
        BY <1>1, <2>3, <2>6
      <4>2. z \in Nat /\ b = a + z /\ p # a
        BY <2>8
      <4>3. a <= p /\ ~(b <= p)
        BY <2>3, <2>7
      <4>4. QED
        BY <4>1, <4>2, <4>3
    <3> HIDE DEF a, b, z
    <3>2. p - a + 1 \in 2 .. z /\ p - a + 1 \in 1 .. z /\ a + (p - a + 1) - 1 = p
      BY <3>1
    <3>3. QED
      BY <3>2 DEF a, z
  <2> HIDE DEF j
  <2>10. stream[p] = parts[k][j] /\ parts[k][j].type = "data"
    BY <1>4, <2>5, <2>9 DEF StandsAt
  <2>11. QED
    BY <2>10 DEF construct_msg
<1>7. Readings(stream, db, lines, starts)
  <2>1. starts \in [1 .. n + 1 -> 1 .. m + 1]
    BY <1>2, <1>3
  <2>2. QED
    BY <1>2, <1>5, <1>6, <2>1 DEF Readings, n, m
<1>8. QED
  BY <1>7, LogReads

----------------------------------------------------------------------------
(***************************************************************************)
(* The words that the destinations have taken, while contexts hand them    *)
(* packets: the one that is in the section of a destination has given it   *)
(* the first words of its packet, after the packets of the lines before.   *)
(***************************************************************************)
InHand(c, d) == pc[c] = "inside" /\ destination(c) = d

StreamsTypeOK ==
  /\ DeliveryTypeOK
  /\ streams \in [Range_of(Destinations) -> Seq(Words)]
  /\ holder \in [Sections -> Contexts \cup {no_one}]
  /\ written \in [Contexts -> Nat]

Locked ==
  /\ \A c \in Contexts : pc[c] = "inside" => holder[section(c)] = c
  /\ \A s \in Sections : holder[s] # no_one => pc[holder[s]] = "inside" /\ section(holder[s]) = s

Handed(c) ==
  /\ pc[c] \in {"at", "inside"} =>
       IsPacket(images[running], packet[c].words, packet[c].line) /\ Whole(packet[c].words)
  /\ pc[c] = "inside" => written[c] <= Len(packet[c].words)
  /\ pc[c] # "inside" => written[c] = 0

Delivered(d) ==
  \E starts, parts :
    /\ Laid(images[running], sent[d], streams[d], starts, parts)
    /\ \A c \in Contexts : InHand(c, d) =>
         /\ Len(sent[d]) # 0 /\ parts[Len(sent[d])] = packet[c].words
         /\ Len(streams[d]) + 1 = starts[Len(sent[d])] + written[c]
    /\ (\A c \in Contexts : ~InHand(c, d)) => starts[Len(sent[d]) + 1] = Len(streams[d]) + 1

\* Nothing is logged before an image runs.
Quiet ==
  running = 0 =>
    /\ \A c \in Contexts : pc[c] = "idle"
    /\ \A d \in Range_of(Destinations) : sent[d] = <<>> /\ streams[d] = <<>>

StreamsInv ==
  /\ StreamsTypeOK /\ Locked /\ Quiet
  /\ \A c \in Contexts : Handed(c)
  /\ \A d \in Range_of(Destinations) : Delivered(d)

LEMMA NothingLaid ==
  ASSUME NEW ids
  PROVE  \E starts, parts : Laid(ids, <<>>, <<>>, starts, parts) /\ starts[Len(<<>>) + 1] = Len(<<>>) + 1
<1> DEFINE starts == [k \in 1 .. 1 |-> 1]
<1>1. Len(<<>>) = 0 /\ Len(<<>>) + 1 = 1
  OBVIOUS
<1>2. starts \in [1 .. 1 -> Nat \ {0}] /\ starts[1] = 1
  OBVIOUS
<1>3. \A k, l \in 1 .. 1 : ~(k < l)
  OBVIOUS
<1>4. 1 .. 0 = {}
  OBVIOUS
<1> HIDE DEF starts
<1>5. Laid(ids, <<>>, <<>>, starts, <<>>)
  BY <1>1, <1>2, <1>3, <1>4 DEF Laid
<1>6. QED
  BY <1>1, <1>2, <1>5

LEMMA DestinationIs ==
  ASSUME StreamsTypeOK, NEW c \in Contexts
  PROVE  /\ at[c] \in 1 .. Len(Destinations)
         /\ destination(c) \in Range_of(Destinations) /\ section(c) = section_of[destination(c)]
         /\ section(c) \in Sections
<1>1. at[c] \in 1 .. Len(Destinations)
  BY DEF StreamsTypeOK, DeliveryTypeOK
<1>2. QED
  BY <1>1, DestinationsAre DEF destination, section, Sections

\* No two contexts are in the section of a destination.
LEMMA OneInHand ==
  ASSUME StreamsInv, NEW d \in Range_of(Destinations), NEW c \in Contexts, InHand(c, d)
  PROVE  /\ holder[section_of[d]] = c
         /\ \A e \in Contexts : InHand(e, d) => e = c
<1>1. ASSUME NEW e \in Contexts, InHand(e, d) PROVE holder[section_of[d]] = e
  <2>1. holder[section(e)] = e
    BY <1>1 DEF StreamsInv, Locked, InHand
  <2>2. section(e) = section_of[d]
    BY <1>1, DestinationIs DEF StreamsInv, InHand
  <2>3. QED
    BY <2>1, <2>2
<1>2. QED
  BY <1>1

\* A step that does not concern a destination.
LEMMA DeliveredElsewhere ==
  ASSUME NEW d \in Range_of(Destinations), Delivered(d), UNCHANGED <<images, running>>,
         sent'[d] = sent[d], streams'[d] = streams[d],
         \A c \in Contexts : InHand(c, d)' <=> InHand(c, d),
         \A c \in Contexts : InHand(c, d) => packet'[c] = packet[c] /\ written'[c] = written[c]
  PROVE  Delivered(d)'
<1>1. PICK starts, parts :
        /\ Laid(images[running], sent[d], streams[d], starts, parts)
        /\ \A c \in Contexts : InHand(c, d) =>
             /\ Len(sent[d]) # 0 /\ parts[Len(sent[d])] = packet[c].words
             /\ Len(streams[d]) + 1 = starts[Len(sent[d])] + written[c]
        /\ (\A c \in Contexts : ~InHand(c, d)) => starts[Len(sent[d]) + 1] = Len(streams[d]) + 1
  BY DEF Delivered
<1>2. images'[running'] = images[running]
  OBVIOUS
<1>3. Laid(images'[running'], sent'[d], streams'[d], starts, parts)
  BY <1>1, <1>2
<1>4. \A c \in Contexts : InHand(c, d)' =>
        /\ Len(sent'[d]) # 0 /\ parts[Len(sent'[d])] = packet'[c].words
        /\ Len(streams'[d]) + 1 = starts[Len(sent'[d])] + written'[c]
  BY <1>1
<1>5. (\A c \in Contexts : ~InHand(c, d)') => starts[Len(sent'[d]) + 1] = Len(streams'[d]) + 1
  BY <1>1
<1>6. QED
  BY <1>3, <1>4, <1>5 DEF Delivered

LEMMA StreamsInit == Init => StreamsInv
<1> SUFFICES ASSUME LogInit PROVE StreamsInv
  BY DEF Init
<1>1. StreamsTypeOK
  <2>1. DeliveryTypeOK
    BY DestinationsAre DEF LogInit, DeliveryTypeOK, nothing, Lines
  <2>2. QED
    BY <2>1 DEF LogInit, StreamsTypeOK
<1>2. Locked /\ Quiet /\ \A c \in Contexts : Handed(c)
  BY DEF LogInit, Locked, Quiet, Handed
<1>3. ASSUME NEW d \in Range_of(Destinations) PROVE Delivered(d)
  <2>1. PICK starts, parts :
          Laid(images[running], <<>>, <<>>, starts, parts) /\ starts[Len(<<>>) + 1] = Len(<<>>) + 1
    BY NothingLaid
  <2>2. sent[d] = <<>> /\ streams[d] = <<>> /\ \A c \in Contexts : ~InHand(c, d)
    BY <1>3 DEF LogInit, InHand
  <2>3. QED
    BY <2>1, <2>2 DEF Delivered
<1>4. QED
  BY <1>1, <1>2, <1>3 DEF StreamsInv

LEMMA StreamsQuiet ==
  ASSUME StreamsInv, running = 0,
         UNCHANGED <<pc, at, packet, written, holder, streams, sent>>
  PROVE  StreamsInv'
<1>1. /\ \A c \in Contexts : pc[c] = "idle" /\ pc'[c] = "idle"
      /\ \A d \in Range_of(Destinations) : sent[d] = <<>> /\ streams[d] = <<>>
  BY DEF StreamsInv, Quiet
<1>2. StreamsTypeOK'
  BY DEF StreamsInv, StreamsTypeOK, DeliveryTypeOK
<1>3. Locked' /\ Quiet'
  <2>1. Locked'
    BY DEF StreamsInv, Locked, section, destination
  <2>2. QED
    BY <1>1, <2>1 DEF Quiet
<1>4. ASSUME NEW c \in Contexts PROVE Handed(c)'
  BY <1>1 DEF StreamsInv, Handed
<1>5. ASSUME NEW d \in Range_of(Destinations) PROVE Delivered(d)'
  <2>1. PICK starts, parts :
          Laid(images'[running'], <<>>, <<>>, starts, parts) /\ starts[Len(<<>>) + 1] = Len(<<>>) + 1
    BY NothingLaid
  <2>2. sent'[d] = <<>> /\ streams'[d] = <<>> /\ \A c \in Contexts : ~InHand(c, d)'
    BY <1>1 DEF InHand
  <2>3. QED
    BY <2>1, <2>2 DEF Delivered
<1>6. QED
  BY <1>2, <1>3, <1>4, <1>5 DEF StreamsInv

LEMMA StreamsStart ==
  ASSUME StreamsInv, NEW c \in Contexts, NEW new_packet, new_packet.line \in Lines,
         IsPacket(images[running], new_packet.words, new_packet.line), Whole(new_packet.words),
         Start(c, new_packet)
  PROVE  StreamsInv'
<1>1. /\ running # 0 /\ pc[c] = "idle"
      /\ packet' = [packet EXCEPT ![c] = new_packet] /\ pc' = [pc EXCEPT ![c] = "at"]
      /\ at' = [at EXCEPT ![c] = 1]
      /\ UNCHANGED <<images, running, written, holder, streams, sent>>
  BY DEF Start
<1>2. StreamsTypeOK /\ DeliveryTypeOK /\ Locked /\ (\A e \in Contexts : Handed(e))
      /\ \A d \in Range_of(Destinations) : Delivered(d)
  BY DEF StreamsInv, StreamsTypeOK
<1>3. /\ pc'[c] = "at" /\ packet'[c] = new_packet
      /\ \A e \in Contexts : e # c => pc'[e] = pc[e] /\ packet'[e] = packet[e] /\ at'[e] = at[e]
  BY <1>1, <1>2 DEF DeliveryTypeOK
<1>4. StreamsTypeOK'
  <2>1. DeliveryTypeOK'
    BY <1>1, <1>2, DestinationsAre DEF DeliveryTypeOK
  <2>2. QED
    BY <1>1, <1>2, <2>1 DEF StreamsTypeOK
<1>5. Locked'
  <2>1. ASSUME NEW e \in Contexts, pc'[e] = "inside" PROVE holder'[section(e)'] = e
    <3>1. e # c /\ pc[e] = "inside" /\ at'[e] = at[e]
      BY <1>3, <2>1
    <3>2. QED
      BY <1>1, <1>2, <3>1 DEF Locked, section, destination
  <2>2. ASSUME NEW s \in Sections, holder'[s] # no_one
        PROVE  pc'[holder'[s]] = "inside" /\ section(holder[s])' = s
    <3>1. holder[s] \in Contexts /\ pc[holder[s]] = "inside" /\ section(holder[s]) = s /\ holder' = holder
      BY <1>1, <1>2, <2>2 DEF Locked, StreamsTypeOK
    <3>2. holder[s] # c
      BY <1>1, <3>1
    <3>3. pc'[holder[s]] = pc[holder[s]] /\ at'[holder[s]] = at[holder[s]]
      BY <1>3, <3>1, <3>2
    <3>4. QED
      BY <3>1, <3>3 DEF section, destination
  <2>3. QED
    BY <2>1, <2>2 DEF Locked
<1>6. ASSUME NEW e \in Contexts PROVE Handed(e)'
  <2>1. Handed(e) /\ images'[running'] = images[running] /\ written' = written
    BY <1>1, <1>2
  <2>2. CASE e = c
    BY <1>1, <1>3, <2>1, <2>2 DEF Handed
  <2>3. CASE e # c
    BY <1>3, <2>1, <2>3 DEF Handed
  <2>4. QED
    BY <2>2, <2>3
<1>7. ASSUME NEW d \in Range_of(Destinations) PROVE Delivered(d)'
  <2>1. \A e \in Contexts : InHand(e, d)' <=> InHand(e, d)
    BY <1>1, <1>3 DEF InHand, destination
  <2>2. \A e \in Contexts : InHand(e, d) => packet'[e] = packet[e] /\ written'[e] = written[e]
    BY <1>1, <1>3 DEF InHand
  <2>3. sent'[d] = sent[d] /\ streams'[d] = streams[d] /\ UNCHANGED <<images, running>>
    BY <1>1
  <2>4. QED
    BY <1>2, <2>1, <2>2, <2>3, DeliveredElsewhere
<1>8. QED
  BY <1>1, <1>4, <1>5, <1>6, <1>7 DEF StreamsInv, Quiet

LEMMA StreamsEnter ==
  ASSUME StreamsInv, NEW c \in Contexts, Enter(c)
  PROVE  StreamsInv'
<1> DEFINE d == destination(c)
<1>1. /\ pc[c] = "at" /\ holder[section(c)] = no_one
      /\ holder' = [holder EXCEPT ![section(c)] = c]
      /\ pc' = [pc EXCEPT ![c] = "inside"]
      /\ sent' = [sent EXCEPT ![d] = Append(@, packet[c].line)]
      /\ UNCHANGED <<images, running, at, packet, written, streams>>
  BY DEF Enter, free
<1>2. StreamsTypeOK /\ DeliveryTypeOK /\ Locked /\ (\A e \in Contexts : Handed(e))
      /\ \A x \in Range_of(Destinations) : Delivered(x)
  BY DEF StreamsInv, StreamsTypeOK
<1>3. d \in Range_of(Destinations) /\ section(c) = section_of[d] /\ section(c) \in Sections
  BY <1>2, DestinationIs
<1>4. c # no_one
  BY LogAssumption
<1>5. /\ pc'[c] = "inside" /\ \A e \in Contexts : e # c => pc'[e] = pc[e]
      /\ holder'[section(c)] = c /\ \A s \in Sections : s # section(c) => holder'[s] = holder[s]
      /\ sent'[d] = Append(sent[d], packet[c].line) /\ sent[d] \in Seq(Lines) /\ packet[c].line \in Lines
      /\ \A x \in Range_of(Destinations) : x # d => sent'[x] = sent[x]
  <2> HIDE DEF d
  <2> QED
    BY <1>1, <1>2, <1>3 DEF StreamsTypeOK, DeliveryTypeOK
<1>6. \A e \in Contexts : destination(e)' = destination(e) /\ section(e)' = section(e)
  BY <1>1 DEF destination, section
<1>7. StreamsTypeOK'
  <2>1. DeliveryTypeOK'
    <3> HIDE DEF d
    <3>1. Append(sent[d], packet[c].line) \in Seq(Lines)
      BY <1>5
    <3>2. QED
      BY <1>1, <1>2, <1>3, <3>1 DEF DeliveryTypeOK
  <2>2. holder' \in [Sections -> Contexts \cup {no_one}]
    BY <1>1, <1>2, <1>3 DEF StreamsTypeOK
  <2>3. QED
    BY <1>1, <1>2, <2>1, <2>2 DEF StreamsTypeOK
<1>8. Locked'
  <2>1. ASSUME NEW e \in Contexts, pc'[e] = "inside" PROVE holder'[section(e)'] = e
    <3>1. CASE e = c
      BY <1>5, <1>6, <3>1
    <3>2. CASE e # c
      <4>1. pc[e] = "inside" /\ holder[section(e)] = e
        BY <1>2, <1>5, <2>1, <3>2 DEF Locked
      <4>2. section(e) # section(c) /\ section(e) \in Sections
        <5>1. e # no_one
          BY LogAssumption
        <5>2. QED
          BY <1>1, <1>2, <4>1, <5>1, DestinationIs
      <4>3. QED
        BY <1>5, <1>6, <4>1, <4>2
    <3>3. QED
      BY <3>1, <3>2
  <2>2. ASSUME NEW s \in Sections, holder'[s] # no_one
        PROVE  pc'[holder'[s]] = "inside" /\ section(holder[s])' = s
    <3>1. CASE s = section(c)
      <4>1. holder'[s] = c
        BY <1>5, <3>1
      <4>2. section(c)' = s
        BY <1>6, <3>1
      <4>3. QED
        BY <1>5, <4>1, <4>2 DEF section, destination
    <3>2. CASE s # section(c)
      <4>1. holder'[s] = holder[s]
        BY <1>5, <3>2
      <4>2. holder[s] \in Contexts /\ pc[holder[s]] = "inside" /\ section(holder[s]) = s
        BY <1>2, <2>2, <4>1 DEF Locked, StreamsTypeOK
      <4>3. pc'[holder[s]] = "inside"
        BY <1>5, <4>2
      <4>4. section_of[Destinations[at'[holder[s]]]] = s
        BY <1>1, <4>2 DEF section, destination
      <4>5. QED
        BY <4>1, <4>3, <4>4 DEF section, destination
    <3>3. QED
      BY <3>1, <3>2
  <2>3. QED
    BY <2>1, <2>2 DEF Locked
<1>9. ASSUME NEW e \in Contexts PROVE Handed(e)'
  <2>1. Handed(e) /\ images'[running'] = images[running] /\ packet' = packet /\ written' = written
    BY <1>1, <1>2
  <2>2. CASE e = c
    <3>1. written[c] = 0 /\ Whole(packet[c].words) /\ IsPacket(images[running], packet[c].words, packet[c].line)
      BY <1>1, <2>1, <2>2 DEF Handed
    <3>2. Len(packet[c].words) \in Nat
      BY <3>1 DEF Whole
    <3>3. QED
      BY <1>5, <2>1, <2>2, <3>1, <3>2 DEF Handed
  <2>3. CASE e # c
    BY <1>5, <2>1, <2>3 DEF Handed
  <2>4. QED
    BY <2>2, <2>3
<1>10. \A e \in Contexts : ~InHand(e, d)
  <2>1. ASSUME NEW e \in Contexts, InHand(e, d) PROVE FALSE
    <3>1. holder[section_of[d]] = e /\ e # no_one
      BY <1>3, <2>1, OneInHand, LogAssumption
    <3>2. QED
      BY <1>1, <1>3, <3>1
  <2>2. QED
    BY <2>1
<1>11. ASSUME NEW x \in Range_of(Destinations), x = d PROVE Delivered(x)'
  <2>1. PICK starts, parts :
          /\ Laid(images[running], sent[x], streams[x], starts, parts)
          /\ starts[Len(sent[x]) + 1] = Len(streams[x]) + 1
    BY <1>2, <1>10, <1>11 DEF Delivered
  <2>2. /\ IsPacket(images[running], packet[c].words, packet[c].line) /\ Whole(packet[c].words)
        /\ written[c] = 0 /\ streams[x] \in Seq(Words)
    BY <1>1, <1>2, <1>11 DEF Handed, StreamsTypeOK
  <2> DEFINE n == Len(sent[x])
  <2>3. PICK new_starts, new_parts :
          /\ Laid(images[running], Append(sent[x], packet[c].line), streams[x], new_starts, new_parts)
          /\ new_starts[n + 1] = Len(streams[x]) + 1 /\ new_parts[n + 1] = packet[c].words
    <3> DEFINE lines == sent[x]
               stream == streams[x]
               part == packet[c].words
               line == packet[c].line
               ids == images[running]
    <3>1. /\ lines \in Seq(Lines) /\ stream \in Seq(Words) /\ line \in Lines
          /\ Laid(ids, lines, stream, starts, parts) /\ starts[Len(lines) + 1] = Len(stream) + 1
          /\ IsPacket(ids, part, line) /\ Whole(part)
      BY <1>5, <1>11, <2>1, <2>2
    <3> HIDE DEF lines, stream, part, line, ids
    <3>2. \E new_starts, new_parts :
            /\ Laid(ids, Append(lines, line), stream, new_starts, new_parts)
            /\ new_starts[Len(lines) + 1] = Len(stream) + 1 /\ new_parts[Len(lines) + 1] = part
      BY <3>1, LaidPacket
    <3>3. QED
      BY <3>2 DEF lines, stream, part, line, ids
  <2>0. sent'[x] = Append(sent[x], packet[c].line) /\ sent[x] \in Seq(Lines)
    BY <1>5, <1>11
  <2> HIDE DEF d, n
  <2>4. Len(sent'[x]) = n + 1 /\ n \in Nat /\ n + 1 # 0
    BY <2>0 DEF n
  <2>5. Laid(images'[running'], sent'[x], streams'[x], new_starts, new_parts)
    BY <1>1, <2>0, <2>3
  <2>6. \A e \in Contexts : InHand(e, x)' => e = c
    <3>1. \A e \in Contexts : e # c => (InHand(e, x)' <=> InHand(e, x))
      BY <1>5, <1>6 DEF InHand
    <3>2. QED
      BY <1>10, <1>11, <3>1
  <2>7. Len(streams'[x]) + 1 = new_starts[n + 1] + written'[c]
    <3>1. Len(streams[x]) \in Nat
      BY <2>2
    <3>2. QED
      BY <1>1, <2>2, <2>3, <3>1
  <2>8. InHand(c, x)'
    BY <1>5, <1>6, <1>11 DEF InHand, d
  <2>9. QED
    BY <1>1, <2>3, <2>4, <2>5, <2>6, <2>7, <2>8 DEF Delivered
<1>12. ASSUME NEW x \in Range_of(Destinations), x # d PROVE Delivered(x)'
  <2>1. ASSUME NEW e \in Contexts PROVE InHand(e, x)' <=> InHand(e, x)
    <3>1. CASE e = c
      BY <1>1, <1>6, <1>12, <3>1 DEF InHand
    <3>2. CASE e # c
      BY <1>5, <1>6, <3>2 DEF InHand
    <3>3. QED
      BY <3>1, <3>2
  <2>2. sent'[x] = sent[x] /\ streams'[x] = streams[x] /\ UNCHANGED <<images, running>>
    BY <1>1, <1>5, <1>12
  <2>3. \A e \in Contexts : packet'[e] = packet[e] /\ written'[e] = written[e]
    BY <1>1
  <2>4. Delivered(x)
    BY <1>2
  <2>5. QED
    BY <2>1, <2>2, <2>3, <2>4, DeliveredElsewhere
<1>13. running # 0
  BY <1>1 DEF StreamsInv, Quiet
<1>14. QED
  BY <1>1, <1>7, <1>8, <1>9, <1>11, <1>12, <1>13 DEF StreamsInv, Quiet

LEMMA StreamsWrite ==
  ASSUME StreamsInv, NEW c \in Contexts, Write(c)
  PROVE  StreamsInv'
<1> DEFINE d == destination(c)
           word == packet[c].words[written[c] + 1]
<1>1. /\ pc[c] = "inside" /\ written[c] < Len(packet[c].words)
      /\ streams' = [streams EXCEPT ![d] = Append(@, word)]
      /\ written' = [written EXCEPT ![c] = @ + 1]
      /\ UNCHANGED <<images, running, pc, at, packet, holder, sent>>
  BY DEF Write
<1>2. StreamsTypeOK /\ DeliveryTypeOK /\ Locked /\ (\A e \in Contexts : Handed(e))
      /\ \A x \in Range_of(Destinations) : Delivered(x)
  BY DEF StreamsInv, StreamsTypeOK
<1>3. d \in Range_of(Destinations) /\ InHand(c, d)
  BY <1>1, <1>2, DestinationIs DEF InHand
<1>4. /\ written[c] \in Nat /\ written'[c] = written[c] + 1
      /\ \A e \in Contexts : e # c => written'[e] = written[e]
      /\ streams[d] \in Seq(Words) /\ streams'[d] = Append(streams[d], word)
      /\ \A x \in Range_of(Destinations) : x # d => streams'[x] = streams[x]
  <2> HIDE DEF d, word
  <2> QED
    BY <1>1, <1>2, <1>3 DEF StreamsTypeOK
<1>5. \A e \in Contexts : destination(e)' = destination(e) /\ section(e)' = section(e)
  BY <1>1 DEF destination, section
<1>6. \A e \in Contexts : \A x : InHand(e, x)' <=> InHand(e, x)
  BY <1>1, <1>5 DEF InHand
<1>7. ASSUME NEW x \in Range_of(Destinations), x = d
      PROVE  Delivered(x)' /\ word \in Words
  <2>1. \A e \in Contexts : InHand(e, x) => e = c
    BY <1>3, <1>7, OneInHand
  <2>2. PICK starts, parts :
          /\ Laid(images[running], sent[x], streams[x], starts, parts)
          /\ Len(sent[x]) # 0 /\ parts[Len(sent[x])] = packet[c].words
          /\ Len(streams[x]) + 1 = starts[Len(sent[x])] + written[c]
    BY <1>2, <1>3, <1>7 DEF Delivered
  <2>3. sent[x] \in Seq(Lines) /\ streams[x] \in Seq(Words) /\ streams'[x] = Append(streams[x], word)
    BY <1>2, <1>4, <1>7 DEF DeliveryTypeOK
  <2>4. /\ word \in Words
        /\ Laid(images[running], sent[x], Append(streams[x], word), starts, parts)
    <3> DEFINE lines == sent[x]
               stream == streams[x]
               w == written[c]
               ids == images[running]
    <3>1. /\ lines \in Seq(Lines) /\ stream \in Seq(Words) /\ Len(lines) # 0
          /\ Laid(ids, lines, stream, starts, parts)
          /\ w \in Nat /\ w < Len(parts[Len(lines)]) /\ Len(stream) + 1 = starts[Len(lines)] + w
          /\ word = parts[Len(lines)][w + 1]
      BY <1>1, <1>4, <2>2, <2>3
    <3> HIDE DEF lines, stream, w, ids, word, d
    <3>2. /\ parts[Len(lines)][w + 1] \in Words
          /\ Laid(ids, lines, Append(stream, parts[Len(lines)][w + 1]), starts, parts)
      BY <3>1, LaidWord
    <3>3. QED
      BY <3>1, <3>2 DEF lines, stream, ids
  <2> HIDE DEF d, word
  <2>5. Laid(images'[running'], sent'[x], streams'[x], starts, parts)
    BY <1>1, <2>3, <2>4
  <2>6. Len(streams'[x]) + 1 = starts[Len(sent'[x])] + written'[c]
    <3>1. Len(streams'[x]) = Len(streams[x]) + 1 /\ Len(streams[x]) \in Nat
      BY <2>3
    <3>2. starts[Len(sent[x])] \in Nat
      <4>1. Len(sent[x]) \in 1 .. Len(sent[x]) + 1
        BY <2>2, <2>3
      <4>2. QED
        BY <2>2, <4>1 DEF Laid
    <3>3. QED
      BY <1>1, <1>4, <2>2, <3>1, <3>2
  <2>7. InHand(c, x)' /\ \A e \in Contexts : InHand(e, x)' => e = c
    BY <1>3, <1>6, <1>7, <2>1
  <2>8. /\ Len(sent'[x]) # 0 /\ parts[Len(sent'[x])] = packet'[c].words
    BY <1>1, <2>2
  <2>9. Delivered(x)'
    BY <2>5, <2>6, <2>7, <2>8 DEF Delivered
  <2>10. QED
    BY <2>4, <2>9
<1>8. ASSUME NEW x \in Range_of(Destinations), x # d PROVE Delivered(x)'
  <2>1. \A e \in Contexts : InHand(e, x)' <=> InHand(e, x)
    BY <1>6
  <2>2. \A e \in Contexts : InHand(e, x) => e # c
    BY <1>8 DEF InHand
  <2>3. sent'[x] = sent[x] /\ streams'[x] = streams[x] /\ UNCHANGED <<images, running>>
    BY <1>1, <1>4, <1>8
  <2>4. \A e \in Contexts : InHand(e, x) => packet'[e] = packet[e] /\ written'[e] = written[e]
    BY <1>1, <1>4, <2>2
  <2>5. Delivered(x)
    BY <1>2
  <2>6. QED
    BY <2>1, <2>3, <2>4, <2>5, DeliveredElsewhere
<1>9. StreamsTypeOK'
  <2>1. DeliveryTypeOK'
    BY <1>1, <1>2 DEF DeliveryTypeOK
  <2>2. streams' \in [Range_of(Destinations) -> Seq(Words)]
    <3>1. word \in Words
      BY <1>3, <1>7
    <3> HIDE DEF d, word
    <3>2. Append(streams[d], word) \in Seq(Words)
      BY <1>4, <3>1
    <3>3. QED
      BY <1>1, <1>2, <1>3, <3>2 DEF StreamsTypeOK
  <2>3. written' \in [Contexts -> Nat] /\ holder' = holder
    <3>1. written[c] + 1 \in Nat
      BY <1>4
    <3>2. QED
      BY <1>1, <1>2, <3>1 DEF StreamsTypeOK
  <2>4. QED
    BY <1>2, <2>1, <2>2, <2>3 DEF StreamsTypeOK
<1>10. Locked'
  BY <1>1, <1>2 DEF Locked, section, destination
<1>11. ASSUME NEW e \in Contexts PROVE Handed(e)'
  <2>1. Handed(e) /\ images'[running'] = images[running] /\ packet' = packet /\ pc' = pc
    BY <1>1, <1>2
  <2>2. CASE e = c
    <3>1. Len(packet[c].words) \in Nat
      <4>1. Whole(packet[c].words)
        BY <1>1, <2>1, <2>2 DEF Handed
      <4>2. QED
        BY <4>1 DEF Whole
    <3>2. written'[c] <= Len(packet[c].words)
      BY <1>1, <1>4, <3>1
    <3>3. QED
      BY <1>1, <2>1, <2>2, <3>2 DEF Handed
  <2>3. CASE e # c
    BY <1>4, <2>1, <2>3 DEF Handed
  <2>4. QED
    BY <2>2, <2>3
<1>12. running # 0
  BY <1>1 DEF StreamsInv, Quiet
<1>13. QED
  BY <1>1, <1>7, <1>8, <1>9, <1>10, <1>11, <1>12 DEF StreamsInv, Quiet

LEMMA StreamsLeave ==
  ASSUME StreamsInv, NEW c \in Contexts, Leave(c)
  PROVE  StreamsInv'
<1> DEFINE d == destination(c)
<1>1. /\ pc[c] = "inside" /\ written[c] = Len(packet[c].words)
      /\ holder' = [holder EXCEPT ![section(c)] = no_one]
      /\ pc' = [pc EXCEPT ![c] = after_destination(c)]
      /\ at' = [at EXCEPT ![c] = IF @ < Len(Destinations) THEN @ + 1 ELSE 1]
      /\ packet' = [packet EXCEPT ![c] = IF after_destination(c) = "idle" THEN nothing ELSE @]
      /\ written' = [written EXCEPT ![c] = 0]
      /\ UNCHANGED <<images, running, streams, sent>>
  BY DEF Leave, left_by
<1>2. StreamsTypeOK /\ DeliveryTypeOK /\ Locked /\ (\A e \in Contexts : Handed(e))
      /\ \A x \in Range_of(Destinations) : Delivered(x)
  BY DEF StreamsInv, StreamsTypeOK
<1>3. d \in Range_of(Destinations) /\ InHand(c, d) /\ section(c) \in Sections /\ holder[section(c)] = c
  BY <1>1, <1>2, DestinationIs DEF InHand, Locked
<1>4. after_destination(c) \in {"idle", "at", "panicked"}
  BY DEF after_destination
<1>5. /\ pc'[c] = after_destination(c) /\ written'[c] = 0
      /\ packet'[c] = IF after_destination(c) = "idle" THEN nothing ELSE packet[c]
      /\ \A e \in Contexts : e # c =>
           pc'[e] = pc[e] /\ at'[e] = at[e] /\ packet'[e] = packet[e] /\ written'[e] = written[e]
      /\ holder'[section(c)] = no_one /\ \A s \in Sections : s # section(c) => holder'[s] = holder[s]
  BY <1>1, <1>2, <1>3 DEF StreamsTypeOK, DeliveryTypeOK
<1>6. StreamsTypeOK'
  <2>1. DeliveryTypeOK'
    <3>1. nothing.line \in Lines
      BY DEF nothing, Lines
    <3>2. at[c] \in 1 .. Len(Destinations)
      BY <1>2 DEF DeliveryTypeOK
    <3>3. QED
      BY <1>1, <1>2, <1>4, <3>1, <3>2, DestinationsAre DEF DeliveryTypeOK
  <2>2. QED
    BY <1>1, <1>2, <1>3, <2>1 DEF StreamsTypeOK
<1>7. \A e \in Contexts : e # c => destination(e)' = destination(e) /\ section(e)' = section(e)
  BY <1>5 DEF destination, section
<1>8. Locked'
  <2>1. ASSUME NEW e \in Contexts, pc'[e] = "inside" PROVE holder'[section(e)'] = e
    <3>1. e # c
      BY <1>4, <1>5, <2>1
    <3>2. pc[e] = "inside" /\ holder[section(e)] = e
      BY <1>2, <1>5, <2>1, <3>1 DEF Locked
    <3>3. section(e) # section(c) /\ section(e) \in Sections
      BY <1>2, <1>3, <3>1, <3>2, DestinationIs
    <3>4. QED
      BY <1>5, <1>7, <3>1, <3>2, <3>3
  <2>2. ASSUME NEW s \in Sections, holder'[s] # no_one
        PROVE  pc'[holder'[s]] = "inside" /\ section(holder[s])' = s /\ holder'[s] = holder[s]
    <3>1. s # section(c)
      BY <1>5, <2>2
    <3>2. holder'[s] = holder[s]
      BY <1>5, <3>1
    <3>3. holder[s] \in Contexts /\ pc[holder[s]] = "inside" /\ section(holder[s]) = s
      BY <1>2, <2>2, <3>2 DEF Locked, StreamsTypeOK
    <3>4. holder[s] # c
      BY <3>1, <3>3
    <3>5. pc'[holder[s]] = "inside" /\ at'[holder[s]] = at[holder[s]]
      BY <1>5, <3>3, <3>4
    <3>6. QED
      BY <3>2, <3>3, <3>5 DEF section, destination
  <2>3. ASSUME NEW s \in Sections, holder'[s] # no_one
        PROVE  pc'[holder'[s]] = "inside" /\ section_of[Destinations[at'[holder'[s]]]] = s
    BY <2>2, <2>3 DEF section, destination
  <2>4. QED
    BY <2>1, <2>3 DEF Locked, section, destination
<1>9. ASSUME NEW e \in Contexts PROVE Handed(e)'
  <2>1. Handed(e) /\ images'[running'] = images[running]
    BY <1>1, <1>2
  <2>2. CASE e = c
    BY <1>1, <1>4, <1>5, <2>1, <2>2 DEF Handed
  <2>3. CASE e # c
    BY <1>5, <2>1, <2>3 DEF Handed
  <2>4. QED
    BY <2>2, <2>3
<1>10. ASSUME NEW x \in Range_of(Destinations), x = d PROVE Delivered(x)'
  <2>1. ASSUME NEW e \in Contexts PROVE ~InHand(e, x)'
    <3>1. CASE e = c
      BY <1>4, <1>5, <3>1 DEF InHand
    <3>2. CASE e # c
      <4>1. ~InHand(e, x)
        BY <1>3, <1>10, <3>2, OneInHand
      <4>2. QED
        BY <1>5, <1>7, <3>2, <4>1 DEF InHand
    <3>3. QED
      BY <3>1, <3>2
  <2>2. PICK starts, parts :
          /\ Laid(images[running], sent[x], streams[x], starts, parts)
          /\ Len(sent[x]) # 0 /\ parts[Len(sent[x])] = packet[c].words
          /\ Len(streams[x]) + 1 = starts[Len(sent[x])] + written[c]
    BY <1>2, <1>3, <1>10 DEF Delivered
  <2>3. sent[x] \in Seq(Lines)
    BY <1>2 DEF DeliveryTypeOK
  <2>4. Len(sent[x]) \in 1 .. Len(sent[x])
    BY <2>2, <2>3
  <2>5. starts[Len(sent[x]) + 1] = starts[Len(sent[x])] + Len(packet[c].words)
    BY <2>2, <2>4 DEF Laid
  <2>6. starts[Len(sent[x]) + 1] = Len(streams[x]) + 1
    BY <1>1, <2>2, <2>5
  <2>7. Laid(images'[running'], sent'[x], streams'[x], starts, parts)
    BY <1>1, <2>2
  <2>8. starts[Len(sent'[x]) + 1] = Len(streams'[x]) + 1
    BY <1>1, <2>6
  <2>9. QED
    BY <2>1, <2>7, <2>8 DEF Delivered
<1>11. ASSUME NEW x \in Range_of(Destinations), x # d PROVE Delivered(x)'
  <2>1. ASSUME NEW e \in Contexts PROVE InHand(e, x)' <=> InHand(e, x)
    <3>1. CASE e = c
      BY <1>4, <1>5, <1>11, <3>1 DEF InHand
    <3>2. CASE e # c
      BY <1>5, <1>7, <3>2 DEF InHand
    <3>3. QED
      BY <3>1, <3>2
  <2>2. \A e \in Contexts : InHand(e, x) => e # c
    BY <1>11 DEF InHand
  <2>3. sent'[x] = sent[x] /\ streams'[x] = streams[x] /\ UNCHANGED <<images, running>>
    BY <1>1
  <2>4. \A e \in Contexts : InHand(e, x) => packet'[e] = packet[e] /\ written'[e] = written[e]
    BY <1>5, <2>2
  <2>5. Delivered(x)
    BY <1>2
  <2>6. QED
    BY <2>1, <2>3, <2>4, <2>5, DeliveredElsewhere
<1>12. running # 0
  BY <1>1 DEF StreamsInv, Quiet
<1>13. QED
  BY <1>1, <1>6, <1>8, <1>9, <1>10, <1>11, <1>12 DEF StreamsInv, Quiet

LEMMA StreamsNext ==
  ASSUME CallsFit, StreamsInv, running # 0 => IdsAre(images[running]), [Next]_vars
  PROVE  StreamsInv'
<1>1. CASE BuildNext \/ Boot
  BY <1>1, StreamsQuiet DEF BuildNext, Boot, logVars
<1>2. ASSUME NEW c \in Contexts, StartLog(c) PROVE StreamsInv'
  <2>1. ASSUME NEW new, new.line = new.line, IsPacket(images[running], new.words, new.line), Start(c, new)
        PROVE  StreamsInv'
    <3>1. running # 0
      BY <2>1 DEF Start
    <3>2. Whole(new.words) /\ new.line \in Lines
      BY <2>1, <3>1, PacketWhole
    <3>3. QED
      BY <2>1, <3>2, StreamsStart
  <2>2. ASSUME NEW site \in CallSites, NEW unit \in Units, Log(c, site, unit) PROVE StreamsInv'
    <3> DEFINE ids == images[running]
               words_of == build(site.level, ids.messages.ids[site.message],
                                 ids.modules.ids[site.module], unit, site.message.args, site.args)
               new == [words |-> words_of, line |-> line_of(site), fatal |-> site.level = FATAL]
    <3>1. /\ site.message \in DOMAIN ids.messages.ids /\ site.module \in DOMAIN ids.modules.ids
          /\ Start(c, new)
      BY <2>2 DEF Log
    <3>2. new.words = words_of /\ new.line = line_of(site)
      OBVIOUS
    <3>3. IsPacket(ids, new.words, new.line)
      <4> HIDE DEF new
      <4> QED
        BY <3>1, <3>2 DEF IsPacket
    <3> HIDE DEF new
    <3>4. QED
      BY <2>1, <3>1, <3>3
  <2>3. ASSUME NEW version \in Versions, LogVersion(c, version) PROVE StreamsInv'
    <3> DEFINE new == [words |-> build_version(version.width, version.named), line |-> Raised, fatal |-> FALSE]
    <3>1. Start(c, new)
      BY <2>3 DEF LogVersion
    <3>2. new.words = build_version(version.width, version.named) /\ new.line = Raised
      OBVIOUS
    <3> HIDE DEF new
    <3>3. IsPacket(images[running], new.words, new.line)
      BY <3>2 DEF IsPacket
    <3>4. QED
      BY <2>1, <3>1, <3>3
  <2>4. QED
    BY <1>2, <2>2, <2>3 DEF StartLog
<1>3. ASSUME NEW c \in Contexts, Deliver(c) PROVE StreamsInv'
  BY <1>3, StreamsEnter, StreamsWrite, StreamsLeave DEF Deliver
<1>4. CASE UNCHANGED vars
  <2>1. UNCHANGED <<images, running, pc, at, packet, written, holder, streams, sent>>
    BY <1>4 DEF vars, logVars, catalogVars
  <2>2. StreamsTypeOK' /\ Locked' /\ Quiet'
    BY <2>1 DEF StreamsInv, StreamsTypeOK, DeliveryTypeOK, Locked, Quiet, section, destination
  <2>3. ASSUME NEW c \in Contexts PROVE Handed(c)'
    <3>1. Handed(c) /\ images'[running'] = images[running]
      BY <2>1 DEF StreamsInv
    <3>2. QED
      BY <2>1, <3>1 DEF Handed
  <2>4. ASSUME NEW d \in Range_of(Destinations) PROVE Delivered(d)'
    <3>1. Delivered(d)
      BY DEF StreamsInv
    <3>2. \A c \in Contexts : InHand(c, d)' <=> InHand(c, d)
      BY <2>1 DEF InHand, destination
    <3>3. QED
      BY <2>1, <3>1, <3>2, DeliveredElsewhere
  <2>5. QED
    BY <2>2, <2>3, <2>4 DEF StreamsInv
<1>5. QED
  BY <1>1, <1>2, <1>3, <1>4 DEF Next

----------------------------------------------------------------------------
(***************************************************************************)
(* The IDs of an image, and the catalogs that know them.                   *)
(***************************************************************************)
Keys(E) == {key(m) : m \in E}

LEMMA GeneratedBelow ==
  ASSUME NEW taken \in SUBSET Nat, IsFiniteSet(taken), NEW k \in Nat \ {0}
  PROVE  generated(taken, k) \in Nat /\ generated(taken, k) < Cardinality(taken) + k
<1> DEFINE g == generated(taken, k)
           S == 0 .. g
<1>1. g \in Nat /\ Cardinality(S \ taken) = k
  BY GeneratedIs
<1> HIDE DEF g
<1>2. IsFiniteSet(S) /\ Cardinality(S) = g + 1
  BY <1>1, FS_Interval
<1> HIDE DEF S
<1>3. Cardinality(S \ taken) = Cardinality(S) - Cardinality(S \cap taken)
  BY <1>2, FS_Difference
<1>4. Cardinality(S \cap taken) <= Cardinality(taken) /\ IsFiniteSet(S \cap taken)
  BY <1>2, FS_Intersection
<1>5. Cardinality(S \cap taken) \in Nat /\ Cardinality(taken) \in Nat
  BY <1>4, FS_CardinalityType
<1>6. QED
  BY <1>1, <1>2, <1>3, <1>4, <1>5 DEF g

\* Strings with different keys have no more IDs than keys.
LEMMA NoMoreIds ==
  ASSUME NEW list \in Seq(Strings), UniqueKeys(list), IsFiniteSet(Keys(Range(list)))
  PROVE  IsFiniteSet(Ids(Range(list))) /\ Cardinality(Ids(Range(list))) <= Cardinality(Keys(Range(list)))
<1> DEFINE E == Range(list)
           id_of == [k \in Keys(E) |-> (CHOOSE m \in E : key(m) = k).id]
<1>1. \A m, n \in E : key(m) = key(n) => m = n
  BY DEF UniqueKeys, Range
<1> HIDE DEF E
<1>2. ASSUME NEW m \in E PROVE key(m) \in Keys(E) /\ id_of[key(m)] = m.id
  <2>1. key(m) \in Keys(E)
    BY DEF Keys
  <2>2. (CHOOSE n \in E : key(n) = key(m)) = m
    BY <1>1
  <2>3. QED
    BY <2>1, <2>2
<1>3. id_of \in Surjection(Keys(E), Ids(E))
  <2>1. \A k \in Keys(E) : id_of[k] \in Ids(E)
    <3> SUFFICES ASSUME NEW m \in E PROVE id_of[key(m)] \in Ids(E)
      BY DEF Keys
    <3> HIDE DEF id_of
    <3> QED
      BY <1>2 DEF Ids
  <2>2. id_of \in [Keys(E) -> Ids(E)]
    BY <2>1
  <2> HIDE DEF id_of
  <2>3. \A x \in Ids(E) : \E k \in Keys(E) : id_of[k] = x
    BY <1>2 DEF Ids
  <2>4. QED
    BY <2>2, <2>3 DEF Surjection
<1>4. QED
  <2> HIDE DEF id_of
  <2> QED
    BY <1>3, FS_Surjection DEF E

LEMMA AssignBelow ==
  ASSUME NEW items \in Seq(Strings), UniqueKeys(items), NEW old \in Seq(Strings), UniqueKeys(old),
         Ids(Range(old)) \subseteq Nat, NEW reserved \in SUBSET Nat, IsFiniteSet(reserved),
         NEW K, IsFiniteSet(K), Keys(Range(items)) \subseteq K, Keys(Range(old)) \subseteq K,
         NEW limit \in Nat, Cardinality(K) + Cardinality(reserved) <= limit,
         \A o \in Range(old) : o.id < limit
  PROVE  \A m \in Range(assign_ids(items, old, reserved)) : m.id < limit /\ key(m) \in K
<1> DEFINE n == Len(items)
           in_order == sorted(items)
           taken == Ids(Range(old)) \cup reserved
           id_of(i) == IF is_stable(in_order[i], old) THEN last_of(old, in_order[i]).id
                       ELSE generated(taken, FreshTo(in_order, i, old))
           list == assign_ids(items, old, reserved)
           F(i) == {j \in 1 .. i : ~is_stable(in_order[j], old)}
           held == Keys(Range(old))
<1>1. n \in Nat /\ DOMAIN items = 1 .. n
  OBVIOUS
<1>2. Lists(in_order, n, items, 1 .. n)
  <2>1. \A i \in 1 .. n : items[i].text \in Nat
    BY <1>1, StringTypes
  <2>2. QED
    BY <1>1, <2>1, SortedItems
<1>3. ASSUME NEW i \in 1 .. n PROVE in_order[i] \in Strings /\ key(in_order[i]) \in K
  <2>1. PICK k \in 1 .. n : in_order[i] = items[k]
    BY <1>2 DEF Lists
  <2>2. items[k] \in Strings /\ items[k] \in Range(items)
    BY <1>1 DEF Range
  <2>3. QED
    BY <2>1, <2>2 DEF Keys
<1>4. list = [i \in 1 .. n |-> [in_order[i] EXCEPT !.id = id_of(i)]]
  BY <1>2 DEF assign_ids, Lists, Ids, FreshTo
<1>5. taken \in SUBSET Nat /\ IsFiniteSet(taken)
  BY FinitelyManyIds, FS_Union
<1>6. IsFiniteSet(held) /\ Cardinality(held) \in Nat
  BY FS_Subset, FS_CardinalityType
<1>7. Cardinality(taken) <= Cardinality(held) + Cardinality(reserved) /\ Cardinality(taken) \in Nat
  <2> DEFINE I == Ids(Range(old))
  <2>1. IsFiniteSet(I) /\ Cardinality(I) <= Cardinality(held)
    BY <1>6, NoMoreIds
  <2> HIDE DEF I, held
  <2>2. Cardinality(I \cup reserved) = Cardinality(I) + Cardinality(reserved) - Cardinality(I \cap reserved)
    BY <2>1, FS_Union
  <2>3. IsFiniteSet(I \cap reserved)
    BY <2>1, FS_Intersection
  <2>4. /\ Cardinality(I) \in Nat /\ Cardinality(reserved) \in Nat /\ Cardinality(I \cap reserved) \in Nat
        /\ Cardinality(I \cup reserved) \in Nat
    BY <1>5, <2>1, <2>3, FS_CardinalityType DEF I
  <2>5. QED
    BY <1>6, <2>1, <2>2, <2>4 DEF I
<1>8. ASSUME NEW i \in 1 .. n, ~is_stable(in_order[i], old)
      PROVE  FreshTo(in_order, i, old) \in Nat \ {0} /\ FreshTo(in_order, i, old) <= Cardinality(K) - Cardinality(held)
  <2>1. FreshTo(in_order, i, old) \in Nat \ {0}
    BY <1>8, FreshCounts
  <2> DEFINE f == [j \in F(i) |-> key(in_order[j])]
             rest == K \ held
  <2>2. \A j \in F(i) : j \in 1 .. n /\ ~is_stable(in_order[j], old)
    BY <1>1
  <2> HIDE DEF in_order, F
  <2>3. ASSUME NEW j \in F(i) PROVE key(in_order[j]) \in rest
    <3>1. key(in_order[j]) \in K
      BY <1>3, <2>2
    <3>2. key(in_order[j]) \notin held
      BY <2>2 DEF is_stable, Keys
    <3>3. QED
      BY <3>1, <3>2
  <2>4. ASSUME NEW j \in F(i), NEW l \in F(i), j # l PROVE key(in_order[j]) # key(in_order[l])
    <3>1. PICK a \in 1 .. n, b \in 1 .. n : a # b /\ in_order[j] = items[a] /\ in_order[l] = items[b]
      <4>1. j \in 1 .. n /\ l \in 1 .. n
        BY <2>2
      <4>2. QED
        BY <1>2, <2>4, <4>1 DEF Lists
    <3>2. QED
      BY <1>1, <3>1 DEF UniqueKeys
  <2>5. f \in Injection(F(i), rest)
    <3> HIDE DEF rest
    <3> QED
      BY <2>3, <2>4 DEF Injection, IsInjective
  <2>6. IsFiniteSet(rest) /\ Cardinality(rest) = Cardinality(K) - Cardinality(K \cap held)
    <3> HIDE DEF held
    <3> QED
      BY FS_Difference
  <2>7. K \cap held = held
    OBVIOUS
  <2>8. Cardinality(F(i)) <= Cardinality(rest)
    <3> HIDE DEF f, rest
    <3> QED
      BY <2>5, <2>6, FS_Injection
  <2>9. FreshTo(in_order, i, old) = Cardinality(F(i))
    BY DEF FreshTo, F
  <2>10. QED
    BY <2>1, <2>6, <2>7, <2>8, <2>9
<1>9. ASSUME NEW i \in 1 .. n PROVE id_of(i) < limit /\ id_of(i) \in Nat
  <2>1. CASE is_stable(in_order[i], old)
    <3>1. \E k \in DOMAIN old : key(old[k]) = key(in_order[i])
      BY <2>1 DEF is_stable, Range
    <3>2. last_of(old, in_order[i]) \in Range(old)
      BY <3>1, LastOf
    <3>3. QED
      BY <2>1, <3>2 DEF Ids
  <2>2. CASE ~is_stable(in_order[i], old)
    <3> DEFINE k == FreshTo(in_order, i, old)
    <3>1. k \in Nat \ {0} /\ k <= Cardinality(K) - Cardinality(held)
      BY <1>8, <2>2
    <3> HIDE DEF k
    <3>2. generated(taken, k) \in Nat /\ generated(taken, k) < Cardinality(taken) + k
      <4> HIDE DEF taken
      <4> QED
        BY <1>5, <3>1, GeneratedBelow
    <3>3. id_of(i) = generated(taken, k)
      BY <2>2 DEF k
    <3>4. Cardinality(K) \in Nat /\ Cardinality(reserved) \in Nat
      BY FS_CardinalityType
    <3> HIDE DEF id_of, taken, held
    <3>5. QED
      BY <1>6, <1>7, <3>1, <3>2, <3>3, <3>4
  <2>3. QED
    BY <2>1, <2>2
<1>10. ASSUME NEW i \in 1 .. n PROVE list[i].id < limit /\ key(list[i]) \in K
  <2> HIDE DEF list, id_of, in_order
  <2>1. list[i] = [in_order[i] EXCEPT !.id = id_of(i)]
    BY <1>4
  <2>2. list[i].id = id_of(i) /\ key(list[i]) = key(in_order[i])
    BY <1>3, <1>9, <2>1, StringTypes
  <2>3. QED
    BY <1>3, <1>9, <2>2
<1>11. DOMAIN list = 1 .. n
  <2> HIDE DEF id_of, in_order
  <2> QED
    BY <1>4
<1>12. QED
  <2> HIDE DEF list
  <2> QED
    BY <1>10, <1>11 DEF Range, list

----------------------------------------------------------------------------
(***************************************************************************)
(* The images, and what the catalogs know of their IDs.                    *)
(***************************************************************************)
\* What the entries of a catalog and the IDs of an image are.
EntriesAre(E) == \A m, n \in E : m.id \in Nat /\ (m.id = n.id => key(m) = key(n))

EntryOf(E, m, id) == \E n \in E : key(n) = key(m) /\ n.id = id

MessageKeys == Keys(Mentioned("messages"))

Recorded(catalog, ids) ==
  /\ \A kind \in Kinds :
       /\ EntriesAre(Range(catalog[kind]))
       /\ \A m \in DOMAIN ids[kind].ids : EntryOf(Range(catalog[kind]), m, ids[kind].ids[m])
  /\ \A n \in Range(catalog["messages"]) : n.id < ShortIds /\ key(n) \in MessageKeys
  /\ \A m \in DOMAIN ids["modules"].ids : ids["modules"].ids[m] <= module_id_max

\* A later catalog has what an earlier one has.
ImagesInv ==
  /\ (\E T : images \in Seq(T)) /\ Len(images) = Len(collaterals)
  /\ running \in 0 .. Len(images)
  /\ \A i \in 1 .. Len(images) : Recorded(collaterals[i], images[i])
  /\ \A i \in 1 .. Len(images) : \A j \in i .. Len(images) : \A kind \in Kinds :
       KeepsAll(Range(collaterals[i][kind]), Range(collaterals[j][kind]))

\* The IDs that a build assigns to the strings of its program.
Assigned(program, kind) ==
  assign_ids(unique(program[kind]), stables(Remembered(kind), unique(program[kind])), Reserved(kind))

NewImage(program) ==
  [messages |-> image(program.messages, unique(program.messages), Assigned(program, "messages")),
   modules  |-> image(program.modules, unique(program.modules), Assigned(program, "modules"))]

LEMMA BuildWrites ==
  ASSUME NEW program \in Programs, NEW forget \in Forgets, BuildStrings(program, forget)
  PROVE  /\ within_limit(Assigned(program, "modules"))
         /\ images' = Append(images, NewImage(program))
  BY DEF BuildStrings, Assigned, Remembered, Reserved, NewImage

LEMMA AppendIs ==
  ASSUME NEW T, NEW s \in Seq(T), NEW e
  PROVE  /\ \E U : Append(s, e) \in Seq(U)
         /\ Len(Append(s, e)) = Len(s) + 1 /\ Append(s, e)[Len(s) + 1] = e
         /\ \A i \in 1 .. Len(s) : Append(s, e)[i] = s[i]
<1>1. s \in Seq(T \cup {e})
  OBVIOUS
<1>2. Append(s, e) \in Seq(T \cup {e})
  BY <1>1
<1>3. QED
  BY <1>1, <1>2

\* The lists of one kind that a build makes.
LEMMA BuildLists ==
  ASSUME CatalogTypeOK, SettledInv, NEW program \in Programs, NEW kind \in Kinds
  PROVE  LET u == unique(program[kind])
             old == stables(Remembered(kind), u)
         IN /\ u \in Seq(Strings) /\ UniqueKeys(u) /\ Range(u) \subseteq Mentioned(kind)
            /\ old \in Seq(Strings) /\ UniqueKeys(old)
            /\ Range(old) \subseteq Entries(kind) \cup {m \in Range(u) : m.id # -1}
            /\ Ids(Range(old)) \subseteq Nat
            /\ WithIds(Assigned(program, kind), u, old, Reserved(kind))
<1> DEFINE u == unique(program[kind])
           old == stables(Remembered(kind), u)
<1>1. program[kind] \in Seq(Strings) /\ Range(program[kind]) \subseteq Mentioned(kind)
  BY ProgramItems
<1>2. u \in Seq(Strings) /\ UniqueKeys(u) /\ Range(u) \subseteq Mentioned(kind)
  BY <1>1, UniqueList
<1>3. Remembered(kind) \in Seq(Strings) /\ Range(Remembered(kind)) \subseteq Entries(kind)
  BY PreviousIs
<1>4. Assigned(program, kind) = assign_ids(u, old, Reserved(kind))
  BY DEF Assigned
<1> HIDE DEF u
<1>5. /\ old \in Seq(Strings) /\ UniqueKeys(old)
      /\ Range(old) \subseteq Range(Remembered(kind)) \cup {m \in Range(u) : m.id # -1}
  BY <1>2, <1>3, StablesList
<1> HIDE DEF old
<1>6. Ids(Range(old)) \subseteq Nat
  <2>1. Ids(Entries(kind)) \subseteq Nat
    BY DEF SettledInv, Settled
  <2>2. \A m \in Range(u) : m.id # -1 => m.id \in Nat
    <3>1. \A m \in Range(u) : m \in Strings
      BY <1>2 DEF Range
    <3>2. QED
      BY <3>1, StringTypes
  <2>3. QED
    BY <1>3, <1>5, <2>1, <2>2 DEF Ids
<1>7. WithIds(Assigned(program, kind), u, old, Reserved(kind))
  BY <1>2, <1>4, <1>5, <1>6, ReservedTypes, AssignIds
<1>8. QED
  BY <1>2, <1>3, <1>5, <1>6, <1>7 DEF u, old

LEMMA BuildWritesLists ==
  ASSUME CatalogTypeOK, SettledInv, NoneForgotten, NEW program \in Programs, NEW forget \in Forgets,
         BuildStrings(program, forget), NEW kind \in Kinds
  PROVE  LET old == stables(Remembered(kind), unique(program[kind]))
         IN Range(Appended(program, forget, kind)) = Range(Assigned(program, kind)) \cup Range(old)
<1> DEFINE u == unique(program[kind])
           old == stables(Remembered(kind), u)
           list == Assigned(program, kind)
<1>1. forget = FALSE
  BY DEF NoneForgotten
<1>2. Appended(program, forget, kind) = write_json(list, old)
  BY <1>1 DEF Appended, NewList, Assigned
<1>3. old \in Seq(Strings) /\ list \in Seq(Strings)
  BY BuildLists DEF WithIds
<1> HIDE DEF u, old, list
<1>4. Range(write_json(list, old)) = Range(list) \cup Range(old)
  BY <1>3, WriteJson
<1>5. QED
  BY <1>2, <1>4 DEF u, old, list

\* The IDs in an image are those of the entries.
LEMMA ImageIs ==
  ASSUME CatalogTypeOK, SettledInv, NEW program \in Programs, NEW kind \in Kinds
  PROVE  \A m \in DOMAIN NewImage(program)[kind].ids :
           \E n \in Range(Assigned(program, kind)) : key(n) = key(m) /\ n.id = NewImage(program)[kind].ids[m]
<1> DEFINE u == unique(program[kind])
           list == Assigned(program, kind)
<1>1. NewImage(program)[kind] = image(program[kind], u, list)
  BY DEF NewImage, Kinds
<1>2. u \in Seq(Strings) /\ WithIds(list, u, stables(Remembered(kind), u), Reserved(kind))
  BY BuildLists
<1> HIDE DEF u, list
<1>3. image(program[kind], u, list).ids = [m \in Range(u) |-> last_of(list, m).id]
  BY DEF image
<1>4. list \in Seq(Strings) /\ \A m \in Range(u) : \E n \in Range(list) : n = [m EXCEPT !.id = n.id]
  BY <1>2 DEF WithIds
<1>5. ASSUME NEW m \in Range(u)
      PROVE  last_of(list, m) \in Range(list) /\ key(last_of(list, m)) = key(m)
  <2>1. PICK n \in Range(list) : n = [m EXCEPT !.id = n.id]
    BY <1>4
  <2>2. n \in Strings /\ m \in Strings
    BY <1>2, <1>4 DEF Range
  <2>3. key(n) = key(m)
    BY <2>1, <2>2 DEF key, Strings
  <2>4. \E k \in DOMAIN list : key(list[k]) = key(m)
    BY <2>3 DEF Range
  <2>5. QED
    BY <1>4, <2>4, LastOf
<1>6. ASSUME NEW m \in Range(u)
      PROVE  \E n \in Range(list) : key(n) = key(m) /\ n.id = NewImage(program)[kind].ids[m]
  BY <1>1, <1>3, <1>5
<1>7. DOMAIN NewImage(program)[kind].ids = Range(u)
  BY <1>1, <1>3
<1>8. QED
  BY <1>6, <1>7 DEF list

LEMMA BuildRecords ==
  ASSUME AskedAreReserved, AskedAlike, NoneForgotten, IdsFit, CatalogInv, SettledInv, ImagesInv,
         NEW program \in Programs, NEW forget \in Forgets, BuildStrings(program, forget)
  PROVE  Recorded([messages |-> Appended(program, forget, "messages"),
                   modules  |-> Appended(program, forget, "modules")], NewImage(program))
<1> DEFINE new == [messages |-> Appended(program, forget, "messages"),
                   modules  |-> Appended(program, forget, "modules")]
           ids == NewImage(program)
<1>0. CatalogTypeOK
  BY DEF CatalogInv
<1>1. \A kind \in Kinds : new[kind] = Appended(program, forget, kind)
  BY DEF Kinds
<1> HIDE DEF new, ids
<1>2. ASSUME NEW kind \in Kinds PROVE EntriesAre(Range(new[kind]))
  <2>1. Range(new[kind]) = Entries(kind)'
    BY <1>0, <1>1, AppendedEntries
  <2>2. CatalogInv' /\ Settled(Entries(kind)', Asks(kind))
    BY BuildKeeps, BuildSettles
  <2>3. WellNumbered(Entries(kind)', Asks(kind), Reserved(kind))
    BY <2>2 DEF CatalogInv
  <2>4. QED
    BY <2>1, <2>2, <2>3 DEF EntriesAre, WellNumbered, Settled, Ids
<1>3. ASSUME NEW kind \in Kinds, NEW m \in DOMAIN ids[kind].ids
      PROVE  EntryOf(Range(new[kind]), m, ids[kind].ids[m])
  <2>1. PICK n \in Range(Assigned(program, kind)) : key(n) = key(m) /\ n.id = ids[kind].ids[m]
    BY <1>0, <1>3, ImageIs DEF ids
  <2>2. n \in Range(new[kind])
    BY <1>0, <1>1, BuildWritesLists
  <2>3. QED
    BY <2>1, <2>2 DEF EntryOf
<1>4. ASSUME NEW m \in DOMAIN ids["modules"].ids PROVE ids["modules"].ids[m] <= module_id_max
  <2>1. "modules" \in Kinds
    BY DEF Kinds
  <2>2. PICK n \in Range(Assigned(program, "modules")) : n.id = ids["modules"].ids[m]
    BY <1>0, <1>4, <2>1, ImageIs DEF ids
  <2>3. within_limit(Assigned(program, "modules"))
    BY BuildWrites
  <2>4. QED
    BY <2>2, <2>3 DEF within_limit, Range
<1>5. ASSUME NEW n \in Range(new["messages"]) PROVE n.id < ShortIds /\ key(n) \in MessageKeys
  <2> DEFINE u == unique(program["messages"])
             old == stables(Remembered("messages"), u)
             list == Assigned(program, "messages")
  <2>1. "messages" \in Kinds
    BY DEF Kinds
  <2>2. /\ u \in Seq(Strings) /\ UniqueKeys(u) /\ Range(u) \subseteq Mentioned("messages")
        /\ old \in Seq(Strings) /\ UniqueKeys(old)
        /\ Range(old) \subseteq Entries("messages") \cup {m \in Range(u) : m.id # -1}
        /\ Ids(Range(old)) \subseteq Nat
    BY <1>0, <2>1, BuildLists
  <2>3. Range(new["messages"]) = Range(list) \cup Range(old)
    BY <1>0, <1>1, <2>1, BuildWritesLists
  <2>4. /\ list = assign_ids(u, old, Reserved("messages")) /\ Reserved("messages") = reserved_ids
    BY DEF Assigned, Reserved
  <2>5. ASSUME NEW m \in Entries("messages") PROVE m.id < ShortIds /\ key(m) \in MessageKeys
    <3>1. collaterals # <<>> /\ m \in Range(Last(collaterals)["messages"])
      BY <2>5 DEF Entries
    <3>2. Len(collaterals) \in 1 .. Len(collaterals) /\ Last(collaterals) = collaterals[Len(collaterals)]
      BY <1>0, <3>1 DEF CatalogTypeOK, Last
    <3>3. Recorded(collaterals[Len(collaterals)], images[Len(collaterals)])
      BY <3>2 DEF ImagesInv
    <3>4. QED
      BY <3>1, <3>2, <3>3 DEF Recorded
  <2> HIDE DEF u, old, list
  <2>6. ASSUME NEW m \in Range(u) PROVE m.id < ShortIds /\ key(m) \in MessageKeys
    <3>1. m \in Mentioned("messages")
      BY <2>2
    <3>2. QED
      BY <3>1 DEF IdsFit, MessageKeys, Keys
  <2>7. \A m \in Range(old) : m.id < ShortIds /\ key(m) \in MessageKeys
    BY <2>2, <2>5, <2>6
  <2>8. /\ IsFiniteSet(MessageKeys) /\ Cardinality(MessageKeys) + Cardinality(reserved_ids) <= ShortIds
        /\ ShortIds \in Nat
    BY RangesArePositive DEF IdsFit, MessageKeys, Keys
  <2>9. Keys(Range(u)) \subseteq MessageKeys /\ Keys(Range(old)) \subseteq MessageKeys
    BY <2>6, <2>7 DEF Keys
  <2>10. reserved_ids \in SUBSET Nat /\ IsFiniteSet(reserved_ids)
    BY CatalogAssumption
  <2>11. \A m \in Range(list) : m.id < ShortIds /\ key(m) \in MessageKeys
    <3>1. \A m \in Range(assign_ids(u, old, reserved_ids)) : m.id < ShortIds /\ key(m) \in MessageKeys
      BY <2>2, <2>7, <2>8, <2>9, <2>10, AssignBelow
    <3>2. QED
      BY <2>4, <3>1
  <2>12. QED
    BY <1>5, <2>3, <2>7, <2>11
<1>6. QED
  BY <1>2, <1>3, <1>4, <1>5 DEF Recorded, new, ids

LEMMA ImagesInvInit == Init => ImagesInv
<1> SUFFICES ASSUME collaterals = <<>>, images = <<>>, running = 0 PROVE ImagesInv
  BY DEF Init, CatalogInit, LogInit
<1>1. Len(images) = 0 /\ Len(collaterals) = 0 /\ images \in Seq({})
  OBVIOUS
<1>2. 1 .. Len(images) = {} /\ running \in 0 .. Len(images)
  BY <1>1
<1>3. QED
  BY <1>1, <1>2 DEF ImagesInv

LEMMA ImagesInvBuild ==
  ASSUME AskedAreReserved, AskedAlike, NoneForgotten, IdsFit, CatalogInv, SettledInv, ImagesInv,
         UNCHANGED running,
         NEW program \in Programs, NEW forget \in Forgets, BuildStrings(program, forget)
  PROVE  ImagesInv'
<1> DEFINE new == [messages |-> Appended(program, forget, "messages"),
                   modules  |-> Appended(program, forget, "modules")]
           n == Len(images)
<1>1. CatalogTypeOK
  BY DEF CatalogInv
<1>2. collaterals' = Append(collaterals, new) /\ images' = Append(images, NewImage(program))
  BY <1>1, BuildAppends, BuildWrites
<1>3. Recorded(new, NewImage(program))
  BY BuildRecords
<1>4. \A kind \in Kinds : KeepsAll(Entries(kind), Range(Last(collaterals')[kind]))
  BY BuildSettles
<1> HIDE DEF new
<1>5. PICK T : images \in Seq(T)
  BY DEF ImagesInv
<1>6. n \in Nat /\ Len(collaterals) = n
  BY <1>5 DEF ImagesInv
<1>7. /\ \E U : images' \in Seq(U)
      /\ Len(images') = n + 1 /\ images'[n + 1] = NewImage(program)
      /\ \A i \in 1 .. n : images'[i] = images[i]
  <2> DEFINE e == NewImage(program)
  <2> HIDE DEF e
  <2>1. images' = Append(images, e)
    BY <1>2 DEF e
  <2>2. /\ \E U : Append(images, e) \in Seq(U)
        /\ Len(Append(images, e)) = Len(images) + 1 /\ Append(images, e)[Len(images) + 1] = e
        /\ \A i \in 1 .. Len(images) : Append(images, e)[i] = images[i]
    BY <1>5, AppendIs
  <2>3. QED
    BY <2>1, <2>2 DEF e
<1>8. /\ Len(collaterals') = n + 1 /\ collaterals'[n + 1] = new
      /\ \A i \in 1 .. n : collaterals'[i] = collaterals[i]
  BY <1>1, <1>2, <1>6, AppendIs DEF CatalogTypeOK
<1> HIDE DEF n
<1>9. running' \in 0 .. n + 1
  <2>1. running \in 0 .. n
    BY <1>6 DEF ImagesInv, n
  <2>2. QED
    BY <1>6, <2>1
<1>10. ASSUME NEW i \in 1 .. n + 1 PROVE Recorded(collaterals'[i], images'[i])
  <2>1. CASE i = n + 1
    BY <1>3, <1>7, <1>8, <2>1
  <2>2. CASE i # n + 1
    <3>1. i \in 1 .. n
      BY <1>6, <2>2
    <3>2. Recorded(collaterals[i], images[i])
      BY <3>1 DEF ImagesInv, n
    <3>3. QED
      BY <1>7, <1>8, <3>1, <3>2
  <2>3. QED
    BY <2>1, <2>2
<1>11. ASSUME NEW i \in 1 .. n, NEW kind \in Kinds
       PROVE  KeepsAll(Range(collaterals[i][kind]), Range(new[kind]))
  <2>1. n \in i .. n
    BY <1>6
  <2>2. KeepsAll(Range(collaterals[i][kind]), Range(collaterals[n][kind]))
    BY <2>1 DEF ImagesInv, n
  <2>3. Range(collaterals[n][kind]) = Entries(kind)
    <3>1. collaterals # <<>>
      BY <1>6
    <3>2. Last(collaterals) = collaterals[n]
      BY <1>6 DEF Last
    <3>3. QED
      BY <3>1, <3>2 DEF Entries
  <2>4. Last(collaterals') = new
    BY <1>6, <1>8 DEF Last
  <2>5. KeepsAll(Entries(kind), Range(new[kind]))
    BY <1>4, <2>4
  <2>6. QED
    BY <2>2, <2>3, <2>5 DEF KeepsAll
<1>12. ASSUME NEW i \in 1 .. n + 1, NEW j \in i .. n + 1, NEW kind \in Kinds
       PROVE  KeepsAll(Range(collaterals'[i][kind]), Range(collaterals'[j][kind]))
  <2>1. CASE j # n + 1
    <3>1. i \in 1 .. n /\ j \in i .. n /\ j \in 1 .. n
      BY <1>6, <2>1
    <3>2. KeepsAll(Range(collaterals[i][kind]), Range(collaterals[j][kind]))
      BY <3>1 DEF ImagesInv, n
    <3>3. QED
      BY <1>8, <3>1, <3>2
  <2>2. CASE i = n + 1
    <3>1. j = i
      BY <1>6, <2>2
    <3>2. QED
      BY <3>1 DEF KeepsAll
  <2>3. CASE j = n + 1 /\ i # n + 1
    <3>1. i \in 1 .. n
      BY <1>6, <2>3
    <3>2. QED
      BY <1>8, <1>11, <2>3, <3>1
  <2>4. QED
    BY <2>1, <2>2, <2>3
<1>13. QED
  BY <1>7, <1>8, <1>9, <1>10, <1>12 DEF ImagesInv

LEMMA ImagesInvNext ==
  ASSUME AskedAreReserved, AskedAlike, NoneForgotten, IdsFit, CatalogInv, SettledInv, ImagesInv,
         [Next]_vars
  PROVE  ImagesInv'
<1>1. CASE BuildNext
  BY <1>1, ImagesInvBuild DEF BuildNext, Build, logVars
<1>2. CASE Boot
  <2>1. UNCHANGED <<collaterals, images>> /\ running' \in DOMAIN images
    BY <1>2 DEF Boot
  <2>2. PICK T : images \in Seq(T)
    BY DEF ImagesInv
  <2>3. DOMAIN images = 1 .. Len(images) /\ Len(images) \in Nat
    BY <2>2
  <2>4. running' \in 0 .. Len(images)
    BY <2>1, <2>3
  <2>5. QED
    BY <2>1, <2>4 DEF ImagesInv
<1>3. CASE UNCHANGED <<collaterals, images, running>>
  BY <1>3 DEF ImagesInv
<1>4. ASSUME NEW c \in Contexts, StartLog(c) \/ Deliver(c)
      PROVE  UNCHANGED <<collaterals, images, running>>
  BY <1>4 DEF StartLog, Log, LogVersion, Start, Deliver, Enter, Write, Leave
<1>5. CASE UNCHANGED vars
  BY <1>3, <1>5 DEF vars, logVars
<1>6. QED
  BY <1>1, <1>2, <1>3, <1>4, <1>5 DEF Next

\* The ID of an entry, looked up in a catalog, means its string.
LEMMA EntryMeans ==
  ASSUME NEW entries \in Seq(Strings), EntriesAre(Range(entries)),
         NEW m, NEW id, EntryOf(Range(entries), m, id)
  PROVE  Means(entries, id, m)
<1>1. Named(entries, id) \in SUBSET (1 .. Len(entries)) /\ Len(entries) \in Nat
  BY DEF Named
<1>2. PICK e \in Range(entries) : key(e) = key(m) /\ e.id = id
  BY DEF EntryOf
<1>3. Named(entries, id) # {}
  BY <1>2 DEF Named, Range
<1>4. \E x \in Named(entries, id) : \A y \in Named(entries, id) : y <= x
  BY <1>1, <1>3, GreatestOf
<1> DEFINE i == CHOOSE x \in Named(entries, id) : \A y \in Named(entries, id) : y <= x
<1>5. i \in Named(entries, id)
  BY <1>4
<1>6. look_up(entries, id) = entries[i]
  BY DEF look_up
<1> HIDE DEF i
<1>7. entries[i] \in Range(entries) /\ entries[i].id = id
  BY <1>5 DEF Named, Range
<1>8. key(entries[i]) = key(m)
  BY <1>2, <1>7 DEF EntriesAre
<1>9. QED
  BY <1>3, <1>6, <1>8 DEF Means

\* The IDs of the image that runs, and of what later catalogs say of them.
LEMMA RunningIds ==
  ASSUME IdsFit, ImagesInv, running # 0
  PROVE  IdsAre(images[running])
<1>1. running \in 1 .. Len(images)
  <2>1. PICK T : images \in Seq(T)
    BY DEF ImagesInv
  <2>2. Len(images) \in Nat /\ running \in 0 .. Len(images)
    BY <2>1 DEF ImagesInv
  <2>3. QED
    BY <2>2
<1> DEFINE ids == images[running]
           catalog == collaterals[running]
<1>2. Recorded(catalog, ids)
  BY <1>1 DEF ImagesInv
<1> HIDE DEF ids, catalog
<1>3. "messages" \in Kinds /\ "modules" \in Kinds
  BY DEF Kinds
<1>4. ASSUME NEW m \in DOMAIN ids["messages"].ids
      PROVE  ids["messages"].ids[m] \in Nat /\ ids["messages"].ids[m] < ShortIds
  <2>1. PICK n \in Range(catalog["messages"]) : n.id = ids["messages"].ids[m]
    BY <1>2, <1>3 DEF Recorded, EntryOf
  <2>2. n.id \in Nat /\ n.id < ShortIds
    BY <1>2, <1>3 DEF Recorded, EntriesAre
  <2>3. QED
    BY <2>1, <2>2
<1>5. ASSUME NEW m \in DOMAIN ids["modules"].ids
      PROVE  ids["modules"].ids[m] \in Nat /\ ids["modules"].ids[m] < ModuleIds
  <2>1. PICK n \in Range(catalog["modules"]) : n.id = ids["modules"].ids[m]
    BY <1>2, <1>3 DEF Recorded, EntryOf
  <2>2. n.id \in Nat
    BY <1>2, <1>3 DEF Recorded, EntriesAre
  <2>3. n.id <= module_id_max
    BY <1>2, <2>1 DEF Recorded
  <2>4. module_id_max < ModuleIds /\ ModuleIds \in Nat /\ module_id_max \in Int
    BY RangesArePositive, CatalogAssumption DEF IdsFit
  <2>5. QED
    BY <2>1, <2>2, <2>3, <2>4
<1>6. QED
  BY <1>4, <1>5 DEF IdsAre, ids

LEMMA RunningKnown ==
  ASSUME CatalogTypeOK, ImagesInv, running # 0, NEW i \in running .. Len(collaterals)
  PROVE  Known(images[running], collaterals[i])
<1>1. running \in 1 .. Len(images) /\ i \in running .. Len(images) /\ i \in 1 .. Len(images)
  <2>1. PICK T : images \in Seq(T)
    BY DEF ImagesInv
  <2>2. Len(images) \in Nat /\ running \in 0 .. Len(images) /\ Len(collaterals) = Len(images)
    BY <2>1 DEF ImagesInv
  <2>3. QED
    BY <2>2
<1> DEFINE ids == images[running]
           first == collaterals[running]
           catalog == collaterals[i]
<1>2. Recorded(first, ids) /\ Recorded(catalog, images[i])
  BY <1>1 DEF ImagesInv
<1>3. \A kind \in Kinds : KeepsAll(Range(first[kind]), Range(catalog[kind]))
  BY <1>1 DEF ImagesInv
<1>4. catalog \in [messages : Seq(Strings), modules : Seq(Strings)]
  <2> DEFINE Catalogs == [messages : Seq(Strings), modules : Seq(Strings)]
  <2>1. collaterals \in Seq(Catalogs)
    BY DEF CatalogTypeOK
  <2>2. i \in 1 .. Len(collaterals)
    BY <1>1 DEF ImagesInv
  <2> HIDE DEF Catalogs
  <2>3. collaterals[i] \in Catalogs
    BY <2>1, <2>2
  <2>4. QED
    BY <2>3 DEF Catalogs
<1> HIDE DEF ids, first, catalog
<1>5. ASSUME NEW kind \in Kinds, NEW m \in DOMAIN ids[kind].ids
      PROVE  Means(catalog[kind], ids[kind].ids[m], m)
  <2>1. catalog[kind] \in Seq(Strings)
    BY <1>4 DEF Kinds
  <2>2. EntriesAre(Range(catalog[kind]))
    BY <1>2 DEF Recorded
  <2>3. PICK n \in Range(first[kind]) : key(n) = key(m) /\ n.id = ids[kind].ids[m]
    BY <1>2 DEF Recorded, EntryOf
  <2>4. EntryOf(Range(catalog[kind]), m, ids[kind].ids[m])
    BY <1>3, <2>3 DEF KeepsAll, EntryOf
  <2>5. QED
    BY <2>1, <2>2, <2>4, EntryMeans
<1>6. QED
  BY <1>5 DEF Known, Kinds, ids, catalog

LEMMA LogsInvariance ==
  ASSUME AskedAreReserved, AskedAlike, NoneForgotten, CallsFit, IdsFit
  PROVE  Spec => [](CatalogInv /\ ImagesInv /\ StreamsInv)
<1> DEFINE Inv == CatalogInv /\ SettledInv /\ ImagesInv /\ StreamsInv
<1>1. Init => Inv
  BY CatalogInvInit, SettledInvInit, ImagesInvInit, StreamsInit
<1>2. Inv /\ [Next]_vars => Inv'
  <2> SUFFICES ASSUME CatalogInv, SettledInv, ImagesInv, StreamsInv, [Next]_vars
               PROVE  CatalogInv' /\ SettledInv' /\ ImagesInv' /\ StreamsInv'
    OBVIOUS
  <2>1. CatalogInv'
    BY AskedAreReserved, CatalogInvNext
  <2>2. SettledInv'
    BY AskedAlike, NoneForgotten, SettledInvNext
  <2>3. ImagesInv'
    BY AskedAreReserved, AskedAlike, NoneForgotten, IdsFit, ImagesInvNext
  <2>4. StreamsInv'
    BY CallsFit, IdsFit, RunningIds, StreamsNext
  <2>5. QED
    BY <2>1, <2>2, <2>3, <2>4
<1>3. Inv => CatalogInv /\ ImagesInv /\ StreamsInv
  OBVIOUS
<1> HIDE DEF Inv
<1>4. QED
  BY <1>1, <1>2, <1>3, PTL DEF Spec

(* Whatever image runs, and whichever catalog of it or of a later build a *)
(* destination's log is read with, when no context is in the destination  *)
(* the log reads as the lines handed to it, in order, up to the first     *)
(* that the decoder cannot read: for any number of contexts that log at   *)
(* the same time, of destinations, builds, strings and arguments, if what *)
(* is logged fits the types that the calls have and the IDs fit in the    *)
(* words they are packed into.                                            *)
THEOREM LogsAlwaysDecode ==
  ASSUME AskedAreReserved, AskedAlike, NoneForgotten, CallsFit, IdsFit
  PROVE  Spec => []LogsDecode
<1>1. ASSUME CatalogInv, ImagesInv, StreamsInv PROVE LogsDecode
  <2> SUFFICES ASSUME NEW d \in DOMAIN streams, holder[section_of[d]] = no_one,
                      NEW i \in running .. Len(collaterals), i > 0
               PROVE  read_logs(streams[d], collaterals[i]) = Readable(sent[d])
    BY DEF LogsDecode
  <2>1. /\ d \in Range_of(Destinations) /\ streams[d] \in Seq(Words) /\ sent[d] \in Seq(Lines)
    BY <1>1 DEF StreamsInv, StreamsTypeOK, DeliveryTypeOK
  <2>2. CASE running # 0
    <3>1. IdsAre(images[running]) /\ Known(images[running], collaterals[i])
      BY <1>1, <2>2, IdsFit, RunningIds, RunningKnown DEF CatalogInv
    <3>2. \A c \in Contexts : ~InHand(c, d)
      BY <1>1, <2>1, OneInHand, LogAssumption
    <3>3. PICK starts, parts :
            /\ Laid(images[running], sent[d], streams[d], starts, parts)
            /\ starts[Len(sent[d]) + 1] = Len(streams[d]) + 1
      BY <1>1, <2>1, <3>2 DEF StreamsInv, Delivered
    <3>4. QED
      BY <2>1, <3>1, <3>3, CallsFit, IdsFit, StreamDecodes
  <2>3. CASE running = 0
    <3> DEFINE ids == [messages |-> [ids |-> <<>>], modules |-> [ids |-> <<>>]]
    <3>1. sent[d] = <<>> /\ streams[d] = <<>>
      BY <1>1, <2>1, <2>3 DEF StreamsInv, Quiet
    <3>2. IdsAre(ids) /\ Known(ids, collaterals[i])
      BY DEF IdsAre, Known
    <3> HIDE DEF ids
    <3>3. PICK starts, parts :
            Laid(ids, <<>>, <<>>, starts, parts) /\ starts[Len(<<>>) + 1] = Len(<<>>) + 1
      BY NothingLaid
    <3>4. <<>> \in Seq(Lines) /\ <<>> \in Seq(Words)
      OBVIOUS
    <3>5. read_logs(<<>>, collaterals[i]) = Readable(<<>>)
      BY <3>2, <3>3, <3>4, CallsFit, IdsFit, StreamDecodes
    <3>6. QED
      BY <3>1, <3>5
  <2>4. QED
    BY <2>2, <2>3
<1>2. CatalogInv /\ ImagesInv /\ StreamsInv => LogsDecode
  BY <1>1
<1>3. QED
  BY <1>2, AskedAreReserved, AskedAlike, NoneForgotten, CallsFit, IdsFit, LogsInvariance, PTL
=============================================================================
