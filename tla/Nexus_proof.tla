---------------------------- MODULE Nexus_proof ----------------------------
(***************************************************************************)
(* The nexus for every configuration, any services, functions, conditions  *)
(* and interrupts: once init has returned every exported service answers,  *)
(* and a call runs exactly what the components of the project added.       *)
(***************************************************************************)
EXTENDS Nexus, Recursion

----------------------------------------------------------------------------
(* Sequences. *)

\* F has the items of the sequences ss, each once: x comes from ss[row[x]][col[x]].
PlacedBy(F, ss, row, col) ==
  /\ \A x \in DOMAIN F : /\ row[x] \in DOMAIN ss
                         /\ col[x] \in DOMAIN ss[row[x]]
                         /\ F[x] = ss[row[x]][col[x]]
  /\ \A x, y \in DOMAIN F : row[x] = row[y] /\ col[x] = col[y] => x = y
  /\ \A i \in DOMAIN ss : \A k \in DOMAIN ss[i] :
       \E x \in DOMAIN F : row[x] = i /\ col[x] = k

Placed(F, ss) ==
  \E row \in [DOMAIN F -> Nat], col \in [DOMAIN F -> Nat] : PlacedBy(F, ss, row, col)

\* A further sequence at the end.
LEMMA PlacedNext ==
  ASSUME NEW S, NEW ss \in Seq(Seq(S)), NEW n \in Nat, n + 1 \in DOMAIN ss,
         NEW F \in Seq(S), Placed(F, [i \in 1 .. n |-> ss[i]])
  PROVE  Placed(F \o ss[n + 1], [i \in 1 .. n + 1 |-> ss[i]])
<1> DEFINE before == [i \in 1 .. n |-> ss[i]]
           with   == [i \in 1 .. n + 1 |-> ss[i]]
           G == F \o ss[n + 1]
           m == Len(F)
<1>1. PICK row \in [DOMAIN F -> Nat], col \in [DOMAIN F -> Nat] : PlacedBy(F, before, row, col)
  BY DEF Placed
<1>2. ss[n + 1] \in Seq(S) /\ m \in Nat /\ DOMAIN F = 1 .. m
  OBVIOUS
<1>3. /\ G \in Seq(S) /\ DOMAIN G = 1 .. m + Len(ss[n + 1])
      /\ \A x \in DOMAIN G : G[x] = IF x <= m THEN F[x] ELSE ss[n + 1][x - m]
  BY <1>2
<1> DEFINE row2 == [x \in DOMAIN G |-> IF x <= m THEN row[x] ELSE n + 1]
           col2 == [x \in DOMAIN G |-> IF x <= m THEN col[x] ELSE x - m]
<1>4. row2 \in [DOMAIN G -> Nat] /\ col2 \in [DOMAIN G -> Nat]
  <2> HIDE DEF G, m
  <2>1. \A x \in DOMAIN G : x \in Nat /\ (x <= m => x \in DOMAIN F) /\ (~(x <= m) => x - m \in Nat)
    BY <1>2, <1>3
  <2>2. QED
    BY <2>1
<1>5. \A x \in DOMAIN F : x \in DOMAIN G /\ x <= m /\ row[x] \in 1 .. n /\ before[row[x]] = ss[row[x]]
  <2> HIDE DEF G, m
  <2>1. \A x \in DOMAIN F : x \in DOMAIN G /\ x <= m
    BY <1>2, <1>3
  <2>2. QED
    BY <1>1, <2>1 DEF PlacedBy
<1>6. \A x \in DOMAIN G : IF x <= m THEN x \in DOMAIN F ELSE x - m \in DOMAIN ss[n + 1]
  <2> HIDE DEF G, m
  <2>1. Len(ss[n + 1]) \in Nat /\ DOMAIN ss[n + 1] = 1 .. Len(ss[n + 1])
    BY <1>2
  <2>2. QED
    BY <1>2, <1>3, <2>1
<1>7. \A i \in 1 .. n + 1 : with[i] = ss[i]
  OBVIOUS
<1>8. PlacedBy(G, with, row2, col2)
  <2> HIDE DEF G, m, before
  <2>1. ASSUME NEW x \in DOMAIN G
        PROVE  /\ row2[x] \in DOMAIN with /\ col2[x] \in DOMAIN with[row2[x]]
               /\ G[x] = with[row2[x]][col2[x]]
    <3>1. CASE x <= m
      <4>1. x \in DOMAIN F /\ row2[x] = row[x] /\ col2[x] = col[x] /\ G[x] = F[x]
        BY <1>3, <1>6, <3>1
      <4>2. row[x] \in 1 .. n + 1 /\ before[row[x]] = with[row[x]]
        BY <1>5, <1>7, <4>1
      <4>3. QED
        BY <1>1, <4>1, <4>2 DEF PlacedBy
    <3>2. CASE ~(x <= m)
      BY <1>3, <1>6, <1>7, <3>2
    <3>3. QED
      BY <3>1, <3>2
  <2>2. ASSUME NEW x \in DOMAIN G, NEW y \in DOMAIN G, row2[x] = row2[y], col2[x] = col2[y]
        PROVE  x = y
    <3>1. CASE x <= m /\ y <= m
      BY <1>1, <1>6, <2>2, <3>1 DEF PlacedBy
    <3>2. CASE ~(x <= m) /\ ~(y <= m)
      <4>1. x - m = y - m
        BY <2>2, <3>2
      <4>2. x \in Int /\ y \in Int /\ m \in Int
        BY <1>2, <1>3
      <4>3. QED
        BY <4>1, <4>2
    <3>3. ASSUME NEW a \in DOMAIN G, NEW b \in DOMAIN G, a <= m, ~(b <= m), row2[a] = row2[b]
          PROVE  FALSE
      <4>1. row[a] \in 1 .. n /\ row[a] = n + 1
        BY <1>5, <1>6, <3>3
      <4>2. QED
        BY <4>1
    <3>4. QED
      BY <2>2, <3>1, <3>2, <3>3
  <2>3. ASSUME NEW i \in DOMAIN with, NEW k \in DOMAIN with[i]
        PROVE  \E x \in DOMAIN G : row2[x] = i /\ col2[x] = k
    <3>1. CASE i \in 1 .. n
      <4>1. i \in DOMAIN before /\ k \in DOMAIN before[i]
        BY <1>7, <3>1 DEF before
      <4>2. PICK x \in DOMAIN F : row[x] = i /\ col[x] = k
        BY <1>1, <4>1 DEF PlacedBy
      <4>3. x \in DOMAIN G /\ x <= m
        BY <1>5
      <4>4. QED
        BY <4>2, <4>3
    <3>2. CASE i = n + 1
      <4>1. k \in 1 .. Len(ss[n + 1])
        BY <1>2, <1>7, <3>2
      <4>2. m + k \in DOMAIN G /\ ~(m + k <= m) /\ (m + k) - m = k
        BY <1>2, <1>3, <4>1
      <4>3. row2[m + k] = i /\ col2[m + k] = k
        BY <3>2, <4>2
      <4>4. QED
        BY <4>2, <4>3
    <3>3. QED
      BY <3>1, <3>2
  <2>4. QED
    <3> HIDE DEF row2, col2, with
    <3> QED
      BY <2>1, <2>2, <2>3 DEF PlacedBy
<1>9. QED
  <2> HIDE DEF G, with, row2, col2
  <2> QED
    BY <1>4, <1>8 DEF Placed, G, with

Flattening(ss) ==
  CHOOSE f : f = [i \in 1 .. Len(ss) |-> IF i = 1 THEN ss[i] ELSE f[i - 1] \o ss[i]]

\* The recursion in FlattenSeq has the value it is written with.
LEMMA FlatteningIs ==
  ASSUME NEW S, NEW ss \in Seq(Seq(S))
  PROVE  /\ Flattening(ss) \in [1 .. Len(ss) -> Seq(S)]
         /\ \A i \in 1 .. Len(ss) :
              Flattening(ss)[i] = IF i = 1 THEN ss[i] ELSE Flattening(ss)[i - 1] \o ss[i]
<1> DEFINE X == 1 .. Len(ss)
           V == Seq(S)
           height == [i \in X |-> i]
           parts == [i \in X |-> IF i = 1 THEN {} ELSE {i - 1}]
           value == [i \in X |-> [g \in [parts[i] -> V] |-> IF i = 1 THEN ss[i] ELSE g[i - 1] \o ss[i]]]
<1>1. Parted(X, height, parts)
  BY DEF Parted
<1>2. \A i \in X : ss[i] \in V
  OBVIOUS
<1>3. Valued(X, parts, V, value)
  <2>1. ASSUME NEW i \in X, NEW g \in [parts[i] -> V] PROVE value[i][g] \in V
    <3>1. value[i][g] = IF i = 1 THEN ss[i] ELSE g[i - 1] \o ss[i]
      <4> HIDE DEF V
      <4> QED OBVIOUS
    <3>2. CASE i = 1
      BY <1>2, <3>1, <3>2
    <3>3. CASE i # 1
      <4>1. g[i - 1] \in V
        <5> HIDE DEF V
        <5> QED BY <3>3
      <4>2. QED
        BY <1>2, <3>1, <3>3, <4>1
    <3>4. QED
      BY <3>2, <3>3
  <2>2. QED
    BY <2>1 DEF Valued
<1>4. V # {}
  <2>1. <<>> \in V
    OBVIOUS
  <2>2. QED
    BY <2>1
<1>5. PICK f \in [X -> V] : \A i \in X : FollowsAt(f, parts, value, i)
  <2> HIDE DEF X, V, height, parts, value
  <2> QED
    BY <1>1, <1>3, <1>4, RecursionExists
<1>6. ASSUME NEW i \in X PROVE f[i] = IF i = 1 THEN ss[i] ELSE f[i - 1] \o ss[i]
  <2> DEFINE g == [c \in parts[i] |-> f[c]]
  <2>1. \A c \in parts[i] : c \in X
    OBVIOUS
  <2>2. g \in [parts[i] -> V]
    <3> HIDE DEF V, parts, X
    <3> QED BY <2>1
  <2>3. f[i] = value[i][g]
    BY <1>5 DEF FollowsAt
  <2>4. f[i] = IF i = 1 THEN ss[i] ELSE g[i - 1] \o ss[i]
    <3> HIDE DEF V, g
    <3> QED BY <2>2, <2>3
  <2>5. i # 1 => g[i - 1] = f[i - 1]
    OBVIOUS
  <2>6. QED
    <3> HIDE DEF V, g
    <3> QED BY <2>4, <2>5
<1>7. f = [i \in X |-> IF i = 1 THEN ss[i] ELSE f[i - 1] \o ss[i]]
  <2> HIDE DEF V
  <2> QED BY <1>6
<1>8. Flattening(ss) = [i \in X |-> IF i = 1 THEN ss[i] ELSE Flattening(ss)[i - 1] \o ss[i]]
  <2> HIDE DEF V, value
  <2> QED BY <1>7 DEF Flattening
<1>9. Flattening(ss) = f
  <2> DEFINE F == Flattening(ss)
             T == {i \in X : F[i] # f[i]}
  <2>1. \A i \in X : F[i] = IF i = 1 THEN ss[i] ELSE F[i - 1] \o ss[i]
    BY <1>8
  <2>2. SUFFICES ASSUME T # {} PROVE FALSE
    <3>1. F = [i \in X |-> F[i]] /\ f = [i \in X |-> f[i]]
      BY <1>7, <1>8
    <3>2. ASSUME T = {} PROVE \A i \in X : F[i] = f[i]
      BY <3>2
    <3>3. ASSUME T = {} PROVE F = f
      <4>1. [i \in X |-> F[i]] = [i \in X |-> f[i]]
        <5> HIDE DEF F, X, V, T
        <5> QED BY <3>2, <3>3
      <4>2. QED
        <5> HIDE DEF F, X, V, T
        <5> QED BY <3>1, <4>1
    <3>4. QED
      BY <3>3
  <2>3. PICK i \in T : \A j \in T : i <= j
    <3> HIDE DEF F
    <3>1. T \in SUBSET Nat
      OBVIOUS
    <3> HIDE DEF T
    <3>2. QED
      BY <2>2, <3>1, LeastOf
  <2> HIDE DEF F, V
  <2>4. i # 1 => F[i - 1] = f[i - 1]
    <3>1. i # 1 => i - 1 \in X /\ ~(i <= i - 1)
      OBVIOUS
    <3>2. QED
      BY <2>3, <3>1
  <2>5. F[i] = f[i]
    BY <1>6, <2>1, <2>4
  <2>6. QED
    BY <2>5
<1>10. QED
  BY <1>6, <1>9

\* FlattenSeq has the items of its sequences, each once.
LEMMA FlattenPlaces ==
  ASSUME NEW S, NEW ss \in Seq(Seq(S))
  PROVE  FlattenSeq(ss) \in Seq(S) /\ Placed(FlattenSeq(ss), ss)
<1>1. CASE Len(ss) = 0
  <2>1. FlattenSeq(ss) = ss
    BY <1>1, Zenon DEF FlattenSeq
  <2>2. DOMAIN ss = {} /\ ss \in Seq(S)
    BY <1>1
  <2>3. ss \in [DOMAIN ss -> Nat] /\ PlacedBy(ss, ss, ss, ss)
    BY <2>2 DEF PlacedBy
  <2>4. QED
    BY <2>1, <2>2, <2>3 DEF Placed
<1>2. CASE Len(ss) # 0
  <2> DEFINE N == Len(ss)
             F == Flattening(ss)
             upto(n) == [i \in 1 .. n |-> ss[i]]
             T == {n \in 1 .. N : ~Placed(F[n], upto(n))}
  <2>1. N \in Nat /\ DOMAIN ss = 1 .. N /\ N \in 1 .. N /\ 1 \in 1 .. N
    BY <1>2
  <2>2. F \in [1 .. N -> Seq(S)] /\ \A i \in 1 .. N : F[i] = IF i = 1 THEN ss[i] ELSE F[i - 1] \o ss[i]
    BY FlatteningIs
  <2>3. FlattenSeq(ss) = F[N]
    BY <1>2 DEF FlattenSeq, Flattening
  <2>4. T = {}
    <3>1. SUFFICES ASSUME T # {} PROVE FALSE
      OBVIOUS
    <3>2. PICK n \in T : \A k \in T : n <= k
      <4> HIDE DEF F, upto
      <4>1. T \in SUBSET Nat
        OBVIOUS
      <4> HIDE DEF T
      <4>2. QED
        BY <3>1, <4>1, LeastOf
    <3> HIDE DEF F
    <3>3. CASE n = 1
      <4> DEFINE s == ss[1]
                 row == [x \in DOMAIN s |-> 1]
                 col == [x \in DOMAIN s |-> x]
      <4>1. s \in Seq(S) /\ F[1] = s
        BY <2>1, <2>2
      <4>2. row \in [DOMAIN s -> Nat] /\ col \in [DOMAIN s -> Nat]
        <5>1. DOMAIN s \subseteq Nat
          BY <4>1
        <5>2. QED
          BY <5>1
      <4>3. \A i \in DOMAIN upto(1) : i = 1 /\ upto(1)[i] = s
        OBVIOUS
      <4>4. 1 \in DOMAIN upto(1)
        OBVIOUS
      <4> HIDE DEF s, upto
      <4>5. PlacedBy(s, upto(1), row, col)
        BY <4>3, <4>4 DEF PlacedBy
      <4>6. Placed(s, upto(1))
        <5> HIDE DEF row, col
        <5> QED BY <4>2, <4>5 DEF Placed
      <4>7. QED
        BY <3>2, <3>3, <4>1, <4>6
    <3>4. CASE n # 1
      <4>1. n \in Nat /\ n - 1 \in Nat /\ n - 1 \in 1 .. N /\ (n - 1) + 1 = n /\ ~(n <= n - 1)
        BY <2>1, <3>4
      <4>2. Placed(F[n - 1], upto(n - 1))
        BY <3>2, <4>1
      <4>3. F[n - 1] \in Seq(S) /\ F[n] = F[n - 1] \o ss[n] /\ n \in DOMAIN ss
        BY <2>1, <2>2, <3>4, <4>1
      <4>4. PICK k \in Nat : k = n - 1
        BY <4>1
      <4>5. n = k + 1 /\ k + 1 \in DOMAIN ss /\ F[k] \in Seq(S) /\ Placed(F[k], [i \in 1 .. k |-> ss[i]])
        BY <4>1, <4>2, <4>3, <4>4
      <4> HIDE DEF upto
      <4>6. Placed(F[k] \o ss[k + 1], [i \in 1 .. k + 1 |-> ss[i]])
        BY <4>5, PlacedNext
      <4>7. Placed(F[n], upto(n))
        BY <4>3, <4>4, <4>5, <4>6 DEF upto
      <4>8. QED
        BY <3>2, <4>7
    <3>5. QED
      BY <3>3, <3>4
  <2>5. upto(N) = ss
    BY <2>1
  <2>6. Placed(F[N], ss) /\ F[N] \in Seq(S)
    <3> HIDE DEF F, upto
    <3> QED
      BY <2>1, <2>2, <2>4, <2>5
  <2>7. QED
    BY <2>3, <2>6
<1>3. QED
  BY <1>1, <1>2

----------------------------------------------------------------------------
(* Projects are finite trees. *)

PartsIn(p) == [n \in DOMAIN p.node |-> Under(p, n)]
WholesIn(p) == [m \in DOMAIN p.node |-> {n \in DOMAIN p.node : m \in Under(p, n)}]

LEMMA NodeTypes ==
  ASSUME NEW p \in Projects, NEW n \in DOMAIN p.node
  PROVE  /\ n \in Nat /\ Len(p.node) \in Nat /\ n <= Len(p.node)
         /\ p.node[n] \in Nodes
         /\ Parts(p.node[n]) \in Seq(DOMAIN p.node)
         /\ Under(p, n) \subseteq DOMAIN p.node
         /\ \A m \in Under(p, n) : m \in Nat /\ n < m /\ m <= Len(p.node)
<1>1. p.node \in Seq(Nodes) /\ IsTree(p)
  BY ProjectTypes
<1>2. n \in Nat /\ Len(p.node) \in Nat /\ n <= Len(p.node) /\ p.node[n] \in Nodes
      /\ DOMAIN p.node = 1 .. Len(p.node)
  BY <1>1
<1>3. Parts(p.node[n]) \in Seq(Nat)
  <2>1. CASE p.node[n].kind \in {"exports", "extend"}
    BY <2>1 DEF Parts
  <2>2. CASE p.node[n].kind \notin {"exports", "extend"}
    BY <1>2, <2>2 DEF Parts, Nodes
  <2>3. QED
    BY <2>1, <2>2
<1>4. \A i \in DOMAIN Parts(p.node[n]) : Parts(p.node[n])[i] \in DOMAIN p.node /\ n < Parts(p.node[n])[i]
  BY <1>1 DEF IsTree
<1>5. Under(p, n) = {Parts(p.node[n])[i] : i \in DOMAIN Parts(p.node[n])}
  BY DEF Under, Range
<1>6. Parts(p.node[n]) \in Seq(DOMAIN p.node)
  BY <1>3, <1>4
<1>7. QED
  BY <1>2, <1>4, <1>5, <1>6

LEMMA TreeParted ==
  ASSUME NEW p \in Projects
  PROVE  Parted(DOMAIN p.node, [n \in DOMAIN p.node |-> Len(p.node) - n], PartsIn(p))
<1>1. \A n \in DOMAIN p.node : Len(p.node) - n \in Nat
  BY NodeTypes
<1>2. \A n \in DOMAIN p.node : \A m \in Under(p, n) : Len(p.node) - m < Len(p.node) - n
  <2>1. TAKE n \in DOMAIN p.node
  <2>2. TAKE m \in Under(p, n)
  <2>3. n \in Nat /\ m \in Nat /\ Len(p.node) \in Nat /\ n < m
    BY NodeTypes
  <2>4. QED
    BY <2>3
<1>3. \A n \in DOMAIN p.node : Under(p, n) \subseteq DOMAIN p.node
  BY NodeTypes
<1>4. QED
  BY <1>1, <1>2, <1>3 DEF Parted, PartsIn

LEMMA TreeRaised ==
  ASSUME NEW p \in Projects
  PROVE  Parted(DOMAIN p.node, [n \in DOMAIN p.node |-> n], WholesIn(p))
  BY NodeTypes DEF Parted, WholesIn

----------------------------------------------------------------------------
(* The recursions over a project have the values they are written with. *)

\* The values that g has of the parts of an item.
Gathered(p, n, g) == [i \in DOMAIN Parts(p.node[n]) |-> g[Parts(p.node[n])[i]]]

LEMMA GatheredTypes ==
  ASSUME NEW p \in Projects, NEW n \in DOMAIN p.node, NEW V, NEW g \in [Under(p, n) -> V]
  PROVE  Gathered(p, n, g) \in Seq(V)
<1>1. Parts(p.node[n]) \in Seq(DOMAIN p.node)
  BY NodeTypes
<1>2. \A i \in DOMAIN Parts(p.node[n]) : Parts(p.node[n])[i] \in Under(p, n)
  BY DEF Under, Range
<1>3. QED
  BY <1>1, <1>2 DEF Gathered

LEMMA GatheredSame ==
  ASSUME NEW p, NEW n \in DOMAIN p.node, NEW f
  PROVE  Gathered(p, n, [c \in PartsIn(p)[n] |-> f[c]]) = Gathered(p, n, f)
<1>1. PartsIn(p)[n] = Under(p, n)
  BY DEF PartsIn
<1>2. \A i \in DOMAIN Parts(p.node[n]) : Parts(p.node[n])[i] \in Under(p, n)
  BY DEF Under, Range
<1>3. QED
  BY <1>1, <1>2 DEF Gathered

\* What an item exports, if g has what its parts export.
ExportsAt(p, n, g) ==
  IF p.node[n].kind = "exports" THEN p.node[n].services
  ELSE IF p.node[n].kind = "constexpr" /\ ~p.node[n].holds THEN <<>>
  ELSE FlattenSeq(Gathered(p, n, g))

LEMMA ExportsAre ==
  ASSUME NEW p \in Projects
  PROVE  /\ exports_in(p) \in [DOMAIN p.node -> Seq(Types)]
         /\ \A n \in DOMAIN p.node : exports_in(p)[n] = ExportsAt(p, n, exports_in(p))
<1> DEFINE X == DOMAIN p.node
           V == Seq(Types)
           height == [n \in X |-> Len(p.node) - n]
           value == [n \in X |-> [g \in [PartsIn(p)[n] -> V] |-> ExportsAt(p, n, g)]]
           F == exports_in(p)
<1>1. Parted(X, height, PartsIn(p))
  BY TreeParted
<1>2. \A n \in X : PartsIn(p)[n] = Under(p, n)
  BY DEF PartsIn
<1>3. Valued(X, PartsIn(p), V, value)
  <2>1. ASSUME NEW n \in X, NEW g \in [PartsIn(p)[n] -> V] PROVE value[n][g] \in V
    <3>1. value[n][g] = ExportsAt(p, n, g)
      <4> HIDE DEF V
      <4> QED OBVIOUS
    <3>2. FlattenSeq(Gathered(p, n, g)) \in V
      <4>1. Gathered(p, n, g) \in Seq(V)
        <5> HIDE DEF V
        <5> QED BY <1>2, GatheredTypes
      <4>2. QED
        BY <4>1, FlattenPlaces
    <3>3. p.node[n].kind = "exports" => p.node[n].services \in V
      BY NodeTypes DEF Nodes
    <3>4. QED
      BY <3>1, <3>2, <3>3 DEF ExportsAt
  <2>2. QED
    BY <2>1 DEF Valued
<1>4. V # {}
  <2>1. <<>> \in V
    OBVIOUS
  <2>2. QED
    BY <2>1
<1>5. PICK f \in [X -> V] : \A n \in X : FollowsAt(f, PartsIn(p), value, n)
  <2> HIDE DEF X, V, height, value
  <2> QED
    BY <1>1, <1>3, <1>4, RecursionExists
<1>6. ASSUME NEW h, NEW n \in X, [c \in PartsIn(p)[n] |-> h[c]] \in [PartsIn(p)[n] -> V]
      PROVE  value[n][[c \in PartsIn(p)[n] |-> h[c]]] = ExportsAt(p, n, h)
  <2> DEFINE g == [c \in PartsIn(p)[n] |-> h[c]]
  <2>1. value[n][g] = ExportsAt(p, n, g)
    <3> HIDE DEF V, g
    <3> QED BY <1>6 DEF g
  <2>2. ExportsAt(p, n, g) = ExportsAt(p, n, h)
    BY GatheredSame DEF ExportsAt
  <2>3. QED
    BY <2>1, <2>2
<1>7. ASSUME NEW n \in X PROVE f[n] = ExportsAt(p, n, f)
  <2>1. \A c \in PartsIn(p)[n] : c \in X
    BY <1>2, NodeTypes
  <2> HIDE DEF V, X, value
  <2>2. QED
    BY <1>5, <1>6, <2>1 DEF FollowsAt
<1>8. f = [n \in X |-> ExportsAt(p, n, f)]
  <2> HIDE DEF V
  <2> QED BY <1>7
<1>9. F = [n \in X |-> ExportsAt(p, n, F)]
  <2> HIDE DEF V, value
  <2> QED BY <1>8, Zenon DEF ExportsAt, Gathered, exports_in
<1>10. \A n \in X : F[n] = f[n]
  <2>1. ASSUME NEW n \in X, \A c \in PartsIn(p)[n] : F[c] = f[c]
        PROVE  F[n] = f[n]
    <3>1. Gathered(p, n, F) = Gathered(p, n, f)
      <4>1. \A i \in DOMAIN Parts(p.node[n]) : Parts(p.node[n])[i] \in PartsIn(p)[n]
        BY <1>2 DEF Under, Range
      <4> HIDE DEF F
      <4>2. QED
        BY <2>1, <4>1 DEF Gathered
    <3>2. F[n] = ExportsAt(p, n, F)
      <4> HIDE DEF V, value
      <4> QED BY <1>9
    <3>3. QED
      BY <1>7, <3>1, <3>2 DEF ExportsAt
  <2> HIDE DEF F, V, X, value, height
  <2>2. QED
    BY <1>1, <2>1, RecursionAgrees
<1>11. F \in [X -> V]
  <2>1. F = [n \in X |-> F[n]]
    <3> HIDE DEF V, value
    <3> QED BY <1>9
  <2> HIDE DEF F, V, X, value
  <2>2. QED
    BY <1>10, <2>1
<1>12. QED
  <2> HIDE DEF V, value
  <2> QED BY <1>9, <1>11 DEF V

Conditioned == [func : Functions, conditions : SUBSET Conditions]
Extensions == [by : {"type", "name"}, target : Types \cup Names, funcs : Seq(Conditioned)]

\* A condition around an extension leaves its target and its functions.
LEMMA ConditionalIs ==
  ASSUME NEW e \in Extensions, NEW c \in Conditions
  PROVE  /\ conditional(e, c) \in Extensions
         /\ conditional(e, c).by = e.by /\ conditional(e, c).target = e.target
         /\ DOMAIN conditional(e, c).funcs = DOMAIN e.funcs
         /\ \A i \in DOMAIN e.funcs :
              /\ conditional(e, c).funcs[i].func = e.funcs[i].func
              /\ conditional(e, c).funcs[i].conditions = e.funcs[i].conditions \cup {c}
<1> DEFINE funcs == [i \in DOMAIN e.funcs |-> when(e.funcs[i], c)]
<1>1. conditional(e, c) = [e EXCEPT !.funcs = funcs]
  BY DEF conditional
<1>2. e.funcs \in Seq(Conditioned) /\ e.by \in {"type", "name"} /\ e.target \in Types \cup Names
      /\ e = [by |-> e.by, target |-> e.target, funcs |-> e.funcs]
  <2> DEFINE S == Seq(Conditioned)
             T == Types \cup Names
  <2>1. e \in [by : {"type", "name"}, target : T, funcs : S]
    BY DEF Extensions
  <2> HIDE DEF S, T
  <2>2. e.funcs \in S /\ e.by \in {"type", "name"} /\ e.target \in T
        /\ e = [by |-> e.by, target |-> e.target, funcs |-> e.funcs]
    BY <2>1
  <2>3. QED
    BY <2>2 DEF S, T
<1>3. \A i \in DOMAIN e.funcs :
        /\ e.funcs[i] \in Conditioned
        /\ funcs[i] = [func |-> e.funcs[i].func, conditions |-> e.funcs[i].conditions \cup {c}]
        /\ funcs[i] \in Conditioned
  <2>1. \A i \in DOMAIN e.funcs : e.funcs[i] \in Conditioned
    BY <1>2
  <2>2. QED
    BY <2>1 DEF Conditioned, when
<1>4. funcs \in Seq(Conditioned) /\ DOMAIN funcs = DOMAIN e.funcs
  <2>1. PICK n \in Nat : DOMAIN e.funcs = 1 .. n
    BY <1>2
  <2>2. funcs \in [1 .. n -> Conditioned] /\ DOMAIN funcs = 1 .. n
    <3> HIDE DEF Conditioned
    <3> QED BY <1>3, <2>1
  <2> HIDE DEF Conditioned, funcs
  <2>3. QED
    BY <2>1, <2>2
<1>5. /\ conditional(e, c).funcs = funcs
      /\ conditional(e, c).by = e.by /\ conditional(e, c).target = e.target
      /\ conditional(e, c) = [by |-> e.by, target |-> e.target, funcs |-> funcs]
  <2> HIDE DEF funcs
  <2> QED BY <1>1, <1>2
<1>6. conditional(e, c) \in Extensions
  <2> HIDE DEF funcs
  <2> QED BY <1>2, <1>4, <1>5 DEF Extensions
<1>7. \A i \in DOMAIN e.funcs :
        /\ funcs[i].func = e.funcs[i].func
        /\ funcs[i].conditions = e.funcs[i].conditions \cup {c}
  <2>1. TAKE i \in DOMAIN e.funcs
  <2>2. e.funcs[i] \in Conditioned
    BY <1>3
  <2>3. funcs[i] = when(e.funcs[i], c)
    OBVIOUS
  <2> HIDE DEF funcs
  <2>4. QED
    BY <2>2, <2>3 DEF when, Conditioned
<1>8. QED
  <2> HIDE DEF funcs
  <2> QED BY <1>4, <1>5, <1>6, <1>7

\* What the nodes of a project are, by their kinds.
LEMMA NodeKinds ==
  ASSUME NEW node \in Nodes
  PROVE  /\ node.kind \in {"exports", "extend", "config", "constexpr", "runtime"}
         /\ node.kind = "exports" => node.services \in Seq(Types)
         /\ node.kind = "extend" => /\ node.by \in {"type", "name"}
                                    /\ node.target \in Types \cup Names
                                    /\ node.funcs \in Seq(Added)
         /\ node.kind = "constexpr" => node.holds \in BOOLEAN
         /\ node.kind = "runtime" => node.condition \in Conditions
  BY DEF Nodes

LEMMA ExtendedTypes ==
  ASSUME NEW node \in Nodes, NEW s \in Seq(Extensions)
  PROVE  config_extends(node, s) \in Seq(Extensions)
<1>1. CASE node.kind = "exports"
  <2>1. PICK n \in Nat : node.services \in [1 .. n -> Types]
    BY <1>1, NodeKinds
  <2>2. \A i \in 1 .. n : [by |-> "type", target |-> node.services[i], funcs |-> <<>>] \in Extensions
    <3>1. <<>> \in Seq(Conditioned)
      OBVIOUS
    <3>2. QED
      BY <2>1, <3>1 DEF Extensions
  <2> HIDE DEF Extensions
  <2>3. exported_extends(node) \in [1 .. n -> Extensions]
    BY <2>1, <2>2 DEF exported_extends
  <2>4. QED
    BY <1>1, <2>3 DEF config_extends
<1>2. CASE node.kind = "extend"
  <2>1. node.funcs \in Seq(Conditioned)
    <3>1. node.funcs \in Seq(Added)
      BY <1>2, NodeKinds
    <3>2. Added \subseteq Conditioned
      BY DEF Added, Conditioned
    <3>3. QED
      BY <3>1, <3>2
  <2>2. [by |-> node.by, target |-> node.target, funcs |-> node.funcs] \in Extensions
    <3> DEFINE S == Seq(Conditioned)
               T == Types \cup Names
    <3>1. node.funcs \in S /\ node.by \in {"type", "name"} /\ node.target \in T
      BY <1>2, <2>1, NodeKinds
    <3>2. QED
      <4> HIDE DEF S, T
      <4>1. [by |-> node.by, target |-> node.target, funcs |-> node.funcs]
              \in [by : {"type", "name"}, target : T, funcs : S]
        BY <3>1
      <4>2. QED
        BY <4>1 DEF S, T, Extensions
  <2> HIDE DEF Extensions
  <2>3. QED
    BY <1>2, <2>2 DEF config_extends
<1>3. CASE node.kind = "runtime"
  <2>1. PICK n \in Nat : s \in [1 .. n -> Extensions]
    <3> HIDE DEF Extensions
    <3> QED OBVIOUS
  <2>2. \A i \in 1 .. n : conditional(s[i], node.condition) \in Extensions
    <3> HIDE DEF Extensions
    <3> QED BY <1>3, <2>1, NodeKinds, ConditionalIs
  <2>3. [i \in 1 .. n |-> conditional(s[i], node.condition)] \in [1 .. n -> Extensions]
    <3> HIDE DEF Extensions
    <3> QED BY <2>2
  <2>4. config_extends(node, s) = [i \in 1 .. n |-> conditional(s[i], node.condition)]
    <3> HIDE DEF Extensions
    <3> QED BY <1>3, <2>1 DEF config_extends
  <2>5. QED
    <3> HIDE DEF Extensions
    <3> QED BY <2>3, <2>4
<1>4. CASE node.kind \in {"config", "constexpr"}
  <2> HIDE DEF Extensions
  <2>1. <<>> \in Seq(Extensions)
    OBVIOUS
  <2>2. QED
    BY <1>4, <2>1 DEF config_extends
<1>5. QED
  BY <1>1, <1>2, <1>3, <1>4, NodeKinds

\* What an item extends, if g has what its parts extend.
ExtendsAt(p, n, g) == config_extends(p.node[n], FlattenSeq(Gathered(p, n, g)))

LEMMA ExtendsAre ==
  ASSUME NEW p \in Projects
  PROVE  /\ extends_in(p) \in [DOMAIN p.node -> Seq(Extensions)]
         /\ \A n \in DOMAIN p.node : extends_in(p)[n] = ExtendsAt(p, n, extends_in(p))
<1> DEFINE X == DOMAIN p.node
           V == Seq(Extensions)
           height == [n \in X |-> Len(p.node) - n]
           value == [n \in X |-> [g \in [PartsIn(p)[n] -> V] |-> ExtendsAt(p, n, g)]]
           F == extends_in(p)
<1>1. Parted(X, height, PartsIn(p))
  BY TreeParted
<1>2. \A n \in X : PartsIn(p)[n] = Under(p, n)
  BY DEF PartsIn
<1>3. Valued(X, PartsIn(p), V, value)
  <2>1. ASSUME NEW n \in X, NEW g \in [PartsIn(p)[n] -> V] PROVE value[n][g] \in V
    <3>1. value[n][g] = ExtendsAt(p, n, g)
      <4> HIDE DEF V
      <4> QED OBVIOUS
    <3>2. FlattenSeq(Gathered(p, n, g)) \in V
      <4>1. Gathered(p, n, g) \in Seq(V)
        <5> HIDE DEF V
        <5> QED BY <1>2, GatheredTypes
      <4>2. QED
        BY <4>1, FlattenPlaces
    <3>3. p.node[n] \in Nodes
      BY NodeTypes
    <3>4. QED
      BY <3>1, <3>2, <3>3, ExtendedTypes DEF ExtendsAt
  <2>2. QED
    BY <2>1 DEF Valued
<1>4. V # {}
  <2>1. <<>> \in V
    OBVIOUS
  <2>2. QED
    BY <2>1
<1>5. PICK f \in [X -> V] : \A n \in X : FollowsAt(f, PartsIn(p), value, n)
  <2> HIDE DEF X, V, height, value
  <2> QED
    BY <1>1, <1>3, <1>4, RecursionExists
<1>6. ASSUME NEW h, NEW n \in X, [c \in PartsIn(p)[n] |-> h[c]] \in [PartsIn(p)[n] -> V]
      PROVE  value[n][[c \in PartsIn(p)[n] |-> h[c]]] = ExtendsAt(p, n, h)
  <2> DEFINE g == [c \in PartsIn(p)[n] |-> h[c]]
  <2>1. value[n][g] = ExtendsAt(p, n, g)
    <3> HIDE DEF V, g
    <3> QED BY <1>6 DEF g
  <2>2. ExtendsAt(p, n, g) = ExtendsAt(p, n, h)
    BY GatheredSame DEF ExtendsAt
  <2>3. QED
    BY <2>1, <2>2
<1>7. ASSUME NEW n \in X PROVE f[n] = ExtendsAt(p, n, f)
  <2>1. \A c \in PartsIn(p)[n] : c \in X
    BY <1>2, NodeTypes
  <2> HIDE DEF V, X, value
  <2>2. QED
    BY <1>5, <1>6, <2>1 DEF FollowsAt
<1>8. f = [n \in X |-> ExtendsAt(p, n, f)]
  <2> HIDE DEF V
  <2> QED BY <1>7
<1>9. F = [n \in X |-> ExtendsAt(p, n, F)]
  <2> HIDE DEF V, value
  <2> QED BY <1>8, Zenon DEF ExtendsAt, Gathered, extends_in
<1>10. \A n \in X : F[n] = f[n]
  <2>1. ASSUME NEW n \in X, \A c \in PartsIn(p)[n] : F[c] = f[c]
        PROVE  F[n] = f[n]
    <3>1. Gathered(p, n, F) = Gathered(p, n, f)
      <4>1. \A i \in DOMAIN Parts(p.node[n]) : Parts(p.node[n])[i] \in PartsIn(p)[n]
        BY <1>2 DEF Under, Range
      <4> HIDE DEF F
      <4>2. QED
        BY <2>1, <4>1 DEF Gathered
    <3>2. F[n] = ExtendsAt(p, n, F)
      <4> HIDE DEF V, value
      <4> QED BY <1>9
    <3>3. QED
      BY <1>7, <3>1, <3>2 DEF ExtendsAt
  <2> HIDE DEF F, V, X, value, height
  <2>2. QED
    BY <1>1, <2>1, RecursionAgrees
<1>11. F \in [X -> V]
  <2>1. F = [n \in X |-> F[n]]
    <3> HIDE DEF V, value
    <3> QED BY <1>9
  <2> HIDE DEF F, V, X, value
  <2>2. QED
    BY <1>10, <2>1
<1>12. QED
  <2> HIDE DEF V, value
  <2> QED BY <1>9, <1>11 DEF V

\* What is above an item, if g is what is above the item it is part of.
AboveAt(p, m, g) == UNION {{q} \cup g[q] : q \in {q \in DOMAIN p.node : m \in Under(p, q)}}

LEMMA AboveIs ==
  ASSUME NEW p \in Projects, NEW m \in DOMAIN p.node
  PROVE  Above(p, m) = AboveAt(p, m, AboveAll(p)) /\ Above(p, m) \subseteq DOMAIN p.node
<1> DEFINE X == DOMAIN p.node
           V == SUBSET X
           height == [n \in X |-> n]
           value == [n \in X |-> [g \in [WholesIn(p)[n] -> V] |-> AboveAt(p, n, g)]]
           F == AboveAll(p)
<1>1. Parted(X, height, WholesIn(p))
  BY TreeRaised
<1>2. \A n \in X : WholesIn(p)[n] = {q \in X : n \in Under(p, q)}
  BY DEF WholesIn
<1>3. Valued(X, WholesIn(p), V, value)
  BY <1>2 DEF Valued, AboveAt
<1>4. PICK f \in [X -> V] : \A n \in X : FollowsAt(f, WholesIn(p), value, n)
  <2>1. V # {}
    OBVIOUS
  <2> HIDE DEF X, V, height, value
  <2> QED
    BY <1>1, <1>3, <2>1, RecursionExists
<1>5. ASSUME NEW n \in X PROVE f[n] = AboveAt(p, n, f)
  <2> DEFINE g == [c \in WholesIn(p)[n] |-> f[c]]
  <2>1. g \in [WholesIn(p)[n] -> V]
    <3> HIDE DEF V
    <3> QED BY <1>2
  <2>2. f[n] = AboveAt(p, n, g)
    BY <1>4, <2>1 DEF FollowsAt
  <2>3. AboveAt(p, n, g) = AboveAt(p, n, f)
    BY <1>2 DEF AboveAt
  <2>4. QED
    BY <2>2, <2>3
<1>6. f = [n \in X |-> AboveAt(p, n, f)]
  BY <1>5
<1>7. F = [n \in X |-> AboveAt(p, n, F)]
  <2> HIDE DEF value
  <2> QED BY <1>6, Zenon DEF AboveAt, AboveAll
<1>8. \A n \in X : F[n] = f[n]
  <2>1. ASSUME NEW n \in X, \A c \in WholesIn(p)[n] : F[c] = f[c]
        PROVE  F[n] = f[n]
    <3>1. AboveAt(p, n, F) = AboveAt(p, n, f)
      <4> HIDE DEF F
      <4> QED BY <1>2, <2>1 DEF AboveAt
    <3>2. F[n] = AboveAt(p, n, F)
      <4> HIDE DEF V, value
      <4> QED BY <1>7
    <3>3. QED
      BY <1>5, <3>1, <3>2
  <2> HIDE DEF F, V, X, value, height
  <2>2. QED
    BY <1>1, <2>1, RecursionAgrees
<1>9. QED
  <2> HIDE DEF value
  <2> QED BY <1>7, <1>8 DEF Above

\* An item is part of one item, in one place.
LEMMA OnePlace ==
  ASSUME NEW p \in Projects, NEW n \in DOMAIN p.node, NEW q \in DOMAIN p.node
  PROVE  /\ \A i \in DOMAIN Parts(p.node[n]), j \in DOMAIN Parts(p.node[q]) :
              Parts(p.node[n])[i] = Parts(p.node[q])[j] => n = q /\ i = j
         /\ \A c \in Under(p, n) : c \in Under(p, q) => q = n
<1>1. ASSUME NEW i \in DOMAIN Parts(p.node[n]), NEW j \in DOMAIN Parts(p.node[q]),
             Parts(p.node[n])[i] = Parts(p.node[q])[j]
      PROVE  n = q /\ i = j
  <2>1. IsTree(p)
    BY ProjectTypes
  <2>2. QED
    BY <1>1, <2>1 DEF IsTree
<1>2. QED
  BY <1>1 DEF Under, Range

LEMMA PartAbove ==
  ASSUME NEW p \in Projects, NEW n \in DOMAIN p.node, NEW c \in Under(p, n)
  PROVE  Above(p, c) = {n} \cup Above(p, n)
<1>1. c \in DOMAIN p.node
  BY NodeTypes
<1>2. {q \in DOMAIN p.node : c \in Under(p, q)} = {n}
  <2>1. ASSUME NEW q \in DOMAIN p.node, c \in Under(p, q) PROVE q = n
    BY <2>1, OnePlace
  <2>2. QED
    BY <2>1
<1>3. QED
  BY <1>1, <1>2, AboveIs DEF AboveAt, Above

LEMMA RootAlone ==
  ASSUME NEW p \in Projects
  PROVE  /\ p.root \in DOMAIN p.node
         /\ Above(p, p.root) = {}
         /\ \A m \in DOMAIN p.node : m = p.root \/ \E n \in DOMAIN p.node : m \in Under(p, n)
<1>1. p.root \in DOMAIN p.node
      /\ \A m \in DOMAIN p.node : m = p.root \/ \E n \in DOMAIN p.node : m \in Under(p, n)
  BY ProjectTypes DEF IsTree, Under
<1>2. DOMAIN p.node = 1 .. Len(p.node) /\ Len(p.node) \in Nat
  BY ProjectTypes
<1>3. p.root = 1
  <2>1. 1 \in DOMAIN p.node
    BY <1>1, <1>2
  <2>2. \A n \in DOMAIN p.node : 1 \notin Under(p, n)
    <3>1. TAKE n \in DOMAIN p.node
    <3>2. n \in Nat /\ n >= 1 /\ \A m \in Under(p, n) : n < m
      BY <1>2, NodeTypes
    <3>3. QED
      BY <3>2
  <2>3. QED
    BY <1>1, <2>1, <2>2
<1>4. \A n \in DOMAIN p.node : p.root \notin Under(p, n)
  <2>1. TAKE n \in DOMAIN p.node
  <2>2. n \in Nat /\ n >= 1 /\ \A m \in Under(p, n) : n < m
    BY <1>2, NodeTypes
  <2>3. QED
    BY <1>3, <2>2
<1>5. Above(p, p.root) = {}
  BY <1>1, <1>4, AboveIs DEF AboveAt
<1>6. QED
  BY <1>1, <1>5

\* Every item but the root has exactly one item it is part of.
LEMMA AboveCases ==
  ASSUME NEW p \in Projects, NEW m \in DOMAIN p.node
  PROVE  \/ m = p.root /\ Above(p, m) = {}
         \/ \E n \in DOMAIN p.node : m \in Under(p, n) /\ n < m /\ Above(p, m) = {n} \cup Above(p, n)
<1>1. CASE m = p.root
  BY <1>1, RootAlone
<1>2. ASSUME NEW n \in DOMAIN p.node, m \in Under(p, n)
      PROVE  n < m /\ Above(p, m) = {n} \cup Above(p, n)
  BY <1>2, PartAbove, NodeTypes
<1>3. QED
  BY <1>1, <1>2, RootAlone

\* What is above an item has a lower number, and is above all below it.
LEMMA AboveOrder ==
  ASSUME NEW p \in Projects, NEW m \in DOMAIN p.node
  PROVE  \A q \in Above(p, m) : q \in DOMAIN p.node /\ q < m /\ Above(p, q) \subseteq Above(p, m)
<1> DEFINE T == {k \in DOMAIN p.node : ~\A q \in Above(p, k) :
                                          q \in DOMAIN p.node /\ q < k /\ Above(p, q) \subseteq Above(p, k)}
<1>1. SUFFICES ASSUME T # {} PROVE FALSE
  OBVIOUS
<1>2. PICK k \in T : \A l \in T : k <= l
  <2>1. T \in SUBSET Nat
    BY NodeTypes
  <2> HIDE DEF T
  <2>2. QED
    BY <1>1, <2>1, LeastOf
<1>3. PICK n \in DOMAIN p.node : k \in Under(p, n) /\ n < k /\ Above(p, k) = {n} \cup Above(p, n)
  BY <1>2, AboveCases
<1>4. n \in Nat /\ k \in Nat /\ n \notin T
  <2>1. n \in Nat /\ k \in Nat
    BY <1>2, <1>3, NodeTypes
  <2>2. ~(k <= n)
    BY <1>2, <1>3, <2>1
  <2> HIDE DEF T
  <2>3. QED
    BY <1>2, <2>1, <2>2
<1>5. \A q \in Above(p, n) : q \in DOMAIN p.node /\ q < n /\ Above(p, q) \subseteq Above(p, n)
  BY <1>4
<1>6. \A q \in Above(p, n) : q \in Nat
  BY <1>5, NodeTypes
<1>7. \A q \in Above(p, n) : q < k
  BY <1>3, <1>4, <1>5, <1>6
<1>8. \A q \in Above(p, k) : q \in DOMAIN p.node /\ q < k /\ Above(p, q) \subseteq Above(p, k)
  <2> HIDE DEF T
  <2> QED BY <1>3, <1>5, <1>7
<1>9. QED
  BY <1>8

\* Of two items above a third, one is above the other.
LEMMA AboveChain ==
  ASSUME NEW p \in Projects, NEW m \in DOMAIN p.node,
         NEW q \in Above(p, m), NEW r \in Above(p, m)
  PROVE  q = r \/ q \in Above(p, r) \/ r \in Above(p, q)
<1> DEFINE Chained(k) == \A a, b \in Above(p, k) : a = b \/ a \in Above(p, b) \/ b \in Above(p, a)
           T == {k \in DOMAIN p.node : ~Chained(k)}
<1>1. SUFFICES ASSUME T # {} PROVE FALSE
  OBVIOUS
<1>2. PICK k \in T : \A l \in T : k <= l
  <2>1. T \in SUBSET Nat
    BY NodeTypes
  <2> HIDE DEF T
  <2>2. QED
    BY <1>1, <2>1, LeastOf
<1>3. PICK n \in DOMAIN p.node : n < k /\ Above(p, k) = {n} \cup Above(p, n)
  BY <1>2, AboveCases
<1>4. n \in Nat /\ k \in Nat /\ n \notin T
  <2>1. n \in Nat /\ k \in Nat
    BY <1>2, <1>3, NodeTypes
  <2>2. ~(k <= n)
    BY <1>2, <1>3, <2>1
  <2> HIDE DEF T
  <2>3. QED
    BY <1>2, <2>1, <2>2
<1>5. Chained(k)
  BY <1>3, <1>4
<1>6. QED
  BY <1>5

\* An item and what is below it.
Within(p, n) == {m \in DOMAIN p.node : m = n \/ n \in Above(p, m)}

\* What is around m within n.
Between(p, n, m) == Above(p, m) \cap Within(p, n)

LEMMA WithinRoot ==
  ASSUME NEW p \in Projects
  PROVE  /\ Within(p, p.root) = DOMAIN p.node
         /\ \A m \in DOMAIN p.node : Between(p, p.root, m) = Above(p, m)
<1> DEFINE T == DOMAIN p.node \ Within(p, p.root)
<1>1. T = {}
  <2>1. SUFFICES ASSUME T # {} PROVE FALSE
    OBVIOUS
  <2>2. PICK k \in T : \A l \in T : k <= l
    <3>1. T \in SUBSET Nat
      BY NodeTypes
    <3> HIDE DEF T
    <3>2. QED
      BY <2>1, <3>1, LeastOf
  <2>3. k # p.root
    BY <2>2 DEF Within
  <2>4. PICK n \in DOMAIN p.node : n < k /\ Above(p, k) = {n} \cup Above(p, n)
    BY <2>2, <2>3, AboveCases
  <2>5. n \in Nat /\ k \in Nat /\ n \notin T
    BY <2>2, <2>4, NodeTypes
  <2>6. p.root \in Above(p, k)
    BY <2>4, <2>5 DEF Within
  <2>7. QED
    BY <2>2, <2>6 DEF Within
<1>2. Within(p, p.root) = DOMAIN p.node
  BY <1>1 DEF Within
<1>3. QED
  BY <1>2, AboveIs DEF Between

LEMMA WithinPart ==
  ASSUME NEW p \in Projects, NEW n \in DOMAIN p.node, NEW c \in Under(p, n)
  PROVE  /\ Within(p, c) \subseteq Within(p, n) \ {n}
         /\ \A m \in Within(p, c) : Between(p, n, m) = {n} \cup Between(p, c, m)
         /\ \A d \in Under(p, n) : d # c => Within(p, c) \cap Within(p, d) = {}
<1>1. c \in DOMAIN p.node /\ c \in Nat /\ n \in Nat /\ n < c /\ Above(p, c) = {n} \cup Above(p, n)
  BY NodeTypes, PartAbove
<1>2. ASSUME NEW m \in Within(p, c) PROVE n \in Above(p, m) /\ n # m /\ m \in DOMAIN p.node
  <2>1. n \in Above(p, m) /\ m \in DOMAIN p.node
    BY <1>1, AboveOrder DEF Within
  <2>2. n < m /\ n \in Nat
    BY <1>1, <2>1, AboveOrder
  <2>3. QED
    BY <2>1, <2>2
<1>3. ASSUME NEW q \in Above(p, c), q \in Within(p, n) PROVE q = n
  <2>1. q = n \/ (q \in Above(p, n) /\ n \in Above(p, q))
    BY <1>1, <1>3 DEF Within
  <2>2. ASSUME q \in Above(p, n), n \in Above(p, q) PROVE FALSE
    <3>1. q \in DOMAIN p.node /\ q < n
      BY <2>2, AboveOrder
    <3>2. n < q /\ q \in Nat
      BY <2>2, <3>1, AboveOrder, NodeTypes
    <3>3. QED
      BY <1>1, <3>1, <3>2
  <2>3. QED
    BY <2>1, <2>2
<1>4. ASSUME NEW m \in Within(p, c) PROVE Between(p, n, m) = {n} \cup Between(p, c, m)
  <2>1. ASSUME NEW q \in Between(p, n, m), q # n PROVE q \in Between(p, c, m)
    <3>1. q \in Above(p, m) /\ q \in Within(p, n) /\ q \in DOMAIN p.node
      BY <1>2, AboveIs DEF Between, Within
    <3>2. m # c
      BY <1>3, <2>1, <3>1
    <3>3. c \in Above(p, m) /\ m \in DOMAIN p.node
      BY <3>2 DEF Within
    <3>4. q = c \/ q \in Above(p, c) \/ c \in Above(p, q)
      BY <3>1, <3>3, AboveChain
    <3>5. q = c \/ c \in Above(p, q)
      BY <1>3, <2>1, <3>1, <3>4
    <3>6. QED
      BY <3>1, <3>5 DEF Between, Within
  <2>2. n \in Between(p, n, m)
    BY <1>2 DEF Between, Within
  <2>3. Between(p, c, m) \subseteq Between(p, n, m)
    BY <1>2 DEF Between, Within
  <2>4. QED
    BY <2>1, <2>2, <2>3
<1>5. ASSUME NEW d \in Under(p, n), d # c, NEW m \in Within(p, c), m \in Within(p, d) PROVE FALSE
  <2>1. d \in DOMAIN p.node /\ d \in Nat /\ n < d /\ Above(p, d) = {n} \cup Above(p, n)
    BY NodeTypes, PartAbove
  <2>2. d \notin Above(p, c) /\ c \notin Above(p, d)
    <3>1. \A q \in Above(p, n) : q < n /\ q \in Nat
      BY AboveOrder, NodeTypes
    <3>2. QED
      BY <1>1, <2>1, <3>1
  <2>3. c \in Above(p, m) /\ d \in Above(p, m) /\ m \in DOMAIN p.node
    BY <1>5, <2>2 DEF Within
  <2>4. QED
    BY <1>5, <2>2, <2>3, AboveChain
<1>6. QED
  BY <1>2, <1>4, <1>5 DEF Within

\* What is below an item is within one of its parts.
LEMMA WithinParts ==
  ASSUME NEW p \in Projects, NEW n \in DOMAIN p.node, NEW m \in Within(p, n), m # n
  PROVE  \E c \in Under(p, n) : m \in Within(p, c)
<1> DEFINE Bad == {k \in Within(p, n) \ {n} : \A c \in Under(p, n) : k \notin Within(p, c)}
<1>1. SUFFICES ASSUME Bad # {} PROVE FALSE
  OBVIOUS
<1>2. PICK k \in Bad : \A l \in Bad : k <= l
  <2>1. Bad \in SUBSET Nat
    BY NodeTypes DEF Within
  <2> HIDE DEF Bad
  <2>2. QED
    BY <1>1, <2>1, LeastOf
<1>3. k \in DOMAIN p.node /\ n \in Above(p, k) /\ k # n
  BY <1>2 DEF Within
<1>4. PICK q \in DOMAIN p.node : k \in Under(p, q) /\ q < k /\ Above(p, k) = {q} \cup Above(p, q)
  BY <1>3, AboveCases
<1>5. q \in Nat /\ k \in Nat /\ q \notin Bad
  <2>1. q \in Nat /\ k \in Nat
    BY <1>2, <1>3, <1>4, NodeTypes DEF Within
  <2>2. ~(k <= q)
    BY <1>2, <1>3, <1>4, <2>1
  <2> HIDE DEF Bad
  <2>3. QED
    BY <1>2, <2>1, <2>2
<1>6. CASE q = n
  BY <1>2, <1>3, <1>4, <1>6 DEF Within
<1>7. CASE q # n
  <2>1. q \in Within(p, n)
    BY <1>3, <1>4, <1>7 DEF Within
  <2>2. PICK c \in Under(p, n) : q \in Within(p, c)
    BY <1>5, <1>7, <2>1
  <2>3. k \in Within(p, c)
    BY <1>3, <1>4, <2>2 DEF Within
  <2>4. QED
    BY <1>2, <2>3
<1>8. QED
  BY <1>6, <1>7

----------------------------------------------------------------------------
(* What the extensions of an item are made of. *)

ConditionsIn(p, around) == {p.node[q].condition : q \in {r \in around : p.node[r].kind = "runtime"}}
Alive(p, around) == \A q \in around : p.node[q].kind = "constexpr" => p.node[q].holds

\* Function k of the extension e is function j of item m, with what is around it.
CameFrom(p, e, k, m, j, around) ==
  /\ p.node[m].kind = "extend" /\ j \in DOMAIN p.node[m].funcs
  /\ e.by = p.node[m].by /\ e.target = p.node[m].target
  /\ e.funcs[k].func = p.node[m].funcs[j].func
  /\ e.funcs[k].conditions = ConditionsIn(p, around)
  /\ Alive(p, around)

\* All functions of the extensions come from items within n, but out.
AllFrom(p, es, n, out) ==
  \A x \in DOMAIN es : \A k \in DOMAIN es[x].funcs :
    \E m \in Within(p, n) \ out : \E j \in DOMAIN p.node[m].funcs :
      CameFrom(p, es[x], k, m, j, Between(p, n, m) \ out)

\* All functions of items within n that are not left out are there.
AllThere(p, es, n, out) ==
  \A m \in Within(p, n) \ out :
    p.node[m].kind = "extend" /\ Alive(p, Between(p, n, m) \ out) =>
      \A j \in DOMAIN p.node[m].funcs : \E x \in DOMAIN es : \E k \in DOMAIN es[x].funcs :
        CameFrom(p, es[x], k, m, j, Between(p, n, m) \ out)

Distinct(es) ==
  \A x, y \in DOMAIN es : \A k \in DOMAIN es[x].funcs, l \in DOMAIN es[y].funcs :
    es[x].funcs[k].func = es[y].funcs[l].func => x = y /\ k = l

Gathers(p, es, n, out) == AllFrom(p, es, n, out) /\ AllThere(p, es, n, out) /\ Distinct(es)

LEMMA GatheredExtends ==
  ASSUME NEW p \in Projects, NEW n \in DOMAIN p.node
  PROVE  Gathered(p, n, extends_in(p)) \in Seq(Seq(Extensions))
<1> DEFINE E == extends_in(p)
           V == Seq(Extensions)
           g == [c \in Under(p, n) |-> E[c]]
<1>1. g \in [Under(p, n) -> V]
  <2> HIDE DEF V
  <2>1. E \in [DOMAIN p.node -> V]
    BY ExtendsAre DEF V
  <2>2. Under(p, n) \subseteq DOMAIN p.node
    BY NodeTypes
  <2> HIDE DEF E
  <2>3. QED
    BY <2>1, <2>2
<1>2. Gathered(p, n, g) \in Seq(V)
  <2> HIDE DEF V, g
  <2> QED BY <1>1, GatheredTypes
<1>3. Gathered(p, n, g) = Gathered(p, n, E)
  <2>1. \A i \in DOMAIN Parts(p.node[n]) : Parts(p.node[n])[i] \in Under(p, n)
    BY DEF Under, Range
  <2> HIDE DEF E
  <2>2. QED
    BY <2>1 DEF Gathered
<1>4. QED
  BY <1>2, <1>3

LEMMA GathersParts ==
  ASSUME NEW p \in Projects, NEW n \in DOMAIN p.node,
         \A c \in Under(p, n) : Gathers(p, extends_in(p)[c], c, {})
  PROVE  Gathers(p, FlattenSeq(Gathered(p, n, extends_in(p))), n, {n})
<1> DEFINE E == extends_in(p)
           ss == Gathered(p, n, E)
           F == FlattenSeq(ss)
           part(i) == Parts(p.node[n])[i]
<1>1. ss \in Seq(Seq(Extensions))
  BY GatheredExtends
<1>2. PICK row \in [DOMAIN F -> Nat], col \in [DOMAIN F -> Nat] : PlacedBy(F, ss, row, col)
  <2> HIDE DEF ss
  <2>1. Placed(F, ss)
    BY <1>1, FlattenPlaces
  <2>2. QED
    BY <2>1 DEF Placed
<1>3. /\ DOMAIN ss = DOMAIN Parts(p.node[n])
      /\ \A i \in DOMAIN ss : ss[i] = E[part(i)] /\ part(i) \in Under(p, n)
  BY DEF Gathered, Under, Range
<1>4. ASSUME NEW i \in DOMAIN ss, NEW m \in Within(p, part(i))
      PROVE  /\ m \in Within(p, n) \ {n}
             /\ Between(p, n, m) \ {n} = Between(p, part(i), m) \ {}
  <2>1. part(i) \in Under(p, n)
    BY <1>3
  <2>2. n \notin Within(p, part(i)) /\ m \in Within(p, n) \ {n}
    BY <2>1, WithinPart
  <2>3. Between(p, n, m) = {n} \cup Between(p, part(i), m)
    BY <2>1, WithinPart
  <2>4. n \notin Between(p, part(i), m)
    BY <2>2 DEF Between
  <2>5. QED
    BY <2>2, <2>3, <2>4
<1>5. \A x \in DOMAIN F : row[x] \in DOMAIN ss /\ col[x] \in DOMAIN E[part(row[x])]
                          /\ F[x] = E[part(row[x])][col[x]]
  <2> HIDE DEF F, ss, E
  <2> QED BY <1>2, <1>3 DEF PlacedBy
<1>6. ASSUME NEW x \in DOMAIN F, NEW k \in DOMAIN F[x].funcs
      PROVE  \E m \in Within(p, part(row[x])) : \E j \in DOMAIN p.node[m].funcs :
               CameFrom(p, F[x], k, m, j, Between(p, part(row[x]), m) \ {})
  <2>1. AllFrom(p, E[part(row[x])], part(row[x]), {})
    BY <1>3, <1>5 DEF Gathers
  <2> HIDE DEF F, ss, E
  <2>2. QED
    BY <1>5, <2>1 DEF AllFrom
<1>7. AllFrom(p, F, n, {n})
  <2> HIDE DEF F, ss, E
  <2>1. ASSUME NEW x \in DOMAIN F, NEW k \in DOMAIN F[x].funcs
        PROVE  \E m \in Within(p, n) \ {n} : \E j \in DOMAIN p.node[m].funcs :
                 CameFrom(p, F[x], k, m, j, Between(p, n, m) \ {n})
    <3>1. PICK m \in Within(p, part(row[x])) : \E j \in DOMAIN p.node[m].funcs :
                 CameFrom(p, F[x], k, m, j, Between(p, part(row[x]), m) \ {})
      BY <1>6
    <3>2. m \in Within(p, n) \ {n} /\ Between(p, n, m) \ {n} = Between(p, part(row[x]), m) \ {}
      BY <1>4, <1>5
    <3>3. QED
      BY <3>1, <3>2
  <2>2. QED
    BY <2>1 DEF AllFrom
<1>8. AllThere(p, F, n, {n})
  <2>1. ASSUME NEW m \in Within(p, n) \ {n}, p.node[m].kind = "extend",
               Alive(p, Between(p, n, m) \ {n}), NEW j \in DOMAIN p.node[m].funcs
        PROVE  \E x \in DOMAIN F : \E k \in DOMAIN F[x].funcs :
                 CameFrom(p, F[x], k, m, j, Between(p, n, m) \ {n})
    <3>1. PICK c \in Under(p, n) : m \in Within(p, c)
      BY WithinParts
    <3>2. PICK i \in DOMAIN ss : part(i) = c
      BY <1>3 DEF Under, Range
    <3>3. AllThere(p, E[c], c, {})
      BY DEF Gathers
    <3>4. Between(p, n, m) \ {n} = Between(p, c, m) \ {}
      BY <1>4, <3>1, <3>2
    <3> HIDE DEF F, ss, E
    <3>5. PICK y \in DOMAIN E[c] : \E k \in DOMAIN E[c][y].funcs :
                 CameFrom(p, E[c][y], k, m, j, Between(p, c, m) \ {})
      BY <2>1, <3>1, <3>3, <3>4 DEF AllThere
    <3>6. y \in DOMAIN ss[i]
      BY <1>3, <3>2
    <3>7. PICK x \in DOMAIN F : row[x] = i /\ col[x] = y
      BY <1>2, <3>6 DEF PlacedBy
    <3>8. F[x] = E[c][y]
      BY <1>5, <3>2, <3>7
    <3>9. QED
      BY <3>4, <3>5, <3>8
  <2> HIDE DEF F
  <2>2. QED
    BY <2>1 DEF AllThere
<1>9. Distinct(F)
  <2> HIDE DEF F, ss
  <2>1. ASSUME NEW x \in DOMAIN F, NEW y \in DOMAIN F,
               NEW k \in DOMAIN F[x].funcs, NEW l \in DOMAIN F[y].funcs,
               F[x].funcs[k].func = F[y].funcs[l].func
        PROVE  x = y /\ k = l
    <3>1. PICK m \in Within(p, part(row[x])) : \E j \in DOMAIN p.node[m].funcs :
                 CameFrom(p, F[x], k, m, j, Between(p, part(row[x]), m) \ {})
      BY <1>6
    <3>2. PICK o \in Within(p, part(row[y])) : \E j \in DOMAIN p.node[o].funcs :
                 CameFrom(p, F[y], l, o, j, Between(p, part(row[y]), o) \ {})
      BY <1>6
    <3>3. m = o
      <4>1. m \in DOMAIN p.node /\ o \in DOMAIN p.node /\ AddedOnce(p)
        BY ProjectTypes DEF Within
      <4>2. QED
        BY <2>1, <3>1, <3>2, <4>1 DEF AddedOnce, CameFrom
    <3>4. part(row[x]) = part(row[y])
      <4>1. part(row[x]) \in Under(p, n) /\ part(row[y]) \in Under(p, n)
        BY <1>3, <1>5
      <4>2. QED
        BY <3>1, <3>2, <3>3, <4>1, WithinPart
    <3>5. row[x] = row[y]
      <4>1. row[x] \in DOMAIN Parts(p.node[n]) /\ row[y] \in DOMAIN Parts(p.node[n])
        BY <1>3, <1>5
      <4>2. QED
        BY <3>4, <4>1, OnePlace
    <3>6. Distinct(E[part(row[x])])
      BY <1>3, <1>5 DEF Gathers
    <3>7. col[x] = col[y] /\ k = l
      <4>1. PICK es : es = E[part(row[x])]
        OBVIOUS
      <4> HIDE DEF E, part
      <4>2. col[x] \in DOMAIN es /\ F[x] = es[col[x]]
        BY <1>5, <4>1
      <4>3. col[y] \in DOMAIN es /\ F[y] = es[col[y]]
        BY <1>5, <3>5, <4>1
      <4>4. Distinct(es)
        BY <3>6, <4>1
      <4>5. k \in DOMAIN es[col[x]].funcs /\ l \in DOMAIN es[col[y]].funcs
            /\ es[col[x]].funcs[k].func = es[col[y]].funcs[l].func
        BY <2>1, <4>2, <4>3
      <4>6. QED
        BY <4>2, <4>3, <4>4, <4>5 DEF Distinct
    <3>8. QED
      BY <1>2, <3>5, <3>7 DEF PlacedBy
  <2>2. QED
    BY <2>1 DEF Distinct
<1>10. QED
  BY <1>7, <1>8, <1>9 DEF Gathers

LEMMA WithinItself ==
  ASSUME NEW p \in Projects, NEW n \in DOMAIN p.node
  PROVE  /\ n \in Within(p, n) /\ Between(p, n, n) = {}
         /\ \A m \in Within(p, n) \ {n} :
              m \in DOMAIN p.node /\ Between(p, n, m) \ {} = {n} \cup (Between(p, n, m) \ {n})
         /\ Parts(p.node[n]) = <<>> => Within(p, n) = {n}
<1>1. n \in Within(p, n)
  BY DEF Within
<1>2. Between(p, n, n) = {}
  <2>1. SUFFICES ASSUME NEW q \in Above(p, n), q \in Within(p, n) PROVE FALSE
    BY DEF Between
  <2>2. q \in DOMAIN p.node /\ q < n /\ q \in Nat /\ n \in Nat
    BY AboveOrder, NodeTypes
  <2>3. n \in Above(p, q)
    BY <2>1, <2>2 DEF Within
  <2>4. n < q
    BY <2>2, <2>3, AboveOrder
  <2>5. QED
    BY <2>2, <2>4
<1>3. \A m \in Within(p, n) \ {n} : m \in DOMAIN p.node /\ n \in Between(p, n, m)
  BY <1>1 DEF Within, Between
<1>4. Parts(p.node[n]) = <<>> => Under(p, n) = {}
  BY DEF Under, Range
<1>5. Parts(p.node[n]) = <<>> => Within(p, n) = {n}
  BY <1>1, <1>4, WithinParts
<1>6. QED
  BY <1>1, <1>2, <1>3, <1>5

LEMMA GathersNext ==
  ASSUME NEW p \in Projects, NEW n \in DOMAIN p.node,
         \A c \in Under(p, n) : Gathers(p, extends_in(p)[c], c, {})
  PROVE  Gathers(p, extends_in(p)[n], n, {})
<1> DEFINE F == FlattenSeq(Gathered(p, n, extends_in(p)))
           E == extends_in(p)[n]
           node == p.node[n]
           inside(m) == Between(p, n, m) \ {n}
<1>1. Gathers(p, F, n, {n})
  BY GathersParts
<1>2. E = config_extends(node, F) /\ node \in Nodes
  BY ExtendsAre, NodeTypes DEF ExtendsAt
<1>3. \A m \in Within(p, n) \ {n} : Between(p, n, m) \ {} = {n} \cup inside(m)
  BY WithinItself
<1>4. \A m \in Within(p, n) \ {n} :
        ConditionsIn(p, Between(p, n, m) \ {})
          = IF node.kind = "runtime" THEN ConditionsIn(p, inside(m)) \cup {node.condition}
            ELSE ConditionsIn(p, inside(m))
  <2>1. TAKE m \in Within(p, n) \ {n}
  <2>2. PICK S : S = inside(m)
    OBVIOUS
  <2>3. Between(p, n, m) \ {} = {n} \cup S
    BY <1>3, <2>2
  <2>4. ConditionsIn(p, {n} \cup S)
          = IF node.kind = "runtime" THEN ConditionsIn(p, S) \cup {node.condition}
            ELSE ConditionsIn(p, S)
    BY DEF ConditionsIn
  <2>5. QED
    BY <2>2, <2>3, <2>4
<1>5. \A m \in Within(p, n) \ {n} :
        Alive(p, Between(p, n, m) \ {})
          <=> Alive(p, inside(m)) /\ (node.kind = "constexpr" => node.holds)
  <2>1. TAKE m \in Within(p, n) \ {n}
  <2>2. QED
    BY <1>3 DEF Alive
<1> HIDE DEF F
<1>6. CASE node.kind \in {"config", "constexpr"} /\ (node.kind = "constexpr" => node.holds)
  <2>1. E = F
    BY <1>2, <1>6 DEF config_extends
  <2>2. \A m \in Within(p, n) \ {n} :
          /\ ConditionsIn(p, Between(p, n, m) \ {}) = ConditionsIn(p, inside(m))
          /\ Alive(p, Between(p, n, m) \ {}) <=> Alive(p, inside(m))
    BY <1>4, <1>5, <1>6
  <2>3. \A m \in Within(p, n) \ {n} : \A e, k, j :
          CameFrom(p, e, k, m, j, inside(m)) <=> CameFrom(p, e, k, m, j, Between(p, n, m) \ {})
    BY <2>2 DEF CameFrom
  <2>4. node.kind # "extend"
    BY <1>6
  <2> HIDE DEF E
  <2>5. AllFrom(p, E, n, {})
    BY <1>1, <2>1, <2>3 DEF Gathers, AllFrom
  <2>6. AllThere(p, E, n, {})
    <3>1. ASSUME NEW m \in Within(p, n) \ {}, p.node[m].kind = "extend",
                 Alive(p, Between(p, n, m) \ {}), NEW j \in DOMAIN p.node[m].funcs
          PROVE  \E x \in DOMAIN E : \E k \in DOMAIN E[x].funcs :
                   CameFrom(p, E[x], k, m, j, Between(p, n, m) \ {})
      <4>1. m \in Within(p, n) \ {n}
        BY <2>4, <3>1
      <4>2. PICK x \in DOMAIN F : \E k \in DOMAIN F[x].funcs : CameFrom(p, F[x], k, m, j, inside(m))
        BY <1>1, <2>2, <3>1, <4>1 DEF Gathers, AllThere
      <4>3. QED
        BY <2>1, <2>3, <4>1, <4>2
    <3>2. QED
      BY <3>1 DEF AllThere
  <2>7. QED
    BY <1>1, <2>1, <2>5, <2>6 DEF Gathers, E
<1>7. CASE node.kind = "constexpr" /\ ~node.holds
  <2>1. E = <<>>
    BY <1>2, <1>7 DEF config_extends
  <2>2. \A m \in Within(p, n) : ~(p.node[m].kind = "extend" /\ Alive(p, Between(p, n, m) \ {}))
    BY <1>5, <1>7
  <2>3. DOMAIN E = {}
    BY <2>1
  <2> HIDE DEF E
  <2>4. AllThere(p, E, n, {})
    BY <2>2 DEF AllThere
  <2>5. QED
    BY <2>3, <2>4 DEF Gathers, AllFrom, Distinct, E
<1>8. CASE node.kind = "exports"
  <2>1. Within(p, n) = {n}
    BY <1>8, WithinItself DEF Parts
  <2>2. E = exported_extends(node)
    BY <1>2, <1>8 DEF config_extends
  <2>3. \A x \in DOMAIN E : DOMAIN E[x].funcs = {}
    BY <2>2 DEF exported_extends
  <2> HIDE DEF E
  <2>4. AllThere(p, E, n, {})
    BY <1>8, <2>1 DEF AllThere
  <2>5. QED
    BY <2>3, <2>4 DEF Gathers, AllFrom, Distinct, E
<1>9. CASE node.kind = "extend"
  <2> DEFINE e == [by |-> node.by, target |-> node.target, funcs |-> node.funcs]
  <2>1. Within(p, n) = {n} /\ Between(p, n, n) \ {} = {}
    BY <1>9, WithinItself DEF Parts
  <2>2. E = <<e>>
    BY <1>2, <1>9 DEF config_extends
  <2>3. DOMAIN E = {1} /\ E[1] = e /\ e.by = node.by /\ e.target = node.target /\ e.funcs = node.funcs
    BY <2>2
  <2>4. node.funcs \in Seq(Added) /\ \A j \in DOMAIN node.funcs : node.funcs[j].conditions = {}
    <3>1. node.funcs \in Seq(Added)
      BY <1>2, <1>9, NodeKinds
    <3>2. \A j \in DOMAIN node.funcs : node.funcs[j] \in Added
      BY <3>1
    <3>3. QED
      BY <3>1, <3>2 DEF Added
  <2>5. ConditionsIn(p, {}) = {} /\ Alive(p, {})
    BY DEF ConditionsIn, Alive
  <2> HIDE DEF E, e
  <2>6. \A j \in DOMAIN node.funcs : CameFrom(p, e, j, n, j, {})
    BY <1>9, <2>3, <2>4, <2>5 DEF CameFrom
  <2>7. AllFrom(p, E, n, {}) /\ AllThere(p, E, n, {})
    BY <2>1, <2>3, <2>6 DEF AllFrom, AllThere
  <2>8. Distinct(E)
    <3>1. AddedOnce(p)
      BY ProjectTypes
    <3>2. \A k, l \in DOMAIN node.funcs : node.funcs[k].func = node.funcs[l].func => k = l
      BY <1>9, <3>1 DEF AddedOnce
    <3>3. QED
      BY <2>3, <3>2 DEF Distinct
  <2>9. QED
    BY <2>7, <2>8 DEF Gathers, E
<1>10. CASE node.kind = "runtime"
  <2>1. E = [x \in DOMAIN F |-> conditional(F[x], node.condition)] /\ node.condition \in Conditions
    BY <1>2, <1>10, NodeKinds DEF config_extends
  <2>2. F \in Seq(Extensions)
    <3>1. Gathered(p, n, extends_in(p)) \in Seq(Seq(Extensions))
      BY GatheredExtends
    <3>2. QED
      BY <3>1, FlattenPlaces DEF F
  <2>3. ASSUME NEW x \in DOMAIN F
        PROVE  /\ E[x].by = F[x].by /\ E[x].target = F[x].target
               /\ DOMAIN E[x].funcs = DOMAIN F[x].funcs
               /\ \A k \in DOMAIN F[x].funcs :
                    /\ E[x].funcs[k].func = F[x].funcs[k].func
                    /\ E[x].funcs[k].conditions = F[x].funcs[k].conditions \cup {node.condition}
    <3>1. F[x] \in Extensions /\ E[x] = conditional(F[x], node.condition)
      BY <2>1, <2>2
    <3> HIDE DEF E
    <3>2. QED
      BY <2>1, <3>1, ConditionalIs
  <2>4. DOMAIN E = DOMAIN F
    BY <2>1
  <2> HIDE DEF E
  <2>5. ASSUME NEW m \in Within(p, n) \ {n}, NEW x \in DOMAIN F, NEW k \in DOMAIN F[x].funcs, NEW j,
               CameFrom(p, F[x], k, m, j, inside(m))
        PROVE  CameFrom(p, E[x], k, m, j, Between(p, n, m) \ {})
    <3>1. ConditionsIn(p, Between(p, n, m) \ {}) = ConditionsIn(p, inside(m)) \cup {node.condition}
      BY <1>4, <1>10
    <3>2. Alive(p, Between(p, n, m) \ {}) <=> Alive(p, inside(m))
      BY <1>5, <1>10
    <3>3. E[x].funcs[k].conditions = ConditionsIn(p, Between(p, n, m) \ {})
      <4>1. F[x].funcs[k].conditions = ConditionsIn(p, inside(m))
        BY <2>5 DEF CameFrom
      <4>2. E[x].funcs[k].conditions = F[x].funcs[k].conditions \cup {node.condition}
        BY <2>3
      <4> HIDE DEF inside, node
      <4>3. QED
        BY <3>1, <4>1, <4>2
    <3>4. E[x].funcs[k].func = p.node[m].funcs[j].func
      BY <2>3, <2>5 DEF CameFrom
    <3>5. Alive(p, Between(p, n, m) \ {})
      BY <2>5, <3>2 DEF CameFrom
    <3>6. QED
      BY <2>3, <2>5, <3>3, <3>4, <3>5 DEF CameFrom
  <2>6. AllFrom(p, E, n, {})
    <3>1. ASSUME NEW x \in DOMAIN E, NEW k \in DOMAIN E[x].funcs
          PROVE  \E m \in Within(p, n) \ {} : \E j \in DOMAIN p.node[m].funcs :
                   CameFrom(p, E[x], k, m, j, Between(p, n, m) \ {})
      <4>1. x \in DOMAIN F /\ k \in DOMAIN F[x].funcs
        BY <2>3, <2>4
      <4>2. PICK m \in Within(p, n) \ {n} : \E j \in DOMAIN p.node[m].funcs :
                   CameFrom(p, F[x], k, m, j, inside(m))
        BY <1>1, <4>1 DEF Gathers, AllFrom
      <4>3. QED
        BY <2>5, <4>1, <4>2
    <3>2. QED
      BY <3>1 DEF AllFrom
  <2>7. AllThere(p, E, n, {})
    <3>1. ASSUME NEW m \in Within(p, n) \ {}, p.node[m].kind = "extend",
                 Alive(p, Between(p, n, m) \ {}), NEW j \in DOMAIN p.node[m].funcs
          PROVE  \E x \in DOMAIN E : \E k \in DOMAIN E[x].funcs :
                   CameFrom(p, E[x], k, m, j, Between(p, n, m) \ {})
      <4>1. m \in Within(p, n) \ {n}
        BY <1>10, <3>1
      <4>2. Alive(p, inside(m))
        BY <1>5, <3>1, <4>1
      <4>3. PICK x \in DOMAIN F : \E k \in DOMAIN F[x].funcs : CameFrom(p, F[x], k, m, j, inside(m))
        BY <1>1, <3>1, <4>1, <4>2 DEF Gathers, AllThere
      <4>4. QED
        BY <2>3, <2>4, <2>5, <4>1, <4>3
    <3>2. QED
      BY <3>1 DEF AllThere
  <2>8. Distinct(E)
    <3>1. Distinct(F)
      BY <1>1 DEF Gathers
    <3>2. QED
      BY <2>3, <2>4, <3>1 DEF Distinct
  <2>9. QED
    BY <2>6, <2>7, <2>8 DEF Gathers, E
<1>11. QED
  BY <1>2, <1>6, <1>7, <1>8, <1>9, <1>10, NodeKinds

LEMMA GathersAll ==
  ASSUME NEW p \in Projects
  PROVE  Gathers(p, extends_tuple(p), p.root, {})
<1> DEFINE T == {n \in DOMAIN p.node : ~Gathers(p, extends_in(p)[n], n, {})}
<1>1. T = {}
  <2>1. SUFFICES ASSUME T # {} PROVE FALSE
    OBVIOUS
  <2>2. PICK n \in T : PartsIn(p)[n] \cap T = {}
    <3>1. T \in SUBSET (DOMAIN p.node)
      OBVIOUS
    <3> DEFINE height == [k \in DOMAIN p.node |-> Len(p.node) - k]
    <3>2. Parted(DOMAIN p.node, height, PartsIn(p))
      BY TreeParted
    <3> HIDE DEF T, height
    <3>3. QED
      BY <2>1, <3>1, <3>2, Lowest
  <2>3. n \in DOMAIN p.node /\ PartsIn(p)[n] = Under(p, n) /\ Under(p, n) \subseteq DOMAIN p.node
    BY NodeTypes DEF PartsIn
  <2>4. \A c \in Under(p, n) : Gathers(p, extends_in(p)[c], c, {})
    BY <2>2, <2>3
  <2>5. QED
    BY <2>2, <2>3, <2>4, GathersNext
<1>2. QED
  BY <1>1, RootAlone DEF extends_tuple

\* FlattenSeq has the items of its sequences.
LEMMA FlattenRange ==
  ASSUME NEW S, NEW ss \in Seq(Seq(S))
  PROVE  /\ \A v \in Range(FlattenSeq(ss)) : \E i \in DOMAIN ss : v \in Range(ss[i])
         /\ \A i \in DOMAIN ss : Range(ss[i]) \subseteq Range(FlattenSeq(ss))
<1> DEFINE F == FlattenSeq(ss)
<1>1. PICK row \in [DOMAIN F -> Nat], col \in [DOMAIN F -> Nat] : PlacedBy(F, ss, row, col)
  <2>1. Placed(F, ss)
    BY FlattenPlaces
  <2>2. QED
    BY <2>1 DEF Placed
<1> HIDE DEF F
<1>2. \A v \in Range(F) : \E i \in DOMAIN ss : v \in Range(ss[i])
  BY <1>1 DEF PlacedBy, Range
<1>3. ASSUME NEW i \in DOMAIN ss, NEW k \in DOMAIN ss[i] PROVE ss[i][k] \in Range(F)
  <2>1. PICK x \in DOMAIN F : row[x] = i /\ col[x] = k
    BY <1>1 DEF PlacedBy
  <2>2. F[x] = ss[i][k]
    BY <1>1, <2>1 DEF PlacedBy
  <2>3. QED
    BY <2>2 DEF Range
<1>4. \A i \in DOMAIN ss : Range(ss[i]) \subseteq Range(F)
  BY <1>3 DEF Range
<1>5. QED
  BY <1>2, <1>4 DEF F

\* An exported service is extended by its type, if with nothing.
Offered(p, n) ==
  \A s \in Range(exports_in(p)[n]) :
    \E e \in Range(extends_in(p)[n]) : e.by = "type" /\ e.target = s

LEMMA GatheredExports ==
  ASSUME NEW p \in Projects, NEW n \in DOMAIN p.node
  PROVE  Gathered(p, n, exports_in(p)) \in Seq(Seq(Types))
<1> DEFINE E == exports_in(p)
           V == Seq(Types)
           g == [c \in Under(p, n) |-> E[c]]
<1>1. g \in [Under(p, n) -> V]
  <2> HIDE DEF V
  <2>1. E \in [DOMAIN p.node -> V]
    BY ExportsAre DEF V
  <2>2. Under(p, n) \subseteq DOMAIN p.node
    BY NodeTypes
  <2> HIDE DEF E
  <2>3. QED
    BY <2>1, <2>2
<1>2. Gathered(p, n, g) \in Seq(V)
  <2> HIDE DEF V, g
  <2> QED BY <1>1, GatheredTypes
<1>3. Gathered(p, n, g) = Gathered(p, n, E)
  <2>1. \A i \in DOMAIN Parts(p.node[n]) : Parts(p.node[n])[i] \in Under(p, n)
    BY DEF Under, Range
  <2> HIDE DEF E
  <2>2. QED
    BY <2>1 DEF Gathered
<1>4. QED
  BY <1>2, <1>3

LEMMA OfferedNext ==
  ASSUME NEW p \in Projects, NEW n \in DOMAIN p.node,
         \A c \in Under(p, n) : Offered(p, c)
  PROVE  Offered(p, n)
<1> DEFINE node == p.node[n]
           xs == Gathered(p, n, exports_in(p))
           es == Gathered(p, n, extends_in(p))
           F == FlattenSeq(es)
<1>1. /\ exports_in(p)[n] = IF node.kind = "exports" THEN node.services
                            ELSE IF node.kind = "constexpr" /\ ~node.holds THEN <<>>
                            ELSE FlattenSeq(xs)
      /\ extends_in(p)[n] = config_extends(node, F) /\ node \in Nodes
  BY ExportsAre, ExtendsAre, NodeTypes DEF ExportsAt, ExtendsAt
<1>2. xs \in Seq(Seq(Types)) /\ es \in Seq(Seq(Extensions)) /\ F \in Seq(Extensions)
  BY GatheredExports, GatheredExtends, FlattenPlaces
<1>3. /\ DOMAIN xs = DOMAIN Parts(node) /\ DOMAIN es = DOMAIN Parts(node)
      /\ \A i \in DOMAIN Parts(node) : /\ Parts(node)[i] \in Under(p, n)
                                       /\ xs[i] = exports_in(p)[Parts(node)[i]]
                                       /\ es[i] = extends_in(p)[Parts(node)[i]]
  BY DEF Gathered, Under, Range
<1>4. ASSUME NEW s \in Range(FlattenSeq(xs)) PROVE \E e \in Range(F) : e.by = "type" /\ e.target = s
  <2> HIDE DEF xs, es
  <2>1. PICK i \in DOMAIN xs : s \in Range(xs[i])
    BY <1>2, FlattenRange
  <2>2. PICK e \in Range(es[i]) : e.by = "type" /\ e.target = s
    BY <1>3, <2>1 DEF Offered
  <2>3. e \in Range(F)
    BY <1>2, <1>3, <2>1, FlattenRange
  <2>4. QED
    BY <2>2, <2>3
<1>5. CASE node.kind = "exports"
  <2>1. \A i \in DOMAIN node.services :
          exported_extends(node)[i] = [by |-> "type", target |-> node.services[i], funcs |-> <<>>]
    BY DEF exported_extends
  <2>2. DOMAIN exported_extends(node) = DOMAIN node.services
    BY DEF exported_extends
  <2>3. \A i \in DOMAIN node.services : /\ exported_extends(node)[i].by = "type"
                                        /\ exported_extends(node)[i].target = node.services[i]
    <3>1. TAKE i \in DOMAIN node.services
    <3>2. exported_extends(node)[i] = [by |-> "type", target |-> node.services[i], funcs |-> <<>>]
      BY <2>1
    <3> HIDE DEF node
    <3>3. QED
      BY <3>2
  <2>4. extends_in(p)[n] = exported_extends(node) /\ exports_in(p)[n] = node.services
    BY <1>1, <1>5 DEF config_extends
  <2> HIDE DEF node
  <2>5. QED
    BY <2>2, <2>3, <2>4 DEF Offered, Range
<1>6. CASE node.kind = "constexpr" /\ ~node.holds
  <2>1. exports_in(p)[n] = <<>>
    BY <1>1, <1>6
  <2>2. QED
    BY <2>1 DEF Offered, Range
<1>7. CASE node.kind \in {"config", "constexpr"} /\ (node.kind = "constexpr" => node.holds)
  <2>1. extends_in(p)[n] = F /\ exports_in(p)[n] = FlattenSeq(xs)
    BY <1>1, <1>7 DEF config_extends
  <2> HIDE DEF F, xs
  <2>2. QED
    BY <1>4, <2>1 DEF Offered
<1>8. CASE node.kind = "extend"
  <2>1. DOMAIN xs = {}
    BY <1>3, <1>8 DEF Parts
  <2>2. exports_in(p)[n] = FlattenSeq(xs)
    BY <1>1, <1>8
  <2> HIDE DEF xs
  <2>3. Range(FlattenSeq(xs)) = {}
    BY <1>2, <2>1, FlattenRange
  <2>4. QED
    BY <2>2, <2>3 DEF Offered
<1>9. CASE node.kind = "runtime"
  <2>1. /\ extends_in(p)[n] = [x \in DOMAIN F |-> conditional(F[x], node.condition)]
        /\ exports_in(p)[n] = FlattenSeq(xs) /\ node.condition \in Conditions
    BY <1>1, <1>9, NodeKinds DEF config_extends
  <2> HIDE DEF F, xs
  <2>2. ASSUME NEW s \in Range(FlattenSeq(xs))
        PROVE  \E e \in Range(extends_in(p)[n]) : e.by = "type" /\ e.target = s
    <3>1. PICK x \in DOMAIN F : F[x].by = "type" /\ F[x].target = s
      BY <1>4 DEF Range
    <3>2. F[x] \in Extensions
      BY <1>2
    <3>3. conditional(F[x], node.condition).by = "type" /\ conditional(F[x], node.condition).target = s
      BY <2>1, <3>1, <3>2, ConditionalIs
    <3>4. conditional(F[x], node.condition) \in Range(extends_in(p)[n])
      BY <2>1 DEF Range
    <3>5. QED
      BY <3>3, <3>4
  <2>3. QED
    BY <2>1, <2>2 DEF Offered
<1>10. QED
  BY <1>1, <1>5, <1>6, <1>7, <1>8, <1>9, NodeKinds

LEMMA OfferedAll ==
  ASSUME NEW p \in Projects
  PROVE  \A s \in Range(get_exports(p)) :
           \E e \in Range(extends_tuple(p)) : e.by = "type" /\ e.target = s
<1> DEFINE T == {n \in DOMAIN p.node : ~Offered(p, n)}
<1>1. T = {}
  <2>1. SUFFICES ASSUME T # {} PROVE FALSE
    OBVIOUS
  <2>2. PICK n \in T : PartsIn(p)[n] \cap T = {}
    <3>1. T \in SUBSET (DOMAIN p.node)
      OBVIOUS
    <3> DEFINE height == [k \in DOMAIN p.node |-> Len(p.node) - k]
    <3>2. Parted(DOMAIN p.node, height, PartsIn(p))
      BY TreeParted
    <3> HIDE DEF T, height
    <3>3. QED
      BY <2>1, <3>1, <3>2, Lowest
  <2>3. n \in DOMAIN p.node /\ PartsIn(p)[n] = Under(p, n) /\ Under(p, n) \subseteq DOMAIN p.node
    BY NodeTypes DEF PartsIn
  <2>4. \A c \in Under(p, n) : Offered(p, c)
    BY <2>2, <2>3
  <2>5. QED
    BY <2>2, <2>3, <2>4, OfferedNext
<1>2. QED
  BY <1>1, RootAlone DEF extends_tuple, get_exports, Offered

----------------------------------------------------------------------------
(* What is built. *)

LEMMA ReverseIs ==
  ASSUME NEW S, NEW s \in Seq(S)
  PROVE  /\ Reverse(s) \in Seq(S) /\ DOMAIN Reverse(s) = DOMAIN s
         /\ \A i \in DOMAIN s : Len(s) - i + 1 \in DOMAIN s /\ Reverse(s)[i] = s[Len(s) - i + 1]
         /\ \A i \in DOMAIN s : Reverse(s)[Len(s) - i + 1] = s[i]
<1>1. Len(s) \in Nat /\ DOMAIN s = 1 .. Len(s) /\ s \in [1 .. Len(s) -> S]
  OBVIOUS
<1>2. \A i \in 1 .. Len(s) : Len(s) - i + 1 \in 1 .. Len(s) /\ Len(s) - (Len(s) - i + 1) + 1 = i
  BY <1>1
<1>3. Reverse(s) = [i \in 1 .. Len(s) |-> s[Len(s) - i + 1]]
  BY DEF Reverse
<1>4. Reverse(s) \in [1 .. Len(s) -> S]
  BY <1>1, <1>2, <1>3
<1>5. Reverse(s) \in Seq(S)
  BY <1>1, <1>4
<1>6. QED
  BY <1>1, <1>2, <1>3, <1>5

\* F has the functions of the extensions of a service, each once.
BuiltFrom(F, exported, es, service) ==
  /\ F \in Seq(Conditioned)
  /\ \A x \in DOMAIN F : \E i \in DOMAIN es : \E k \in DOMAIN es[i].funcs :
       locate_service(exported, es[i]) = service /\ F[x] = es[i].funcs[k]
  /\ \A i \in DOMAIN es : locate_service(exported, es[i]) = service =>
       \A k \in DOMAIN es[i].funcs : \E x \in DOMAIN F : F[x] = es[i].funcs[k]
  /\ \A x, y \in DOMAIN F : F[x].func = F[y].func => x = y

LEMMA BuilderIs ==
  ASSUME NEW es \in Seq(Extensions), Distinct(es), NEW exported, NEW service
  PROVE  BuiltFrom(builder(exported, es, service), exported, es, service)
<1> DEFINE added(e) == IF locate_service(exported, e) = service THEN e.funcs ELSE <<>>
           S == Seq(Conditioned)
           fs == [i \in DOMAIN es |-> added(es[i])]
           ss == Reverse(fs)
           F == FlattenSeq(ss)
           at(i) == Len(es) - i + 1
<1>1. builder(exported, es, service) = F
  BY DEF builder
<1>2. \A i \in DOMAIN es : es[i] \in Extensions /\ es[i].funcs \in S
  <2>1. \A i \in DOMAIN es : es[i] \in Extensions
    OBVIOUS
  <2>2. \A e \in Extensions : e.funcs \in S
    BY DEF Extensions
  <2>3. QED
    BY <2>1, <2>2
<1>3. fs \in Seq(S) /\ DOMAIN fs = DOMAIN es /\ Len(fs) = Len(es)
  <2>1. PICK n \in Nat : es \in [1 .. n -> Extensions] /\ Len(es) = n
    OBVIOUS
  <2>2. \A i \in 1 .. n : added(es[i]) \in S
    <3>1. <<>> \in S
      OBVIOUS
    <3> HIDE DEF S
    <3>2. QED
      BY <1>2, <2>1, <3>1
  <2>3. fs \in [1 .. n -> S] /\ Len(es) = n /\ DOMAIN es = 1 .. n
    <3> HIDE DEF S, added
    <3> QED BY <2>1, <2>2
  <2> HIDE DEF S, fs
  <2>4. QED
    BY <2>3
<1>4. /\ ss \in Seq(S) /\ DOMAIN ss = DOMAIN es
      /\ \A i \in DOMAIN es : at(i) \in DOMAIN es /\ ss[i] = fs[at(i)] /\ ss[at(i)] = fs[i]
  <2> HIDE DEF S, fs
  <2> QED BY <1>3, ReverseIs
<1>5. \A i \in DOMAIN es : fs[i] = added(es[i])
  OBVIOUS
<1>6. F \in Seq(Conditioned) /\ Placed(F, ss)
  <2> HIDE DEF fs, ss
  <2> QED BY <1>4, FlattenPlaces
<1>7. PICK row \in [DOMAIN F -> Nat], col \in [DOMAIN F -> Nat] : PlacedBy(F, ss, row, col)
  BY <1>6 DEF Placed
<1> HIDE DEF F, ss
<1>8. ASSUME NEW x \in DOMAIN F
      PROVE  /\ row[x] \in DOMAIN es /\ at(row[x]) \in DOMAIN es
             /\ locate_service(exported, es[at(row[x])]) = service
             /\ col[x] \in DOMAIN es[at(row[x])].funcs
             /\ F[x] = es[at(row[x])].funcs[col[x]]
  <2>1. row[x] \in DOMAIN es /\ col[x] \in DOMAIN ss[row[x]] /\ F[x] = ss[row[x]][col[x]]
    BY <1>4, <1>7 DEF PlacedBy
  <2>2. at(row[x]) \in DOMAIN es /\ ss[row[x]] = added(es[at(row[x])])
    BY <1>4, <1>5, <2>1
  <2>3. DOMAIN added(es[at(row[x])]) # {}
    BY <2>1, <2>2
  <2>4. locate_service(exported, es[at(row[x])]) = service
    BY <2>3
  <2>5. QED
    BY <2>1, <2>2, <2>4
<1>9. ASSUME NEW i \in DOMAIN es, locate_service(exported, es[i]) = service,
             NEW k \in DOMAIN es[i].funcs
      PROVE  \E x \in DOMAIN F : F[x] = es[i].funcs[k]
  <2>1. at(i) \in DOMAIN ss /\ ss[at(i)] = es[i].funcs
    BY <1>4, <1>5, <1>9
  <2>2. PICK x \in DOMAIN F : row[x] = at(i) /\ col[x] = k
    BY <1>7, <2>1 DEF PlacedBy
  <2>3. F[x] = ss[at(i)][k]
    BY <1>7, <2>2 DEF PlacedBy
  <2>4. QED
    BY <2>1, <2>3
<1>10. ASSUME NEW x \in DOMAIN F, NEW y \in DOMAIN F, F[x].func = F[y].func
       PROVE  x = y
  <2>1. at(row[x]) = at(row[y]) /\ col[x] = col[y]
    <3>1. PICK i \in DOMAIN es : i = at(row[x])
      BY <1>8
    <3>2. PICK j \in DOMAIN es : j = at(row[y])
      BY <1>8
    <3>3. PICK k \in DOMAIN es[i].funcs : k = col[x]
      BY <1>8, <3>1
    <3>4. PICK l \in DOMAIN es[j].funcs : l = col[y]
      BY <1>8, <3>2
    <3>5. F[x] = es[i].funcs[k] /\ F[y] = es[j].funcs[l]
      BY <1>8, <3>1, <3>2, <3>3, <3>4
    <3>6. es[i].funcs[k].func = es[j].funcs[l].func
      BY <1>10, <3>5
    <3>7. i = j /\ k = l
      BY <3>6 DEF Distinct
    <3>8. QED
      BY <3>1, <3>2, <3>3, <3>4, <3>7
  <2>2. row[x] \in Nat /\ row[y] \in Nat /\ Len(es) \in Nat
    OBVIOUS
  <2>3. row[x] = row[y]
    BY <2>1, <2>2
  <2>4. QED
    BY <1>7, <2>1, <2>3 DEF PlacedBy
<1>11. QED
  <2>1. \A x \in DOMAIN F : \E i \in DOMAIN es : \E k \in DOMAIN es[i].funcs :
          locate_service(exported, es[i]) = service /\ F[x] = es[i].funcs[k]
    BY <1>8
  <2>2. QED
    BY <1>1, <1>6, <1>9, <1>10, <2>1 DEF BuiltFrom

\* The first export with a name, if there is one.
LEMMA NamedIs ==
  ASSUME NEW exported \in Seq(Types), NEW name
  PROVE  \/ named(exported, name) = 0 /\ \A s \in Range(exported) : name_of[s] # name
         \/ /\ named(exported, name) \in DOMAIN exported
            /\ name_of[exported[named(exported, name)]] = name
<1> DEFINE I == {i \in 1 .. Len(exported) : name_of[exported[i]] = name}
<1>1. named(exported, name) = IF I # {} THEN Min(I) ELSE 0
  BY DEF named, SelectInSeq
<1>2. CASE I = {}
  BY <1>1, <1>2 DEF Range
<1>3. CASE I # {}
  <2>1. I \in SUBSET Nat
    OBVIOUS
  <2>2. PICK least \in I : \A i \in I : least <= i
    <3> HIDE DEF I
    <3> QED BY <1>3, <2>1, LeastOf
  <2>3. Min(I) \in I
    BY <2>2 DEF Min
  <2>4. QED
    BY <1>1, <1>3, <2>3
<1>4. QED
  BY <1>2, <1>3

\* What init finds: the services that are built are those the project exports.
LEMMA BuiltExports ==
  ASSUME NEW p \in Projects, Compiles(get_exports(p), extends_tuple(p))
  PROVE  /\ get_exports(p) \in Seq(Types)
         /\ DOMAIN initialized_builders(get_exports(p), extends_tuple(p)) = Range(get_exports(p))
<1> DEFINE X == get_exports(p)
           es == extends_tuple(p)
<1>1. X \in Seq(Types)
  BY ExportsAre, RootAlone DEF get_exports
<1>2. es \in Seq(Extensions)
  BY ExtendsAre, RootAlone DEF extends_tuple
<1>3. DOMAIN initialized_builders(X, es) = {locate_service(X, e) : e \in Range(es)}
  BY DEF initialized_builders
<1>4. \A s \in Range(X) : \E e \in Range(es) : e.by = "type" /\ e.target = s
  BY OfferedAll
<1>5. Compiles(X, es)
  OBVIOUS
<1> HIDE DEF X, es
<1>6. \A e \in Range(es) : locate_service(X, e) \in Range(X)
  <2>1. TAKE e \in Range(es)
  <2>2. CASE e.by = "type"
    BY <1>5, <2>2 DEF Compiles, locate_service
  <2>3. CASE e.by # "type"
    <3>1. named(X, e.target) # 0
      BY <1>5, <2>3 DEF Compiles
    <3>2. named(X, e.target) \in DOMAIN X
      BY <1>1, <3>1, NamedIs
    <3>3. QED
      BY <2>3, <3>2 DEF locate_service, Range
  <2>4. QED
    BY <2>2, <2>3
<1>7. \A s \in Range(X) : \E e \in Range(es) : locate_service(X, e) = s
  BY <1>4 DEF locate_service
<1>8. {locate_service(X, e) : e \in Range(es)} = Range(X)
  BY <1>6, <1>7
<1>9. QED
  BY <1>1, <1>3, <1>8 DEF X, es

\* The conditions of a function that hold.
Enabled(f, H) == \A k \in f.conditions : H[k]

\* What a call runs in full is what was added.
LEMMA EnabledArePromised ==
  ASSUME project \in Projects, exports = get_exports(project),
         built = initialized_builders(exports, extends_tuple(project)),
         NEW s \in DOMAIN built
  PROVE  /\ BuiltFrom(built[s], exports, extends_tuple(project), s)
         /\ Promised(s) = {f.func : f \in {g \in Range(built[s]) : Enabled(g, holds)}}
<1> DEFINE es == extends_tuple(project)
           F == built[s]
           around(m) == Above(project, m)
           Runs1(m) == Extending(project, m, s) /\ \A k \in ConditionsIn(project, around(m)) : holds[k]
<1>1. es \in Seq(Extensions)
  BY ExtendsAre, RootAlone DEF extends_tuple
<1>2. Gathers(project, es, project.root, {})
  BY GathersAll
<1>3. F = builder(exports, es, s)
  BY DEF initialized_builders
<1>4. BuiltFrom(F, exports, es, s)
  BY <1>1, <1>2, <1>3, BuilderIs DEF Gathers
<1>5. /\ Within(project, project.root) \ {} = DOMAIN project.node
      /\ \A m \in DOMAIN project.node : Between(project, project.root, m) \ {} = around(m)
  BY WithinRoot
<1>6. Promised(s)
        = UNION {{f.func : f \in Range(project.node[n].funcs)} :
                   n \in {m \in DOMAIN project.node : Runs1(m)}}
  BY DEF Promised, ConditionsIn
<1> HIDE DEF es, F, around, Runs1
<1>7. ASSUME NEW f \in Range(F), Enabled(f, holds)
      PROVE  f.func \in Promised(s)
  <2>1. PICK x \in DOMAIN F : f = F[x]
    BY DEF Range
  <2>2. PICK i \in DOMAIN es : \E k \in DOMAIN es[i].funcs :
          locate_service(exports, es[i]) = s /\ F[x] = es[i].funcs[k]
    BY <1>4 DEF BuiltFrom
  <2>3. PICK k \in DOMAIN es[i].funcs :
          locate_service(exports, es[i]) = s /\ F[x] = es[i].funcs[k]
    BY <2>2
  <2>4. PICK m \in DOMAIN project.node : \E j \in DOMAIN project.node[m].funcs :
          CameFrom(project, es[i], k, m, j, around(m))
    BY <1>2, <1>5 DEF Gathers, AllFrom
  <2>5. PICK j \in DOMAIN project.node[m].funcs : CameFrom(project, es[i], k, m, j, around(m))
    BY <2>4
  <2>6. Runs1(m)
    <3>1. \A q \in ConditionsIn(project, around(m)) : holds[q]
      BY <1>7, <2>1, <2>3, <2>5 DEF CameFrom, Enabled
    <3>2. Live(project, m)
      BY <2>5 DEF CameFrom, Alive, Live, around
    <3>3. es[i].by = "type" => es[i].target = s
      BY <2>3 DEF locate_service
    <3>4. es[i].by # "type" => s = exports[named(exports, es[i].target)]
      BY <2>3 DEF locate_service
    <3>5. es[i].by \in {"type", "name"}
      <4>1. es[i] \in Extensions
        BY <1>1
      <4>2. QED
        BY <4>1 DEF Extensions
    <3>6. QED
      BY <2>5, <3>1, <3>2, <3>3, <3>4, <3>5 DEF Runs1, Extending, CameFrom
  <2>7. f.func = project.node[m].funcs[j].func
    BY <2>1, <2>3, <2>5 DEF CameFrom
  <2>8. QED
    BY <1>6, <2>6, <2>7 DEF Range
<1>8. ASSUME NEW v \in Promised(s)
      PROVE  \E f \in Range(F) : Enabled(f, holds) /\ v = f.func
  <2>1. PICK m \in DOMAIN project.node : Runs1(m) /\ v \in {f.func : f \in Range(project.node[m].funcs)}
    BY <1>6
  <2>2. PICK j \in DOMAIN project.node[m].funcs : v = project.node[m].funcs[j].func
    BY <2>1 DEF Range
  <2>3. project.node[m].kind = "extend" /\ Alive(project, around(m))
    BY <2>1 DEF Runs1, Extending, Alive, Live, around
  <2>4. PICK i \in DOMAIN es : \E k \in DOMAIN es[i].funcs :
          CameFrom(project, es[i], k, m, j, around(m))
    BY <1>2, <1>5, <2>3 DEF Gathers, AllThere
  <2>5. PICK k \in DOMAIN es[i].funcs : CameFrom(project, es[i], k, m, j, around(m))
    BY <2>4
  <2>6. locate_service(exports, es[i]) = s
    BY <2>1, <2>5 DEF Runs1, Extending, CameFrom, locate_service
  <2>7. PICK x \in DOMAIN F : F[x] = es[i].funcs[k]
    BY <1>4, <2>6 DEF BuiltFrom
  <2>8. Enabled(F[x], holds) /\ v = F[x].func
    BY <2>1, <2>2, <2>5, <2>7 DEF CameFrom, Enabled, Runs1
  <2>9. QED
    BY <2>8 DEF Range
<1>9. Promised(s) \subseteq {f.func : f \in {g \in Range(F) : Enabled(g, holds)}}
  BY <1>8
<1>10. {f.func : f \in {g \in Range(F) : Enabled(g, holds)}} \subseteq Promised(s)
  BY <1>7
<1>11. QED
  BY <1>4, <1>9, <1>10 DEF F, es

----------------------------------------------------------------------------
(* A call. *)

LEMMA RemoveAtIs ==
  ASSUME NEW S, NEW s \in Seq(S), NEW i \in DOMAIN s
  PROVE  /\ RemoveAt(s, i) \in Seq(S)
         /\ \A y \in DOMAIN RemoveAt(s, i) :
              LET z == IF y < i THEN y ELSE y + 1
              IN z \in DOMAIN s \ {i} /\ RemoveAt(s, i)[y] = s[z]
         /\ \A z \in DOMAIN s \ {i} : \E y \in DOMAIN RemoveAt(s, i) : RemoveAt(s, i)[y] = s[z]
<1> DEFINE R == RemoveAt(s, i)
           at(y) == IF y < i THEN y ELSE y + 1
<1>1. PICK n \in Nat : n = Len(s) /\ DOMAIN s = 1 .. n /\ i \in 1 .. n
  OBVIOUS
<1>2. SubSeq(s, 1, i - 1) \in Seq(S) /\ SubSeq(s, i + 1, n) \in Seq(S)
  BY <1>1
<1>3. R \in Seq(S)
  BY <1>1, <1>2 DEF RemoveAt
<1>4. Len(SubSeq(s, 1, i - 1)) = i - 1 /\ Len(SubSeq(s, i + 1, n)) = n - i
  BY <1>1
<1>5. DOMAIN R = 1 .. n - 1
  BY <1>1, <1>2, <1>4 DEF RemoveAt
<1>6. \A y \in 1 .. n - 1 : at(y) \in DOMAIN s \ {i} /\ R[y] = s[at(y)]
  <2>1. TAKE y \in 1 .. n - 1
  <2>2. at(y) \in DOMAIN s \ {i}
    BY <1>1
  <2>3. CASE y < i
    BY <1>1, <1>2, <1>4, <2>3 DEF RemoveAt
  <2>4. CASE y >= i
    <3>1. R[y] = SubSeq(s, i + 1, n)[y - (i - 1)]
      <4>1. PICK a \in Seq(S), b \in Seq(S) :
              /\ a = SubSeq(s, 1, i - 1) /\ b = SubSeq(s, i + 1, n)
              /\ Len(a) = i - 1 /\ Len(b) = n - i
        BY <1>2, <1>4
      <4>2. y \in Len(a) + 1 .. Len(a) + Len(b)
        BY <1>1, <2>4, <4>1
      <4>3. (a \o b)[y] = b[y - Len(a)]
        BY <4>2
      <4>4. R = a \o b
        BY <1>1, <4>1 DEF RemoveAt
      <4>5. QED
        BY <4>1, <4>3, <4>4
    <3>2. SubSeq(s, i + 1, n)[y - (i - 1)] = s[y + 1]
      BY <1>1, <1>4, <2>4
    <3>3. QED
      BY <1>1, <2>2, <2>4, <3>1, <3>2
  <2>5. QED
    BY <1>1, <2>2, <2>3, <2>4
<1>7. ASSUME NEW z \in DOMAIN s \ {i}
      PROVE  \E y \in DOMAIN R : R[y] = s[z]
  <2>1. PICK y \in 1 .. n - 1 : at(y) = z
    <3>1. CASE z < i
      BY <1>1, <3>1
    <3>2. CASE z > i
      <4>1. z - 1 \in 1 .. n - 1 /\ at(z - 1) = z
        BY <1>1, <3>2
      <4>2. QED
        BY <4>1
    <3>3. QED
      BY <1>1, <3>1, <3>2
  <2>2. QED
    BY <1>5, <1>6, <2>1
<1>8. QED
  BY <1>3, <1>5, <1>6, <1>7

Running == [service : Types, left : Seq(Conditioned), done : Seq(Functions)]

\* A call that runs the functions B under the conditions H: what is left is of B,
\* what is done was enabled and is not left, and nothing enabled was passed over.
Going(call, B, H) ==
  /\ call.left \in Seq(Conditioned) /\ call.done \in Seq(Functions)
  /\ \A x, y \in DOMAIN call.left : call.left[x].func = call.left[y].func => x = y
  /\ \A x, y \in DOMAIN call.done : call.done[x] = call.done[y] => x = y
  /\ \A x \in DOMAIN call.left : call.left[x] \in Range(B)
  /\ \A f \in Range(B) :
       f \in Range(call.left) \/ (Enabled(f, H) => f.func \in Range(call.done))
  /\ \A v \in Range(call.done) :
       /\ \E f \in Range(B) : Enabled(f, H) /\ v = f.func
       /\ \A x \in DOMAIN call.left : call.left[x].func # v

LEMMA GoingStarts ==
  ASSUME NEW B \in Seq(Conditioned), \A x, y \in DOMAIN B : B[x].func = B[y].func => x = y,
         NEW H, NEW s
  PROVE  Going([service |-> s, left |-> B, done |-> <<>>], B, H)
  BY DEF Going, Range

\* The next function runs, if its conditions hold.
Stepped(call, i, H) ==
  [call EXCEPT
     !.left = RemoveAt(call.left, i),
     !.done = IF Enabled(call.left[i], H) THEN Append(call.done, call.left[i].func) ELSE call.done]

LEMMA GoingSteps ==
  ASSUME NEW B, NEW H, NEW C \in Running,
         Going(C, B, H), NEW i \in DOMAIN C.left
  PROVE  /\ Stepped(C, i, H) \in Running
         /\ Stepped(C, i, H).service = C.service
         /\ Going(Stepped(C, i, H), B, H)
<1> USE DEF Running
<1> DEFINE f == C.left[i]
           D == IF Enabled(f, H) THEN Append(C.done, f.func) ELSE C.done
           R == RemoveAt(C.left, i)
           N == Stepped(C, i, H)
           at(y) == IF y < i THEN y ELSE y + 1
<1>1. f \in Conditioned /\ f \in Range(B) /\ f.func \in Functions
  <2>1. f \in Conditioned /\ f \in Range(B)
    BY DEF Going
  <2>2. QED
    BY <2>1 DEF Conditioned
<1>2. D \in Seq(Functions)
  BY <1>1
<1>3. /\ R \in Seq(Conditioned)
      /\ \A y \in DOMAIN R : at(y) \in DOMAIN C.left \ {i} /\ R[y] = C.left[at(y)]
      /\ \A z \in DOMAIN C.left \ {i} : \E y \in DOMAIN R : R[y] = C.left[z]
  BY RemoveAtIs
<1>4. N = [service |-> C.service, left |-> R, done |-> D]
  <2>1. C = [service |-> C.service, left |-> C.left, done |-> C.done]
    OBVIOUS
  <2>2. N = [C EXCEPT !.left = R, !.done = D]
    BY DEF Stepped
  <2> HIDE DEF N, R, D
  <2>3. QED
    BY <2>1, <2>2
<1>5. N.service = C.service /\ N.left = R /\ N.done = D
  BY <1>4
<1>6. N \in Running
  BY <1>2, <1>3, <1>4
<1>7. f.func \notin Range(C.done)
  BY DEF Going
<1>8. Range(D) = IF Enabled(f, H) THEN Range(C.done) \cup {f.func} ELSE Range(C.done)
  <2>1. C.done \in Seq(Functions)
    OBVIOUS
  <2>2. Range(Append(C.done, f.func)) = Range(C.done) \cup {f.func}
    <3>1. PICK n \in Nat : n = Len(C.done) /\ DOMAIN C.done = 1 .. n
      BY <2>1
    <3>2. PICK A : A = Append(C.done, f.func)
      OBVIOUS
    <3>3. DOMAIN A = 1 .. n + 1 /\ A[n + 1] = f.func /\ \A x \in 1 .. n : A[x] = C.done[x]
      BY <2>1, <3>1, <3>2
    <3>4. Range(A) \subseteq Range(C.done) \cup {f.func}
      BY <3>1, <3>3 DEF Range
    <3>5. Range(C.done) \cup {f.func} \subseteq Range(A)
      BY <3>1, <3>3 DEF Range
    <3>6. QED
      BY <3>2, <3>4, <3>5
  <2>3. QED
    BY <2>2
<1>9. \A x, y \in DOMAIN R : R[x].func = R[y].func => x = y
  <2>1. TAKE x \in DOMAIN R, y \in DOMAIN R
  <2>2. HAVE R[x].func = R[y].func
  <2>3. at(x) = at(y)
    BY <1>3, <2>2 DEF Going
  <2>4. x \in Int /\ y \in Int /\ i \in Int
    BY <1>3
  <2>5. QED
    BY <2>3, <2>4
<1>10. \A x, y \in DOMAIN D : D[x] = D[y] => x = y
  <2>1. CASE Enabled(f, H)
    <3>1. PICK n \in Nat : n = Len(C.done) /\ DOMAIN C.done = 1 .. n
      OBVIOUS
    <3>2. /\ DOMAIN D = 1 .. n + 1 /\ D[n + 1] = f.func
          /\ \A x \in 1 .. n : D[x] = C.done[x] /\ D[x] # f.func
      BY <1>7, <2>1, <3>1 DEF Range
    <3>3. \A x, y \in 1 .. n : C.done[x] = C.done[y] => x = y
      BY <3>1 DEF Going
    <3> HIDE DEF D
    <3>4. QED
      BY <3>2, <3>3
  <2>2. CASE ~Enabled(f, H)
    BY <2>2 DEF Going
  <2>3. QED
    BY <2>1, <2>2
<1>11. \A x \in DOMAIN R : R[x] \in Range(B) /\ R[x].func # f.func
  BY <1>3 DEF Going
<1>12. \A g \in Range(B) : g \in Range(R) \/ (Enabled(g, H) => g.func \in Range(D))
  <2>1. TAKE g \in Range(B)
  <2>2. CASE g = f
    BY <1>8, <2>2
  <2>3. CASE g # f /\ g \in Range(C.left)
    <3>1. PICK z \in DOMAIN C.left : g = C.left[z]
      BY <2>3 DEF Range
    <3>2. PICK y \in DOMAIN R : R[y] = C.left[z]
      BY <1>3, <2>3, <3>1
    <3>3. QED
      BY <3>1, <3>2 DEF Range
  <2>4. CASE g \notin Range(C.left)
    BY <1>8, <2>4 DEF Going
  <2>5. QED
    BY <2>2, <2>3, <2>4
<1>13. \A v \in Range(D) : /\ \E g \in Range(B) : Enabled(g, H) /\ v = g.func
                           /\ \A x \in DOMAIN R : R[x].func # v
  <2>1. TAKE v \in Range(D)
  <2>2. CASE v \in Range(C.done)
    <3>1. \E g \in Range(B) : Enabled(g, H) /\ v = g.func
      BY <2>2 DEF Going
    <3>2. \A x \in DOMAIN C.left : C.left[x].func # v
      BY <2>2 DEF Going
    <3>3. QED
      BY <1>3, <3>1, <3>2
  <2>3. CASE Enabled(f, H) /\ v = f.func
    BY <1>1, <1>11, <2>3
  <2>4. QED
    BY <1>8, <2>2, <2>3
<1> HIDE DEF N, R, D, f
<1>14. Going(N, B, H)
  BY <1>2, <1>3, <1>5, <1>9, <1>10, <1>11, <1>12, <1>13 DEF Going
<1>15. QED
  BY <1>5, <1>6, <1>14 DEF N

\* A call with nothing left has run what was enabled, each function once.
LEMMA GoingEnds ==
  ASSUME NEW B, NEW H, NEW C, Going(C, B, H), C.left = <<>>
  PROVE  /\ Range(C.done) = {f.func : f \in {g \in Range(B) : Enabled(g, H)}}
         /\ Len(C.done) = Cardinality(Range(C.done))
<1>1. Range(C.left) = {}
  BY DEF Range
<1>2. \A f \in Range(B) : Enabled(f, H) => f.func \in Range(C.done)
  BY <1>1 DEF Going
<1>3. \A v \in Range(C.done) : \E f \in Range(B) : Enabled(f, H) /\ v = f.func
  BY DEF Going
<1>4. Range(C.done) = {f.func : f \in {g \in Range(B) : Enabled(g, H)}}
  BY <1>2, <1>3
<1>5. C.done \in [1 .. Len(C.done) -> Range(C.done)] /\ Len(C.done) \in Nat
  BY DEF Going, Range
<1>6. C.done \in Bijection(1 .. Len(C.done), Range(C.done))
  <2>1. \A x, y \in 1 .. Len(C.done) : C.done[x] = C.done[y] => x = y
    BY <1>5 DEF Going
  <2>2. \A v \in Range(C.done) : \E x \in 1 .. Len(C.done) : C.done[x] = v
    BY <1>5 DEF Range
  <2>3. QED
    BY <1>5, <2>1, <2>2 DEF Bijection, Injection, Surjection, IsInjective
<1>7. Cardinality(Range(C.done)) = Len(C.done)
  BY <1>5, <1>6, FS_CountingElements DEF ExistsBijection
<1>8. QED
  BY <1>4, <1>7

----------------------------------------------------------------------------
(* The invariant. *)

Compiled ==
  /\ project \in Projects
  /\ exports = get_exports(project)
  /\ Compiles(exports, extends_tuple(project))
  /\ built = initialized_builders(exports, extends_tuple(project))

\* Init gives each service it has set its name, or is about to.
Initializes ==
  /\ phase \in Nat
  /\ services \subseteq DOMAIN built
  /\ \A n \in by_name \cup {naming} : n # no_name => \E s \in services : name_of[s] = n
  /\ \A s \in services : name_of[s] \in by_name \cup {no_name, naming}
  /\ phase > 0 => DOMAIN built \subseteq services /\ naming = no_name

CallRight(call) ==
  \/ call = no_call
  \/ /\ call \in Running /\ call.service \in DOMAIN built
     /\ Going(call, built[call.service], holds)

CallsRight ==
  /\ calls \in [Contexts -> Running \cup {no_call}]
  /\ \A c \in Contexts : CallRight(calls[c])

\* Main calls nothing before init has returned.
MainWaits == phase = 0 => calls[main] = no_call

IInv == Compiled /\ Initializes /\ CallsRight /\ MainWaits

LEMMA CompiledExports ==
  ASSUME Compiled
  PROVE  exports \in Seq(Types) /\ DOMAIN built = Range(exports) /\ Range(exports) \subseteq Types
<1>1. exports \in Seq(Types) /\ DOMAIN built = Range(exports)
  BY BuiltExports DEF Compiled
<1>2. QED
  BY <1>1 DEF Range

\* Where a call by type or by name starts.
LEMMA CallStarts ==
  ASSUME Compiled, NEW s \in DOMAIN built
  PROVE  /\ [service |-> s, left |-> built[s], done |-> <<>>] \in Running
         /\ CallRight([service |-> s, left |-> built[s], done |-> <<>>])
<1> DEFINE C == [service |-> s, left |-> built[s], done |-> <<>>]
<1>1. s \in Types
  BY CompiledExports
<1>2. BuiltFrom(built[s], exports, extends_tuple(project), s)
  BY EnabledArePromised DEF Compiled
<1>3. built[s] \in Seq(Conditioned)
  BY <1>2 DEF BuiltFrom
<1>4. Going(C, built[s], holds)
  BY <1>2, <1>3, GoingStarts DEF BuiltFrom
<1>5. C \in Running
  BY <1>1, <1>3 DEF Running
<1>6. QED
  BY <1>4, <1>5 DEF CallRight

LEMMA CallChanges ==
  ASSUME CallsRight, UNCHANGED <<compiled, holds>>, NEW c \in Contexts,
         NEW C \in Running \cup {no_call}, CallRight(C), calls' = [calls EXCEPT ![c] = C]
  PROVE  CallsRight'
<1>1. calls' \in [Contexts -> Running \cup {no_call}]
  BY DEF CallsRight
<1>2. CallRight(C)'
  BY DEF CallRight, compiled
<1>3. ASSUME NEW d \in Contexts
      PROVE  CallRight(calls[d])'
  <2>1. CASE d = c
    <3>1. calls'[d] = C
      BY <2>1 DEF CallsRight
    <3>2. QED
      BY <1>2, <3>1 DEF CallRight
  <2>2. CASE d # c
    <3>1. calls'[d] = calls[d]
      BY <2>2 DEF CallsRight
    <3>2. CallRight(calls[d])
      BY DEF CallsRight
    <3>3. QED
      BY <3>1, <3>2 DEF CallRight, compiled
  <2>3. QED
    BY <2>1, <2>2
<1>4. QED
  BY <1>1, <1>3 DEF CallsRight

LEMMA CallsStay ==
  ASSUME CallsRight, UNCHANGED <<compiled, holds, calls>>
  PROVE  CallsRight'
  BY DEF CallsRight, CallRight, compiled

LEMMA RunIsRight ==
  ASSUME Compiled, CallsRight, UNCHANGED <<compiled, holds>>,
         NEW c \in Contexts, NEW s \in DOMAIN built, Run(c, s)
  PROVE  CallsRight'
<1>1. PICK C : C = [service |-> s, left |-> built[s], done |-> <<>>]
  OBVIOUS
<1>2. C \in Running \cup {no_call} /\ CallRight(C)
  BY <1>1, CallStarts
<1>3. calls' = [calls EXCEPT ![c] = C]
  BY <1>1 DEF Run
<1>4. QED
  BY <1>2, <1>3, CallChanges

LEMMA RunFunctionIsRight ==
  ASSUME CallsRight, NEW c \in Contexts, RunFunction(c)
  PROVE  CallsRight'
<1>1. PICK i \in ready(calls[c]) :
        /\ calls' = [calls EXCEPT
             ![c].left = RemoveAt(@, i),
             ![c].done = IF \A k \in calls[c].left[i].conditions : holds[k]
                         THEN Append(@, calls[c].left[i].func) ELSE @]
        /\ UNCHANGED <<compiled, holds>>
  BY DEF RunFunction
<1>2. i \in DOMAIN calls[c].left
  BY DEF ready
<1>3. calls[c] # no_call
  BY <1>2 DEF no_call
<1>4. /\ calls[c] \in Running /\ calls[c].service \in DOMAIN built
      /\ Going(calls[c], built[calls[c].service], holds)
  BY <1>3 DEF CallsRight, CallRight
<1>5. PICK C : C = Stepped(calls[c], i, holds)
  OBVIOUS
<1>6. C \in Running /\ C.service = calls[c].service /\ Going(C, built[calls[c].service], holds)
  BY <1>2, <1>4, <1>5, GoingSteps
<1>7. CallRight(C)
  BY <1>4, <1>6 DEF CallRight
<1>8. calls' = [calls EXCEPT ![c] = C]
  BY <1>1, <1>4, <1>5 DEF Stepped, Enabled, CallsRight
<1>9. QED
  BY <1>1, <1>6, <1>7, <1>8, CallChanges

LEMMA ReturnIsRight ==
  ASSUME CallsRight, NEW c \in Contexts, Return(c)
  PROVE  CallsRight'
  BY CallChanges DEF Return, CallRight

\* The service of a name that init has set.
LEMMA NameIsBuilt ==
  ASSUME Compiled, Initializes, NEW name \in Names, name \in by_name
  PROVE  exports[named(exports, name)] \in DOMAIN built
<1>1. PICK s \in services : name_of[s] = name
  BY DEF Initializes, Names
<1>2. s \in Range(exports)
  BY CompiledExports DEF Initializes
<1>3. named(exports, name) \in DOMAIN exports
  BY <1>1, <1>2, CompiledExports, NamedIs
<1>4. QED
  BY <1>3, CompiledExports DEF Range

----------------------------------------------------------------------------
(* Every behaviour keeps the invariant. *)

LEMMA InitRight == Init => IInv
<1>1. SUFFICES ASSUME Init PROVE IInv
  OBVIOUS
<1>2. Compiled
  BY <1>1 DEF Init, Compiled
<1>3. Initializes
  BY <1>1 DEF Init, Initializes
<1>4. CallsRight
  BY <1>1 DEF Init, CallsRight, CallRight
<1>5. MainWaits
  BY <1>1 DEF Init, MainWaits, Contexts
<1>6. QED
  BY <1>2, <1>3, <1>4, <1>5 DEF IInv

LEMMA NextRight == IInv /\ [Next]_vars => IInv'
<1>1. SUFFICES ASSUME IInv, [Next]_vars PROVE IInv'
  OBVIOUS
<1>2. Compiled /\ Initializes /\ CallsRight /\ MainWaits
  BY <1>1 DEF IInv
<1>3. UNCHANGED <<compiled, holds>>
  BY <1>1 DEF vars, Next, MainStep, InterruptStep, InitService, InitName, InitReturns, RunPhase,
    RunFunction, Return, CallByType, CallByName, PanicByType, PanicByName, Panics
<1>4. Compiled'
  BY <1>2, <1>3 DEF Compiled, compiled
<1>5. main \in Contexts /\ Interrupts \subseteq Contexts /\ main \notin Interrupts
  BY NexusAssumption DEF Contexts
<1>6. CASE InitService
  <2>1. PICK s \in DOMAIN built \ services : services' = services \cup {s} /\ naming' = name_of[s]
    BY <1>6 DEF InitService, name_to_set
  <2>2. Initializes'
    BY <1>2, <1>3, <1>6, <2>1 DEF Initializes, InitService, compiled
  <2>3. QED
    BY <1>2, <1>3, <1>4, <1>6, <2>2, CallsStay DEF IInv, MainWaits, InitService
<1>7. CASE InitName
  <2>1. Initializes'
    BY <1>2, <1>3, <1>7 DEF Initializes, InitName, compiled
  <2>2. QED
    BY <1>2, <1>3, <1>4, <1>7, <2>1, CallsStay DEF IInv, MainWaits, InitName
<1>8. CASE InitReturns
  <2>1. Initializes'
    BY <1>2, <1>3, <1>8 DEF Initializes, InitReturns, compiled
  <2>2. QED
    BY <1>2, <1>3, <1>4, <1>8, <2>1, CallsStay DEF IInv, MainWaits, InitReturns
<1>9. ASSUME UNCHANGED <<services, by_name, naming, phase>>, CallsRight', MainWaits'
      PROVE  IInv'
  <2>1. Initializes'
    BY <1>2, <1>3, <1>9 DEF Initializes, compiled
  <2>2. QED
    BY <1>4, <1>9, <2>1 DEF IInv
<1>10. CASE RunPhase
  <2>1. UNCHANGED <<services, by_name, naming, phase>>
    BY <1>10 DEF RunPhase
  <2>2. Phases[phase] \in DOMAIN built /\ Run(main, Phases[phase])
    BY <1>2, <1>10 DEF RunPhase, Call, Initializes
  <2>3. MainWaits'
    BY <1>10 DEF RunPhase, MainWaits
  <2>4. QED
    BY <1>2, <1>3, <1>5, <1>9, <2>1, <2>2, <2>3, RunIsRight
<1>11. ASSUME NEW c \in Contexts, RunFunction(c)
       PROVE  IInv'
  <2>1. calls[c] # no_call
    BY <1>11 DEF RunFunction, ready, no_call
  <2>2. c # main => calls'[main] = calls[main]
    BY <1>2, <1>5, <1>11 DEF RunFunction, CallsRight
  <2>3. MainWaits'
    BY <1>2, <1>11, <2>1, <2>2 DEF MainWaits, RunFunction
  <2>4. QED
    BY <1>2, <1>9, <1>11, <2>3, RunFunctionIsRight DEF RunFunction
<1>12. ASSUME NEW c \in Contexts, Return(c)
       PROVE  IInv'
  <2>1. CallsRight'
    BY <1>2, <1>12, ReturnIsRight
  <2>2. UNCHANGED <<services, by_name, naming>>
    BY <1>12 DEF Return
  <2>3. phase' = phase \/ (phase' = phase + 1 /\ phase > 0)
    BY <1>2, <1>12 DEF Return, Returned, next_phase, MainWaits, Initializes
  <2>4. Initializes'
    BY <1>2, <1>3, <2>2, <2>3 DEF Initializes, compiled
  <2>5. MainWaits'
    BY <1>2, <1>5, <1>12, <2>3 DEF MainWaits, Return, CallsRight, Initializes
  <2>6. QED
    BY <1>4, <2>1, <2>4, <2>5 DEF IInv
<1>13. ASSUME NEW c \in Interrupts, NEW s \in Types, CallByType(c, s)
       PROVE  IInv'
  <2>1. UNCHANGED <<services, by_name, naming, phase>> /\ s \in DOMAIN built /\ Run(c, s)
    BY <1>2, <1>13 DEF CallByType, Call, Initializes
  <2>2. MainWaits'
    BY <1>2, <1>5, <1>13, <2>1 DEF MainWaits, Run, CallsRight
  <2>3. QED
    BY <1>2, <1>3, <1>5, <1>9, <2>1, <2>2, RunIsRight
<1>14. ASSUME NEW c \in Interrupts, NEW n \in Names, CallByName(c, n)
       PROVE  IInv'
  <2>1. UNCHANGED <<services, by_name, naming, phase>> /\ n \in by_name
        /\ Run(c, exports[named(exports, n)])
    BY <1>14 DEF CallByName
  <2>2. exports[named(exports, n)] \in DOMAIN built
    BY <1>2, <2>1, NameIsBuilt
  <2>3. MainWaits'
    BY <1>2, <1>5, <1>14, <2>1 DEF MainWaits, Run, CallsRight
  <2>4. QED
    BY <1>2, <1>3, <1>5, <1>9, <2>1, <2>2, <2>3, RunIsRight
<1>15. ASSUME NEW c \in Interrupts, Panics(c)
       PROVE  IInv'
  BY <1>2, <1>3, <1>9, <1>15, CallsStay DEF Panics, MainWaits
<1>16. CASE UNCHANGED vars
  BY <1>2, <1>3, <1>9, <1>16, CallsStay DEF vars, MainWaits
<1>17. QED
  BY <1>1, <1>5, <1>6, <1>7, <1>8, <1>10, <1>11, <1>12, <1>13, <1>14, <1>15, <1>16
    DEF Next, MainStep, InterruptStep, PanicByType, PanicByName

\* For every configuration and any interrupts: once init has returned, every
\* exported service answers by its type and by its name (nexus::init).
THEOREM AlwaysAnswers == Spec => []AnsweredAfterInit
<1>1. IInv => AnsweredAfterInit
  <2>1. SUFFICES ASSUME IInv, phase > 0, NEW s \in Range(exports)
                 PROVE  s \in services /\ (name_of[s] # no_name => name_of[s] \in by_name)
    BY DEF AnsweredAfterInit
  <2>2. s \in services /\ naming = no_name
    BY <2>1, CompiledExports DEF IInv, Initializes
  <2>3. QED
    BY <2>1, <2>2 DEF IInv, Initializes
<1>2. QED
  BY <1>1, InitRight, NextRight, PTL DEF Spec

\* For every configuration and any interrupts: a call that returns has run what
\* the components of the project added to the service, each function once
\* (builder::add, callback::builder, runtime_conditional, invoke_service).
THEOREM CallsRunWhatWasAdded == Spec => []RunsWhatWasAdded
<1>1. IInv => RunsWhatWasAdded
  <2>1. SUFFICES ASSUME IInv, NEW c \in Contexts, Returned(c)
                 PROVE  /\ Range(calls[c].done) = Promised(calls[c].service)
                        /\ Len(calls[c].done) = Cardinality(Promised(calls[c].service))
    BY DEF RunsWhatWasAdded
  <2>2. /\ calls[c].left = <<>> /\ calls[c].service \in DOMAIN built
        /\ Going(calls[c], built[calls[c].service], holds)
    BY <2>1 DEF IInv, CallsRight, CallRight, Returned
  <2>3. Promised(calls[c].service)
          = {f.func : f \in {g \in Range(built[calls[c].service]) : Enabled(g, holds)}}
    BY <2>1, <2>2, EnabledArePromised DEF IInv, Compiled
  <2>4. QED
    BY <2>2, <2>3, GoingEnds
<1>2. QED
  BY <1>1, InitRight, NextRight, PTL DEF Spec

=============================================================================
