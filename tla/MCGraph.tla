------------------------------ MODULE MCGraph ------------------------------
(***************************************************************************)
(* Instances of GraphBuilder for TLC: every graph on a few steps, and      *)
(* every way to write two small fragments.                                 *)
(***************************************************************************)
EXTENDS GraphBuilder, FlowInputs

\* Every graph on three steps, and on four without an edge to itself.
Three == <<a, b, c>>
Four == <<a, b, c, d>>

\* All pairs of the steps of a list of n.
Pairs(steps) ==
  LET n == Len(steps)
  IN [k \in 1 .. n * n |-> <<steps[(k - 1) \div n + 1], steps[((k - 1) % n) + 1]>>]

FlowOf(steps, pairs) ==
  [i \in DOMAIN steps |-> Fragment(Starred(steps[i]), {})]
    \o LET chosen == SelectSeq(Pairs(steps), LAMBDA e : e \in pairs)
       IN [i \in DOMAIN chosen |-> Fragment(Sequence(chosen[i][1], chosen[i][2]), {})]

Distinct(pairs) == {e \in pairs : e[1] # e[2]}

GraphFlows ==
  {FlowOf(Three, pairs) : pairs \in SUBSET Range(Pairs(Three))}
  \cup {FlowOf(Four, pairs) : pairs \in SUBSET Distinct(Range(Pairs(Four)))}

\* Every two fragments of one operator on two steps, with or without a
\* condition, and every fragment of two operators on three.
SmallTrees == Leaves({a, b}) \cup Composites(Leaves({a, b}), Leaves({a, b}))

NestedTrees ==
  Composites(SmallTrees, {Starred(c)}) \cup Composites({Ref(c), Starred(c)}, SmallTrees)

ShapeFlows ==
  {<<Fragment(t, cond)>> : t \in NestedTrees, cond \in {{}, {p}}}
  \cup {<<Fragment(t, {}), Fragment(Starred(n), {})>> : t \in NestedTrees, n \in {a, b, c}}
  \cup {<<Fragment(t, {}), Fragment(u, cond)>> :
          t \in SmallTrees, u \in SmallTrees, cond \in {{}, {p}}}

AllFlows == GraphFlows \cup ShapeFlows

AllTrees ==
  ClosedUnderParts(SmallTrees \cup NestedTrees)
    \cup Leaves({a, b, c, d}) \cup {Sequence(m, n) : m, n \in {a, b, c, d}}
============================================================================
