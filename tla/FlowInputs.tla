----------------------------- MODULE FlowInputs -----------------------------
(***************************************************************************)
(* Notation for the flows of the instances of GraphBuilder and FlowRun.    *)
(***************************************************************************)
EXTENDS Sequences, SequencesExt

CONSTANTS a, b, c, d   \* names of steps
CONSTANTS p, q         \* predicates

Identities == {"VALUE", "REFERENCE"}

Step(n, identity) == [op |-> "step", name |-> n, identity |-> identity]
Composite(op, lhs, rhs, identity) ==
  [op |-> op, lhs |-> lhs, rhs |-> rhs, identity |-> identity]

Leaves(names) == {Step(n, identity) : n \in names, identity \in Identities}

Composites(left, right) ==
  {Composite(op, lhs, rhs, identity) :
     op \in {"par", "seq"}, lhs \in left, rhs \in right, identity \in Identities}

Ref(n) == Step(n, "REFERENCE")
Starred(n) == Step(n, "VALUE")
Sequence(m, n) == Composite("seq", Ref(m), Ref(n), "REFERENCE")

Fragment(t, cond) == [graph |-> t, when |-> cond]

TreesOf(flows) == UNION {{f[i].graph : i \in DOMAIN f} : f \in flows}

Parts(t) == IF t.op = "step" THEN {t} ELSE {t, t.lhs, t.rhs}

\* Two levels of composites are used at most.
ClosedUnderParts(trees) ==
  LET once == UNION {Parts(t) : t \in trees} IN UNION {Parts(t) : t \in once}
=============================================================================
