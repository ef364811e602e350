------------------------------ MODULE FlowDsl ------------------------------
(***************************************************************************)
(* The language in which components extend a flow, and what flow::dsl      *)
(* derives from it at compile time: the steps that are added, the steps    *)
(* that are mentioned and the edges between them.                          *)
(*                                                                         *)
(* A subgraph is a leaf, [op |-> "step", name, identity], or a composite   *)
(* (&& is "par", >> is "seq"), [op, lhs, rhs, identity].  Its identity is  *)
(* VALUE after operator*.  A flow is a sequence of fragments, the          *)
(* arguments of cib::extend, each with the predicates of the runtime       *)
(* conditionals around it.  "a"_ref behaves as an unstarred leaf.          *)
(***************************************************************************)
EXTENDS Naturals, Sequences, FiniteSets

CONSTANTS
  Subgraphs,   \* the subgraphs used, closed under lhs and rhs
  Predicates

IsLeaf(t) == t.op = "step"

\* How many operators a subgraph is written with.
operators_in[t \in Subgraphs] ==
  IF IsLeaf(t) THEN 0 ELSE operators_in[t.lhs] + operators_in[t.rhs] + 1

\* Subgraphs are finite expressions.
ASSUME SubgraphTypes ==
  \A t \in Subgraphs :
    /\ t.op \in {"step", "par", "seq"}
    /\ t.identity \in {"REFERENCE", "VALUE"}
    /\ operators_in[t] \in Nat
    /\ ~IsLeaf(t) => \A part \in {t.lhs, t.rhs} :
                       part \in Subgraphs /\ operators_in[part] < operators_in[t]

\* A mutant: the wrong leaves get the condition.
conditional_references(cond, leaf) ==
  [name |-> leaf.name, identity |-> leaf.identity,
   cond |-> IF leaf.identity = "REFERENCE" THEN cond ELSE {}]

\* make_runtime_conditional: a condition reaches the leaves that are starred
\* themselves.
make_runtime_conditional(cond, leaf) ==
  [name |-> leaf.name, identity |-> leaf.identity,
   cond |-> IF leaf.identity = "VALUE" THEN cond ELSE {}]

star(leaf) == [leaf EXCEPT !.identity = "VALUE"]

----------------------------------------------------------------------------
\* walk.hpp, par.hpp and seq.hpp.

initials_of[t \in Subgraphs] ==
  CASE t.op = "step" -> {t}
    [] t.op = "par"  -> initials_of[t.lhs] \cup initials_of[t.rhs]
    [] t.op = "seq"  -> initials_of[t.lhs]

finals_of[t \in Subgraphs] ==
  CASE t.op = "step" -> {t}
    [] t.op = "par"  -> finals_of[t.lhs] \cup finals_of[t.rhs]
    [] t.op = "seq"  -> finals_of[t.rhs]

all_mentioned_of[t \in Subgraphs] ==
  IF IsLeaf(t) THEN {t} ELSE all_mentioned_of[t.lhs] \cup all_mentioned_of[t.rhs]

MentionedUnder(t, cond) ==
  {make_runtime_conditional(cond, leaf) : leaf \in all_mentioned_of[t]}

\* A starred subgraph adds everything it mentions.
nodes_of[t \in Subgraphs] ==
  [cond \in SUBSET Predicates |->
     CASE t.identity = "VALUE" -> {star(leaf) : leaf \in MentionedUnder(t, cond)}
       [] IsLeaf(t) /\ t.identity = "REFERENCE" -> {}
       [] OTHER -> nodes_of[t.lhs][cond] \cup nodes_of[t.rhs][cond]]

NamesOf(leaves) == {leaf.name : leaf \in leaves}

\* The lists of types that nodes_of builds may name a step twice: a starred
\* subgraph that mentions it as two types, or two subgraphs that both add it.
AddedTwice[t \in Subgraphs] ==
  CASE t.identity = "VALUE" ->
         {leaf.name : leaf \in {l \in all_mentioned_of[t] :
                                  \E m \in all_mentioned_of[t] : m # l /\ m.name = l.name}}
    [] IsLeaf(t) /\ t.identity = "REFERENCE" -> {}
    [] OTHER -> AddedTwice[t.lhs] \cup AddedTwice[t.rhs]
                \cup (NamesOf(nodes_of[t.lhs][{}]) \cap NamesOf(nodes_of[t.rhs][{}]))

\* A mutant: the steps that begin the left side are crossed.
cross_initials(t) ==
  IF t.op = "seq" THEN [source : initials_of[t.lhs], dest : initials_of[t.rhs]] ELSE {}

\* make_edge_q for each last step of the left and each first step of the right.
cross(t) ==
  IF t.op = "seq" THEN [source : finals_of[t.lhs], dest : initials_of[t.rhs]] ELSE {}

edges_of[t \in Subgraphs] ==
  IF IsLeaf(t) THEN {} ELSE edges_of[t.lhs] \cup edges_of[t.rhs] \cup cross(t)

\* Everything a subgraph is made of.
subgraphs_of[t \in Subgraphs] ==
  IF IsLeaf(t) THEN {t} ELSE {t} \cup subgraphs_of[t.lhs] \cup subgraphs_of[t.rhs]

----------------------------------------------------------------------------
\* builder_for: what the fragments of a flow add up to.

nodes(flow) ==
  UNION {nodes_of[flow[i].graph][flow[i].when] : i \in DOMAIN flow}

mentioned_nodes(flow) ==
  UNION {MentionedUnder(flow[i].graph, flow[i].when) : i \in DOMAIN flow}

duplicate_nodes(flow) ==
  UNION {AddedTwice[flow[i].graph] : i \in DOMAIN flow}
  \cup {n \in NamesOf(nodes(flow)) :
          \E i, j \in DOMAIN flow :
            /\ i # j
            /\ n \in NamesOf(nodes_of[flow[i].graph][{}])
            /\ n \in NamesOf(nodes_of[flow[j].graph][{}])}

edges(flow) ==
  UNION {{[source |-> make_runtime_conditional(flow[i].when, e.source),
           dest |-> make_runtime_conditional(flow[i].when, e.dest),
           cond |-> flow[i].when] : e \in edges_of[flow[i].graph]} :
         i \in DOMAIN flow}
============================================================================
