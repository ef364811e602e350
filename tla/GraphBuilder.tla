---------------------------- MODULE GraphBuilder ----------------------------
(***************************************************************************)
(* flow::graph_builder: the compiler checks the fragments of a flow, makes *)
(* a graph of its steps and sorts it topologically.  A failed check stops  *)
(* the build with a message; otherwise ordered is the list of the steps.   *)
(***************************************************************************)
EXTENDS FlowDsl

CONSTANTS
  Flows,    \* the flows considered, sequences of fragments
  none      \* no step: not a name

VARIABLES
  flow,
  stage,
  graph,    \* the multimap: from each key to its set of values
  sources,
  ordered,  \* ordered_list
  node,     \* n: the step whose edges are being erased
  pending   \* the rest of ms, its values when it was popped

build_vars == <<flow, stage, graph, sources, ordered, node, pending>>

Outcomes == {"missing", "duplicate", "weaker", "cycle", "built"}

NodeNames == NamesOf(nodes(flow))

\* The values of a key: the steps with an edge from it.
successors(n) == {e.dest.name : e \in {d \in edges(flow) : d.source.name = n}}

ASSUME FlowTypes == Flows \subseteq Seq([graph : Subgraphs, when : SUBSET Predicates])

ASSUME NoneIsNoName == \A f \in Flows : none \notin NamesOf(nodes(f))

Init ==
  /\ flow \in Flows
  /\ stage = "check"
  /\ graph = <<>>
  /\ sources = {}
  /\ ordered = <<>>
  /\ node = none
  /\ pending = {}

----------------------------------------------------------------------------
\* A mutant: only the duplicates are looked for.
check_for_duplicate_nodes ==
  /\ stage = "check"
  /\ stage' = IF duplicate_nodes(flow) # {} THEN "duplicate" ELSE "make"
  /\ UNCHANGED <<flow, graph, sources, ordered, node, pending>>

\* The steps added must be the steps mentioned, and none is added twice.
check_for_missing_nodes ==
  /\ stage = "check"
  /\ stage' = IF NodeNames # NamesOf(mentioned_nodes(flow)) THEN "missing"
              ELSE IF duplicate_nodes(flow) # {} THEN "duplicate" ELSE "make"
  /\ UNCHANGED <<flow, graph, sources, ordered, node, pending>>

\* The predicates of the steps with that name: named_nodes holds one.
ConditionOf(n) == UNION {m.cond : m \in {k \in nodes(flow) : k.name = n}}

\* A mutant: only the condition of the first step counts.
WeakerThanSource(e) == ~ ConditionOf(e.source.name) \subseteq e.cond

WeakerThanSteps(e) ==
  ~ (ConditionOf(e.source.name) \cup ConditionOf(e.dest.name)) \subseteq e.cond

\* A mutant: only the edges into a step are counted.
EdgesInto(n) == {e \in edges(flow) : e.dest.name = n}

EdgesAt(n) == {e \in edges(flow) : e.source.name = n \/ e.dest.name = n}

\* edge_size: the capacity of each set of values.
edge_size ==
  CHOOSE size \in 1 .. Cardinality(edges(flow)) + 1 :
    /\ \A n \in NodeNames : Cardinality(EdgesAt(n)) <= size
    /\ size = 1 \/ \E n \in NodeNames : Cardinality(EdgesAt(n)) = size

\* Both ends of an edge are looked up among the steps that were added.
EdgesResolve ==
  \A e \in edges(flow) : {e.source.name, e.dest.name} \subseteq NodeNames

\* A mutant: the other edges into a step are not looked for.
is_source_at_once(n, g) == TRUE

is_source_of(n, g) == \A k \in DOMAIN g : n \notin g[k]

get_sources(g) == {n \in DOMAIN g : is_source_of(n, g)}

\* make_graph, and the sources to start from.
make_graph ==
  /\ stage = "make"
  /\ EdgesResolve
  /\ IF \E e \in edges(flow) : WeakerThanSteps(e)
     THEN stage' = "weaker" /\ UNCHANGED <<graph, sources>>
     ELSE /\ stage' = "sort"
          /\ graph' = [n \in NodeNames |-> successors(n)]
          /\ sources' = get_sources(graph')
  /\ UNCHANGED <<flow, ordered, node, pending>>

----------------------------------------------------------------------------
\* cx_multimap: a key goes away with its last value.
erase_key(g, n) == [k \in DOMAIN g \ {n} |-> g[k]]

\* A mutant: the key stays.
erase_value(g, n, m) == [g EXCEPT ![n] = @ \ {m}]

erase(g, n, m) ==
  IF g[n] = {m} THEN erase_key(g, n) ELSE [g EXCEPT ![n] = @ \ {m}]

\* topo_sort: a source is popped and put last; any of them may be popped.
PopSource ==
  /\ stage = "sort" /\ node = none
  /\ \E n \in sources :
       /\ sources' = sources \ {n}
       /\ ordered' = Append(ordered, n)
       /\ IF n \in DOMAIN graph /\ graph[n] # {}
          THEN node' = n /\ pending' = graph[n] /\ UNCHANGED graph
          ELSE graph' = erase_key(graph, n) /\ UNCHANGED <<node, pending>>
  /\ UNCHANGED <<flow, stage>>

\* Its edges are erased, and a step with no other edge into it is a source.
EraseEdge ==
  /\ stage = "sort" /\ node # none
  /\ \E m \in pending :
       /\ graph' = erase(graph, node, m)
       /\ sources' = IF is_source_of(m, graph') THEN sources \cup {m} ELSE sources
       /\ pending' = pending \ {m}
  /\ node' = IF pending' = {} THEN none ELSE node
  /\ UNCHANGED <<flow, stage, ordered>>

\* No source is left: what is left of the graph is diagnosed as a cycle.
Finish ==
  /\ stage = "sort" /\ node = none /\ sources = {}
  /\ stage' = IF DOMAIN graph = {} THEN "built" ELSE "cycle"
  /\ UNCHANGED <<flow, graph, sources, ordered, node, pending>>

BuildNext ==
  check_for_missing_nodes \/ make_graph \/ PopSource \/ EraseEdge \/ Finish

BuildSpec == Init /\ [][BuildNext]_build_vars

----------------------------------------------------------------------------
Placed == {ordered[i] : i \in DOMAIN ordered}

(* The types of the builder's state.                                       *)
BuildTypeOK ==
  /\ stage \in Outcomes \cup {"check", "make", "sort"}
  /\ DOMAIN graph \subseteq NodeNames
  /\ \A n \in DOMAIN graph : graph[n] \subseteq NodeNames
  /\ sources \subseteq NodeNames
  /\ ordered \in Seq(NodeNames)
  /\ node \in NodeNames \cup {none}
  /\ pending \subseteq NodeNames

(* A flow that builds has all its steps, each once, and every step comes   *)
(* after the steps that have an edge to it.                                *)
BuiltInOrder ==
  stage = "built" =>
    /\ Placed = NodeNames
    /\ \A i, j \in DOMAIN ordered :
         /\ ordered[i] = ordered[j] => i = j
         /\ ordered[j] \in successors(ordered[i]) => i < j

(* A flow is diagnosed as cyclic only if it is: each of the steps that are *)
(* left waits for one of them.                                             *)
CyclicIsCyclic ==
  stage = "cycle" =>
    LET left == NodeNames \ Placed IN
    /\ left # {}
    /\ \A n \in left : \E m \in left : n \in successors(m)

(* Every step an edge names is found among the steps that were added, so   *)
(* make_graph never fails without a message.                               *)
LookupSucceeds == stage = "make" => EdgesResolve

Position(n) == CHOOSE i \in DOMAIN ordered : ordered[i] = n

(* In a flow that builds, all the steps on the left of a >> come before    *)
(* all those on its right, however the two sides are made up: the edges    *)
(* between the last of the one and the first of the other are enough.      *)
SequencesInOrder ==
  stage = "built" =>
    \A i \in DOMAIN flow : \A t \in subgraphs_of[flow[i].graph] :
      t.op = "seq" =>
        \A m \in NamesOf(all_mentioned_of[t.lhs]), n \in NamesOf(all_mentioned_of[t.rhs]) :
          Position(m) < Position(n)

(* The capacity computed for the multimap is never exceeded.               *)
WithinCapacity ==
  \A n \in DOMAIN graph : Cardinality(graph[n]) <= edge_size
=============================================================================
