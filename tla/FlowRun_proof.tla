--------------------------- MODULE FlowRun_proof ---------------------------
(***************************************************************************)
(* Proofs about flows: first the graph builder, then the runs of what it   *)
(* built.                                                                  *)
(***************************************************************************)
EXTENDS FlowRun, Recursion

----------------------------------------------------------------------------
(***************************************************************************)
(* A flow that builds is in order, and one that is diagnosed as cyclic is, *)
(* for every flow and whichever source is popped first.                    *)
(*                                                                         *)
(* While the sort runs, a step is placed (in ordered), ready (in sources)  *)
(* or waiting.  The edges of the steps that are not placed are untouched,  *)
(* those of the placed ones are erased up to what is pending, and no edge  *)
(* is left into a step that is placed or ready, whereas every waiting step *)
(* has one.                                                                *)
(***************************************************************************)

\* No edge is left into n.
NoEdgeInto(n) == \A k \in DOMAIN graph : n \notin graph[k]

Distinct == \A i, j \in DOMAIN ordered : ordered[i] = ordered[j] => i = j

\* Every step comes after those that have an edge to it.
AfterItsPredecessors ==
  \A j \in DOMAIN ordered : \A m \in NodeNames :
    ordered[j] \in successors(m) => \E i \in DOMAIN ordered : i < j /\ ordered[i] = m

EdgesUntouched ==
  \A n \in NodeNames \ Placed : n \in DOMAIN graph /\ graph[n] = successors(n)

EdgesErased ==
  \A n \in Placed : n # node => n \notin DOMAIN graph

\* The step that was popped has the edges that are pending.
PendingLeft ==
  IF node = none THEN pending = {}
  ELSE /\ node \in Placed
       /\ pending # {}
       /\ node \in DOMAIN graph
       /\ graph[node] = pending
       /\ pending \subseteq successors(node)

PlacedOrReady ==
  /\ sources \cap Placed = {}
  /\ \A n \in Placed \cup sources : NoEdgeInto(n)

WaitingWaits ==
  \A n \in NodeNames \ (Placed \cup sources) : ~ NoEdgeInto(n)

Sorting ==
  /\ Distinct
  /\ AfterItsPredecessors
  /\ EdgesUntouched
  /\ EdgesErased
  /\ PendingLeft
  /\ PlacedOrReady
  /\ WaitingWaits

\* What the sort's end leaves.
Sorted == sources = {} /\ node = none

NotYetSorting == stage \in {"check", "make", "missing", "duplicate", "weaker"}

IInv ==
  /\ flow \in Flows
  /\ BuildTypeOK
  /\ (stage \in {"sort", "built", "cycle"} => EdgesResolve /\ Sorting)
  /\ NotYetSorting => graph = <<>> /\ sources = {} /\ ordered = <<>> /\ node = none /\ pending = {}
  /\ stage \in {"built", "cycle"} => Sorted
  /\ stage = "built" => DOMAIN graph = {}
  /\ stage = "cycle" => DOMAIN graph # {}

----------------------------------------------------------------------------
\* A step of the builder does not touch the flow it builds.
LEMMA FlowFixed ==
  ASSUME [BuildNext]_build_vars
  PROVE  /\ flow' = flow
         /\ NodeNames' = NodeNames
         /\ \A n : successors(n)' = successors(n)
         /\ EdgesResolve' = EdgesResolve
<1>1. flow' = flow
  BY DEF BuildNext, build_vars, check_for_missing_nodes, make_graph, PopSource,
         EraseEdge, Finish
<1> QED
  BY <1>1 DEF NodeNames, successors, EdgesResolve

\* The edges lead to steps of the flow.
LEMMA SuccessorsAreSteps ==
  ASSUME EdgesResolve, NEW n
  PROVE  successors(n) \subseteq NodeNames
  BY DEF EdgesResolve, successors

LEMMA InitIInv == Init => IInv
  BY DEF Init, IInv, BuildTypeOK, NotYetSorting, Outcomes

LEMMA CheckIInv ==
  ASSUME IInv, check_for_missing_nodes
  PROVE  IInv'
<1>1. flow' = flow /\ NodeNames' = NodeNames
  BY FlowFixed DEF BuildNext
<1> QED
  BY <1>1 DEF check_for_missing_nodes, IInv, BuildTypeOK, NotYetSorting, Outcomes

LEMMA MakeIInv ==
  ASSUME IInv, make_graph
  PROVE  IInv'
<1>1. /\ flow' = flow /\ NodeNames' = NodeNames
      /\ \A n : successors(n)' = successors(n)
      /\ EdgesResolve' = EdgesResolve
  BY FlowFixed DEF BuildNext
<1>2. stage = "make" /\ EdgesResolve
  BY DEF make_graph
<1>3. ordered = <<>> /\ node = none /\ pending = {} /\ graph = <<>> /\ sources = {}
  BY <1>2 DEF IInv, NotYetSorting
<1>4. CASE \E e \in edges(flow) : WeakerThanSteps(e)
  <2>1. stage' = "weaker" /\ UNCHANGED <<flow, graph, sources, ordered, node, pending>>
    BY <1>4 DEF make_graph
  <2> QED
    BY <1>1, <1>3, <2>1 DEF IInv, BuildTypeOK, NotYetSorting, Outcomes
<1>5. CASE ~ \E e \in edges(flow) : WeakerThanSteps(e)
  <2>1. /\ stage' = "sort"
        /\ graph' = [n \in NodeNames |-> successors(n)]
        /\ sources' = get_sources(graph')
        /\ UNCHANGED <<flow, ordered, node, pending>>
    BY <1>5 DEF make_graph
  <2>2. Placed' = {}
    BY <1>3, <2>1 DEF Placed
  <2>3. /\ DOMAIN graph' = NodeNames
        /\ \A n \in NodeNames : graph'[n] = successors(n)
    BY <2>1
  <2>4. sources' = {n \in NodeNames : NoEdgeInto(n)'}
    BY <2>1, <2>3 DEF get_sources, is_source_of, NoEdgeInto
  <2>5. BuildTypeOK'
    BY <1>1, <1>2, <1>3, <2>1, <2>3, <2>4, SuccessorsAreSteps DEF BuildTypeOK, Outcomes
  <2>6. Sorting'
    BY <1>1, <1>3, <2>1, <2>2, <2>3, <2>4
       DEF Sorting, Distinct, AfterItsPredecessors, EdgesUntouched, EdgesErased,
           PendingLeft, PlacedOrReady, WaitingWaits
  <2> QED
    BY <1>1, <1>2, <1>3, <2>1, <2>5, <2>6 DEF IInv, NotYetSorting
<1> QED
  BY <1>4, <1>5

----------------------------------------------------------------------------
\* A source is popped: it is a step that waits no longer and has its edges.
LEMMA PopIInv ==
  ASSUME IInv, PopSource
  PROVE  IInv'
<1>1. /\ flow' = flow /\ NodeNames' = NodeNames
      /\ \A n : successors(n)' = successors(n)
      /\ EdgesResolve' = EdgesResolve
  BY FlowFixed DEF BuildNext
<1>2. /\ stage = "sort" /\ node = none /\ stage' = stage
      /\ EdgesResolve /\ Sorting /\ BuildTypeOK
  BY DEF PopSource, IInv
<1>3. PICK n \in sources :
        /\ sources' = sources \ {n}
        /\ ordered' = Append(ordered, n)
        /\ IF n \in DOMAIN graph /\ graph[n] # {}
           THEN node' = n /\ pending' = graph[n] /\ UNCHANGED graph
           ELSE graph' = erase_key(graph, n) /\ UNCHANGED <<node, pending>>
  BY DEF PopSource
<1>4. /\ n \in NodeNames /\ n \notin Placed
      /\ n \in DOMAIN graph /\ graph[n] = successors(n)
      /\ NoEdgeInto(n)
      /\ pending = {}
  BY <1>2, <1>3 DEF Sorting, PlacedOrReady, EdgesUntouched, PendingLeft, BuildTypeOK
<1>5. none \notin NodeNames
  BY NoneIsNoName DEF IInv, NodeNames
<1>6. /\ ordered' \in Seq(NodeNames)
      /\ Len(ordered') = Len(ordered) + 1
      /\ DOMAIN ordered = 1 .. Len(ordered) /\ DOMAIN ordered' = 1 .. Len(ordered) + 1
      /\ \A i \in DOMAIN ordered : ordered'[i] = ordered[i]
      /\ ordered'[Len(ordered) + 1] = n
      /\ Len(ordered) \in Nat
  BY <1>2, <1>3, <1>4 DEF BuildTypeOK
<1>7. Placed' = Placed \cup {n}
  BY <1>6 DEF Placed
<1>8. Distinct'
  BY <1>2, <1>4, <1>6 DEF Distinct, Sorting, Placed
<1>9. AfterItsPredecessors'
  <2>1. SUFFICES ASSUME NEW j \in DOMAIN ordered', NEW m \in NodeNames,
                        ordered'[j] \in successors(m)
                 PROVE  \E i \in DOMAIN ordered' : i < j /\ ordered'[i] = m
    BY <1>1 DEF AfterItsPredecessors
  <2>2. CASE j \in DOMAIN ordered
    <3>1. PICK i \in DOMAIN ordered : i < j /\ ordered[i] = m
      BY <1>2, <1>6, <2>1, <2>2 DEF Sorting, AfterItsPredecessors
    <3> QED
      BY <1>6, <2>2, <3>1
  <2>3. CASE j = Len(ordered) + 1
    <3>1. n \in successors(m)
      BY <1>6, <2>1, <2>3
    <3>2. m \in Placed
      BY <1>2, <1>4, <3>1 DEF Sorting, EdgesUntouched, NoEdgeInto
    <3> QED
      BY <1>6, <2>3, <3>2 DEF Placed
  <2> QED
    BY <1>6, <2>2, <2>3
<1>10. CASE graph[n] # {}
  <2>1. node' = n /\ pending' = graph[n] /\ graph' = graph
    BY <1>3, <1>4, <1>10
  <2>2. BuildTypeOK'
    BY <1>1, <1>2, <1>3, <1>4, <1>6, <2>1 DEF BuildTypeOK
  <2>3. EdgesUntouched' /\ EdgesErased' /\ PendingLeft'
    BY <1>1, <1>2, <1>4, <1>5, <1>7, <1>10, <2>1
       DEF Sorting, EdgesUntouched, EdgesErased, PendingLeft, BuildTypeOK
  <2>4. PlacedOrReady' /\ WaitingWaits'
    BY <1>1, <1>2, <1>3, <1>4, <1>7, <2>1
       DEF Sorting, PlacedOrReady, WaitingWaits, NoEdgeInto
  <2> QED
    BY <1>1, <1>2, <1>8, <1>9, <2>2, <2>3, <2>4 DEF IInv, Sorting, NotYetSorting
<1>11. CASE graph[n] = {}
  <2>1. node' = node /\ pending' = pending /\ graph' = erase_key(graph, n)
    BY <1>3, <1>11
  <2>2. /\ DOMAIN graph' = DOMAIN graph \ {n}
        /\ \A k \in DOMAIN graph' : graph'[k] = graph[k]
    BY <2>1 DEF erase_key
  <2>3. \A m : NoEdgeInto(m)' <=> NoEdgeInto(m)
    BY <1>11, <2>2 DEF NoEdgeInto
  <2>4. BuildTypeOK'
    BY <1>1, <1>2, <1>3, <1>4, <1>6, <2>1, <2>2 DEF BuildTypeOK
  <2>5. EdgesUntouched' /\ EdgesErased' /\ PendingLeft'
    BY <1>1, <1>2, <1>4, <1>5, <1>7, <2>1, <2>2
       DEF Sorting, EdgesUntouched, EdgesErased, PendingLeft, BuildTypeOK
  <2>6. PlacedOrReady' /\ WaitingWaits'
    BY <1>1, <1>2, <1>3, <1>4, <1>7, <2>3 DEF Sorting, PlacedOrReady, WaitingWaits
  <2> QED
    BY <1>1, <1>2, <1>8, <1>9, <2>4, <2>5, <2>6 DEF IInv, Sorting, NotYetSorting
<1> QED
  BY <1>10, <1>11

\* An edge is erased: its destination is ready when it was the last one.
LEMMA EraseIInv ==
  ASSUME IInv, EraseEdge
  PROVE  IInv'
<1>1. /\ flow' = flow /\ NodeNames' = NodeNames
      /\ \A n : successors(n)' = successors(n)
      /\ EdgesResolve' = EdgesResolve
  BY FlowFixed DEF BuildNext
<1>2. /\ stage = "sort" /\ node # none /\ stage' = stage /\ ordered' = ordered
      /\ EdgesResolve /\ Sorting /\ BuildTypeOK
  BY DEF EraseEdge, IInv
<1>3. PICK m \in pending :
        /\ graph' = erase(graph, node, m)
        /\ sources' = IF is_source_of(m, graph') THEN sources \cup {m} ELSE sources
        /\ pending' = pending \ {m}
  BY DEF EraseEdge
<1>4. node' = IF pending' = {} THEN none ELSE node
  BY DEF EraseEdge
<1>5. /\ node \in Placed /\ node \in DOMAIN graph /\ graph[node] = pending
      /\ pending \subseteq successors(node) /\ m \in NodeNames /\ node \in NodeNames
  BY <1>2, <1>3 DEF Sorting, PendingLeft, BuildTypeOK
<1>6. Placed' = Placed
  BY <1>2 DEF Placed
<1>7. ~ NoEdgeInto(m)
  BY <1>3, <1>5 DEF NoEdgeInto
<1>8. m \notin Placed \cup sources
  BY <1>2, <1>7 DEF Sorting, PlacedOrReady
<1>9. /\ DOMAIN graph' = IF pending' = {} THEN DOMAIN graph \ {node} ELSE DOMAIN graph
      /\ \A k \in DOMAIN graph' : graph'[k] = IF k = node THEN pending' ELSE graph[k]
  BY <1>3, <1>5 DEF erase, erase_key
<1>10. \A n : n # m => (NoEdgeInto(n)' <=> NoEdgeInto(n))
  BY <1>3, <1>5, <1>9 DEF NoEdgeInto
<1>11. sources' = IF NoEdgeInto(m)' THEN sources \cup {m} ELSE sources
  BY <1>3 DEF is_source_of, NoEdgeInto
<1>12. BuildTypeOK'
  BY <1>1, <1>2, <1>3, <1>4, <1>5, <1>9, <1>11 DEF BuildTypeOK
<1>13. Distinct' /\ AfterItsPredecessors'
  BY <1>1, <1>2 DEF Sorting, Distinct, AfterItsPredecessors
<1>14. EdgesUntouched'
  BY <1>1, <1>2, <1>5, <1>6, <1>9 DEF Sorting, EdgesUntouched
<1>15. EdgesErased' /\ PendingLeft'
  BY <1>1, <1>2, <1>3, <1>4, <1>5, <1>6, <1>9
     DEF Sorting, EdgesErased, PendingLeft
<1>16. PlacedOrReady' /\ WaitingWaits'
  BY <1>1, <1>2, <1>6, <1>8, <1>10, <1>11
     DEF Sorting, PlacedOrReady, WaitingWaits
<1> QED
  BY <1>1, <1>2, <1>12, <1>13, <1>14, <1>15, <1>16 DEF IInv, Sorting, NotYetSorting

LEMMA FinishIInv ==
  ASSUME IInv, Finish
  PROVE  IInv'
<1>1. /\ flow' = flow /\ NodeNames' = NodeNames
      /\ \A n : successors(n)' = successors(n)
      /\ EdgesResolve' = EdgesResolve
  BY FlowFixed DEF BuildNext
<1>2. /\ UNCHANGED <<graph, sources, ordered, node, pending>>
      /\ stage = "sort" /\ Sorted
      /\ stage' = IF DOMAIN graph = {} THEN "built" ELSE "cycle"
  BY DEF Finish, Sorted
<1>3. Sorting'
  BY <1>1, <1>2
     DEF IInv, Sorting, Distinct, AfterItsPredecessors, EdgesUntouched, EdgesErased,
         PendingLeft, PlacedOrReady, WaitingWaits, NoEdgeInto, Placed
<1> QED
  BY <1>1, <1>2, <1>3 DEF IInv, BuildTypeOK, NotYetSorting, Outcomes, Sorted

LEMMA BuildStepIInv ==
  ASSUME IInv, [BuildNext]_build_vars
  PROVE  IInv'
<1>1. CASE UNCHANGED build_vars
  <2>1. /\ UNCHANGED <<flow, stage, graph, sources, ordered, node, pending>>
        /\ NodeNames' = NodeNames
        /\ \A n : successors(n)' = successors(n)
        /\ EdgesResolve' = EdgesResolve
    BY <1>1, FlowFixed DEF build_vars
  <2>2. Sorting' = Sorting
    BY <2>1 DEF Sorting, Distinct, AfterItsPredecessors, EdgesUntouched, EdgesErased,
                PendingLeft, PlacedOrReady, WaitingWaits, NoEdgeInto, Placed
  <2> QED
    BY <2>1, <2>2 DEF IInv, BuildTypeOK, NotYetSorting, Sorted
<1> QED
  BY <1>1, CheckIInv, MakeIInv, PopIInv, EraseIInv, FinishIInv DEF BuildNext

(* The state of the sort is as described above, in every reachable state.  *)
THEOREM BuilderInvariant == BuildSpec => []IInv
  BY InitIInv, BuildStepIInv, PTL DEF BuildSpec

----------------------------------------------------------------------------
(* The builder's state always has its types.                               *)
THEOREM BuilderTypeCorrect == BuildSpec => []BuildTypeOK
<1>1. IInv => BuildTypeOK
  BY DEF IInv
<1> QED
  BY <1>1, BuilderInvariant, PTL

\* At the end the steps that are placed are those with no edges left.
LEMMA LeftoverNotPlaced ==
  ASSUME IInv, stage \in {"built", "cycle"}
  PROVE  /\ DOMAIN graph = NodeNames \ Placed
         /\ Placed \subseteq NodeNames
         /\ \A n \in DOMAIN graph : graph[n] = successors(n)
<1>1. Sorting /\ Sorted /\ BuildTypeOK
  BY DEF IInv
<1>2. none \notin NodeNames
  BY NoneIsNoName DEF IInv, NodeNames
<1>3. Placed \subseteq NodeNames
  BY <1>1 DEF Placed, BuildTypeOK
<1> QED
  BY <1>1, <1>2, <1>3 DEF Sorting, Sorted, EdgesUntouched, EdgesErased, BuildTypeOK

LEMMA BuiltIsInOrder == IInv => BuiltInOrder
<1> SUFFICES ASSUME IInv, stage = "built" PROVE BuiltInOrder
  BY DEF BuiltInOrder
<1>1. Placed = NodeNames
  BY LeftoverNotPlaced DEF IInv
<1>2. Sorting /\ BuildTypeOK
  BY DEF IInv
<1>3. ASSUME NEW i \in DOMAIN ordered, NEW j \in DOMAIN ordered,
             ordered[j] \in successors(ordered[i])
      PROVE  i < j
  <2>1. ordered[i] \in NodeNames
    BY <1>2 DEF BuildTypeOK
  <2>2. PICK k \in DOMAIN ordered : k < j /\ ordered[k] = ordered[i]
    BY <1>2, <1>3, <2>1 DEF Sorting, AfterItsPredecessors
  <2> QED
    BY <1>2, <2>2 DEF Sorting, Distinct
<1> QED
  BY <1>1, <1>2, <1>3 DEF BuiltInOrder, Sorting, Distinct

(* A flow that builds has every step once, after all its predecessors,     *)
(* whatever the graph and whichever source topo_sort pops first.           *)
THEOREM SortIsInOrder == BuildSpec => []BuiltInOrder
  BY BuiltIsInOrder, BuilderInvariant, PTL

(* A flow is never diagnosed as cyclic when it is not: every step that is  *)
(* left has a predecessor that is left.                                    *)
THEOREM DiagnosisIsRight == BuildSpec => []CyclicIsCyclic
<1>1. IInv => CyclicIsCyclic
  <2> SUFFICES ASSUME IInv, stage = "cycle" PROVE CyclicIsCyclic
    BY DEF CyclicIsCyclic
  <2>1. /\ DOMAIN graph = NodeNames \ Placed
        /\ \A n \in DOMAIN graph : graph[n] = successors(n)
    BY LeftoverNotPlaced
  <2>2. sources = {} /\ Sorting /\ DOMAIN graph # {}
    BY DEF IInv, Sorted
  <2>3. ASSUME NEW n \in NodeNames \ Placed
        PROVE  \E m \in NodeNames \ Placed : n \in successors(m)
    BY <2>1, <2>2 DEF Sorting, WaitingWaits, NoEdgeInto
  <2> QED
    BY <2>1, <2>2, <2>3 DEF CyclicIsCyclic
<1> QED
  BY <1>1, BuilderInvariant, PTL

----------------------------------------------------------------------------
(***************************************************************************)
(* Every run of every flow keeps the promise that FlowPromise states, and  *)
(* a sequence whose condition holds throughout a run is run.               *)
(***************************************************************************)

\* A graph is made only of edges that are as strict as their steps.
Checked ==
  stage \in {"sort", "built", "cycle"} => \A e \in edges(flow) : ~ WeakerThanSteps(e)

\* The steps that have had their turn have run if their condition has held.
RanWhenHeld ==
  /\ ran \subseteq Decided
  /\ \A n \in Decided : ConditionOf(n) \subseteq held => n \in ran

RunInv ==
  /\ IInv
  /\ Checked
  /\ pc \in 0 .. Len(ordered) + 1
  /\ pc # 0 => stage = "built"
  /\ truth \in SUBSET Predicates
  /\ held \subseteq truth
  /\ RanWhenHeld

----------------------------------------------------------------------------
LEMMA Positions ==
  ASSUME IInv
  PROVE  /\ Len(ordered) \in Nat
         /\ DOMAIN ordered = 1 .. Len(ordered)
         /\ \A i \in DOMAIN ordered : ordered[i] \in NodeNames
  BY DEF IInv, BuildTypeOK

LEMMA InitRunInv == RunInit => RunInv
<1> SUFFICES ASSUME RunInit PROVE RunInv
  OBVIOUS
<1>1. IInv /\ Init
  BY InitIInv DEF RunInit
<1>2. Decided = {}
  BY <1>1 DEF Decided, Init
<1> QED
  BY <1>1, <1>2, Positions DEF RunInit, RunInv, RanWhenHeld, Checked, Init

\* The conditions of the steps and of the edges are the flow's.
LEMMA ConditionsFixed ==
  ASSUME flow' = flow
  PROVE  /\ NodeNames' = NodeNames
         /\ edges(flow)' = edges(flow)
         /\ \A n : successors(n)' = successors(n)
         /\ \A n : ConditionOf(n)' = ConditionOf(n)
         /\ \A e : WeakerThanSteps(e)' = WeakerThanSteps(e)
  BY DEF NodeNames, successors, ConditionOf, WeakerThanSteps

LEMMA BuildStepRunInv ==
  ASSUME RunInv, BuildStep
  PROVE  RunInv' /\ Decided = {} /\ Decided' = {} /\ pc = 0
<1>1. stage # "built" /\ BuildNext /\ UNCHANGED <<pc, truth, held, ran>>
  BY DEF BuildStep, run_vars, BuildNext, check_for_missing_nodes, make_graph,
         PopSource, EraseEdge, Finish
<1>2. pc = 0
  BY <1>1 DEF RunInv
<1>3. IInv'
  BY <1>1, BuildStepIInv DEF RunInv
<1>4. Decided = {} /\ Decided' = {}
  <2>1. DOMAIN ordered \subseteq Nat \ {0} /\ DOMAIN ordered' \subseteq Nat \ {0}
    BY <1>3 DEF RunInv, IInv, BuildTypeOK
  <2> QED
    BY <1>1, <1>2, <2>1 DEF Decided
<1>5. Checked'
  <2>1. flow' = flow
    BY <1>1, FlowFixed
  <2>2. /\ edges(flow)' = edges(flow)
        /\ \A e : WeakerThanSteps(e)' = WeakerThanSteps(e)
    BY <2>1, ConditionsFixed
  <2> QED
    BY <1>1, <2>2
       DEF RunInv, Checked, BuildNext, check_for_missing_nodes, make_graph, PopSource,
           EraseEdge, Finish
<1>6. 0 \in 0 .. Len(ordered') + 1
  BY <1>3 DEF IInv, BuildTypeOK
<1> QED
  BY <1>1, <1>2, <1>3, <1>4, <1>5, <1>6 DEF RunInv, RanWhenHeld

\* What does not concern the build keeps the build's part of the invariant.
LEMMA BuildUnchanged ==
  ASSUME RunInv, UNCHANGED build_vars
  PROVE  /\ IInv' /\ Checked' /\ ordered' = ordered /\ stage' = stage
         /\ flow' = flow /\ NodeNames' = NodeNames
         /\ \A n : ConditionOf(n)' = ConditionOf(n)
         /\ \A n : successors(n)' = successors(n)
<1>1. ordered' = ordered /\ stage' = stage /\ flow' = flow
  BY DEF build_vars
<1>2. IInv'
  BY BuildStepIInv DEF RunInv
<1> QED
  BY <1>1, <1>2, ConditionsFixed DEF RunInv, Checked

LEMMA ChangeRunInv ==
  ASSUME RunInv, Change
  PROVE  RunInv' /\ Decided' = Decided
<1>1. UNCHANGED build_vars /\ UNCHANGED <<pc, ran>> /\ held' = held \cap truth'
  BY DEF Change
<1>2. Decided' = Decided
  BY <1>1, BuildUnchanged DEF Decided
<1>3. truth' \in SUBSET Predicates
  BY DEF Change, RunInv
<1>4. RanWhenHeld'
  BY <1>1, <1>2, BuildUnchanged DEF RunInv, RanWhenHeld
<1> QED
  BY <1>1, <1>2, <1>3, <1>4, BuildUnchanged DEF RunInv

LEMMA BeginRunInv ==
  ASSUME RunInv, Begin
  PROVE  RunInv' /\ Decided = {} /\ Decided' = {}
<1>1. UNCHANGED build_vars /\ UNCHANGED <<truth, ran>>
      /\ pc = 0 /\ pc' = 1 /\ held' = truth /\ stage = "built"
  BY DEF Begin
<1>2. IInv /\ DOMAIN ordered = 1 .. Len(ordered) /\ Len(ordered) \in Nat
  BY Positions DEF RunInv
<1>3. Decided = {} /\ Decided' = {}
  BY <1>1, <1>2, BuildUnchanged DEF Decided
<1> QED
  BY <1>1, <1>2, <1>3, BuildUnchanged DEF RunInv, RanWhenHeld

\* The step at pc has its turn.
LEMMA TurnTaken ==
  ASSUME RunInv, RunStep
  PROVE  /\ ordered[pc] \in NodeNames \ Decided
         /\ Decided' = Decided \cup {ordered[pc]}
         /\ stage = "built"
         /\ pc \in DOMAIN ordered /\ pc' = pc + 1 /\ pc' \in 0 .. Len(ordered) + 1
<1>1. UNCHANGED build_vars /\ pc \in DOMAIN ordered /\ pc' = pc + 1
  BY DEF RunStep
<1>2. IInv /\ DOMAIN ordered = 1 .. Len(ordered) /\ Len(ordered) \in Nat
  BY Positions DEF RunInv
<1>3. stage = "built"
  BY <1>1, <1>2 DEF RunInv
<1>4. Distinct
  BY <1>2, <1>3 DEF IInv, Sorting
<1>5. ordered[pc] \in NodeNames \ Decided
  BY <1>1, <1>2, <1>4, Positions DEF Distinct, Decided
<1>6. Decided' = Decided \cup {ordered[pc]}
  BY <1>1, <1>2, BuildUnchanged DEF Decided
<1> QED
  BY <1>1, <1>2, <1>3, <1>5, <1>6

LEMMA RunStepRunInv ==
  ASSUME RunInv, RunStep
  PROVE  RunInv'
<1>1. /\ UNCHANGED build_vars /\ UNCHANGED <<truth, held>>
      /\ ran' = IF ConditionHolds(ordered[pc]) THEN ran \cup {ordered[pc]} ELSE ran
  BY DEF RunStep
<1>2. RanWhenHeld'
  BY <1>1, BuildUnchanged, TurnTaken DEF RunInv, RanWhenHeld, ConditionHolds
<1> QED
  BY <1>1, <1>2, BuildUnchanged, TurnTaken DEF RunInv

\* All the steps have had their turn when the run ends.
LEMMA AllDecided ==
  ASSUME RunInv, pc > Len(ordered)
  PROVE  Decided = NodeNames /\ stage = "built"
<1>1. IInv /\ DOMAIN ordered = 1 .. Len(ordered) /\ Len(ordered) \in Nat
  BY Positions DEF RunInv
<1>2. stage = "built" /\ pc \in Nat
  BY <1>1 DEF RunInv
<1>3. Placed = NodeNames
  BY <1>1, <1>2, LeftoverNotPlaced DEF IInv
<1>4. Decided = Placed
  BY <1>1, <1>2 DEF Decided, Placed
<1> QED
  BY <1>2, <1>3, <1>4

LEMMA EndRunInv ==
  ASSUME RunInv, End
  PROVE  RunInv' /\ Decided' = {} /\ Decided = NodeNames
<1>1. UNCHANGED build_vars /\ UNCHANGED <<truth, held>>
      /\ pc > Len(ordered) /\ pc' = 0 /\ ran' = {}
  BY DEF End
<1>2. IInv /\ DOMAIN ordered = 1 .. Len(ordered) /\ Len(ordered) \in Nat
  BY Positions DEF RunInv
<1>3. Decided' = {}
  BY <1>1, <1>2, BuildUnchanged DEF Decided
<1> QED
  BY <1>1, <1>2, <1>3, AllDecided, BuildUnchanged DEF RunInv, RanWhenHeld

LEMMA RunInvKept ==
  ASSUME RunInv, [Next]_vars
  PROVE  RunInv'
<1>1. CASE UNCHANGED vars
  <2>1. UNCHANGED build_vars /\ UNCHANGED <<pc, truth, held, ran>>
    BY <1>1 DEF vars, run_vars
  <2>2. Decided' = Decided
    BY <2>1, BuildUnchanged DEF Decided
  <2> QED
    BY <2>1, <2>2, BuildUnchanged DEF RunInv, RanWhenHeld
<1> QED
  BY <1>1, BuildStepRunInv, ChangeRunInv, BeginRunInv, RunStepRunInv, EndRunInv DEF Next

\* The state of a run is as described above, in every reachable state.
THEOREM RunInvariant == Spec => []RunInv
  BY InitRunInv, RunInvKept, PTL DEF Spec

----------------------------------------------------------------------------
(* If the condition of a sequence holds throughout a run, both its steps   *)
(* have run at the end: make_graph rejects the flows in which a step could *)
(* be off while a sequence that names it is on.                            *)
THEOREM SequencesAlwaysRun == Spec => []SequencesRun
<1>1. RunInv => SequencesRun
  <2> SUFFICES ASSUME RunInv, NEW e \in edges(flow), pc > Len(ordered), e.cond \subseteq held
               PROVE  {e.source.name, e.dest.name} \subseteq ran
    BY DEF SequencesRun
  <2>1. Decided = NodeNames /\ stage = "built"
    BY AllDecided
  <2>2. {e.source.name, e.dest.name} \subseteq NodeNames
    BY <2>1 DEF RunInv, IInv, EdgesResolve
  <2>3. ConditionOf(e.source.name) \subseteq held /\ ConditionOf(e.dest.name) \subseteq held
    BY <2>1 DEF RunInv, Checked, WeakerThanSteps
  <2> QED
    BY <2>1, <2>2, <2>3 DEF RunInv, RanWhenHeld
<1> QED
  BY <1>1, RunInvariant, PTL

(* Every run of every flow gives each step its turn once, after all its    *)
(* predecessors, and runs it if its condition then holds.                  *)
THEOREM FlowKeepsPromise == Spec => RunsKeepPromise
<1>1. RunInit => Promise!PromiseInit
  <2> SUFFICES ASSUME RunInit PROVE Promise!PromiseInit
    OBVIOUS
  <2>1. Decided = {}
    BY DEF RunInit, Init, Decided
  <2> QED
    BY <2>1 DEF RunInit, Promise!PromiseInit
<1>2. RunInv /\ [Next]_vars => [Promise!PromiseNext]_Promise!vars
  <2> SUFFICES ASSUME RunInv, [Next]_vars
               PROVE  [Promise!PromiseNext]_Promise!vars
    OBVIOUS
  <2>1. flow' = flow
    BY BuildUnchanged, FlowFixed
       DEF Next, vars, BuildStep, Change, Begin, RunStep, End
  <2>2. UNCHANGED Promise!flow_vars
    <3>1. /\ NodeNames' = NodeNames
          /\ \A n : successors(n)' = successors(n)
          /\ \A n : ConditionOf(n)' = ConditionOf(n)
      BY <2>1, ConditionsFixed
    <3> QED
      BY <3>1 DEF Promise!flow_vars
  <2>3. CASE BuildStep
    BY <2>2, <2>3, BuildStepRunInv DEF BuildStep, run_vars, Promise!vars
  <2>4. CASE Change
    BY <2>2, <2>4, ChangeRunInv DEF Change, Promise!PromiseNext, Promise!Change
  <2>5. CASE Begin
    BY <2>2, <2>5, BeginRunInv DEF Begin, Promise!vars
  <2>6. CASE RunStep
    <3>1. ASSUME NEW m \in NodeNames, ordered[pc] \in successors(m)
          PROVE  m \in Decided
      <4>1. PICK i \in DOMAIN ordered : i < pc /\ ordered[i] = m
        BY <2>6, <3>1, TurnTaken DEF RunInv, IInv, Sorting, AfterItsPredecessors
      <4> QED
        BY <4>1 DEF Decided
    <3>2. Promise!Turn(ordered[pc])
      BY <2>2, <2>6, <3>1, TurnTaken DEF RunStep, ConditionHolds, Promise!Turn
    <3> QED
      BY <2>6, <3>2, TurnTaken DEF Promise!PromiseNext
  <2>7. CASE End
    BY <2>2, <2>7, EndRunInv DEF End, Promise!PromiseNext, Promise!Return
  <2>8. CASE UNCHANGED vars
    <3>1. Decided' = Decided /\ UNCHANGED <<truth, ran>>
      BY <2>8, BuildUnchanged DEF vars, run_vars, Decided
    <3> QED
      BY <2>2, <3>1 DEF Promise!vars
  <2> QED
    BY <2>3, <2>4, <2>5, <2>6, <2>7, <2>8 DEF Next
<1> QED
  BY <1>1, <1>2, RunInvariant, PTL DEF Spec, RunsKeepPromise, Promise!PromiseSpec
----------------------------------------------------------------------------
(***************************************************************************)
(* What the language derives from a subgraph.                              *)
(***************************************************************************)
FlowParts == [t \in Subgraphs |-> IF IsLeaf(t) THEN {} ELSE {t.lhs, t.rhs}]

LEMMA FlowParted == Parted(Subgraphs, [t \in Subgraphs |-> operators_in[t]], FlowParts)
  BY SubgraphTypes DEF Parted, FlowParts

\* The recursive definitions have the values they are written with.
LEMMA InitialsAre ==
  initials_of = [t \in Subgraphs |-> CASE t.op = "step" -> {t} [] t.op = "par" -> initials_of[t.lhs] \cup initials_of[t.rhs] [] t.op = "seq" -> initials_of[t.lhs]]
<1> DEFINE V == SUBSET Subgraphs
           value == [t \in Subgraphs |-> [g \in [FlowParts[t] -> V] |-> CASE t.op = "step" -> {t} [] t.op = "par" -> g[t.lhs] \cup g[t.rhs] [] t.op = "seq" -> g[t.lhs]]]
<1>1. Valued(Subgraphs, FlowParts, V, value)
  BY SubgraphTypes DEF Valued, FlowParts, IsLeaf
<1>2. PICK f \in [Subgraphs -> V] : \A t \in Subgraphs : FollowsAt(f, FlowParts, value, t)
  <2> HIDE DEF value
  <2>1. V # {}
    OBVIOUS
  <2> HIDE DEF V
  <2>2. QED
    BY <1>1, <2>1, FlowParted, RecursionExists
<1>3. ASSUME NEW t \in Subgraphs
      PROVE  f[t] = CASE t.op = "step" -> {t} [] t.op = "par" -> f[t.lhs] \cup f[t.rhs] [] t.op = "seq" -> f[t.lhs]
  <2> DEFINE g == [c \in FlowParts[t] |-> f[c]]
  <2>1. g \in [FlowParts[t] -> V]
    <3> HIDE DEF V
    <3> QED
      BY SubgraphTypes DEF FlowParts
  <2>2. f[t] = value[t][g]
    BY <1>2 DEF FollowsAt
  <2>3. f[t] = CASE t.op = "step" -> {t} [] t.op = "par" -> g[t.lhs] \cup g[t.rhs] [] t.op = "seq" -> g[t.lhs]
    <3> HIDE DEF V, g
    <3> QED
      BY <2>1, <2>2
  <2>4. t.op # "step" => g[t.lhs] = f[t.lhs] /\ g[t.rhs] = f[t.rhs]
    BY DEF FlowParts, IsLeaf
  <2>5. QED
    <3> HIDE DEF V, g
    <3> QED
      BY <2>3, <2>4, SubgraphTypes DEF IsLeaf
<1>4. f = [t \in Subgraphs |-> CASE t.op = "step" -> {t} [] t.op = "par" -> f[t.lhs] \cup f[t.rhs] [] t.op = "seq" -> f[t.lhs]]
  BY <1>3
<1>5. QED
  <2> HIDE DEF V, value
  <2> QED
    BY <1>4 DEF initials_of

LEMMA FinalsAre ==
  finals_of = [t \in Subgraphs |-> CASE t.op = "step" -> {t} [] t.op = "par" -> finals_of[t.lhs] \cup finals_of[t.rhs] [] t.op = "seq" -> finals_of[t.rhs]]
<1> DEFINE V == SUBSET Subgraphs
           value == [t \in Subgraphs |-> [g \in [FlowParts[t] -> V] |-> CASE t.op = "step" -> {t} [] t.op = "par" -> g[t.lhs] \cup g[t.rhs] [] t.op = "seq" -> g[t.rhs]]]
<1>1. Valued(Subgraphs, FlowParts, V, value)
  BY SubgraphTypes DEF Valued, FlowParts, IsLeaf
<1>2. PICK f \in [Subgraphs -> V] : \A t \in Subgraphs : FollowsAt(f, FlowParts, value, t)
  <2> HIDE DEF value
  <2>1. V # {}
    OBVIOUS
  <2> HIDE DEF V
  <2>2. QED
    BY <1>1, <2>1, FlowParted, RecursionExists
<1>3. ASSUME NEW t \in Subgraphs
      PROVE  f[t] = CASE t.op = "step" -> {t} [] t.op = "par" -> f[t.lhs] \cup f[t.rhs] [] t.op = "seq" -> f[t.rhs]
  <2> DEFINE g == [c \in FlowParts[t] |-> f[c]]
  <2>1. g \in [FlowParts[t] -> V]
    <3> HIDE DEF V
    <3> QED
      BY SubgraphTypes DEF FlowParts
  <2>2. f[t] = value[t][g]
    BY <1>2 DEF FollowsAt
  <2>3. f[t] = CASE t.op = "step" -> {t} [] t.op = "par" -> g[t.lhs] \cup g[t.rhs] [] t.op = "seq" -> g[t.rhs]
    <3> HIDE DEF V, g
    <3> QED
      BY <2>1, <2>2
  <2>4. t.op # "step" => g[t.lhs] = f[t.lhs] /\ g[t.rhs] = f[t.rhs]
    BY DEF FlowParts, IsLeaf
  <2>5. QED
    <3> HIDE DEF V, g
    <3> QED
      BY <2>3, <2>4, SubgraphTypes DEF IsLeaf
<1>4. f = [t \in Subgraphs |-> CASE t.op = "step" -> {t} [] t.op = "par" -> f[t.lhs] \cup f[t.rhs] [] t.op = "seq" -> f[t.rhs]]
  BY <1>3
<1>5. QED
  <2> HIDE DEF V, value
  <2> QED
    BY <1>4 DEF finals_of

LEMMA MentionedAre ==
  all_mentioned_of = [t \in Subgraphs |-> IF IsLeaf(t) THEN {t} ELSE all_mentioned_of[t.lhs] \cup all_mentioned_of[t.rhs]]
<1> DEFINE V == SUBSET Subgraphs
           value == [t \in Subgraphs |-> [g \in [FlowParts[t] -> V] |-> IF IsLeaf(t) THEN {t} ELSE g[t.lhs] \cup g[t.rhs]]]
<1>1. Valued(Subgraphs, FlowParts, V, value)
  BY SubgraphTypes DEF Valued, FlowParts, IsLeaf
<1>2. PICK f \in [Subgraphs -> V] : \A t \in Subgraphs : FollowsAt(f, FlowParts, value, t)
  <2> HIDE DEF value
  <2>1. V # {}
    OBVIOUS
  <2> HIDE DEF V
  <2>2. QED
    BY <1>1, <2>1, FlowParted, RecursionExists
<1>3. ASSUME NEW t \in Subgraphs
      PROVE  f[t] = IF IsLeaf(t) THEN {t} ELSE f[t.lhs] \cup f[t.rhs]
  <2> DEFINE g == [c \in FlowParts[t] |-> f[c]]
  <2>1. g \in [FlowParts[t] -> V]
    <3> HIDE DEF V
    <3> QED
      BY SubgraphTypes DEF FlowParts
  <2>2. f[t] = value[t][g]
    BY <1>2 DEF FollowsAt
  <2>3. f[t] = IF IsLeaf(t) THEN {t} ELSE g[t.lhs] \cup g[t.rhs]
    <3> HIDE DEF V, g
    <3> QED
      BY <2>1, <2>2
  <2>4. t.op # "step" => g[t.lhs] = f[t.lhs] /\ g[t.rhs] = f[t.rhs]
    BY DEF FlowParts, IsLeaf
  <2>5. QED
    <3> HIDE DEF V, g
    <3> QED
      BY <2>3, <2>4, SubgraphTypes DEF IsLeaf
<1>4. f = [t \in Subgraphs |-> IF IsLeaf(t) THEN {t} ELSE f[t.lhs] \cup f[t.rhs]]
  BY <1>3
<1>5. QED
  <2> HIDE DEF V, value
  <2> QED
    BY <1>4 DEF all_mentioned_of

LEMMA SubgraphsAre ==
  subgraphs_of = [t \in Subgraphs |-> IF IsLeaf(t) THEN {t} ELSE {t} \cup subgraphs_of[t.lhs] \cup subgraphs_of[t.rhs]]
<1> DEFINE V == SUBSET Subgraphs
           value == [t \in Subgraphs |-> [g \in [FlowParts[t] -> V] |-> IF IsLeaf(t) THEN {t} ELSE {t} \cup g[t.lhs] \cup g[t.rhs]]]
<1>1. Valued(Subgraphs, FlowParts, V, value)
  BY SubgraphTypes DEF Valued, FlowParts, IsLeaf
<1>2. PICK f \in [Subgraphs -> V] : \A t \in Subgraphs : FollowsAt(f, FlowParts, value, t)
  <2> HIDE DEF value
  <2>1. V # {}
    OBVIOUS
  <2> HIDE DEF V
  <2>2. QED
    BY <1>1, <2>1, FlowParted, RecursionExists
<1>3. ASSUME NEW t \in Subgraphs
      PROVE  f[t] = IF IsLeaf(t) THEN {t} ELSE {t} \cup f[t.lhs] \cup f[t.rhs]
  <2> DEFINE g == [c \in FlowParts[t] |-> f[c]]
  <2>1. g \in [FlowParts[t] -> V]
    <3> HIDE DEF V
    <3> QED
      BY SubgraphTypes DEF FlowParts
  <2>2. f[t] = value[t][g]
    BY <1>2 DEF FollowsAt
  <2>3. f[t] = IF IsLeaf(t) THEN {t} ELSE {t} \cup g[t.lhs] \cup g[t.rhs]
    <3> HIDE DEF V, g
    <3> QED
      BY <2>1, <2>2
  <2>4. t.op # "step" => g[t.lhs] = f[t.lhs] /\ g[t.rhs] = f[t.rhs]
    BY DEF FlowParts, IsLeaf
  <2>5. QED
    <3> HIDE DEF V, g
    <3> QED
      BY <2>3, <2>4, SubgraphTypes DEF IsLeaf
<1>4. f = [t \in Subgraphs |-> IF IsLeaf(t) THEN {t} ELSE {t} \cup f[t.lhs] \cup f[t.rhs]]
  BY <1>3
<1>5. QED
  <2> HIDE DEF V, value
  <2> QED
    BY <1>4 DEF subgraphs_of

LEMMA EdgesAre ==
  edges_of = [t \in Subgraphs |->
                IF IsLeaf(t) THEN {} ELSE edges_of[t.lhs] \cup edges_of[t.rhs] \cup cross(t)]
<1> DEFINE V == SUBSET UNION {cross(t) : t \in Subgraphs}
           value == [t \in Subgraphs |-> [g \in [FlowParts[t] -> V] |->
                       IF IsLeaf(t) THEN {} ELSE g[t.lhs] \cup g[t.rhs] \cup cross(t)]]
<1>1. Valued(Subgraphs, FlowParts, V, value)
  BY SubgraphTypes DEF Valued, FlowParts
<1>2. PICK f \in [Subgraphs -> V] : \A t \in Subgraphs : FollowsAt(f, FlowParts, value, t)
  <2> HIDE DEF value
  <2>1. V # {}
    OBVIOUS
  <2> HIDE DEF V
  <2>2. QED
    BY <1>1, <2>1, FlowParted, RecursionExists
<1>3. ASSUME NEW t \in Subgraphs
      PROVE  f[t] = IF IsLeaf(t) THEN {} ELSE f[t.lhs] \cup f[t.rhs] \cup cross(t)
  <2> DEFINE g == [c \in FlowParts[t] |-> f[c]]
  <2>1. g \in [FlowParts[t] -> V]
    <3> HIDE DEF V
    <3> QED
      BY SubgraphTypes DEF FlowParts
  <2>2. f[t] = value[t][g]
    BY <1>2 DEF FollowsAt
  <2>3. f[t] = IF IsLeaf(t) THEN {} ELSE g[t.lhs] \cup g[t.rhs] \cup cross(t)
    <3> HIDE DEF V, g
    <3> QED
      BY <2>1, <2>2
  <2>4. ~IsLeaf(t) => g[t.lhs] = f[t.lhs] /\ g[t.rhs] = f[t.rhs]
    BY DEF FlowParts
  <2>5. QED
    <3> HIDE DEF V, g
    <3> QED
      BY <2>3, <2>4
<1>4. f = [t \in Subgraphs |-> IF IsLeaf(t) THEN {} ELSE f[t.lhs] \cup f[t.rhs] \cup cross(t)]
  BY <1>3
<1>5. QED
  <2> HIDE DEF V, value
  <2> QED
    BY <1>4 DEF edges_of

\* A subgraph begins and ends with steps that it mentions.
EndsMentioned(t) ==
  /\ initials_of[t] # {} /\ initials_of[t] \subseteq all_mentioned_of[t]
  /\ finals_of[t] # {} /\ finals_of[t] \subseteq all_mentioned_of[t]

LEMMA EndsAreMentioned == \A t \in Subgraphs : EndsMentioned(t)
<1> DEFINE T == {t \in Subgraphs : ~EndsMentioned(t)}
<1>1. SUFFICES ASSUME T # {} PROVE FALSE
  OBVIOUS
<1>2. PICK t \in T : FlowParts[t] \cap T = {}
  <2> HIDE DEF T
  <2>1. T \in SUBSET Subgraphs
    BY DEF T
  <2>2. QED
    BY <1>1, <2>1, FlowParted, Lowest
<1>3. CASE t.op = "step"
  BY <1>3, InitialsAre, FinalsAre, MentionedAre DEF EndsMentioned, IsLeaf
<1>4. CASE t.op # "step"
  <2>1. t \in Subgraphs /\ t.lhs \in Subgraphs /\ t.rhs \in Subgraphs
    BY <1>4, SubgraphTypes DEF IsLeaf
  <2>2. EndsMentioned(t.lhs) /\ EndsMentioned(t.rhs)
    BY <1>2, <1>4, <2>1 DEF FlowParts, IsLeaf
  <2>3. all_mentioned_of[t] = all_mentioned_of[t.lhs] \cup all_mentioned_of[t.rhs]
    BY <1>4, <2>1, MentionedAre DEF IsLeaf
  <2>4. CASE t.op = "par"
    <3>1. /\ initials_of[t] = initials_of[t.lhs] \cup initials_of[t.rhs]
          /\ finals_of[t] = finals_of[t.lhs] \cup finals_of[t.rhs]
      BY <2>1, <2>4, InitialsAre, FinalsAre
    <3>2. QED
      BY <2>2, <2>3, <3>1 DEF EndsMentioned
  <2>5. CASE t.op = "seq"
    <3>1. initials_of[t] = initials_of[t.lhs] /\ finals_of[t] = finals_of[t.rhs]
      BY <2>1, <2>5, InitialsAre, FinalsAre
    <3>2. QED
      BY <2>2, <2>3, <3>1 DEF EndsMentioned
  <2>6. QED
    BY <1>4, <2>1, <2>4, <2>5, SubgraphTypes
<1>5. QED
  BY <1>3, <1>4

\* The edges of a subgraph lead from one of its steps to another one.
EdgesMentioned(t) ==
  \A e \in edges_of[t] : e.source \in all_mentioned_of[t] /\ e.dest \in all_mentioned_of[t]

\* A composite has what its two parts have, and the edges between them.
LEMMA CompositeHas ==
  ASSUME NEW t \in Subgraphs, ~IsLeaf(t)
  PROVE  /\ t.lhs \in Subgraphs /\ t.rhs \in Subgraphs
         /\ FlowParts[t] = {t.lhs, t.rhs}
         /\ all_mentioned_of[t] = all_mentioned_of[t.lhs] \cup all_mentioned_of[t.rhs]
         /\ edges_of[t] = edges_of[t.lhs] \cup edges_of[t.rhs] \cup cross(t)
         /\ subgraphs_of[t] = {t} \cup subgraphs_of[t.lhs] \cup subgraphs_of[t.rhs]
<1>1. t.lhs \in Subgraphs /\ t.rhs \in Subgraphs /\ FlowParts[t] = {t.lhs, t.rhs}
  BY SubgraphTypes DEF FlowParts
<1>2. all_mentioned_of[t] = all_mentioned_of[t.lhs] \cup all_mentioned_of[t.rhs]
  BY MentionedAre
<1>3. edges_of[t] = edges_of[t.lhs] \cup edges_of[t.rhs] \cup cross(t)
  BY EdgesAre
<1>4. subgraphs_of[t] = {t} \cup subgraphs_of[t.lhs] \cup subgraphs_of[t.rhs]
  BY SubgraphsAre
<1>5. QED
  BY <1>1, <1>2, <1>3, <1>4

LEMMA LeafHas ==
  ASSUME NEW t \in Subgraphs, IsLeaf(t)
  PROVE  all_mentioned_of[t] = {t} /\ edges_of[t] = {} /\ subgraphs_of[t] = {t}
  BY MentionedAre, EdgesAre, SubgraphsAre

LEMMA EdgesAreMentioned == \A t \in Subgraphs : EdgesMentioned(t)
<1> DEFINE T == {t \in Subgraphs : ~EdgesMentioned(t)}
<1>1. SUFFICES ASSUME T # {} PROVE FALSE
  OBVIOUS
<1>2. PICK t \in T : FlowParts[t] \cap T = {}
  <2> HIDE DEF T
  <2>1. T \in SUBSET Subgraphs
    BY DEF T
  <2>2. QED
    BY <1>1, <2>1, FlowParted, Lowest
<1>3. CASE IsLeaf(t)
  BY <1>3, LeafHas DEF EdgesMentioned
<1>4. CASE ~IsLeaf(t)
  <2>1. EdgesMentioned(t.lhs) /\ EdgesMentioned(t.rhs)
    BY <1>2, <1>4, CompositeHas
  <2>2. \A e \in cross(t) : e.source \in all_mentioned_of[t.lhs] /\ e.dest \in all_mentioned_of[t.rhs]
    <3>1. EndsMentioned(t.lhs) /\ EndsMentioned(t.rhs)
      BY <1>4, CompositeHas, EndsAreMentioned
    <3>2. QED
      BY <3>1 DEF cross, EndsMentioned
  <2>3. QED
    BY <1>4, <2>1, <2>2, CompositeHas DEF EdgesMentioned
<1>5. QED
  BY <1>3, <1>4

\* What a subgraph is made of is part of it.
Within(t) ==
  \A u \in subgraphs_of[t] :
    /\ u \in Subgraphs
    /\ edges_of[u] \subseteq edges_of[t]
    /\ all_mentioned_of[u] \subseteq all_mentioned_of[t]

LEMMA PartsWithin == \A t \in Subgraphs : Within(t)
<1> DEFINE T == {t \in Subgraphs : ~Within(t)}
<1>1. SUFFICES ASSUME T # {} PROVE FALSE
  OBVIOUS
<1>2. PICK t \in T : FlowParts[t] \cap T = {}
  <2> HIDE DEF T
  <2>1. T \in SUBSET Subgraphs
    BY DEF T
  <2>2. QED
    BY <1>1, <2>1, FlowParted, Lowest
<1>3. CASE IsLeaf(t)
  BY <1>3, LeafHas DEF Within
<1>4. CASE ~IsLeaf(t)
  <2>1. Within(t.lhs) /\ Within(t.rhs)
    BY <1>2, <1>4, CompositeHas
  <2>2. QED
    BY <1>4, <2>1, CompositeHas DEF Within
<1>5. QED
  BY <1>3, <1>4

----------------------------------------------------------------------------
(* What a flow has of its subgraphs. *)

\* The name of a mentioned step is among the names the flow mentions.
LEMMA FlowMentions ==
  ASSUME flow \in Flows, NEW i \in DOMAIN flow
  PROVE  /\ flow[i].graph \in Subgraphs
         /\ flow[i].when \in SUBSET Predicates
         /\ NamesOf(all_mentioned_of[flow[i].graph]) \subseteq NamesOf(mentioned_nodes(flow))
<1>1. flow[i] \in [graph : Subgraphs, when : SUBSET Predicates]
  <2> DEFINE Fragments == [graph : Subgraphs, when : SUBSET Predicates]
  <2>1. flow \in Seq(Fragments)
    BY FlowTypes
  <2>2. QED
    <3> HIDE DEF Fragments
    <3>1. flow[i] \in Fragments
      BY <2>1
    <3>2. QED
      BY <3>1 DEF Fragments
<1>2. ASSUME NEW leaf \in all_mentioned_of[flow[i].graph]
      PROVE  leaf.name \in NamesOf(mentioned_nodes(flow))
  <2> DEFINE c == make_runtime_conditional(flow[i].when, leaf)
  <2>1. c \in mentioned_nodes(flow)
    BY DEF mentioned_nodes, MentionedUnder
  <2>2. c.name = leaf.name
    BY DEF make_runtime_conditional
  <2>3. QED
    <3> HIDE DEF c
    <3> QED
      BY <2>1, <2>2 DEF NamesOf
<1>3. QED
  BY <1>1, <1>2 DEF NamesOf

\* An edge of a subgraph is one of the flow.
LEMMA FlowEdges ==
  ASSUME flow \in Flows, NEW i \in DOMAIN flow, NEW e \in edges_of[flow[i].graph]
  PROVE  e.dest.name \in successors(e.source.name)
<1> DEFINE d == [source |-> make_runtime_conditional(flow[i].when, e.source),
                 dest |-> make_runtime_conditional(flow[i].when, e.dest),
                 cond |-> flow[i].when]
<1>1. d \in edges(flow)
  BY DEF edges
<1>2. d.source.name = e.source.name /\ d.dest.name = e.dest.name
  BY DEF make_runtime_conditional
<1>3. QED
  <2> HIDE DEF d
  <2> QED
    BY <1>1, <1>2 DEF successors

LEMMA EdgeEndsMentioned ==
  ASSUME flow \in Flows, NEW d \in edges(flow)
  PROVE  {d.source.name, d.dest.name} \subseteq NamesOf(mentioned_nodes(flow))
<1>0. PICK i \in DOMAIN flow : \E e \in edges_of[flow[i].graph] :
        d = [source |-> make_runtime_conditional(flow[i].when, e.source),
             dest |-> make_runtime_conditional(flow[i].when, e.dest),
             cond |-> flow[i].when]
  BY DEF edges
<1>1. PICK e \in edges_of[flow[i].graph] :
        d = [source |-> make_runtime_conditional(flow[i].when, e.source),
             dest |-> make_runtime_conditional(flow[i].when, e.dest),
             cond |-> flow[i].when]
  BY <1>0
<1>2. d.source.name = e.source.name /\ d.dest.name = e.dest.name
  BY <1>1 DEF make_runtime_conditional
<1>3. EdgesMentioned(flow[i].graph)
  BY FlowMentions, EdgesAreMentioned
<1>4. /\ e.source.name \in NamesOf(all_mentioned_of[flow[i].graph])
      /\ e.dest.name \in NamesOf(all_mentioned_of[flow[i].graph])
  BY <1>1, <1>3 DEF EdgesMentioned, NamesOf
<1>5. QED
  BY <1>2, <1>4, FlowMentions

----------------------------------------------------------------------------
(***************************************************************************)
(* The first check lets a flow through only if the steps it adds are those *)
(* it mentions; both ends of an edge are mentioned.                        *)
(***************************************************************************)
NamesChecked ==
  stage \notin {"check", "missing"} => NodeNames = NamesOf(mentioned_nodes(flow))

LEMMA NamesCheckedKept ==
  ASSUME NamesChecked, [BuildNext]_build_vars
  PROVE  NamesChecked'
<1>1. flow' = flow /\ NodeNames' = NodeNames
  BY FlowFixed
<1>2. mentioned_nodes(flow)' = mentioned_nodes(flow)
  BY <1>1 DEF mentioned_nodes
<1>3. CASE check_for_missing_nodes
  BY <1>1, <1>2, <1>3 DEF check_for_missing_nodes, NamesChecked
<1>4. CASE make_graph
  BY <1>1, <1>2, <1>4 DEF make_graph, NamesChecked
<1>5. CASE PopSource \/ EraseEdge \/ Finish
  BY <1>1, <1>2, <1>5 DEF PopSource, EraseEdge, Finish, NamesChecked
<1>6. CASE UNCHANGED build_vars
  BY <1>1, <1>2, <1>6 DEF build_vars, NamesChecked
<1>7. QED
  BY <1>3, <1>4, <1>5, <1>6 DEF BuildNext

LEMMA NamesAlwaysChecked == BuildSpec => []NamesChecked
<1>1. Init => NamesChecked
  BY DEF Init, NamesChecked
<1>2. NamesChecked /\ [BuildNext]_build_vars => NamesChecked'
  BY NamesCheckedKept
<1>3. QED
  BY <1>1, <1>2, PTL DEF BuildSpec

(* make_graph never looks up a step that was not added: a flow with such   *)
(* an edge is stopped before, with the message about the missing step.     *)
THEOREM LookupAlwaysSucceeds == BuildSpec => []LookupSucceeds
<1>1. IInv /\ NamesChecked => LookupSucceeds
  BY EdgeEndsMentioned DEF IInv, NamesChecked, LookupSucceeds, EdgesResolve
<1>2. QED
  BY <1>1, BuilderInvariant, NamesAlwaysChecked, PTL

----------------------------------------------------------------------------
(***************************************************************************)
(* The sides of a >> in the list of a flow that was built: every step of a *)
(* subgraph comes no later than one of its last steps, and no earlier than *)
(* one of its first.                                                       *)
(***************************************************************************)
Before(m, n) == Position(m.name) < Position(n.name)
NotAfter(m, n) == Position(m.name) <= Position(n.name)

Spans(t) ==
  \A leaf \in all_mentioned_of[t] :
    /\ \E first \in initials_of[t] : NotAfter(first, leaf)
    /\ \E last \in finals_of[t] : NotAfter(leaf, last)

\* The steps of t are in the list, and in the order of its edges.
Listed(t) ==
  /\ \A leaf \in all_mentioned_of[t] : Position(leaf.name) \in Nat
  /\ \A e \in edges_of[t] : Before(e.source, e.dest)

\* The last steps of the left side come before the first ones of the right.
LEMMA EndsCrossed ==
  ASSUME NEW t \in Subgraphs, t.op = "seq", Listed(t),
         NEW last \in finals_of[t.lhs], NEW first \in initials_of[t.rhs]
  PROVE  Before(last, first)
<1> DEFINE e == [source |-> last, dest |-> first]
<1>1. e \in cross(t)
  BY DEF cross
<1>2. e \in edges_of[t]
  <2> HIDE DEF e
  <2> QED
    BY <1>1, CompositeHas DEF IsLeaf
<1>3. Before(e.source, e.dest)
  <2> HIDE DEF e
  <2> QED
    BY <1>2 DEF Listed
<1>4. QED
  BY <1>3

LEMMA SubgraphsSpan == \A t \in Subgraphs : Listed(t) => Spans(t)
<1> DEFINE T == {t \in Subgraphs : Listed(t) /\ ~Spans(t)}
<1>1. SUFFICES ASSUME T # {} PROVE FALSE
  OBVIOUS
<1>2. PICK t \in T : FlowParts[t] \cap T = {}
  <2> HIDE DEF T
  <2>1. T \in SUBSET Subgraphs
    BY DEF T
  <2>2. QED
    BY <1>1, <2>1, FlowParted, Lowest
<1>3. CASE IsLeaf(t)
  <2>1. initials_of[t] = {t} /\ finals_of[t] = {t} /\ all_mentioned_of[t] = {t}
    BY <1>3, InitialsAre, FinalsAre, LeafHas DEF IsLeaf
  <2>2. QED
    BY <1>2, <2>1 DEF Spans, Listed, NotAfter
<1>4. CASE ~IsLeaf(t)
  <2>1. Listed(t.lhs) /\ Listed(t.rhs)
    BY <1>4, CompositeHas DEF Listed
  <2>2. Spans(t.lhs) /\ Spans(t.rhs)
    BY <1>2, <1>4, <2>1, CompositeHas
  <2>3. CASE t.op = "par"
    <3>1. /\ initials_of[t] = initials_of[t.lhs] \cup initials_of[t.rhs]
          /\ finals_of[t] = finals_of[t.lhs] \cup finals_of[t.rhs]
      BY <2>3, InitialsAre, FinalsAre
    <3>2. Spans(t)
      BY <1>4, <2>2, <3>1, CompositeHas DEF Spans
    <3>3. QED
      BY <3>2
  <2>4. CASE t.op = "seq"
    <3>1. initials_of[t] = initials_of[t.lhs] /\ finals_of[t] = finals_of[t.rhs]
      BY <2>4, InitialsAre, FinalsAre
    <3>2. EndsMentioned(t.lhs) /\ EndsMentioned(t.rhs)
      BY <1>4, CompositeHas, EndsAreMentioned
    <3>3. PICK x \in finals_of[t.lhs], y \in initials_of[t.rhs] : TRUE
      BY <3>2 DEF EndsMentioned
    <3>4. ASSUME NEW leaf \in all_mentioned_of[t.lhs]
          PROVE  \E last \in finals_of[t.rhs] : NotAfter(leaf, last)
      <4>1. PICK l \in finals_of[t.lhs] : NotAfter(leaf, l)
        BY <2>2 DEF Spans
      <4>2. Before(l, y)
        BY <1>2, <2>4, EndsCrossed
      <4>3. y \in all_mentioned_of[t.rhs]
        BY <3>2 DEF EndsMentioned
      <4>4. PICK last \in finals_of[t.rhs] : NotAfter(y, last)
        BY <2>2, <4>3 DEF Spans
      <4>5. /\ Position(leaf.name) \in Nat /\ Position(l.name) \in Nat
            /\ Position(y.name) \in Nat /\ Position(last.name) \in Nat
        BY <2>1, <3>2, <4>3 DEF Listed, EndsMentioned
      <4>6. NotAfter(leaf, last)
        BY <4>1, <4>2, <4>4, <4>5 DEF Before, NotAfter
      <4>7. QED
        BY <4>6
    <3>5. ASSUME NEW leaf \in all_mentioned_of[t.rhs]
          PROVE  \E first \in initials_of[t.lhs] : NotAfter(first, leaf)
      <4>1. PICK f \in initials_of[t.rhs] : NotAfter(f, leaf)
        BY <2>2 DEF Spans
      <4>2. Before(x, f)
        BY <1>2, <2>4, EndsCrossed
      <4>3. x \in all_mentioned_of[t.lhs]
        BY <3>2 DEF EndsMentioned
      <4>4. PICK first \in initials_of[t.lhs] : NotAfter(first, x)
        BY <2>2, <4>3 DEF Spans
      <4>5. /\ Position(leaf.name) \in Nat /\ Position(f.name) \in Nat
            /\ Position(x.name) \in Nat /\ Position(first.name) \in Nat
        BY <2>1, <3>2, <4>3 DEF Listed, EndsMentioned
      <4>6. NotAfter(first, leaf)
        BY <4>1, <4>2, <4>4, <4>5 DEF Before, NotAfter
      <4>7. QED
        BY <4>6
    <3>6. Spans(t)
      BY <1>4, <2>2, <3>1, <3>4, <3>5, CompositeHas DEF Spans
    <3>7. QED
      BY <3>6
  <2>5. QED
    BY <1>4, <2>3, <2>4, SubgraphTypes DEF IsLeaf
<1>5. QED
  BY <1>3, <1>4

\* What a flow that was built mentions is in its list.
LEMMA BuiltIsListed ==
  ASSUME IInv, NamesChecked, stage = "built", NEW i \in DOMAIN flow
  PROVE  flow[i].graph \in Subgraphs /\ Listed(flow[i].graph)
<1>1. BuiltInOrder /\ flow \in Flows
  BY BuiltIsInOrder DEF IInv
<1>2. /\ flow[i].graph \in Subgraphs
      /\ NamesOf(all_mentioned_of[flow[i].graph]) \subseteq Placed
  BY <1>1, FlowMentions DEF BuiltInOrder, NamesChecked
<1>3. ordered \in Seq(NodeNames)
  BY DEF IInv, BuildTypeOK
<1>4. ASSUME NEW n \in Placed
      PROVE  Position(n) \in DOMAIN ordered /\ Position(n) \in Nat /\ ordered[Position(n)] = n
  <2>1. \E k \in DOMAIN ordered : ordered[k] = n
    BY DEF Placed
  <2>2. Position(n) \in DOMAIN ordered /\ ordered[Position(n)] = n
    BY <2>1 DEF Position
  <2>3. QED
    BY <1>3, <2>2
<1>5. \A leaf \in all_mentioned_of[flow[i].graph] : leaf.name \in Placed
  BY <1>2 DEF NamesOf
<1>6. ASSUME NEW e \in edges_of[flow[i].graph] PROVE Before(e.source, e.dest)
  <2>1. e.source.name \in Placed /\ e.dest.name \in Placed
    BY <1>2, <1>5, EdgesAreMentioned DEF EdgesMentioned
  <2>2. e.dest.name \in successors(e.source.name)
    BY <1>1, FlowEdges
  <2>3. ordered[Position(e.dest.name)] \in successors(ordered[Position(e.source.name)])
    BY <1>4, <2>1, <2>2
  <2>4. QED
    BY <1>1, <1>4, <2>1, <2>3 DEF Before, BuiltInOrder
<1>7. QED
  BY <1>2, <1>4, <1>5, <1>6 DEF Listed

(* In every flow that builds, whatever fragments it is made of and however *)
(* their subgraphs are nested, all the steps on the left of a >> come      *)
(* before all those on its right.  The edges alone do not say so: they     *)
(* join the last steps of the left to the first ones of the right.         *)
THEOREM SequencesAlwaysInOrder == BuildSpec => []SequencesInOrder
<1>1. IInv /\ NamesChecked => SequencesInOrder
  <2> SUFFICES ASSUME IInv, NamesChecked, stage = "built",
                      NEW i \in DOMAIN flow, NEW t \in subgraphs_of[flow[i].graph],
                      t.op = "seq",
                      NEW m \in all_mentioned_of[t.lhs], NEW n \in all_mentioned_of[t.rhs]
               PROVE  Before(m, n)
    BY DEF SequencesInOrder, NamesOf, Before
  <2>1. flow[i].graph \in Subgraphs /\ Listed(flow[i].graph)
    BY BuiltIsListed
  <2>2. t \in Subgraphs /\ Listed(t)
    BY <2>1, PartsWithin DEF Within, Listed
  <2>3. ~IsLeaf(t)
    BY DEF IsLeaf
  <2>4. t.lhs \in Subgraphs /\ t.rhs \in Subgraphs /\ Listed(t.lhs) /\ Listed(t.rhs)
    BY <2>2, <2>3, CompositeHas DEF Listed
  <2>5. PICK last \in finals_of[t.lhs] : NotAfter(m, last)
    BY <2>4, SubgraphsSpan DEF Spans
  <2>6. PICK first \in initials_of[t.rhs] : NotAfter(first, n)
    BY <2>4, SubgraphsSpan DEF Spans
  <2>7. Before(last, first)
    BY <2>2, EndsCrossed
  <2>8. /\ Position(m.name) \in Nat /\ Position(last.name) \in Nat
        /\ Position(first.name) \in Nat /\ Position(n.name) \in Nat
    BY <2>4, EndsAreMentioned DEF Listed, EndsMentioned
  <2>9. QED
    BY <2>5, <2>6, <2>7, <2>8 DEF Before, NotAfter
<1>2. QED
  BY <1>1, BuilderInvariant, NamesAlwaysChecked, PTL

----------------------------------------------------------------------------
(***************************************************************************)
(* The capacity of the multimap: there are finitely many edges, a key has  *)
(* at most the values its edges give it, and edge_size counts them.        *)
(***************************************************************************)
Finite(t) == IsFiniteSet(all_mentioned_of[t]) /\ IsFiniteSet(edges_of[t])

LEMMA FiniteCross ==
  ASSUME NEW t \in Subgraphs, ~IsLeaf(t), Finite(t.lhs), Finite(t.rhs)
  PROVE  IsFiniteSet(cross(t))
<1> DEFINE S == finals_of[t.lhs]
           T == initials_of[t.rhs]
           f == [p \in S \X T |-> [source |-> p[1], dest |-> p[2]]]
<1>1. IsFiniteSet(S) /\ IsFiniteSet(T)
  <2>1. EndsMentioned(t.lhs) /\ EndsMentioned(t.rhs)
    BY CompositeHas, EndsAreMentioned
  <2>2. S \in SUBSET all_mentioned_of[t.lhs] /\ T \in SUBSET all_mentioned_of[t.rhs]
    BY <2>1 DEF EndsMentioned
  <2>3. QED
    <3> HIDE DEF S, T
    <3> QED
      BY <2>2, FS_Subset DEF Finite
<1>2. IsFiniteSet(S \X T)
  <2> HIDE DEF S, T
  <2> QED
    BY <1>1, FS_Product
<1>3. f \in Surjection(S \X T, [source : S, dest : T])
  <2> HIDE DEF S, T
  <2>1. f \in [S \X T -> [source : S, dest : T]]
    OBVIOUS
  <2>2. ASSUME NEW e \in [source : S, dest : T]
        PROVE  \E p \in S \X T : f[p] = e
    <3>1. <<e.source, e.dest>> \in S \X T /\ f[<<e.source, e.dest>>] = e
      OBVIOUS
    <3>2. QED
      BY <3>1
  <2>3. QED
    BY <2>1, <2>2 DEF Surjection
<1>4. IsFiniteSet([source : S, dest : T])
  <2> HIDE DEF S, T, f
  <2> QED
    BY <1>2, <1>3, FS_Surjection
<1>5. QED
  BY <1>4, FS_EmptySet DEF cross

LEMMA SubgraphsFinite == \A t \in Subgraphs : Finite(t)
<1> DEFINE T == {t \in Subgraphs : ~Finite(t)}
<1>1. SUFFICES ASSUME T # {} PROVE FALSE
  OBVIOUS
<1>2. PICK t \in T : FlowParts[t] \cap T = {}
  <2> HIDE DEF T
  <2>1. T \in SUBSET Subgraphs
    BY DEF T
  <2>2. QED
    BY <1>1, <2>1, FlowParted, Lowest
<1>3. CASE IsLeaf(t)
  <2>1. all_mentioned_of[t] = {t} /\ edges_of[t] = {}
    BY <1>3, LeafHas
  <2>2. IsFiniteSet({t}) /\ IsFiniteSet({})
    BY FS_EmptySet, FS_Singleton
  <2>3. QED
    BY <2>1, <2>2 DEF Finite
<1>4. CASE ~IsLeaf(t)
  <2>1. Finite(t.lhs) /\ Finite(t.rhs)
    BY <1>2, <1>4, CompositeHas
  <2>2. IsFiniteSet(cross(t))
    BY <1>4, <2>1, FiniteCross
  <2>3. IsFiniteSet(all_mentioned_of[t.lhs] \cup all_mentioned_of[t.rhs])
    BY <2>1, FS_Union DEF Finite
  <2>4. IsFiniteSet(edges_of[t.lhs] \cup edges_of[t.rhs])
    BY <2>1, FS_Union DEF Finite
  <2>5. IsFiniteSet(edges_of[t.lhs] \cup edges_of[t.rhs] \cup cross(t))
    BY <2>2, <2>4, FS_Union
  <2>6. QED
    BY <1>4, <2>3, <2>5, CompositeHas DEF Finite
<1>5. QED
  BY <1>3, <1>4

LEMMA FlowFinite ==
  ASSUME flow \in Flows
  PROVE  IsFiniteSet(edges(flow))
<1> DEFINE edge(i, e) == [source |-> make_runtime_conditional(flow[i].when, e.source),
                          dest |-> make_runtime_conditional(flow[i].when, e.dest),
                          cond |-> flow[i].when]
           of(i) == {edge(i, e) : e \in edges_of[flow[i].graph]}
           all == [i \in DOMAIN flow |-> of(i)]
           sets == {of(i) : i \in DOMAIN flow}
<1>1. IsFiniteSet(DOMAIN flow)
  <2>1. flow \in Seq([graph : Subgraphs, when : SUBSET Predicates])
    BY FlowTypes
  <2>2. DOMAIN flow = 1 .. Len(flow) /\ Len(flow) \in Nat
    BY <2>1
  <2>3. QED
    BY <2>2, FS_Interval
<1>2. ASSUME NEW i \in DOMAIN flow PROVE IsFiniteSet(of(i))
  <2> DEFINE E == edges_of[flow[i].graph]
             f == [e \in E |-> edge(i, e)]
  <2>1. IsFiniteSet(E)
    BY FlowMentions, SubgraphsFinite DEF Finite
  <2>2. f \in Surjection(E, of(i))
    <3> HIDE DEF E, edge
    <3>1. f \in Surjection(E, {edge(i, e) : e \in E})
      BY DEF Surjection
    <3>2. QED
      BY <3>1 DEF E
  <2>3. QED
    <3> HIDE DEF E, f, of
    <3> QED
      BY <2>1, <2>2, FS_Surjection
<1>3. IsFiniteSet(sets)
  <2> HIDE DEF of
  <2>1. all \in Surjection(DOMAIN flow, sets)
    BY DEF Surjection
  <2>2. QED
    <3> HIDE DEF all, sets
    <3> QED
      BY <1>1, <2>1, FS_Surjection
<1>4. IsFiniteSet(UNION sets)
  <2>1. \A s \in sets : IsFiniteSet(s)
    <3> HIDE DEF of
    <3> QED
      BY <1>2
  <2>2. QED
    <3> HIDE DEF sets
    <3> QED
      BY <1>3, <2>1, FS_UNION
<1>5. QED
  BY <1>4 DEF edges

\* edge_size is the number of edges at some step, or 1, and not less than at any.
LEMMA EdgeSizeCounts ==
  ASSUME flow \in Flows, NEW n \in NodeNames
  PROVE  edge_size \in Nat /\ Cardinality(EdgesAt(n)) \in Nat /\ Cardinality(EdgesAt(n)) <= edge_size
<1> DEFINE all == Cardinality(edges(flow))
           counts == {Cardinality(EdgesAt(k)) : k \in NodeNames}
           IsSize(size) == /\ \A k \in NodeNames : Cardinality(EdgesAt(k)) <= size
                           /\ size = 1 \/ \E k \in NodeNames : Cardinality(EdgesAt(k)) = size
<1>1. all \in Nat
  BY FlowFinite, FS_CardinalityType
<1>2. ASSUME NEW k \in NodeNames
      PROVE  Cardinality(EdgesAt(k)) \in Nat /\ Cardinality(EdgesAt(k)) <= all
  <2>1. EdgesAt(k) \in SUBSET edges(flow)
    BY DEF EdgesAt
  <2>2. IsFiniteSet(EdgesAt(k)) /\ Cardinality(EdgesAt(k)) <= all
    BY <2>1, FlowFinite, FS_Subset
  <2>3. QED
    BY <2>2, FS_CardinalityType
<1> DEFINE T == (counts \cup {1}) \ {0}
<1>3. T \in SUBSET (1 .. all + 1) /\ T # {}
  <2> HIDE DEF all
  <2>1. \A c \in counts : c \in Nat /\ c <= all
    BY <1>2
  <2>2. QED
    <3> HIDE DEF counts
    <3> QED
      BY <1>1, <2>1
<1>4. PICK size \in T : \A c \in T : c <= size
  <2> HIDE DEF T
  <2>1. all + 1 \in Nat
    BY <1>1
  <2>2. QED
    BY <1>3, <2>1, GreatestOf
<1>5. size \in 1 .. all + 1 /\ IsSize(size)
  <2>1. size \in 1 .. all + 1
    BY <1>3, <1>4
  <2>2. \A k \in NodeNames : Cardinality(EdgesAt(k)) <= size
    <3> SUFFICES ASSUME NEW k \in NodeNames PROVE Cardinality(EdgesAt(k)) <= size
      OBVIOUS
    <3>1. CASE Cardinality(EdgesAt(k)) = 0
      BY <1>1, <2>1, <3>1
    <3>2. CASE Cardinality(EdgesAt(k)) # 0
      BY <1>4, <3>2
    <3>3. QED
      BY <3>1, <3>2
  <2>3. size = 1 \/ \E k \in NodeNames : Cardinality(EdgesAt(k)) = size
    BY <1>4
  <2>4. QED
    BY <2>1, <2>2, <2>3
<1>6. edge_size \in 1 .. all + 1 /\ IsSize(edge_size)
  <2>1. edge_size = CHOOSE s \in 1 .. all + 1 : IsSize(s)
    BY DEF edge_size
  <2>2. QED
    <3> HIDE DEF IsSize, all
    <3> QED
      BY <1>5, <2>1
<1>7. QED
  BY <1>1, <1>2, <1>6

\* A key has no more values than edges.
LEMMA FewSuccessors ==
  ASSUME flow \in Flows, NEW n \in NodeNames, NEW S \in SUBSET successors(n)
  PROVE  Cardinality(S) \in Nat /\ Cardinality(S) <= Cardinality(EdgesAt(n))
<1> DEFINE E == {d \in edges(flow) : d.source.name = n}
           f == [d \in E |-> d.dest.name]
<1>1. E \in SUBSET EdgesAt(n) /\ EdgesAt(n) \in SUBSET edges(flow)
  BY DEF EdgesAt
<1>2. IsFiniteSet(EdgesAt(n))
  BY <1>1, FlowFinite, FS_Subset
<1>3. IsFiniteSet(E) /\ Cardinality(E) <= Cardinality(EdgesAt(n))
  <2> HIDE DEF E
  <2> QED
    BY <1>1, <1>2, FS_Subset
<1>4. f \in Surjection(E, successors(n))
  BY DEF Surjection, successors
<1>5. IsFiniteSet(successors(n)) /\ Cardinality(successors(n)) <= Cardinality(E)
  <2> HIDE DEF E, f
  <2> QED
    BY <1>3, <1>4, FS_Surjection
<1>6. IsFiniteSet(S) /\ Cardinality(S) <= Cardinality(successors(n))
  BY <1>5, FS_Subset
<1>7. /\ Cardinality(S) \in Nat /\ Cardinality(successors(n)) \in Nat
      /\ Cardinality(E) \in Nat /\ Cardinality(EdgesAt(n)) \in Nat
  <2> HIDE DEF E
  <2> QED
    BY <1>2, <1>3, <1>5, <1>6, FS_CardinalityType
<1>8. QED
  <2> HIDE DEF E
  <2> QED
    BY <1>3, <1>5, <1>6, <1>7

LEMMA OnlyEdges ==
  ASSUME IInv, NEW n \in DOMAIN graph
  PROVE  n \in NodeNames /\ graph[n] \subseteq successors(n)
<1>1. n \in NodeNames
  BY DEF IInv, BuildTypeOK
<1>2. stage \in {"sort", "built", "cycle"}
  BY DEF IInv, BuildTypeOK, NotYetSorting, Outcomes
<1>3. Sorting
  BY <1>2 DEF IInv
<1>4. CASE n \notin Placed
  BY <1>1, <1>3, <1>4 DEF Sorting, EdgesUntouched
<1>5. CASE n \in Placed
  <2>1. n = node
    BY <1>3, <1>5 DEF Sorting, EdgesErased
  <2>2. node # none
    <3>1. none \notin NodeNames
      BY NoneIsNoName DEF IInv, NodeNames
    <3>2. QED
      BY <1>1, <2>1, <3>1
  <2>3. graph[node] = pending /\ pending \subseteq successors(node)
    BY <1>3, <2>2 DEF Sorting, PendingLeft
  <2>4. QED
    BY <1>1, <2>1, <2>3
<1>6. QED
  BY <1>4, <1>5

(* The capacity that edge_size computes for the sets of the multimap is    *)
(* enough at every moment of the build, for every flow: it counts the      *)
(* edges at a step in both directions, and the values are its successors.  *)
THEOREM CapacityIsEnough == BuildSpec => []WithinCapacity
<1>1. IInv => WithinCapacity
  <2> SUFFICES ASSUME IInv, NEW n \in DOMAIN graph
               PROVE  Cardinality(graph[n]) <= edge_size
    BY DEF WithinCapacity
  <2>1. n \in NodeNames /\ graph[n] \in SUBSET successors(n) /\ flow \in Flows
    BY OnlyEdges DEF IInv
  <2>2. Cardinality(graph[n]) \in Nat /\ Cardinality(graph[n]) <= Cardinality(EdgesAt(n))
    BY <2>1, FewSuccessors
  <2>3. QED
    BY <2>1, <2>2, EdgeSizeCounts
<1>2. QED
  BY <1>1, BuilderInvariant, PTL

----------------------------------------------------------------------------
(***************************************************************************)
(* What a fragment adds has the fragment's condition, if the condition     *)
(* reaches it: make_runtime_conditional leaves out the leaves that are not *)
(* starred themselves, although a composite around them may be.            *)
(***************************************************************************)
AddedUnder(t, c) == {star(leaf) : leaf \in MentionedUnder(t, c)}

\* The recursive definition of what is added has the value it is written with.
LEMMA NodesAre ==
  nodes_of = [t \in Subgraphs |-> [cond \in SUBSET Predicates |->
                CASE t.identity = "VALUE" -> AddedUnder(t, cond)
                  [] IsLeaf(t) /\ t.identity = "REFERENCE" -> {}
                  [] OTHER -> nodes_of[t.lhs][cond] \cup nodes_of[t.rhs][cond]]]
<1> DEFINE Added == SUBSET UNION {AddedUnder(t, cond) : t \in Subgraphs, cond \in SUBSET Predicates}
           V == [SUBSET Predicates -> Added]
           value == [t \in Subgraphs |-> [g \in [FlowParts[t] -> V] |-> [cond \in SUBSET Predicates |->
                       IF t.identity = "VALUE" THEN AddedUnder(t, cond)
                       ELSE IF IsLeaf(t) THEN {}
                       ELSE g[t.lhs][cond] \cup g[t.rhs][cond]]]]
<1>1. Valued(Subgraphs, FlowParts, V, value)
  <2>1. ASSUME NEW t \in Subgraphs, NEW g \in [FlowParts[t] -> V] PROVE value[t][g] \in V
    <3> DEFINE at(cond) == IF t.identity = "VALUE" THEN AddedUnder(t, cond)
                           ELSE IF IsLeaf(t) THEN {}
                           ELSE g[t.lhs][cond] \cup g[t.rhs][cond]
    <3>1. value[t][g] = [cond \in SUBSET Predicates |-> at(cond)]
      <4> HIDE DEF V
      <4> QED
        BY <2>1
    <3>2. ASSUME NEW cond \in SUBSET Predicates PROVE at(cond) \in Added
      <4>1. AddedUnder(t, cond) \in Added
        OBVIOUS
      <4>2. ASSUME ~IsLeaf(t) PROVE g[t.lhs][cond] \in Added /\ g[t.rhs][cond] \in Added
        <5>1. t.lhs \in FlowParts[t] /\ t.rhs \in FlowParts[t]
          BY <4>2 DEF FlowParts
        <5> HIDE DEF Added
        <5> QED
          BY <5>1
      <4>3. {} \in Added /\ \A A \in Added, B \in Added : A \cup B \in Added
        OBVIOUS
      <4> HIDE DEF Added
      <4> QED
        BY <4>1, <4>2, <4>3
    <3> HIDE DEF value, at, Added
    <3> QED
      BY <3>1, <3>2
  <2> HIDE DEF value, V
  <2> QED
    BY <2>1 DEF Valued
<1>2. PICK f \in [Subgraphs -> V] : \A t \in Subgraphs : FollowsAt(f, FlowParts, value, t)
  <2> HIDE DEF value
  <2>1. V # {}
    <3>1. {} \in Added
      OBVIOUS
    <3> HIDE DEF Added
    <3>2. [cond \in SUBSET Predicates |-> {}] \in V
      BY <3>1
    <3> QED
      BY <3>2
  <2> HIDE DEF V
  <2>2. QED
    BY <1>1, <2>1, FlowParted, RecursionExists
<1>3. ASSUME NEW t \in Subgraphs
      PROVE  f[t] = [cond \in SUBSET Predicates |->
                CASE t.identity = "VALUE" -> AddedUnder(t, cond)
                  [] IsLeaf(t) /\ t.identity = "REFERENCE" -> {}
                  [] OTHER -> f[t.lhs][cond] \cup f[t.rhs][cond]]
  <2> DEFINE g == [c \in FlowParts[t] |-> f[c]]
  <2>1. g \in [FlowParts[t] -> V]
    <3> HIDE DEF V
    <3> QED
      BY SubgraphTypes DEF FlowParts
  <2>2. f[t] = value[t][g]
    <3> HIDE DEF V, value
    <3> QED
      BY <1>2 DEF FollowsAt
  <2>3. f[t] = [cond \in SUBSET Predicates |->
                  IF t.identity = "VALUE" THEN AddedUnder(t, cond)
                  ELSE IF IsLeaf(t) THEN {}
                  ELSE g[t.lhs][cond] \cup g[t.rhs][cond]]
    <3> HIDE DEF V, g
    <3> QED
      BY <2>1, <2>2
  <2>4. ~IsLeaf(t) => g[t.lhs] = f[t.lhs] /\ g[t.rhs] = f[t.rhs]
    BY DEF FlowParts
  <2>5. t.identity \in {"REFERENCE", "VALUE"}
    BY SubgraphTypes
  <2>6. QED
    <3> HIDE DEF V, g
    <3> QED
      BY <2>3, <2>4, <2>5
<1>4. f = [t \in Subgraphs |-> [cond \in SUBSET Predicates |->
             CASE t.identity = "VALUE" -> AddedUnder(t, cond)
               [] IsLeaf(t) /\ t.identity = "REFERENCE" -> {}
               [] OTHER -> f[t.lhs][cond] \cup f[t.rhs][cond]]]
  <2> HIDE DEF V, value
  <2> QED
    BY <1>3
<1>5. QED
  <2> HIDE DEF V, value
  <2> QED
    BY <1>4 DEF nodes_of, AddedUnder

\* t adds the same steps under every condition, and a condition that reaches
\* them is theirs.
Adds(t) ==
  \A cond \in SUBSET Predicates :
    /\ NamesOf(nodes_of[t][cond]) = NamesOf(nodes_of[t][{}])
    /\ Reaches(t, cond) => \A k \in nodes_of[t][cond] : k.cond = cond

\* A starred subgraph adds what it mentions, by name.
LEMMA StarredAdds ==
  ASSUME NEW t \in Subgraphs, t.identity = "VALUE"
  PROVE  Adds(t)
<1>1. ASSUME NEW cond \in SUBSET Predicates PROVE nodes_of[t][cond] = AddedUnder(t, cond)
  BY NodesAre
<1>2. ASSUME NEW cond, NEW leaf
      PROVE  LET k == star(make_runtime_conditional(cond, leaf)) IN
             k.name = leaf.name /\ k.cond = IF leaf.identity = "VALUE" THEN cond ELSE {}
  BY DEF star, make_runtime_conditional
<1>3. ASSUME NEW cond
      PROVE  AddedUnder(t, cond) = {star(make_runtime_conditional(cond, leaf)) : leaf \in all_mentioned_of[t]}
  BY DEF AddedUnder, MentionedUnder
<1>4. ASSUME NEW cond
      PROVE  NamesOf(AddedUnder(t, cond)) = NamesOf(all_mentioned_of[t])
  BY <1>2, <1>3 DEF NamesOf
<1>5. t \in subgraphs_of[t]
  BY SubgraphsAre
<1>6. ASSUME NEW cond \in SUBSET Predicates, Reaches(t, cond), NEW k \in AddedUnder(t, cond)
      PROVE  k.cond = cond
  <2>1. PICK leaf \in all_mentioned_of[t] : k = star(make_runtime_conditional(cond, leaf))
    BY <1>3
  <2>2. k.cond = IF leaf.identity = "VALUE" THEN cond ELSE {}
    BY <1>2, <2>1
  <2>3. cond # {} => leaf.identity = "VALUE"
    BY <1>5, <1>6 DEF Reaches
  <2>4. QED
    BY <2>2, <2>3
<1>7. QED
  BY <1>1, <1>4, <1>6 DEF Adds

\* A composite that is not starred adds what its parts add.
LEMMA CompositeAdds ==
  ASSUME NEW t \in Subgraphs, t.identity = "REFERENCE", ~IsLeaf(t), NEW cond \in SUBSET Predicates
  PROVE  nodes_of[t][cond] = nodes_of[t.lhs][cond] \cup nodes_of[t.rhs][cond]
  BY NodesAre

LEMMA SubgraphsAdd == \A t \in Subgraphs : Adds(t)
<1> DEFINE T == {t \in Subgraphs : ~Adds(t)}
<1>1. SUFFICES ASSUME T # {} PROVE FALSE
  OBVIOUS
<1>2. PICK t \in T : FlowParts[t] \cap T = {}
  <2> HIDE DEF T
  <2>1. T \in SUBSET Subgraphs
    BY DEF T
  <2>2. QED
    BY <1>1, <2>1, FlowParted, Lowest
<1>3. t.identity = "REFERENCE"
  BY <1>2, StarredAdds, SubgraphTypes
<1>4. CASE IsLeaf(t)
  <2>1. \A cond \in SUBSET Predicates : nodes_of[t][cond] = {}
    BY <1>3, <1>4, NodesAre
  <2>2. QED
    BY <2>1 DEF Adds
<1>5. CASE ~IsLeaf(t)
  <2>1. Adds(t.lhs) /\ Adds(t.rhs)
    BY <1>2, <1>5, CompositeHas
  <2>2. \A cond \in SUBSET Predicates : nodes_of[t][cond] = nodes_of[t.lhs][cond] \cup nodes_of[t.rhs][cond]
    BY <1>3, <1>5, CompositeAdds
  <2>3. ASSUME NEW A, NEW B PROVE NamesOf(A \cup B) = NamesOf(A) \cup NamesOf(B)
    BY DEF NamesOf
  <2>4. \A cond : Reaches(t, cond) => Reaches(t.lhs, cond) /\ Reaches(t.rhs, cond)
    BY <1>5, CompositeHas DEF Reaches
  <2>5. {} \in SUBSET Predicates
    OBVIOUS
  <2>6. Adds(t)
    <3> HIDE DEF T
    <3>1. ASSUME NEW cond \in SUBSET Predicates
          PROVE  NamesOf(nodes_of[t][cond]) = NamesOf(nodes_of[t.lhs][{}]) \cup NamesOf(nodes_of[t.rhs][{}])
      BY <2>1, <2>2, <2>3 DEF Adds
    <3>2. ASSUME NEW cond \in SUBSET Predicates, Reaches(t, cond), NEW k \in nodes_of[t][cond]
          PROVE  k.cond = cond
      BY <2>1, <2>2, <2>4, <3>2 DEF Adds
    <3>3. QED
      BY <2>5, <3>1, <3>2 DEF Adds
  <2>7. QED
    BY <1>2, <2>6
<1>6. QED
  BY <1>4, <1>5

(* In a flow whose conditions all reach the steps they are around, a step  *)
(* runs only if a fragment whose condition holds added it: as the          *)
(* documentation has it, under a false condition it is as if it had never  *)
(* been added.  Where a condition does not reach, the step runs anyway.    *)
THEOREM OnlyAddedStepsEverRun ==
  ASSUME ConditionsReach
  PROVE  Spec => OnlyAddedStepsRun
<1> DEFINE AddedNow(n) == \E i \in DOMAIN flow : /\ n \in NamesOf(nodes_of[flow[i].graph][{}])
                                                 /\ flow[i].when \subseteq truth
<1>1. ASSUME RunInv, RunStep, ConditionHolds(ordered[pc]) PROVE AddedNow(ordered[pc])
  <2> DEFINE n == ordered[pc]
  <2>1. n \in NamesOf(nodes(flow))
    BY <1>1, TurnTaken DEF NodeNames
  <2>2. PICK k \in nodes(flow) : k.name = n
    BY <2>1 DEF NamesOf
  <2>3. PICK i \in DOMAIN flow : k \in nodes_of[flow[i].graph][flow[i].when]
    BY DEF nodes
  <2>4. flow \in Flows
    BY <1>1 DEF RunInv, IInv
  <2>5. flow[i].graph \in Subgraphs /\ flow[i].when \in SUBSET Predicates
    BY <2>4, FlowMentions
  <2>6. k.cond = flow[i].when
    BY <2>3, <2>4, <2>5, SubgraphsAdd DEF Adds, ConditionsReach
  <2>7. n \in NamesOf(nodes_of[flow[i].graph][{}])
    BY <2>2, <2>3, <2>5, SubgraphsAdd DEF Adds, NamesOf
  <2>8. k.cond \subseteq ConditionOf(n)
    BY <2>2 DEF ConditionOf
  <2>9. QED
    BY <1>1, <2>6, <2>7, <2>8 DEF ConditionHolds
<1>2. RunInv /\ [Next]_vars => [\A n \in ran' \ ran : AddedNow(n)]_vars
  <2> SUFFICES ASSUME RunInv, Next, NEW n \in ran' \ ran PROVE AddedNow(n)
    OBVIOUS
  <2>1. RunStep
    BY DEF Next, BuildStep, run_vars, Change, Begin, End
  <2>2. n = ordered[pc] /\ ConditionHolds(ordered[pc])
    BY <2>1 DEF RunStep
  <2>3. QED
    BY <1>1, <2>1, <2>2
<1>3. QED
  BY <1>2, RunInvariant, PTL DEF Spec, OnlyAddedStepsRun
=============================================================================
