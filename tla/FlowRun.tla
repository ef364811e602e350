------------------------------ MODULE FlowRun ------------------------------
(***************************************************************************)
(* A flow that was built is a list of functions that flow::run calls one   *)
(* after the other.  Each looks at its step's runtime condition when its   *)
(* turn comes; the predicates are the program's, and may change meanwhile. *)
(***************************************************************************)
EXTENDS GraphBuilder

VARIABLES
  pc,     \* the position in the list: 0 when the flow is not running
  truth,  \* the predicates that hold now
  held,   \* those that have held since the run began
  ran     \* the steps that have run in this run

run_vars == <<pc, truth, held, ran>>
vars == <<build_vars, run_vars>>

RunInit ==
  /\ Init
  /\ pc = 0
  /\ truth \in SUBSET Predicates
  /\ held = truth
  /\ ran = {}

\* The predicates of one of them change, by a step or behind its back.
Change ==
  /\ stage = "built"
  /\ \E p \in Predicates :
       truth' = IF p \in truth THEN truth \ {p} ELSE truth \cup {p}
  /\ held' = held \cap truth'
  /\ UNCHANGED <<build_vars, pc, ran>>

Begin ==
  /\ stage = "built" /\ pc = 0
  /\ pc' = 1
  /\ held' = truth
  /\ UNCHANGED <<build_vars, truth, ran>>

\* A mutant: the condition is not looked at.
AnyCondition(n) == TRUE

ConditionHolds(n) == ConditionOf(n) \subseteq truth

\* run_func: the step is run if its condition holds when its turn comes.
RunStep ==
  /\ pc \in DOMAIN ordered
  /\ ran' = IF ConditionHolds(ordered[pc]) THEN ran \cup {ordered[pc]} ELSE ran
  /\ pc' = pc + 1
  /\ UNCHANGED <<build_vars, truth, held>>

\* flow.end
End ==
  /\ pc > Len(ordered)
  /\ pc' = 0
  /\ ran' = {}
  /\ UNCHANGED <<build_vars, truth, held>>

BuildStep == BuildNext /\ UNCHANGED run_vars

Next == BuildStep \/ Change \/ Begin \/ RunStep \/ End

Spec == RunInit /\ [][Next]_vars

----------------------------------------------------------------------------
Decided == {ordered[i] : i \in {j \in DOMAIN ordered : j < pc}}

Promise == INSTANCE FlowPromise WITH
  steps <- NodeNames,
  precedes <- [m \in NodeNames |-> successors(m)],
  condition <- [n \in NodeNames |-> ConditionOf(n)],
  decided <- Decided

(* Every run of every flow that was built keeps the flow's promise.        *)
RunsKeepPromise == Promise!PromiseSpec

(* The condition given to a sequence implies those of its steps: if it has *)
(* held throughout the run, both of its steps have run, the first one      *)
(* first.                                                                  *)
SequencesRun ==
  \A e \in edges(flow) :
    (pc > Len(ordered) /\ e.cond \subseteq held) =>
      {e.source.name, e.dest.name} \subseteq ran

\* The condition cond reaches every step that t adds.
Reaches(t, cond) ==
  cond # {} => \A u \in subgraphs_of[t] : u.identity = "VALUE" =>
                 \A leaf \in all_mentioned_of[u] : leaf.identity = "VALUE"

\* No flow stars a composite under a condition, unless its leaves are starred.
ConditionsReach ==
  \A f \in Flows : \A i \in DOMAIN f : Reaches(f[i].graph, f[i].when)

(* flows.adoc: an action that is added under a runtime conditional is, when *)
(* the conditional is false, as if it were never added.                    *)
OnlyAddedStepsRun ==
  [][\A n \in ran' \ ran :
       \E i \in DOMAIN flow : /\ n \in NamesOf(nodes_of[flow[i].graph][{}])
                              /\ flow[i].when \subseteq truth]_vars
============================================================================
