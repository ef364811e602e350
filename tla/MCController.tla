---------------------------- MODULE MCController ----------------------------
(***************************************************************************)
(* Instances of DynamicController for TLC, with the tree of                *)
(* test/interrupt/dynamic_controller.cpp (config_t) with two sub-IRQs.     *)
(***************************************************************************)
EXTENDS DynamicController, TLC

CONSTANTS shared, sub0, sub1   \* IRQs
CONSTANTS top_field, field0, field1
CONSTANTS top_register, register       \* two enable fields share one
CONSTANTS sharedName, name0, name1   \* names
CONSTANTS R0, R1, F0, F1

\* Two levels: shared -> sub0, sub1.
ChildrenTwo == shared :> <<sub0, sub1>> @@ sub0 :> <<>> @@ sub1 :> <<>>
NamesTwo == shared :> sharedName @@ sub0 :> name0 @@ sub1 :> name1
ResourcesTwo == shared :> {} @@ sub0 :> {R0} @@ sub1 :> {R0, R1}
FlowsTwo == shared :> {} @@ sub0 :> {F0} @@ sub1 :> {F1}
FieldsTwo == shared :> top_field @@ sub0 :> field0 @@ sub1 :> field1
RegistersTwo ==
  top_field :> top_register @@ field0 :> register @@ field1 :> register

NothingEnabled == [r \in {top_register, register} |-> {}]
TopEnabled == [r \in {top_register, register} |->
                 IF r = top_register THEN {top_field} ELSE {}]

CallerSymmetry == Permutations(Callers)

----------------------------------------------------------------------------
Control(op, items, scope) == [op |-> op, items |-> items, scope |-> scope]

OnOff(items, scope) == {Control(op, items, scope) : op \in {"enable", "disable"}}

Refresh(scope) == [op |-> "refresh", scope |-> scope]

InitWith(resources, flows, already) ==
  [op |-> "init", resources |-> resources, flows |-> flows, already |-> already]

\* manager::init: no resources, every flow, the top level already enabled.
ManagerInit == InitWith({}, Flows, Top)
FullInit == InitWith(Resources, Flows, {})

\* Calls by resource, flow and name, with and without propagation.
MixedCalls ==
  {ManagerInit, Refresh("children"), Refresh("descendants"), [op |-> "reset"],
   Control("disable", {unknown}, "no_propagate")}
    \cup OnOff({R0}, "no_propagate") \cup OnOff({R1, F0}, "propagate")
    \cup OnOff({F1}, "propagate") \cup OnOff({name0}, "by_name")
    \cup OnOff({sharedName, name1}, "by_name")

\* One resource or flow at a time, always propagated.
PropagatedCalls ==
  {FullInit} \cup UNION {OnOff({x}, "propagate") : x \in Resources \cup Flows}

ASSUME UsedProperly == ProperUse /\ (Calls = PropagatedCalls => CallsReach /\ FieldsUnshared)
=============================================================================
