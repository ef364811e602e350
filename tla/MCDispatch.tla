----------------------------- MODULE MCDispatch -----------------------------
(***************************************************************************)
(* Instances of IrqDispatch for TLC: a shared IRQ with a nested container  *)
(* and two sub-IRQs, and a plain IRQ, handled in two contexts.             *)
(***************************************************************************)
EXTENDS IrqDispatch, TLC

CONSTANTS shared, nested, sub0, sub1, solo
CONSTANTS top_field, mid_field, field0, field1, solo_field
CONSTANTS top_register, register
CONSTANTS R0, R1, F0, F1, FS

Children ==
  shared :> <<nested>> @@ nested :> <<sub0, sub1>>
    @@ sub0 :> <<>> @@ sub1 :> <<>> @@ solo :> <<>>

OwnNames == [i \in Irqs |-> i]

ResourcesOf ==
  shared :> {} @@ nested :> {} @@ sub0 :> {R0} @@ sub1 :> {R1} @@ solo :> {}

FlowsOf == shared :> {} @@ nested :> {} @@ sub0 :> {F0} @@ sub1 :> {F1} @@ solo :> {FS}

FieldsOf ==
  shared :> top_field @@ nested :> mid_field @@ sub0 :> field0
    @@ sub1 :> field1 @@ solo :> solo_field

RegisterOf ==
  [f \in Fields |-> IF f \in {top_field, solo_field} THEN top_register ELSE register]

\* Each of the three policies.
PoliciesOf ==
  [i \in Irqs |-> CASE i = sub1 -> "clear_status_last"
                    [] i = solo -> "dont_clear_status"
                    [] OTHER -> "clear_status_first"]

StaticEnables == [r \in Registers |-> StaticFields \cap FieldsIn(r)]

----------------------------------------------------------------------------
Control(op, items, scope) == [op |-> op, items |-> items, scope |-> scope]

OnOff(items, scope) == {Control(op, items, scope) : op \in {"enable", "disable"}}

\* manager::init_dynamic: every Impl of the top level as AlreadyEnabled.
ManagerInit(resources) ==
  [op |-> "init", resources |-> resources, flows |-> active_flows, already |-> Top]

\* Calls that turn sub1 off and on while interrupts are handled, and leave sub0
\* and solo alone.
SwitchingCalls ==
  {ManagerInit(Resources)} \cup OnOff({R1}, "no_propagate")
    \cup OnOff({F1}, "no_propagate") \cup OnOff({sub1}, "by_name")

ASSUME UsedProperly == ProperUse /\ NoResets
=============================================================================
