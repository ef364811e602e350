---------------------------- MODULE ControlCalls ----------------------------
(***************************************************************************)
(* The calls a program makes on interrupt::dynamic_controller, and for     *)
(* each of them the enable state it asks for and the IRQs it recomputes.   *)
(*                                                                         *)
(*   [op |-> "enable" / "disable", items |-> T, scope |-> s]               *)
(*        T is a set of resources, flows and unknown types, and s is       *)
(*        "propagate" or "no_propagate"; or T is a set of IRQ names and    *)
(*        unknown ones, and s is "by_name"                                 *)
(*   [op |-> "init", resources |-> R, flows |-> F, already |-> A]          *)
(*        the policy's active resources and flows, and AlreadyEnabled      *)
(*   [op |-> "refresh", scope |-> "children" / "descendants"]              *)
(*        refresh_top_level_enables, refresh_all_enables                   *)
(*   [op |-> "reset"]                                                      *)
(***************************************************************************)
EXTENDS IrqConfig

CONSTANTS
  Calls,     \* the calls the program may make
  unknown    \* a type that the configuration does not mention

ControlCall ==
  [op : {"enable", "disable"},
   items : SUBSET (Resources \cup Flows \cup {unknown}),
   scope : {"propagate", "no_propagate"}]

NameCall ==
  [op : {"enable", "disable"}, items : SUBSET (Names \cup {unknown}),
   scope : {"by_name"}]

InitCall ==
  [op : {"init"}, resources : SUBSET Resources, flows : SUBSET Flows,
   already : SUBSET Irqs]

RefreshCall == [op : {"refresh"}, scope : {"children", "descendants"}]

ResetCall == [op : {"reset"}]

ASSUME CallTypes ==
  /\ unknown \notin Resources \cup Flows \cup Names
  /\ Calls \subseteq
       (ControlCall \cup NameCall \cup InitCall \cup RefreshCall \cup ResetCall)

----------------------------------------------------------------------------
\* The three enable sets are resources, flows and names.  Every call maps
\* each of them in the same way: enable_one sets a member, disable_one
\* resets it, and what is in none of the three sets is ignored.

Changed(call, enables, universe) ==
  IF call.op = "enable" THEN enables \cup (call.items \cap universe)
                        ELSE enables \ call.items

\* reset_internal_state on init, the three reset() on reset.
ResourcesAfter(call, enables) ==
  CASE call.op \in {"enable", "disable"} -> Changed(call, enables, Resources)
    [] call.op = "init"                  -> call.resources
    [] call.op = "reset"                 -> {}
    [] OTHER                             -> enables

FlowsAfter(call, enables) ==
  CASE call.op \in {"enable", "disable"} -> Changed(call, enables, Flows)
    [] call.op = "init"                  -> call.flows
    [] call.op = "reset"                 -> {}
    [] OTHER                             -> enables

NamesAfter(call, enables) ==
  CASE call.op \in {"enable", "disable"} -> Changed(call, enables, Names)
    [] call.op = "init"                  -> Names
    [] call.op = "reset"                 -> {}
    [] OTHER                             -> enables

----------------------------------------------------------------------------
\* compute_affected_irqs under the two propagation policies, and the
\* overloads by name, which never propagate.

with_items(items) == {i \in Irqs : (resources_t[i] \cup flows_t(i)) \cap items # {}}

with_items_propagated(items) ==
  {i \in Irqs : (all_resources_t(i) \cup all_flows_t[i]) \cap items # {}}

\* The IRQs found are passed on by their names.
has_name(names) == {i \in Irqs : name_t[i] \in names}

ControlledIrqs(call) ==
  CASE call.scope = "no_propagate" ->
         has_name({name_t[i] : i \in with_items(call.items)})
    [] call.scope = "propagate" ->
         has_name({name_t[i] : i \in with_items_propagated(call.items)})
    [] OTHER -> has_name(call.items)

AffectedIrqs(call) ==
  CASE call.op \in {"enable", "disable"} -> ControlledIrqs(call)
    [] call.op = "init"                  -> EnableIrqs \ call.already
    [] call.op = "refresh"               -> IF call.scope = "children"
                                            THEN Top ELSE Irqs
    [] OTHER                             -> Irqs

AffectedRegisters(call) == RegistersFor(AffectedIrqs(call))

\* What update() computes for the fields it owns in register r.
OnFields(call, r, named, resources, flows) ==
  {f \in mask_for(AffectedIrqs(call), r) :
     \E i \in AffectedIrqs(call) \cap EnableIrqs :
        enable_field[i] = f /\ is_on(named, resources, flows)[i]}

\* A mutant: the fields of the IRQs that are not affected are not kept.
ValueUnmasked(call, r, value, named, resources, flows) ==
  OnFields(call, r, named, resources, flows)

\* new_value = (shadow_value & ~mask) | value
NewValue(call, r, value, named, resources, flows) ==
  (value \ mask_for(AffectedIrqs(call), r))
     \cup OnFields(call, r, named, resources, flows)
=============================================================================
