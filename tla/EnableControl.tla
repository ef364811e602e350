--------------------------- MODULE EnableControl ---------------------------
(***************************************************************************)
(* What the dynamic controller promises its callers: every call takes      *)
(* effect at once, as if no other call were in progress.  The call changes *)
(* the enable sets, then gives every enable field it affects the value     *)
(* is_on has for it, in the hardware register, and leaves every other      *)
(* field as it was.                                                        *)
(***************************************************************************)
EXTENDS ControlCalls

CONSTANT InitialEnables   \* [Registers -> SUBSET Fields]

VARIABLES resources, flows, named, enabled

vars == <<resources, flows, named, enabled>>

Init ==
  /\ resources = {}
  /\ flows = {}
  /\ named = {}
  /\ enabled = InitialEnables

Apply(call) ==
  /\ resources' = ResourcesAfter(call, resources)
  /\ flows' = FlowsAfter(call, flows)
  /\ named' = NamesAfter(call, named)
  /\ enabled' = [r \in Registers |->
        IF r \in AffectedRegisters(call)
        THEN NewValue(call, r, enabled[r], named', resources', flows')
        ELSE enabled[r]]

Next == \E call \in Calls : Apply(call)

Spec == Init /\ [][Next]_vars
=============================================================================
