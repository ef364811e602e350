------------------------- MODULE DynamicController -------------------------
(***************************************************************************)
(* interrupt::dynamic_controller: threads and interrupt handlers (Callers) *)
(* enable and disable IRQs by resource, flow and name.  The controller     *)
(* keeps the three enable sets and a shadow of every enable register, and  *)
(* writes the registers through Hal::write.  enable, disable, init and the *)
(* refresh functions run in a critical section on mutex_t; reset does not. *)
(*                                                                         *)
(* A call goes through these steps (pc): "enter" waits for the critical    *)
(* section, "set" changes the enable sets, "update" takes the next         *)
(* register and works out its new value, "write" stores and writes it;     *)
(* when no register is left the call returns from "update".                *)
(***************************************************************************)
EXTENDS ControlCalls

CONSTANTS
  Callers,
  nobody,           \* the owner of a free critical section
  no_call,
  no_register,
  InitialEnables,   \* what the registers hold when the program starts
  MaxCalls,         \* bound: calls per caller
  MayReinit,        \* usage: init may be called again, at any time
  MayRaceReset      \* usage: reset may be called while other calls run

ASSUME ControllerConstants ==
  /\ nobody \notin Callers
  /\ no_call \notin Calls
  /\ no_register \notin Registers
  /\ MaxCalls \in Nat
  /\ MayReinit \in BOOLEAN
  /\ MayRaceReset \in BOOLEAN
  /\ InitialEnables \in [Registers -> SUBSET Fields]

VARIABLES
  resource_enables, flow_enables, named_enables,
  shadow_enable,    \* [Registers -> SUBSET Fields]
  enable_register,  \* [Registers -> SUBSET Fields]: the hardware
  mutex,            \* who is in the critical section
  pc, call,         \* per caller: the step it is at, the call it makes
  pending,          \* per caller: registers update() has still to visit
  target,           \* per caller: the register being updated
  new_value,        \* per caller: the value computed for it
  calls,            \* per caller: calls started (history, bounds the model)
  initialised,      \* some init has returned (history)
  committed         \* the state the last completed call left (history)

enables == <<resource_enables, flow_enables, named_enables>>
registers == <<shadow_enable, enable_register>>
cursor == <<pending, target, new_value>>
history == <<initialised, committed>>
vars == <<enables, registers, mutex, pc, call, cursor, calls, history>>

TypeOK ==
  /\ resource_enables \subseteq Resources
  /\ flow_enables \subseteq Flows
  /\ named_enables \subseteq Names
  /\ shadow_enable \in [Registers -> SUBSET Fields]
  /\ enable_register \in [Registers -> SUBSET Fields]
  /\ mutex \in Callers \cup {nobody}
  /\ pc \in [Callers -> {"idle", "enter", "set", "update", "write"}]
  /\ call \in [Callers -> Calls \cup {no_call}]
  /\ \A c \in Callers : pc[c] # "idle" => call[c] \in Calls
  /\ pending \in [Callers -> SUBSET Registers]
  /\ target \in [Callers -> Registers \cup {no_register}]
  /\ \A c \in Callers : pc[c] = "write" => target[c] \in Registers
  /\ new_value \in [Callers -> SUBSET Fields]
  /\ calls \in [Callers -> 0..MaxCalls]
  /\ initialised \in BOOLEAN

Snapshot == [resources |-> resource_enables, flows |-> flow_enables,
             named |-> named_enables, registers |-> enable_register]

Init ==
  /\ resource_enables = {}
  /\ flow_enables = {}
  /\ named_enables = {}
  /\ shadow_enable = [r \in Registers |-> {}]
  /\ enable_register = InitialEnables
  /\ mutex = nobody
  /\ pc = [c \in Callers |-> "idle"]
  /\ call = [c \in Callers |-> no_call]
  /\ pending = [c \in Callers |-> {}]
  /\ target = [c \in Callers |-> no_register]
  /\ new_value = [c \in Callers |-> {}]
  /\ calls = [c \in Callers |-> 0]
  /\ initialised = FALSE
  /\ committed = Snapshot

----------------------------------------------------------------------------
\* The callers' side: init comes first, alone, and again only if MayReinit;
\* reset runs alone unless MayRaceReset.

Quiet == \A c \in Callers : pc[c] = "idle"

Resetting == \E c \in Callers : pc[c] # "idle" /\ call[c].op = "reset"

Permitted(cl) ==
  /\ cl.op = "init" => IF initialised THEN MayReinit ELSE Quiet
  /\ cl.op # "init" => initialised
  /\ MayRaceReset \/ (~Resetting /\ (cl.op = "reset" => Quiet))

Call(c, cl) ==
  /\ pc[c] = "idle"
  /\ calls[c] < MaxCalls
  /\ Permitted(cl)
  /\ call' = [call EXCEPT ![c] = cl]
  /\ pc' = [pc EXCEPT ![c] = IF cl.op = "reset" THEN "set" ELSE "enter"]
  /\ calls' = [calls EXCEPT ![c] = @ + 1]
  /\ UNCHANGED <<enables, registers, mutex, cursor, history>>

----------------------------------------------------------------------------
\* call_in_critical_section<mutex_t>

\* A mutant: the call does not wait for the critical section.
AlwaysFree(c) == TRUE

SectionFree(c) == mutex = nobody

Enter(c) ==
  /\ pc[c] = "enter"
  /\ SectionFree(c)
  /\ mutex' = c
  /\ pc' = [pc EXCEPT ![c] = "set"]
  /\ UNCHANGED <<enables, registers, call, cursor, calls, history>>

\* A mutant: the IRQs that are already enabled are left out of the shadow.
ClearedShadow(cl) ==
  [r \in Registers |->
     IF r \in RegistersFor(EnableIrqs) THEN {} ELSE shadow_enable[r]]

\* reset_internal_state and set_internal_state: the shadow of every register
\* with an enable field becomes the fields of the IRQs already enabled.
InitialShadow(cl) ==
  [r \in Registers |->
     IF r \in RegistersFor(EnableIrqs) THEN mask_for(cl.already, r)
                                       ELSE shadow_enable[r]]

\* enable_one, disable_one, reset_internal_state, set_internal_state.
SetEnables(c) ==
  /\ pc[c] = "set"
  /\ resource_enables' = ResourcesAfter(call[c], resource_enables)
  /\ flow_enables' = FlowsAfter(call[c], flow_enables)
  /\ named_enables' = NamesAfter(call[c], named_enables)
  /\ shadow_enable' = IF call[c].op = "init" THEN InitialShadow(call[c])
                                             ELSE shadow_enable
  /\ pending' = [pending EXCEPT ![c] = AffectedRegisters(call[c])]
  /\ pc' = [pc EXCEPT ![c] = "update"]
  /\ UNCHANGED <<enable_register, mutex, call, target, new_value, calls, history>>

\* update(), one register: compute_register for each of its IRQs.
ComputeRegister(c, r) ==
  /\ pc[c] = "update"
  /\ r \in pending[c]
  /\ target' = [target EXCEPT ![c] = r]
  /\ new_value' = [new_value EXCEPT ![c] =
        NewValue(call[c], r, shadow_enable[r],
                 named_enables, resource_enables, flow_enables)]
  /\ pending' = [pending EXCEPT ![c] = @ \ {r}]
  /\ pc' = [pc EXCEPT ![c] = "write"]
  /\ UNCHANGED <<enables, registers, mutex, call, calls, history>>

\* A mutant: the comparison is made with the shadow already overwritten.
NeverChanged(c) == call[c].op \in {"refresh", "reset"}

\* force_write for refresh and reset, write_if_changed for the other calls.
MustWrite(c) ==
  \/ call[c].op \in {"refresh", "reset"}
  \/ new_value[c] # shadow_enable[target[c]]

WriteRegister(c) ==
  /\ pc[c] = "write"
  /\ shadow_enable' = [shadow_enable EXCEPT ![target[c]] = new_value[c]]
  /\ enable_register' = IF MustWrite(c)
                        THEN [enable_register EXCEPT ![target[c]] = new_value[c]]
                        ELSE enable_register
  /\ pc' = [pc EXCEPT ![c] = "update"]
  /\ target' = [target EXCEPT ![c] = no_register]
  /\ new_value' = [new_value EXCEPT ![c] = {}]
  /\ UNCHANGED <<enables, mutex, call, pending, calls, history>>

\* A mutant: the critical section is left open by its owner.
SectionKept(c) == mutex

SectionAfter(c) == IF mutex = c THEN nobody ELSE mutex

Leave(c) ==
  /\ pc[c] = "update"
  /\ pending[c] = {}
  /\ mutex' = SectionAfter(c)
  /\ pc' = [pc EXCEPT ![c] = "idle"]
  /\ call' = [call EXCEPT ![c] = no_call]
  /\ initialised' = (initialised \/ call[c].op = "init")
  /\ committed' = Snapshot
  /\ UNCHANGED <<enables, registers, cursor, calls>>

Step(c) ==
  \/ Enter(c)
  \/ SetEnables(c)
  \/ \E r \in Registers : ComputeRegister(c, r)
  \/ WriteRegister(c)
  \/ Leave(c)

Next == \E c \in Callers : Step(c) \/ \E cl \in Calls : Call(c, cl)

Spec == Init /\ [][Next]_vars

FairSpec == Spec /\ \A c \in Callers : WF_vars(Step(c))

----------------------------------------------------------------------------
\* What the static initialisation did is what init is told: the fields of
\* AlreadyEnabled, and no others, are set when the program starts.
StaticEnablesKnown ==
  \A cl \in Calls : cl.op = "init" =>
    \A r \in RegistersFor(EnableIrqs) : mask_for(cl.already, r) = InitialEnables[r]

\* init is called once, with what the static initialisation did, and reset alone.
ProperUse == StaticEnablesKnown /\ ~MayReinit /\ ~MayRaceReset

NoResets == \A cl \in Calls : cl.op # "reset"

\* A call recomputes the parents of what it changes.
ReachesParents(cl) ==
  \/ cl.scope = "propagate"
  \/ /\ cl.scope = "by_name"
     /\ \A i \in Irqs : \A k \in ChildSet(i) :
           name_t[k] \in cl.items => name_t[i] \in cl.items

ResourcesReach ==
  \A i \in Irqs : \A k \in ChildSet(i) : all_resources_t(k) \subseteq all_resources_t(i)

CallsReach == \A cl \in Calls : cl.op \in {"enable", "disable"} => ReachesParents(cl)

Propagated == CallsReach /\ ResourcesReach

\* IRQs that share their enable field with no other IRQ.
Unshared == {i \in EnableIrqs : \A j \in Irqs \ {i} : enable_field[j] # enable_field[i]}

FieldsUnshared == Unshared = EnableIrqs

IsOn(i) == is_on(named_enables, resource_enables, flow_enables)[i]

Enabled(i) == enable_field[i] \in enable_register[register_of[enable_field[i]]]

\* IRQs whose enable field no other IRQ uses and nothing set statically.
Controlled ==
  {i \in EnableIrqs :
     /\ \A j \in Irqs \ {i} : enable_field[j] # enable_field[i]
     /\ enable_field[i] \notin InitialEnables[register_of[enable_field[i]]]}

Elements == {i \in Controlled : ~IsContainer(i)}

(* The shadow is what the hardware holds, for every register that is not   *)
(* being written: otherwise the next update would compute its value from   *)
(* something the register does not contain, and write_if_changed would     *)
(* skip a write that is needed.  Registers with no enable field stay out.  *)
ShadowIsRegister ==
  initialised /\ mutex = nobody =>
    \A r \in RegistersFor(EnableIrqs) : shadow_enable[r] = enable_register[r]

(* Whatever calls raced, an element's enable bit in the hardware is what   *)
(* is_on says for it once the controller is at rest: no update of one of   *)
(* the fields that share a register is lost to another one's.              *)
ElementsAgree ==
  Quiet /\ initialised =>
    \A i \in Elements : Enabled(i) <=> IsOn(i)

(* When every call propagates, the same holds of the containers: a parent  *)
(* is enabled exactly while a child needs it.                              *)
ContainersAgree ==
  Quiet /\ initialised =>
    \A i \in Controlled \ Elements : Enabled(i) <=> IsOn(i)

(* docs/interrupts.adoc: turning flows and resources back on re-enables    *)
(* any dependent interrupts.  When everything is on again, every IRQ that  *)
(* has an active flow below it is enabled in the hardware.                 *)
TurnedBackOn ==
  /\ Quiet
  /\ initialised
  /\ resource_enables = Resources
  /\ flow_enables = Flows
  /\ named_enables = Names
  => \A i \in EnableIrqs : IsOn(i) => Enabled(i)

(* An element's bit changes only to what is_on says at that moment, by a   *)
(* call that affects it: no call in progress ever masks an interrupt that  *)
(* stays on, or lets one through that stays off, not even for one write.   *)
NoGlitch ==
  [][\A i \in Elements :
       initialised /\ (Enabled(i) # Enabled(i)') =>
         /\ Enabled(i)' <=> IsOn(i)'
         /\ \E c \in Callers : pc[c] = "write" /\ i \in AffectedIrqs(call[c])]_vars

(* Every call returns: no caller waits for the critical section for ever.  *)
EveryCallReturns == \A c \in Callers : pc[c] # "idle" ~> pc[c] = "idle"

(* The calls take effect one at a time, each as a whole, in the order in   *)
(* which they leave the critical section.                                  *)
Atomic == INSTANCE EnableControl WITH
  resources <- committed.resources,
  flows     <- committed.flows,
  named     <- committed.named,
  enabled   <- committed.registers

CallsAreAtomic == Atomic!Spec
=============================================================================
