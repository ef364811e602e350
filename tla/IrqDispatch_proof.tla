------------------------- MODULE IrqDispatch_proof -------------------------
(***************************************************************************)
(* The dynamic controller and the dispatch of interrupts, for every        *)
(* forest, any number of callers, contexts and events, and any calls.      *)
(*                                                                         *)
(* The controller: type correctness; when init is called once and reset    *)
(* alone, that the calls are atomic, the shadow is the hardware and the    *)
(* elements agree with is_on; and when every change propagates as far as   *)
(* it reaches, that containers agree too and are turned back on.           *)
(*                                                                         *)
(* Dispatch, with calls in between: an event is kept until the flows of    *)
(* its element start, and an IRQ that has been off since an interrupt was  *)
(* taken runs no flow in it.                                               *)
(***************************************************************************)
EXTENDS IrqDispatch, SequenceTheorems, TLAPS

----------------------------------------------------------------------------
(* What the operators of IrqConfig and ControlCalls return. *)

LEMMA EnableFieldTypes ==
  ASSUME NEW i \in EnableIrqs
  PROVE  i \in Irqs /\ enable_field[i] \in Fields /\ register_of[enable_field[i]] \in Registers
  BY ConfigTypes DEF EnableIrqs, has_enable_field

LEMMA MaskTypes ==
  ASSUME NEW irqs, NEW r
  PROVE  mask_for(irqs, r) \subseteq Fields
  BY DEF mask_for, FieldsIn

\* update() visits registers that hold some enable field.
LEMMA RegistersForTypes ==
  ASSUME NEW irqs
  PROVE  RegistersFor(irqs) \subseteq RegistersFor(EnableIrqs)
         /\ RegistersFor(EnableIrqs) \subseteq Registers
  BY EnableFieldTypes DEF RegistersFor

LEMMA AffectedTypes ==
  ASSUME NEW cl \in Calls
  PROVE  /\ AffectedRegisters(cl) \subseteq RegistersFor(EnableIrqs)
         /\ AffectedRegisters(cl) \subseteq Registers
  BY RegistersForTypes DEF AffectedRegisters

\* The enable sets stay within their types whatever the call.
LEMMA EnablesTypes ==
  ASSUME NEW cl \in Calls,
         NEW R \in SUBSET Resources, NEW F \in SUBSET Flows, NEW N \in SUBSET Names
  PROVE  /\ ResourcesAfter(cl, R) \in SUBSET Resources
         /\ FlowsAfter(cl, F) \in SUBSET Flows
         /\ NamesAfter(cl, N) \in SUBSET Names
<1>1. CASE cl.op \in {"enable", "disable"}
  BY <1>1 DEF ResourcesAfter, FlowsAfter, NamesAfter, Changed
<1>2. CASE cl.op = "init"
  <2>1. cl \in InitCall
    BY <1>2, CallTypes DEF ControlCall, NameCall, RefreshCall, ResetCall
  <2>2. cl.resources \in SUBSET Resources /\ cl.flows \in SUBSET Flows
    BY <2>1 DEF InitCall
  <2>3. QED
    BY <1>2, <2>2 DEF ResourcesAfter, FlowsAfter, NamesAfter
<1>3. CASE cl.op = "reset"
  BY <1>3 DEF ResourcesAfter, FlowsAfter, NamesAfter
<1>4. CASE cl.op \notin {"enable", "disable", "init", "reset"}
  BY <1>4 DEF ResourcesAfter, FlowsAfter, NamesAfter
<1>5. QED
  BY <1>1, <1>2, <1>3, <1>4

LEMMA NewValueTypes ==
  ASSUME NEW cl \in Calls, NEW r, NEW value \in SUBSET Fields,
         NEW N, NEW R, NEW F
  PROVE  NewValue(cl, r, value, N, R, F) \in SUBSET Fields
  BY MaskTypes DEF NewValue, OnFields

----------------------------------------------------------------------------

LEMMA InitTypeOK == Init => TypeOK
<1> SUFFICES ASSUME Init PROVE TypeOK
  OBVIOUS
<1>1. calls \in [Callers -> 0..MaxCalls] /\ call \in [Callers -> Calls \cup {no_call}]
  BY ControllerConstants DEF Init
<1>2. /\ resource_enables \subseteq Resources
      /\ flow_enables \subseteq Flows
      /\ named_enables \subseteq Names
      /\ shadow_enable \in [Registers -> SUBSET Fields]
      /\ enable_register \in [Registers -> SUBSET Fields]
  BY ControllerConstants DEF Init
<1>3. QED
  BY <1>1, <1>2 DEF Init, TypeOK

LEMMA NextTypeOK == TypeOK /\ [Next]_vars => TypeOK'
<1> SUFFICES ASSUME TypeOK, [Next]_vars PROVE TypeOK'
  OBVIOUS
<1>1. ASSUME NEW c \in Callers, NEW cl \in Calls, Call(c, cl) PROVE TypeOK'
  BY <1>1, ControllerConstants DEF Call, TypeOK, enables, registers, cursor, history
<1>2. ASSUME NEW c \in Callers, Enter(c) PROVE TypeOK'
  BY <1>2 DEF Enter, TypeOK, enables, registers, cursor, history
<1>3. ASSUME NEW c \in Callers, SetEnables(c) PROVE TypeOK'
  <2>1. call[c] \in Calls
    BY <1>3 DEF SetEnables, TypeOK
  <2>2. /\ resource_enables' \in SUBSET Resources
        /\ flow_enables' \in SUBSET Flows
        /\ named_enables' \in SUBSET Names
    BY <1>3, <2>1, EnablesTypes DEF SetEnables, TypeOK
  <2>3. shadow_enable' \in [Registers -> SUBSET Fields]
    BY <1>3, MaskTypes DEF SetEnables, TypeOK, InitialShadow
  <2>4. AffectedRegisters(call[c]) \in SUBSET Registers
    BY <2>1, AffectedTypes
  <2>5. QED
    BY <1>3, <2>2, <2>3, <2>4 DEF SetEnables, TypeOK, history
<1>4. ASSUME NEW c \in Callers, NEW r \in Registers, ComputeRegister(c, r) PROVE TypeOK'
  <2>1. call[c] \in Calls
    BY <1>4 DEF ComputeRegister, TypeOK
  <2>2. NewValue(call[c], r, shadow_enable[r], named_enables, resource_enables,
                 flow_enables) \in SUBSET Fields
    BY <2>1, NewValueTypes DEF TypeOK
  <2>3. new_value' \in [Callers -> SUBSET Fields]
    BY <1>4, <2>2 DEF ComputeRegister, TypeOK
  <2>4. QED
    BY <1>4, <2>3 DEF ComputeRegister, TypeOK, enables, registers, history
<1>5. ASSUME NEW c \in Callers, WriteRegister(c) PROVE TypeOK'
  BY <1>5 DEF WriteRegister, TypeOK, enables, history
<1>6. ASSUME NEW c \in Callers, Leave(c) PROVE TypeOK'
  BY <1>6 DEF Leave, SectionAfter, TypeOK, enables, registers, cursor
<1>7. CASE UNCHANGED vars
  BY <1>7 DEF vars, TypeOK, enables, registers, cursor, history
<1>8. QED
  BY <1>1, <1>2, <1>3, <1>4, <1>5, <1>6, <1>7 DEF Next, Step

(* The enable sets, the shadow, the registers and the cursors of the calls *)
(* in progress keep their types, however many callers race.                *)
THEOREM TypeCorrect == Spec => []TypeOK
  BY InitTypeOK, NextTypeOK, PTL DEF Spec

----------------------------------------------------------------------------
(***************************************************************************)
(* From here on init is called once, with what the static initialisation   *)
(* did, and reset is called alone.                                         *)
(***************************************************************************)
Inside(c) == pc[c] \in {"set", "update", "write"}

Updating(c) == pc[c] \in {"update", "write"}

\* The critical section, and reset without it, admit one call at a time.
Exclusive ==
  /\ \A c \in Callers :
        /\ Inside(c) /\ call[c].op # "reset" => mutex = c
        /\ mutex = c => Inside(c) /\ call[c].op # "reset"
        /\ pc[c] = "enter" => call[c].op # "reset"
  /\ \A c, d \in Callers :
        pc[c] # "idle" /\ call[c].op = "reset" /\ pc[d] # "idle" => c = d

\* init is the first call, and makes up the whole time before initialised.
InitFirst ==
  /\ \A c \in Callers : pc[c] # "idle" => (call[c].op = "init" <=> ~initialised)
  /\ \A c, d \in Callers :
        ~initialised /\ pc[c] # "idle" /\ pc[d] # "idle" => c = d

LEMMA OneInside ==
  ASSUME TypeOK, Exclusive, NEW c \in Callers, NEW d \in Callers, Inside(c), Inside(d)
  PROVE  c = d
  BY ControllerConstants DEF Exclusive, Inside

LEMMA DisciplineInit == Init => Exclusive /\ InitFirst
  BY ControllerConstants DEF Init, Exclusive, InitFirst, Inside

LEMMA DisciplineNext ==
  ASSUME ProperUse, TypeOK, Exclusive, InitFirst, [Next]_vars
  PROVE  (Exclusive /\ InitFirst)'
<1> USE DEF TypeOK, Exclusive, InitFirst, Inside
<1>1. ASSUME NEW c \in Callers, NEW cl \in Calls, Call(c, cl)
      PROVE  (Exclusive /\ InitFirst)'
  <2>1. /\ cl.op = "init" => ~initialised /\ Quiet
        /\ cl.op # "init" => initialised
        /\ ~Resetting
        /\ cl.op = "reset" => Quiet
    BY <1>1 DEF Call, Permitted, ProperUse
  <2>2. QED
    BY <1>1, <2>1, ControllerConstants DEF Call, Quiet, Resetting, history
<1>2. ASSUME NEW c \in Callers, Enter(c) PROVE (Exclusive /\ InitFirst)'
  BY <1>2, ControllerConstants DEF Enter, SectionFree, history
<1>3. ASSUME NEW c \in Callers, SetEnables(c) PROVE (Exclusive /\ InitFirst)'
  BY <1>3 DEF SetEnables, history
<1>4. ASSUME NEW c \in Callers, NEW r \in Registers, ComputeRegister(c, r)
      PROVE  (Exclusive /\ InitFirst)'
  BY <1>4 DEF ComputeRegister, history
<1>5. ASSUME NEW c \in Callers, WriteRegister(c) PROVE (Exclusive /\ InitFirst)'
  BY <1>5 DEF WriteRegister, history
<1>6. ASSUME NEW c \in Callers, Leave(c) PROVE (Exclusive /\ InitFirst)'
  BY <1>6, ControllerConstants DEF Leave, SectionAfter
<1>7. CASE UNCHANGED vars
  BY <1>7 DEF vars, history
<1>8. QED
  BY <1>1, <1>2, <1>3, <1>4, <1>5, <1>6, <1>7 DEF Next, Step

----------------------------------------------------------------------------
ShadowAgrees ==
  \A r \in RegistersFor(EnableIrqs) : shadow_enable[r] = enable_register[r]

\* Nobody is updating: the last call has taken effect as a whole.
AtRest ==
  (\A c \in Callers : ~Updating(c)) =>
    /\ committed = Snapshot
    /\ initialised => ShadowAgrees
    /\ ~initialised => enable_register = InitialEnables

\* What register r gets from the call in progress.
Result(c, r) ==
  NewValue(call[c], r, committed.registers[r],
           named_enables, resource_enables, flow_enables)

Written(c) ==
  {r \in AffectedRegisters(call[c]) \ pending[c] : pc[c] = "write" => r # target[c]}

\* A call that is updating has changed the enable sets, and the registers
\* it has already written; the others are as the last call left them.
MidCall ==
  \A c \in Callers : Updating(c) =>
    /\ ShadowAgrees
    /\ resource_enables = ResourcesAfter(call[c], committed.resources)
    /\ flow_enables = FlowsAfter(call[c], committed.flows)
    /\ named_enables = NamesAfter(call[c], committed.named)
    /\ pending[c] \subseteq AffectedRegisters(call[c])
    /\ pc[c] = "write" => /\ target[c] \in AffectedRegisters(call[c]) \ pending[c]
                          /\ new_value[c] = Result(c, target[c])
    /\ \A r \in Registers :
          enable_register[r] = IF r \in Written(c) THEN Result(c, r)
                                                   ELSE committed.registers[r]

IInv == TypeOK /\ Exclusive /\ InitFirst /\ AtRest /\ MidCall

LEMMA InitInv == Init => IInv
  BY InitTypeOK, DisciplineInit
     DEF Init, IInv, AtRest, MidCall, Updating, Snapshot

\* A step that changes no enable set and no register, and moves no caller
\* into or out of update, keeps the two invariants.
LEMMA Undisturbing ==
  ASSUME AtRest, MidCall, UNCHANGED <<enables, registers, cursor, history>>,
         \A c \in Callers : Updating(c)' <=> Updating(c),
         \A c \in Callers : Updating(c) => pc'[c] = pc[c] /\ call'[c] = call[c]
  PROVE  (AtRest /\ MidCall)'
<1> USE DEF enables, registers, cursor, history, ShadowAgrees
<1>1. AtRest'
  BY DEF AtRest, Snapshot
<1>2. MidCall'
  BY DEF MidCall, Result, Written
<1>3. QED
  BY <1>1, <1>2

\* The shadow after init is what the static initialisation did.
LEMMA InitialShadowKnown ==
  ASSUME ProperUse, NEW cl \in Calls, cl.op = "init",
         NEW r \in RegistersFor(EnableIrqs)
  PROVE  InitialShadow(cl)[r] = InitialEnables[r]
  BY RegistersForTypes DEF ProperUse, StaticEnablesKnown, InitialShadow

LEMMA SetEnablesInv ==
  ASSUME ProperUse, IInv, NEW c \in Callers, SetEnables(c)
  PROVE  (AtRest /\ MidCall)'
<1>1. Inside(c) /\ pc[c] # "idle" /\ call[c] \in Calls
  BY DEF SetEnables, Inside, IInv, TypeOK
<1>2. \A d \in Callers : ~Updating(d)
  BY <1>1, OneInside DEF IInv, SetEnables, Updating, Inside
<1>3. /\ committed = Snapshot
      /\ initialised => ShadowAgrees
      /\ ~initialised => enable_register = InitialEnables
  BY <1>2 DEF IInv, AtRest
<1>4. /\ pc' = [pc EXCEPT ![c] = "update"]
      /\ call' = call /\ committed' = committed /\ initialised' = initialised
      /\ enable_register' = enable_register
      /\ pending' = [pending EXCEPT ![c] = AffectedRegisters(call[c])]
      /\ target' = target /\ new_value' = new_value
  BY DEF SetEnables, history
<1>5. pc'[c] = "update" /\ pending'[c] = AffectedRegisters(call[c])
  BY <1>4 DEF IInv, TypeOK
<1>6. \A d \in Callers : Updating(d)' => d = c
  BY <1>2, <1>4 DEF Updating, IInv, TypeOK
<1>7. ShadowAgrees'
  <2>1. CASE call[c].op = "init"
    <3>1. enable_register = InitialEnables
      BY <1>1, <1>3, <2>1 DEF IInv, InitFirst
    <3>2. shadow_enable' = InitialShadow(call[c])
      BY <2>1 DEF SetEnables
    <3>3. QED
      BY <1>1, <1>4, <2>1, <3>1, <3>2, InitialShadowKnown DEF ShadowAgrees
  <2>2. CASE call[c].op # "init"
    BY <1>1, <1>3, <1>4, <2>2 DEF SetEnables, IInv, InitFirst, ShadowAgrees
  <2>3. QED
    BY <2>1, <2>2
<1>8. Written(c)' = {}
  BY <1>4, <1>5 DEF Written
<1>9. \A r \in Registers : enable_register'[r] = committed'.registers[r]
  BY <1>3, <1>4 DEF Snapshot
<1>10. /\ resource_enables' = ResourcesAfter(call'[c], committed'.resources)
       /\ flow_enables' = FlowsAfter(call'[c], committed'.flows)
       /\ named_enables' = NamesAfter(call'[c], committed'.named)
  BY <1>3, <1>4 DEF SetEnables, Snapshot
<1>11. MidCall'
  BY <1>4, <1>5, <1>6, <1>7, <1>8, <1>9, <1>10 DEF MidCall
<1>12. AtRest'
  BY <1>5 DEF AtRest, Updating
<1>13. QED
  BY <1>11, <1>12

LEMMA ComputeInv ==
  ASSUME IInv, NEW c \in Callers, NEW r \in Registers, ComputeRegister(c, r)
  PROVE  (AtRest /\ MidCall)'
<1>1. Updating(c) /\ Inside(c) /\ pc[c] = "update" /\ r \in pending[c] /\ call[c] \in Calls
  BY DEF ComputeRegister, Updating, Inside, IInv, TypeOK
<1>2. /\ pc'[c] = "write" /\ target'[c] = r /\ pending'[c] = pending[c] \ {r}
      /\ new_value'[c] = NewValue(call[c], r, shadow_enable[r],
                                  named_enables, resource_enables, flow_enables)
      /\ UNCHANGED <<enables, registers, call, history>>
  BY DEF ComputeRegister, IInv, TypeOK
<1>3. \A d \in Callers : Updating(d)' => d = c
  <2>1. \A d \in Callers : Updating(d) => d = c
    BY <1>1, OneInside DEF IInv, Updating, Inside
  <2>2. QED
    BY <2>1 DEF ComputeRegister, Updating, IInv, TypeOK
<1>4. /\ ShadowAgrees
      /\ resource_enables = ResourcesAfter(call[c], committed.resources)
      /\ flow_enables = FlowsAfter(call[c], committed.flows)
      /\ named_enables = NamesAfter(call[c], committed.named)
      /\ pending[c] \subseteq AffectedRegisters(call[c])
      /\ \A q \in Registers :
            enable_register[q] = IF q \in Written(c) THEN Result(c, q)
                                                     ELSE committed.registers[q]
  BY <1>1 DEF IInv, MidCall
<1>5. shadow_enable[r] = committed.registers[r]
  <2>1. r \in AffectedRegisters(call[c]) /\ r \notin Written(c)
    BY <1>1, <1>4 DEF Written
  <2>2. shadow_enable[r] = enable_register[r]
    BY <1>1, <1>4, <2>1, AffectedTypes DEF ShadowAgrees
  <2>3. QED
    BY <1>4, <2>1, <2>2
<1>6. Written(c)' = Written(c)
  BY <1>1, <1>2 DEF Written
<1>7. \A q \in Registers : Result(c, q)' = Result(c, q)
  BY <1>2 DEF Result, enables, history
<1>8. new_value'[c] = Result(c, r)' /\ target'[c] \in AffectedRegisters(call'[c]) \ pending'[c]
  BY <1>1, <1>2, <1>4, <1>5, <1>7 DEF Result
<1>9. MidCall'
  BY <1>2, <1>3, <1>4, <1>6, <1>7, <1>8
     DEF MidCall, ShadowAgrees, enables, registers, history
<1>10. AtRest'
  BY <1>2 DEF AtRest, Updating
<1>11. QED
  BY <1>9, <1>10

LEMMA WriteInv ==
  ASSUME IInv, NEW c \in Callers, WriteRegister(c)
  PROVE  (AtRest /\ MidCall)'
<1>1. Updating(c) /\ Inside(c) /\ pc[c] = "write" /\ call[c] \in Calls /\ target[c] \in Registers
  BY DEF WriteRegister, Updating, Inside, IInv, TypeOK
<1>2. /\ pc'[c] = "update"
      /\ shadow_enable' = [shadow_enable EXCEPT ![target[c]] = new_value[c]]
      /\ UNCHANGED <<enables, call, pending, history>>
  BY DEF WriteRegister, IInv, TypeOK
<1>3. \A d \in Callers : Updating(d)' => d = c
  <2>1. \A d \in Callers : Updating(d) => d = c
    BY <1>1, OneInside DEF IInv, Updating, Inside
  <2>2. QED
    BY <2>1 DEF WriteRegister, Updating, IInv, TypeOK
<1>4. /\ ShadowAgrees
      /\ resource_enables = ResourcesAfter(call[c], committed.resources)
      /\ flow_enables = FlowsAfter(call[c], committed.flows)
      /\ named_enables = NamesAfter(call[c], committed.named)
      /\ pending[c] \subseteq AffectedRegisters(call[c])
      /\ target[c] \in AffectedRegisters(call[c]) \ pending[c]
      /\ new_value[c] = Result(c, target[c])
      /\ \A q \in Registers :
            enable_register[q] = IF q \in Written(c) THEN Result(c, q)
                                                     ELSE committed.registers[q]
  BY <1>1 DEF IInv, MidCall
<1>5. enable_register' = [enable_register EXCEPT ![target[c]] = new_value[c]]
  <2>1. CASE MustWrite(c)
    BY <2>1 DEF WriteRegister
  <2>2. CASE ~MustWrite(c)
    <3>1. new_value[c] = enable_register[target[c]]
      BY <1>1, <1>4, <2>2, AffectedTypes DEF MustWrite, ShadowAgrees
    <3>2. QED
      BY <2>2, <3>1 DEF WriteRegister, IInv, TypeOK
  <2>3. QED
    BY <2>1, <2>2
<1>6. ShadowAgrees'
  BY <1>1, <1>2, <1>4, <1>5, RegistersForTypes DEF ShadowAgrees, IInv, TypeOK
<1>7. Written(c)' = Written(c) \cup {target[c]}
  BY <1>1, <1>2, <1>4 DEF Written
<1>8. \A q \in Registers : Result(c, q)' = Result(c, q)
  BY <1>2 DEF Result, enables, history
<1>9. \A q \in Registers :
        enable_register'[q] = IF q \in Written(c)' THEN Result(c, q)'
                                                   ELSE committed'.registers[q]
  BY <1>1, <1>2, <1>4, <1>5, <1>7, <1>8 DEF IInv, TypeOK, history
<1>10. MidCall'
  BY <1>2, <1>3, <1>4, <1>6, <1>9 DEF MidCall, enables, history
<1>11. AtRest'
  BY <1>2 DEF AtRest, Updating
<1>12. QED
  BY <1>10, <1>11

LEMMA LeaveInv ==
  ASSUME IInv, NEW c \in Callers, Leave(c)
  PROVE  (AtRest /\ MidCall)'
<1>1. Updating(c) /\ Inside(c) /\ pc'[c] = "idle"
  BY DEF Leave, Updating, Inside, IInv, TypeOK
<1>2. \A d \in Callers : ~Updating(d)'
  <2>1. \A d \in Callers : Updating(d) => d = c
    BY <1>1, OneInside DEF IInv, Updating, Inside
  <2>2. QED
    BY <1>1, <2>1 DEF Leave, Updating, IInv, TypeOK
<1>3. ShadowAgrees /\ (initialised' \/ call[c].op # "init")
  BY <1>1 DEF IInv, MidCall, Leave
<1>4. initialised'
  BY <1>1, <1>3 DEF IInv, InitFirst, Leave, Updating
<1>5. QED
  BY <1>2, <1>3, <1>4
     DEF AtRest, MidCall, Leave, Snapshot, enables, registers, ShadowAgrees

LEMMA NextInv == ProperUse /\ IInv /\ [Next]_vars => IInv'
<1> SUFFICES ASSUME ProperUse, IInv, [Next]_vars PROVE (AtRest /\ MidCall)'
  BY NextTypeOK, DisciplineNext DEF IInv
<1>1. ASSUME NEW c \in Callers, NEW cl \in Calls, Call(c, cl) PROVE (AtRest /\ MidCall)'
  BY <1>1, Undisturbing DEF Call, Updating, IInv, TypeOK
<1>2. ASSUME NEW c \in Callers, Enter(c) PROVE (AtRest /\ MidCall)'
  BY <1>2, Undisturbing DEF Enter, Updating, IInv, TypeOK
<1>3. CASE UNCHANGED vars
  BY <1>3, Undisturbing DEF vars, Updating, IInv
<1>4. QED
  BY <1>1, <1>2, <1>3, SetEnablesInv, ComputeInv, WriteInv, LeaveInv DEF Next, Step

(* The inductive invariant of the controller, whatever the configuration,  *)
(* the callers and their calls, when init is called once and reset alone.  *)
THEOREM InductiveInvariant == ASSUME ProperUse PROVE Spec => []IInv
<1>1. Init => IInv
  BY InitInv
<1>2. IInv /\ [Next]_vars => IInv'
  BY ProperUse, NextInv
<1>3. QED
  BY <1>1, <1>2, PTL DEF Spec

(* Outside the critical section the shadow holds what the registers hold,  *)
(* so write_if_changed never skips a write that is needed.                 *)
THEOREM ShadowNeverStale == ASSUME ProperUse PROVE Spec => []ShadowIsRegister
<1>1. IInv => ShadowIsRegister
  <2> SUFFICES ASSUME IInv, initialised, mutex = nobody PROVE ShadowAgrees
    BY DEF ShadowIsRegister, ShadowAgrees
  <2>1. QED
    BY DEF IInv, AtRest, MidCall
<1>2. QED
  BY <1>1, ProperUse, InductiveInvariant, PTL

----------------------------------------------------------------------------
(* The controller implements EnableControl, and so its elements agree with *)
(* is_on, when init is called once and reset alone (ProperUse).            *)

\* The operators of the abstract specification are those of ControlCalls.
LEMMA SameOn ==
  ASSUME NEW N, NEW R, NEW F
  PROVE  Atomic!is_on(N, R, F) = is_on(N, R, F)
  BY Zenon DEF Atomic!is_on, is_on, Atomic!is_on_given, is_on_given,
               Atomic!ChildSet, ChildSet, Atomic!Range, Range,
               Atomic!flows_t, flows_t, Atomic!IsContainer, IsContainer

LEMMA SameAllFlows == Atomic!all_flows_t = all_flows_t
  BY Zenon DEF Atomic!all_flows_t, all_flows_t, Atomic!ChildSet, ChildSet,
               Atomic!Range, Range, Atomic!IsContainer, IsContainer

LEMMA SameSets ==
  ASSUME NEW cl, NEW s
  PROVE  /\ Atomic!ResourcesAfter(cl, s) = ResourcesAfter(cl, s)
         /\ Atomic!FlowsAfter(cl, s) = FlowsAfter(cl, s)
         /\ Atomic!NamesAfter(cl, s) = NamesAfter(cl, s)
  BY Zenon DEF Atomic!ResourcesAfter, ResourcesAfter, Atomic!FlowsAfter, FlowsAfter,
               Atomic!NamesAfter, NamesAfter, Atomic!Changed, Changed

LEMMA SameAffected ==
  ASSUME NEW cl
  PROVE  Atomic!AffectedIrqs(cl) = AffectedIrqs(cl)
  BY SameAllFlows, Zenon
     DEF Atomic!AffectedIrqs, AffectedIrqs, Atomic!ControlledIrqs, ControlledIrqs,
         Atomic!has_name, has_name, Atomic!with_items, with_items,
         Atomic!with_items_propagated, with_items_propagated,
         Atomic!all_resources_t, all_resources_t, Atomic!flows_t, flows_t,
         Atomic!IsContainer, IsContainer, Atomic!ChildSet, ChildSet,
         Atomic!Range, Range, Atomic!EnableIrqs, EnableIrqs,
         Atomic!has_enable_field, has_enable_field

LEMMA SameMask ==
  ASSUME NEW irqs, NEW r
  PROVE  Atomic!mask_for(irqs, r) = mask_for(irqs, r)
  BY Zenon DEF Atomic!mask_for, mask_for, Atomic!FieldsIn, FieldsIn,
               Atomic!EnableIrqs, EnableIrqs, Atomic!has_enable_field, has_enable_field

LEMMA SameRegisters ==
  ASSUME NEW cl
  PROVE  Atomic!AffectedRegisters(cl) = AffectedRegisters(cl)
  BY SameAffected, Zenon
     DEF Atomic!AffectedRegisters, AffectedRegisters, Atomic!RegistersFor, RegistersFor,
         Atomic!EnableIrqs, EnableIrqs, Atomic!has_enable_field, has_enable_field

LEMMA SameValue ==
  ASSUME NEW cl, NEW r, NEW v, NEW N, NEW R, NEW F
  PROVE  Atomic!NewValue(cl, r, v, N, R, F) = NewValue(cl, r, v, N, R, F)
<1>1. Atomic!EnableIrqs = EnableIrqs
  BY Zenon DEF Atomic!EnableIrqs, EnableIrqs, Atomic!has_enable_field, has_enable_field
<1>2. Atomic!OnFields(cl, r, N, R, F) = OnFields(cl, r, N, R, F)
  BY <1>1, SameAffected, SameMask, SameOn DEF Atomic!OnFields, OnFields
<1>3. QED
  BY <1>2, SameAffected, SameMask DEF Atomic!NewValue, NewValue

----------------------------------------------------------------------------
\* What a call that returns has done since the last call returned.
LEMMA LeaveApplies ==
  ASSUME IInv, NEW c \in Callers, Leave(c)
  PROVE  /\ call[c] \in Calls
         /\ committed' = Snapshot
         /\ resource_enables = ResourcesAfter(call[c], committed.resources)
         /\ flow_enables = FlowsAfter(call[c], committed.flows)
         /\ named_enables = NamesAfter(call[c], committed.named)
         /\ enable_register = [r \in Registers |->
               IF r \in AffectedRegisters(call[c]) THEN Result(c, r)
                                                  ELSE committed.registers[r]]
<1>1. Updating(c) /\ pc[c] = "update" /\ pending[c] = {} /\ call[c] \in Calls
  BY DEF Leave, Updating, IInv, TypeOK
<1>2. Written(c) = AffectedRegisters(call[c])
  BY <1>1 DEF Written
<1>3. \A r \in Registers :
        enable_register[r] = IF r \in AffectedRegisters(call[c]) THEN Result(c, r)
                                                               ELSE committed.registers[r]
  BY <1>1, <1>2 DEF IInv, MidCall
<1>4. enable_register \in [Registers -> SUBSET Fields]
  BY DEF IInv, TypeOK
<1>5. QED
  BY <1>1, <1>3, <1>4 DEF IInv, MidCall, Leave

LEMMA LeaveIsApply ==
  ASSUME IInv, NEW c \in Callers, Leave(c)
  PROVE  Atomic!Apply(call[c]) /\ call[c] \in Calls
<1>1. /\ committed'.resources = resource_enables
      /\ committed'.flows = flow_enables
      /\ committed'.named = named_enables
      /\ committed'.registers = enable_register
  BY LeaveApplies DEF Snapshot
<1>2. \A r : Atomic!NewValue(call[c], r, committed.registers[r], committed'.named,
                             committed'.resources, committed'.flows) = Result(c, r)
  BY <1>1, SameValue DEF Result
<1>3. QED
  BY <1>1, <1>2, LeaveApplies, SameSets, SameRegisters DEF Atomic!Apply

LEMMA StepIsAtomic ==
  ASSUME IInv, [Next]_vars
  PROVE  (\E cl \in Calls : Atomic!Apply(cl)) \/ UNCHANGED committed
<1>1. ASSUME NEW c \in Callers, Leave(c)
      PROVE  \E cl \in Calls : Atomic!Apply(cl)
  BY <1>1, LeaveIsApply
<1>2. ASSUME NEW c \in Callers, NEW cl \in Calls, Call(c, cl) PROVE UNCHANGED committed
  BY <1>2 DEF Call, history
<1>3. ASSUME NEW c \in Callers,
             \/ Enter(c) \/ SetEnables(c) \/ WriteRegister(c)
             \/ \E r \in Registers : ComputeRegister(c, r)
      PROVE  UNCHANGED committed
  BY <1>3 DEF Enter, SetEnables, WriteRegister, ComputeRegister, history
<1>4. CASE UNCHANGED vars
  BY <1>4 DEF vars, history
<1>5. QED
  BY <1>1, <1>2, <1>3, <1>4 DEF Next, Step

(* The controller implements EnableControl: however callers race, every    *)
(* call takes effect as a whole when it leaves the critical section.       *)
THEOREM ControllerIsAtomic == ASSUME ProperUse PROVE Spec => CallsAreAtomic
<1>1. Init => Atomic!Init
  BY DEF Init, Atomic!Init, Snapshot
<1>2. IInv /\ [Next]_vars => [Atomic!Next]_(Atomic!vars)
  BY StepIsAtomic DEF Atomic!Next, Atomic!vars
<1>3. Spec => []IInv
  BY ProperUse, InductiveInvariant
<1>4. QED
  BY <1>1, <1>2, <1>3, PTL DEF Spec, CallsAreAtomic, Atomic!Spec

----------------------------------------------------------------------------
\* The last completed call left enable sets of the right types.
CommittedTypes ==
  /\ committed.resources \in SUBSET Resources
  /\ committed.flows \in SUBSET Flows
  /\ committed.named \in SUBSET Names

OnIn(state, i) == is_on(state.named, state.resources, state.flows)[i]

BitIn(state, i) == enable_field[i] \in state.registers[register_of[enable_field[i]]]

\* ElementsAgree for the state the last completed call left.
CommittedAgrees == \A i \in Elements : BitIn(committed, i) <=> OnIn(committed, i)

\* is_on for an element looks at the three enable sets and nothing else.
LEMMA ElementOn ==
  ASSUME NEW i \in Elements, NEW N \in SUBSET Names, NEW R \in SUBSET Resources,
         NEW F \in SUBSET Flows
  PROVE  is_on(N, R, F)[i] <=> /\ name_t[i] \in N
                               /\ resources_t[i] \subseteq R
                               /\ flows_t(i) \cap F # {}
<1>1. i \in Irqs /\ ~IsContainer(i)
  BY EnableFieldTypes DEF Elements, Controlled
<1>2. ChildSet(i) = {}
  BY <1>1, ConfigTypes DEF ChildSet, IsContainer, Range
<1>3. is_on(N, R, F)[i] <=> is_on_given(is_on(N, R, F), i, N, R, F)
  BY <1>1, WellFounded
<1>4. QED
  BY <1>2, <1>3 DEF is_on_given

\* How is_on for an element changes with a call.
LEMMA OnAfter ==
  ASSUME NEW cl \in Calls, NEW i \in Elements, NEW N \in SUBSET Names,
         NEW R \in SUBSET Resources, NEW F \in SUBSET Flows,
         name_t[i] \in NamesAfter(cl, N) <=> name_t[i] \in N,
         resources_t[i] \subseteq ResourcesAfter(cl, R) <=> resources_t[i] \subseteq R,
         flows_t(i) \cap FlowsAfter(cl, F) = flows_t(i) \cap F
  PROVE  is_on(NamesAfter(cl, N), ResourcesAfter(cl, R), FlowsAfter(cl, F))[i]
           <=> is_on(N, R, F)[i]
<1>1. /\ ResourcesAfter(cl, R) \in SUBSET Resources
      /\ FlowsAfter(cl, F) \in SUBSET Flows
      /\ NamesAfter(cl, N) \in SUBSET Names
  BY EnablesTypes
<1>2. is_on(N, R, F)[i] <=> /\ name_t[i] \in N
                            /\ resources_t[i] \subseteq R
                            /\ flows_t(i) \cap F # {}
  BY ElementOn
<1>3. is_on(NamesAfter(cl, N), ResourcesAfter(cl, R), FlowsAfter(cl, F))[i]
        <=> /\ name_t[i] \in NamesAfter(cl, N)
            /\ resources_t[i] \subseteq ResourcesAfter(cl, R)
            /\ flows_t(i) \cap FlowsAfter(cl, F) # {}
  BY <1>1, ElementOn
<1>4. QED
  BY <1>2, <1>3

\* A call that does not recompute an element leaves what it depends on alone.
LEMMA UnaffectedOn ==
  ASSUME ProperUse, NEW cl \in Calls, NEW i \in Elements, i \notin AffectedIrqs(cl),
         NEW N \in SUBSET Names, NEW R \in SUBSET Resources, NEW F \in SUBSET Flows
  PROVE  is_on(NamesAfter(cl, N), ResourcesAfter(cl, R), FlowsAfter(cl, F))[i]
           <=> is_on(N, R, F)[i]
<1> DEFINE r == register_of[enable_field[i]]
<1>1. i \in EnableIrqs /\ i \in Irqs /\ enable_field[i] \in Fields
  BY EnableFieldTypes DEF Elements, Controlled
<1>2. /\ name_t[i] \in Names /\ resources_t[i] \in SUBSET Resources
      /\ flows_t(i) \in SUBSET Flows
  BY <1>1, ConfigTypes DEF flows_t
<1>3. CASE cl.op \in {"enable", "disable"}
  <2>1. cl \in ControlCall \/ cl \in NameCall
    BY <1>3, CallTypes DEF InitCall, RefreshCall, ResetCall
  <2>2. i \notin ControlledIrqs(cl)
    BY <1>3 DEF AffectedIrqs
  <2>3. CASE cl \in NameCall
    <3>1. cl.scope = "by_name" /\ cl.items \subseteq Names \cup {unknown}
      BY <2>3 DEF NameCall
    <3>2. name_t[i] \notin cl.items
      BY <1>1, <2>2, <3>1 DEF ControlledIrqs, has_name
    <3>3. /\ cl.items \cap Resources = {}
          /\ cl.items \cap Flows = {}
      BY <3>1, Rooted, CallTypes
    <3>4. /\ ResourcesAfter(cl, R) = R
          /\ FlowsAfter(cl, F) = F
          /\ name_t[i] \in NamesAfter(cl, N) <=> name_t[i] \in N
      BY <1>3, <3>2, <3>3 DEF ResourcesAfter, FlowsAfter, NamesAfter, Changed
    <3>5. QED
      BY <3>4, OnAfter
  <2>4. CASE cl \in ControlCall
    <3>1. cl.scope \in {"propagate", "no_propagate"}
          /\ cl.items \subseteq Resources \cup Flows \cup {unknown}
      BY <2>4 DEF ControlCall
    <3>2. (resources_t[i] \cup flows_t(i)) \cap cl.items = {}
      <4>1. CASE cl.scope = "no_propagate"
        BY <1>1, <2>2, <4>1 DEF ControlledIrqs, has_name, with_items
      <4>2. CASE cl.scope = "propagate"
        <5>1. ChildSet(i) = {} /\ ~IsContainer(i)
          BY <1>1, ConfigTypes DEF Elements, ChildSet, IsContainer, Range
        <5>2. (all_resources_t(i) \cup all_flows_t[i]) \cap cl.items = {}
          BY <1>1, <2>2, <4>2 DEF ControlledIrqs, has_name, with_items_propagated
        <5>3. QED
          BY <1>1, <5>1, <5>2, WellFounded DEF all_resources_t, flows_t
      <4>3. QED
        BY <3>1, <4>1, <4>2
    <3>3. cl.items \cap Names = {}
      BY <3>1, Rooted, CallTypes
    <3>4. /\ resources_t[i] \subseteq ResourcesAfter(cl, R) <=> resources_t[i] \subseteq R
          /\ flows_t(i) \cap FlowsAfter(cl, F) = flows_t(i) \cap F
          /\ NamesAfter(cl, N) = N
      BY <1>2, <1>3, <3>2, <3>3 DEF ResourcesAfter, FlowsAfter, NamesAfter, Changed
    <3>5. QED
      BY <3>4, OnAfter
  <2>5. QED
    BY <2>1, <2>3, <2>4
<1>4. CASE cl.op = "init"
  <2>1. i \in cl.already
    BY <1>1, <1>4 DEF AffectedIrqs
  <2>2. enable_field[i] \in mask_for(cl.already, r)
    BY <1>1, <2>1 DEF mask_for, FieldsIn
  <2>3. mask_for(cl.already, r) = InitialEnables[r]
    BY <1>1, <1>4 DEF ProperUse, StaticEnablesKnown, RegistersFor
  <2>4. QED
    BY <2>2, <2>3 DEF Elements, Controlled
<1>5. CASE cl.op = "refresh"
  BY <1>5 DEF ResourcesAfter, FlowsAfter, NamesAfter
<1>6. CASE cl.op = "reset"
  BY <1>1, <1>6 DEF AffectedIrqs
<1>7. QED
  BY <1>3, <1>4, <1>5, <1>6, CallTypes
     DEF ControlCall, NameCall, InitCall, RefreshCall, ResetCall

\* The bit of an IRQ in a register the call computes, and in another.
LEMMA ControlledBit ==
  ASSUME NEW cl \in Calls, NEW i \in Controlled, NEW value,
         NEW N, NEW R, NEW F
  PROVE  enable_field[i] \in NewValue(cl, register_of[enable_field[i]], value, N, R, F)
           <=> IF i \in AffectedIrqs(cl) THEN is_on(N, R, F)[i]
                                         ELSE enable_field[i] \in value
<1>1. i \in EnableIrqs /\ i \in Irqs /\ enable_field[i] \in Fields
  BY EnableFieldTypes DEF Controlled
<1>2. \A j \in EnableIrqs : enable_field[j] = enable_field[i] => j = i
  BY <1>1, EnableFieldTypes DEF Controlled
<1>3. enable_field[i] \in mask_for(AffectedIrqs(cl), register_of[enable_field[i]])
        <=> i \in AffectedIrqs(cl)
  BY <1>1, <1>2 DEF mask_for, FieldsIn
<1>4. QED
  BY <1>1, <1>2, <1>3 DEF NewValue, OnFields

LEMMA AgreementInit == Init => CommittedTypes /\ CommittedAgrees
<1> SUFFICES ASSUME Init PROVE CommittedTypes /\ CommittedAgrees
  OBVIOUS
<1>1. /\ committed.resources = {} /\ committed.flows = {} /\ committed.named = {}
      /\ committed.registers = InitialEnables
  BY DEF Init, Snapshot
<1>2. ASSUME NEW i \in Elements PROVE ~is_on({}, {}, {})[i]
  BY ElementOn, Zenon
<1>3. QED
  BY <1>1, <1>2 DEF CommittedTypes, CommittedAgrees, BitIn, OnIn, Elements, Controlled

LEMMA AgreementNext ==
  ASSUME ProperUse, IInv, CommittedTypes, CommittedAgrees, [Next]_vars
  PROVE  (CommittedTypes /\ CommittedAgrees)'
<1>1. ASSUME NEW c \in Callers, Leave(c) PROVE (CommittedTypes /\ CommittedAgrees)'
  <2>1. /\ call[c] \in Calls
        /\ committed'.resources = ResourcesAfter(call[c], committed.resources)
        /\ committed'.flows = FlowsAfter(call[c], committed.flows)
        /\ committed'.named = NamesAfter(call[c], committed.named)
        /\ committed'.resources = resource_enables
        /\ committed'.flows = flow_enables
        /\ committed'.named = named_enables
    BY <1>1, LeaveApplies DEF Snapshot
  <2>2. CommittedTypes'
    BY <2>1 DEF CommittedTypes, IInv, TypeOK
  <2>3. ASSUME NEW i \in Elements
        PROVE  BitIn(committed', i) <=> OnIn(committed', i)
    <3> DEFINE r == register_of[enable_field[i]]
    <3>1. r \in Registers /\ i \in EnableIrqs /\ i \in Controlled
      BY EnableFieldTypes DEF Elements, Controlled
    <3>2. committed'.registers[r] = IF r \in AffectedRegisters(call[c])
                                    THEN Result(c, r) ELSE committed.registers[r]
      BY <1>1, <3>1, LeaveApplies DEF Snapshot
    <3>3. CASE i \in AffectedIrqs(call[c])
      <4>1. r \in AffectedRegisters(call[c])
        BY <3>1, <3>3 DEF AffectedRegisters, RegistersFor
      <4>2. QED
        BY <2>1, <3>1, <3>2, <3>3, <4>1, ControlledBit DEF BitIn, OnIn, Result
    <3>4. CASE i \notin AffectedIrqs(call[c])
      <4>1. BitIn(committed', i) <=> BitIn(committed, i)
        BY <2>1, <3>1, <3>2, <3>4, ControlledBit DEF BitIn, Result
      <4>2. OnIn(committed', i) <=> OnIn(committed, i)
        <5>1. is_on(NamesAfter(call[c], committed.named),
                    ResourcesAfter(call[c], committed.resources),
                    FlowsAfter(call[c], committed.flows))[i]
                <=> is_on(committed.named, committed.resources, committed.flows)[i]
          BY <2>1, <3>4, UnaffectedOn, Zenon DEF CommittedTypes
        <5>2. QED
          BY <2>1, <5>1 DEF OnIn
      <4>3. QED
        BY <4>1, <4>2 DEF CommittedAgrees
    <3>5. QED
      BY <3>3, <3>4
  <2>4. QED
    BY <2>2, <2>3 DEF CommittedAgrees
<1>2. CASE UNCHANGED committed
  BY <1>2 DEF CommittedTypes, CommittedAgrees, OnIn, BitIn
<1>3. ASSUME NEW c \in Callers,
             \/ Enter(c) \/ SetEnables(c) \/ WriteRegister(c)
             \/ \E r \in Registers : ComputeRegister(c, r)
             \/ \E cl \in Calls : Call(c, cl)
      PROVE  UNCHANGED committed
  BY <1>3 DEF Enter, SetEnables, WriteRegister, ComputeRegister, Call, history
<1>4. QED
  BY <1>1, <1>2, <1>3 DEF Next, Step, vars, history

(* When no call is in progress, the hardware enable bit of every element   *)
(* is what is_on says: no update is lost, of whichever register.           *)
THEOREM ElementsAlwaysAgree == ASSUME ProperUse PROVE Spec => []ElementsAgree
<1>1. IInv /\ CommittedAgrees => ElementsAgree
  BY DEF IInv, AtRest, Quiet, Updating, CommittedAgrees, ElementsAgree, Snapshot,
         BitIn, OnIn, Enabled, IsOn
<1>2. Spec => []IInv
  BY ProperUse, InductiveInvariant
<1>3. Spec /\ []IInv => [](CommittedTypes /\ CommittedAgrees)
  <2>1. IInv /\ CommittedTypes /\ CommittedAgrees /\ [Next]_vars
          => (CommittedTypes /\ CommittedAgrees)'
    BY ProperUse, AgreementNext
  <2>2. QED
    BY <2>1, AgreementInit, PTL DEF Spec
<1>4. QED
  BY <1>1, <1>2, <1>3, PTL

----------------------------------------------------------------------------
LEMMA WriteIsClean ==
  ASSUME IInv, NEW c \in Callers, WriteRegister(c), NEW i \in Elements,
         Enabled(i) # Enabled(i)'
  PROVE  (Enabled(i)' <=> IsOn(i)') /\ pc[c] = "write" /\ i \in AffectedIrqs(call[c])
<1> DEFINE r == register_of[enable_field[i]]
<1>1. r \in Registers /\ i \in Controlled
  BY EnableFieldTypes DEF Elements, Controlled
<1>2. /\ Updating(c) /\ pc[c] = "write" /\ call[c] \in Calls
      /\ enable_register \in [Registers -> SUBSET Fields]
  BY DEF WriteRegister, Updating, IInv, TypeOK
<1>3. r = target[c] /\ enable_register'[r] = new_value[c]
  BY <1>1, <1>2 DEF WriteRegister, Enabled
<1>4. new_value[c] = Result(c, r) /\ enable_register[r] = committed.registers[r]
  BY <1>1, <1>2, <1>3 DEF IInv, MidCall, Written
<1>5. Enabled(i)' <=> IF i \in AffectedIrqs(call[c]) THEN IsOn(i) ELSE Enabled(i)
  BY <1>1, <1>2, <1>3, <1>4, ControlledBit DEF Enabled, IsOn, Result
<1>6. IsOn(i)' = IsOn(i)
  BY DEF WriteRegister, enables, IsOn
<1>7. i \in AffectedIrqs(call[c])
  BY <1>5 DEF Enabled
<1>8. Enabled(i)' <=> IsOn(i)
  BY <1>5, <1>7
<1>9. Enabled(i)' <=> IsOn(i)'
  BY <1>6, <1>8
<1>10. QED
  BY <1>2, <1>7, <1>9

(* An element's bit only ever changes to what is_on says, by a call that   *)
(* affects it: no write masks an interrupt that stays on, or the reverse.  *)
THEOREM NoElementGlitch == ASSUME ProperUse PROVE Spec => NoGlitch
<1> DEFINE Clean == \A i \in Elements :
      initialised /\ (Enabled(i) # Enabled(i)') =>
        /\ Enabled(i)' <=> IsOn(i)'
        /\ \E c \in Callers : pc[c] = "write" /\ i \in AffectedIrqs(call[c])
<1>1. IInv /\ [Next]_vars => [Clean]_vars
  <2> SUFFICES ASSUME IInv, [Next]_vars PROVE Clean \/ UNCHANGED vars
    OBVIOUS
  <2>1. ASSUME NEW c \in Callers, WriteRegister(c) PROVE Clean
    BY <2>1, WriteIsClean
  <2>2. CASE UNCHANGED enable_register
    BY <2>2 DEF Enabled
  <2>3. ASSUME NEW c \in Callers,
               \/ Enter(c) \/ SetEnables(c) \/ Leave(c)
               \/ \E r \in Registers : ComputeRegister(c, r)
               \/ \E cl \in Calls : Call(c, cl)
        PROVE  UNCHANGED enable_register
    BY <2>3 DEF Enter, SetEnables, Leave, ComputeRegister, Call, registers
  <2>4. QED
    BY <2>1, <2>2, <2>3 DEF Next, Step, vars, registers
<1>2. Spec => []IInv
  BY ProperUse, InductiveInvariant
<1>3. QED
  BY <1>1, <1>2, PTL DEF Spec, NoGlitch

----------------------------------------------------------------------------
(***************************************************************************)
(* Containers.  From here on a call recomputes the parents of what it      *)
(* changes: it propagates, or names the parents of the IRQs it names; and  *)
(* the resources a container collects, its own and its children's, are     *)
(* those of everything below it, as in a tree of two levels.               *)
(***************************************************************************)
\* Nothing that is_on looks at for i, at or below it, is an item of the call.
Clear(i, cl) ==
  IF cl.scope = "by_name" THEN name_t[i] \notin cl.items
  ELSE (all_resources_t(i) \cup all_flows_t[i]) \cap cl.items = {}

LEMMA ChildTypes ==
  ASSUME NEW i \in Irqs
  PROVE  ChildSet(i) \subseteq Irqs /\ (ChildSet(i) # {} => IsContainer(i))
<1>1. children[i] \in Seq(Irqs)
  BY ConfigTypes
<1>2. QED
  BY <1>1 DEF ChildSet, IsContainer, Range

\* A set of IRQs that holds the children of its members, and in which is_on
\* changes no more than it does for the children, does not change at all.
LEMMA OnByChildren ==
  ASSUME NEW S \in SUBSET Irqs, NEW on, NEW after,
         \A i \in S : /\ ChildSet(i) \subseteq S
                      /\ (\A k \in ChildSet(i) : after[k] <=> on[k])
                            => (after[i] <=> on[i])
  PROVE  \A i \in S : after[i] <=> on[i]
<1> DEFINE T == {i \in S : ~(after[i] <=> on[i])}
<1>1. SUFFICES ASSUME T # {} PROVE FALSE
  OBVIOUS
<1>2. PICK i \in T : ChildSet(i) \cap T = {}
  BY <1>1, WellFounded
<1>3. QED
  BY <1>2

\* What is clear of a call is clear all the way down.
LEMMA ClearBelow ==
  ASSUME ResourcesReach, NEW cl \in Calls, ReachesParents(cl),
         NEW i \in Irqs, Clear(i, cl), NEW k \in ChildSet(i)
  PROVE  k \in Irqs /\ Clear(k, cl)
<1>1. k \in Irqs /\ IsContainer(i)
  BY ChildTypes
<1>2. CASE cl.scope = "by_name"
  BY <1>1, <1>2 DEF Clear, ReachesParents
<1>3. CASE cl.scope # "by_name"
  <2>1. all_resources_t(k) \subseteq all_resources_t(i)
    BY DEF ResourcesReach
  <2>2. all_flows_t[i] = UNION {all_flows_t[d] : d \in ChildSet(i)}
    BY <1>1, WellFounded, Zenon
  <2>3. QED
    BY <1>1, <1>3, <2>1, <2>2 DEF Clear
<1>4. QED
  BY <1>2, <1>3

SwitchesNothingOf(cl, i, N, R, F) ==
  /\ name_t[i] \in NamesAfter(cl, N) <=> name_t[i] \in N
  /\ resources_t[i] \subseteq ResourcesAfter(cl, R) <=> resources_t[i] \subseteq R
  /\ flows_t(i) \cap FlowsAfter(cl, F) = flows_t(i) \cap F

\* What an IRQ that is clear of the call requires itself is not switched.
LEMMA ClearItself ==
  ASSUME NEW cl \in Calls, cl.op \in {"enable", "disable"}, ReachesParents(cl),
         NEW i \in Irqs, Clear(i, cl),
         NEW N \in SUBSET Names, NEW R \in SUBSET Resources, NEW F \in SUBSET Flows
  PROVE  SwitchesNothingOf(cl, i, N, R, F)
<1> USE DEF SwitchesNothingOf
<1>1. /\ name_t[i] \in Names /\ resources_t[i] \in SUBSET Resources
      /\ flows_t(i) \in SUBSET Flows
  BY ConfigTypes DEF flows_t
<1>2. cl \in ControlCall \/ cl \in NameCall
  BY CallTypes DEF InitCall, RefreshCall, ResetCall
<1>3. CASE cl \in NameCall
  <2>1. /\ name_t[i] \notin cl.items
        /\ cl.items \cap Resources = {} /\ cl.items \cap Flows = {}
    BY <1>3, Rooted, CallTypes DEF NameCall, Clear
  <2>2. QED
    BY <1>1, <2>1 DEF ResourcesAfter, FlowsAfter, NamesAfter, Changed
<1>4. CASE cl \in ControlCall
  <2>1. (all_resources_t(i) \cup all_flows_t[i]) \cap cl.items = {}
    BY <1>4 DEF ControlCall, Clear
  <2>2. resources_t[i] \cap cl.items = {} /\ flows_t(i) \cap cl.items = {}
    BY <2>1, WellFounded DEF all_resources_t, flows_t
  <2>3. cl.items \cap Names = {}
    BY <1>4, Rooted, CallTypes DEF ControlCall
  <2>4. QED
    BY <1>1, <2>2, <2>3 DEF ResourcesAfter, FlowsAfter, NamesAfter, Changed
<1>5. QED
  BY <1>2, <1>3, <1>4

\* A call that reaches the parents and does not recompute an IRQ does not
\* change what is_on says of it.
LEMMA ClearOn ==
  ASSUME ResourcesReach, NEW cl \in Calls, cl.op \in {"enable", "disable"},
         ReachesParents(cl), NEW i \in Irqs, i \notin AffectedIrqs(cl),
         NEW N \in SUBSET Names, NEW R \in SUBSET Resources, NEW F \in SUBSET Flows
  PROVE  is_on(NamesAfter(cl, N), ResourcesAfter(cl, R), FlowsAfter(cl, F))[i]
           <=> is_on(N, R, F)[i]
<1> DEFINE on == is_on(N, R, F)
           after == is_on(NamesAfter(cl, N), ResourcesAfter(cl, R), FlowsAfter(cl, F))
           S == {j \in Irqs : Clear(j, cl)}
<1>1. /\ ResourcesAfter(cl, R) \in SUBSET Resources
      /\ FlowsAfter(cl, F) \in SUBSET Flows
      /\ NamesAfter(cl, N) \in SUBSET Names
  BY EnablesTypes
<1>2. i \in S
  <2>1. i \notin ControlledIrqs(cl)
    BY DEF AffectedIrqs
  <2>2. CASE cl.scope = "by_name"
    BY <2>1, <2>2 DEF ControlledIrqs, has_name, Clear
  <2>3. CASE cl.scope = "propagate"
    BY <2>1, <2>3 DEF ControlledIrqs, has_name, with_items_propagated, Clear
  <2>4. QED
    BY <2>2, <2>3 DEF ReachesParents
<1>3. ASSUME NEW j \in S PROVE ChildSet(j) \subseteq S
  BY <1>3, ClearBelow
<1>4. ASSUME NEW j \in S, \A k \in ChildSet(j) : after[k] <=> on[k]
      PROVE  after[j] <=> on[j]
  <2>1. on[j] <=> is_on_given(on, j, N, R, F)
    BY WellFounded
  <2>2. after[j] <=> is_on_given(after, j, NamesAfter(cl, N), ResourcesAfter(cl, R),
                                 FlowsAfter(cl, F))
    BY <1>1, WellFounded
  <2>3. QED
    <3> HIDE DEF on, after
    <3>1. j \in Irqs /\ Clear(j, cl)
      OBVIOUS
    <3> HIDE DEF S
    <3>2. SwitchesNothingOf(cl, j, N, R, F)
      BY <3>1, ClearItself, Zenon
    <3>3. QED
      BY <1>4, <2>1, <2>2, <3>2 DEF is_on_given, SwitchesNothingOf
<1>5. QED
  <2> HIDE DEF on, after, S
  <2>1. S \in SUBSET Irqs
    BY DEF S
  <2>2. \A j \in S : after[j] <=> on[j]
    BY <1>3, <1>4, <2>1, OnByChildren
  <2>3. QED
    BY <1>2, <2>2 DEF on, after

----------------------------------------------------------------------------
\* An IRQ that is on has its bit set, in the state the last completed call
\* left; and before init the registers are as the program found them.
OnMeansEnabled == \A i \in Unshared : OnIn(committed, i) => BitIn(committed, i)

ContainersMatch ==
  \A i \in Controlled \ Elements : BitIn(committed, i) <=> OnIn(committed, i)

Untouched == ~initialised => committed.registers = InitialEnables

Containment == CommittedTypes /\ Untouched /\ OnMeansEnabled /\ ContainersMatch

\* With nothing enabled by name, is_on says no.
LEMMA AllOff ==
  ASSUME NEW i \in Irqs
  PROVE  ~is_on({}, {}, {})[i]
<1>1. is_on({}, {}, {})[i] <=> is_on_given(is_on({}, {}, {}), i, {}, {}, {})
  BY WellFounded
<1>2. QED
  BY <1>1 DEF is_on_given

LEMMA UnsharedBit ==
  ASSUME NEW cl \in Calls, NEW i \in Unshared, NEW value, NEW N, NEW R, NEW F
  PROVE  enable_field[i] \in NewValue(cl, register_of[enable_field[i]], value, N, R, F)
           <=> IF i \in AffectedIrqs(cl) THEN is_on(N, R, F)[i]
                                         ELSE enable_field[i] \in value
<1>1. i \in EnableIrqs /\ i \in Irqs /\ enable_field[i] \in Fields
  BY EnableFieldTypes DEF Unshared
<1>2. \A j \in EnableIrqs : enable_field[j] = enable_field[i] => j = i
  BY <1>1, EnableFieldTypes DEF Unshared
<1>3. enable_field[i] \in mask_for(AffectedIrqs(cl), register_of[enable_field[i]])
        <=> i \in AffectedIrqs(cl)
  BY <1>1, <1>2 DEF mask_for, FieldsIn
<1>4. QED
  BY <1>1, <1>2, <1>3 DEF NewValue, OnFields

LEMMA ContainmentInit == Init => Containment
<1> SUFFICES ASSUME Init PROVE Containment
  OBVIOUS
<1>1. /\ committed.resources = {} /\ committed.flows = {} /\ committed.named = {}
      /\ committed.registers = InitialEnables
  BY DEF Init, Snapshot
<1>2. \A i \in Irqs : ~OnIn(committed, i)
  BY <1>1, AllOff DEF OnIn
<1>3. QED
  BY <1>1, <1>2, EnableFieldTypes
     DEF Containment, CommittedTypes, Untouched, OnMeansEnabled, ContainersMatch,
         Unshared, Controlled, BitIn

\* One IRQ, when a call leaves.
LEMMA ContainmentLeave ==
  ASSUME ProperUse, Propagated, IInv, Containment, NEW c \in Callers, Leave(c),
         NEW i \in Unshared
  PROVE  /\ i \in AffectedIrqs(call[c]) => (BitIn(committed', i) <=> OnIn(committed', i))
         /\ i \notin AffectedIrqs(call[c]) =>
               /\ BitIn(committed', i) <=> BitIn(committed, i)
               /\ \/ call[c].op = "init" /\ i \notin Controlled /\ BitIn(committed, i)
                  \/ OnIn(committed', i) <=> OnIn(committed, i)
<1> DEFINE r == register_of[enable_field[i]]
<1>1. r \in Registers /\ i \in EnableIrqs /\ i \in Irqs /\ enable_field[i] \in Fields
  BY EnableFieldTypes DEF Unshared
<1>2. /\ call[c] \in Calls
      /\ committed'.resources = ResourcesAfter(call[c], committed.resources)
      /\ committed'.flows = FlowsAfter(call[c], committed.flows)
      /\ committed'.named = NamesAfter(call[c], committed.named)
      /\ committed'.resources = resource_enables
      /\ committed'.flows = flow_enables
      /\ committed'.named = named_enables
      /\ committed'.registers[r] = IF r \in AffectedRegisters(call[c])
                                    THEN Result(c, r) ELSE committed.registers[r]
  BY <1>1, LeaveApplies DEF Snapshot
<1>3. CASE i \in AffectedIrqs(call[c])
  <2>1. r \in AffectedRegisters(call[c])
    BY <1>1, <1>3 DEF AffectedRegisters, RegistersFor
  <2>2. QED
    BY <1>1, <1>2, <1>3, <2>1, UnsharedBit DEF BitIn, OnIn, Result
<1>4. CASE i \notin AffectedIrqs(call[c])
  <2>1. BitIn(committed', i) <=> BitIn(committed, i)
    BY <1>1, <1>2, <1>4, UnsharedBit DEF BitIn, Result
  <2>2. CASE call[c].op \in {"enable", "disable"}
    <3>1. is_on(NamesAfter(call[c], committed.named),
                ResourcesAfter(call[c], committed.resources),
                FlowsAfter(call[c], committed.flows))[i]
            <=> is_on(committed.named, committed.resources, committed.flows)[i]
      BY <1>1, <1>2, <1>4, <2>2, ClearOn, Zenon DEF Containment, CommittedTypes, Propagated, CallsReach
    <3>2. QED
      BY <1>2, <1>4, <2>1, <3>1 DEF OnIn
  <2>3. CASE call[c].op = "init"
    <3>1. i \in call[c].already
      BY <1>1, <1>4, <2>3 DEF AffectedIrqs
    <3>2. enable_field[i] \in mask_for(call[c].already, r)
      BY <1>1, <3>1 DEF mask_for, FieldsIn
    <3>3. enable_field[i] \in InitialEnables[r]
      BY <1>1, <1>2, <2>3, <3>2 DEF ProperUse, StaticEnablesKnown, RegistersFor
    <3>4. committed.registers = InitialEnables
      BY <2>3 DEF Leave, IInv, InitFirst, Containment, Untouched
    <3>5. QED
      BY <1>4, <2>1, <2>3, <3>3, <3>4 DEF Controlled, BitIn
  <2>4. CASE call[c].op = "refresh"
    BY <1>2, <1>4, <2>1, <2>4 DEF OnIn, ResourcesAfter, FlowsAfter, NamesAfter
  <2>5. CASE call[c].op = "reset"
    BY <1>1, <1>4, <2>5 DEF AffectedIrqs
  <2>6. QED
    BY <1>2, <2>2, <2>3, <2>4, <2>5, CallTypes
       DEF ControlCall, NameCall, InitCall, RefreshCall, ResetCall
<1>5. QED
  BY <1>3, <1>4

LEMMA ContainmentNext ==
  ASSUME ProperUse, Propagated, IInv, Containment, [Next]_vars
  PROVE  Containment'
<1>1. ASSUME NEW c \in Callers, Leave(c) PROVE Containment'
  <2>1. CommittedTypes'
    BY <1>1 DEF Leave, Snapshot, CommittedTypes, IInv, TypeOK
  <2>2. initialised'
    BY <1>1 DEF Leave, IInv, InitFirst
  <2>3. OnMeansEnabled'
    <3> SUFFICES ASSUME NEW i \in Unshared, OnIn(committed', i)
                 PROVE  BitIn(committed', i)
      BY DEF OnMeansEnabled
    <3>1. OnIn(committed, i) => BitIn(committed, i)
      BY DEF Containment, OnMeansEnabled
    <3>2. QED
      BY <1>1, <3>1, ContainmentLeave
  <2>4. ContainersMatch'
    <3> SUFFICES ASSUME NEW i \in Controlled \ Elements
                 PROVE  BitIn(committed', i) <=> OnIn(committed', i)
      BY DEF ContainersMatch
    <3>1. BitIn(committed, i) <=> OnIn(committed, i)
      BY DEF Containment, ContainersMatch
    <3>2. i \in Unshared
      BY DEF Controlled, Unshared
    <3>3. QED
      BY <1>1, <3>1, <3>2, ContainmentLeave
  <2>5. QED
    BY <2>1, <2>2, <2>3, <2>4 DEF Containment, Untouched
<1>2. CASE UNCHANGED <<committed, initialised>>
  BY <1>2 DEF Containment, CommittedTypes, Untouched, OnMeansEnabled, ContainersMatch,
              OnIn, BitIn
<1>3. ASSUME NEW c \in Callers,
             \/ Enter(c) \/ SetEnables(c) \/ WriteRegister(c)
             \/ \E r \in Registers : ComputeRegister(c, r)
             \/ \E cl \in Calls : Call(c, cl)
      PROVE  UNCHANGED <<committed, initialised>>
  BY <1>3 DEF Enter, SetEnables, WriteRegister, ComputeRegister, Call, history
<1>4. QED
  BY <1>1, <1>2, <1>3 DEF Next, Step, vars, history

LEMMA ContainmentHolds ==
  ASSUME ProperUse, Propagated
  PROVE  Spec => [](IInv /\ Containment)
<1>1. Init => IInv /\ Containment
  BY InitInv, ContainmentInit
<1>2. IInv /\ Containment /\ [Next]_vars => Containment'
  BY ProperUse, Propagated, ContainmentNext
<1>3. Spec => []IInv
  BY ProperUse, InductiveInvariant
<1>4. QED
  BY <1>1, <1>2, <1>3, PTL DEF Spec

(* When every change reaches the parents, a container's enable bit is what *)
(* is_on says of it whenever the controller is at rest: a parent is on     *)
(* exactly while a child needs it.                                         *)
THEOREM ContainersAlwaysAgree ==
  ASSUME ProperUse, Propagated PROVE Spec => []ContainersAgree
<1>1. IInv /\ Containment => ContainersAgree
  BY DEF IInv, AtRest, Quiet, Updating, Containment, ContainersMatch, ContainersAgree,
         Snapshot, BitIn, OnIn, Enabled, IsOn
<1>2. QED
  BY <1>1, ContainmentHolds, ProperUse, Propagated, PTL

(* Under the same use, and when no two IRQs share an enable field, what    *)
(* was turned off and on again is enabled in the hardware: every IRQ whose *)
(* flows, resources and name are on again, statically enabled or not.      *)
THEOREM AlwaysTurnedBackOn ==
  ASSUME ProperUse, Propagated, FieldsUnshared PROVE Spec => []TurnedBackOn
<1>1. IInv /\ Containment => TurnedBackOn
  BY FieldsUnshared
     DEF IInv, AtRest, Quiet, Updating, Containment, OnMeansEnabled, TurnedBackOn,
         FieldsUnshared, Snapshot, BitIn, OnIn, Enabled, IsOn
<1>2. QED
  BY <1>1, ContainmentHolds, ProperUse, Propagated, PTL

----------------------------------------------------------------------------
(***************************************************************************)
(* Dispatch.                                                               *)
(***************************************************************************)

RunSteps == {"enable", "status", "clear", "body", "flows"}

\* An activation of run(): a status is cleared only where the policy does.
Activation ==
  {f \in [irq : Irqs, at : RunSteps, next : Nat \ {0}] :
     f.at = "clear" => status_policy[f.irq] # "dont_clear_status"}

WalksInTree == walk \in [Contexts -> Seq(Activation)]

\* Only elements are owed flows: containers have none.
ElementsOwed == \A i \in owed : i \in Irqs /\ ~IsContainer(i)

\* EventKept, as it is used: of one IRQ, with the operators expanded.
About(x, i) == At(x, "body") /\ Current(x) = i

Kept(i) == i \in status \/ \E x \in Contexts : About(x, i)

NeverLast(i) == i \notin Top /\ status_policy[i] # "clear_status_last"

EventsKept == \A i \in owed : NeverLast(i) => Kept(i)

DispatchInv == WalksInTree /\ ElementsOwed /\ EventsKept

----------------------------------------------------------------------------
(* Stacks of activations. *)

LEMMA TopOfStack ==
  ASSUME NEW s \in Seq(Activation), s # <<>>
  PROVE  Last(s) \in Activation /\ Front(s) \in Seq(Activation)
<1>1. Len(s) \in Nat /\ Len(s) # 0 /\ Len(s) \in DOMAIN s
  OBVIOUS
<1>2. Last(s) \in Activation
  BY <1>1 DEF Last
<1>3. Front(s) \in Seq(Activation)
  BY <1>1 DEF Front
<1>4. QED
  BY <1>2, <1>3

LEMMA PushedOnStack ==
  ASSUME NEW s \in Seq(Activation), NEW f \in Activation
  PROVE  /\ Append(s, f) \in Seq(Activation)
         /\ Append(s, f) # <<>>
         /\ Last(Append(s, f)) = f
  BY DEF Last

LEMMA TopActivation ==
  ASSUME WalksInTree, NEW x \in Contexts, walk[x] # <<>>
  PROVE  /\ walk[x] \in Seq(Activation)
         /\ Last(walk[x]) \in Activation
         /\ Front(walk[x]) \in Seq(Activation)
         /\ Current(x) \in Irqs
<1>1. walk[x] \in Seq(Activation)
  BY DEF WalksInTree
<1>2. Last(walk[x]) \in Activation /\ Front(walk[x]) \in Seq(Activation)
  BY <1>1, TopOfStack
<1>3. QED
  BY <1>1, <1>2 DEF Current, Activation

\* The other contexts do not move.
Elsewhere(x) == \A y \in Contexts \ {x} : walk'[y] = walk[y]

LEMMA GoesOn ==
  ASSUME WalksInTree, NEW x \in Contexts, walk[x] # <<>>,
         NEW step \in RunSteps,
         step = "clear" => status_policy[Current(x)] # "dont_clear_status",
         Goto(x, step)
  PROVE  /\ WalksInTree'
         /\ Elsewhere(x)
         /\ step = "body" => At(x, "body")'
         /\ Current(x)' = Current(x)
<1> DEFINE f == [Last(walk[x]) EXCEPT !.at = step]
<1>1. f \in Activation /\ f.at = step /\ f.irq = Current(x)
  BY TopActivation DEF Activation, Current
<1>2. walk' = [walk EXCEPT ![x] = Append(Front(walk[x]), f)]
  BY DEF Goto
<1> HIDE DEF f
<1>3. /\ Append(Front(walk[x]), f) \in Seq(Activation)
      /\ Append(Front(walk[x]), f) # <<>>
      /\ Last(Append(Front(walk[x]), f)) = f
  BY <1>1, TopActivation, PushedOnStack
<1>4. WalksInTree' /\ Elsewhere(x)
  BY <1>2, <1>3 DEF WalksInTree, Elsewhere
<1>5. walk'[x] = Append(Front(walk[x]), f)
  BY <1>2 DEF WalksInTree
<1>6. Current(x)' = f.irq
  BY <1>3, <1>5 DEF Current
<1>7. step = "body" => At(x, "body")'
  BY <1>1, <1>3, <1>5 DEF At
<1>8. QED
  BY <1>1, <1>4, <1>6, <1>7

LEMMA Returns ==
  ASSUME WalksInTree, NEW x \in Contexts, walk[x] # <<>>, Return(x)
  PROVE  WalksInTree' /\ Elsewhere(x)
  BY TopActivation DEF Return, WalksInTree, Elsewhere

\* A context that is not about to start an element's flows may move.
LEMMA OthersKeep ==
  ASSUME EventsKept, NEW x \in Contexts, Elsewhere(x),
         NEW i \in owed, NeverLast(i), i \in status => i \in status', ~About(x, i)
  PROVE  Kept(i)'
<1>1. CASE i \in status
  BY <1>1 DEF Kept
<1>2. CASE i \notin status
  <2>1. PICK y \in Contexts : About(y, i)
    BY <1>2 DEF EventsKept, Kept
  <2>2. walk'[y] = walk[y]
    BY <2>1 DEF Elsewhere
  <2>3. About(y, i)'
    BY <2>1, <2>2 DEF About, At, Current
  <2>4. QED
    BY <2>3 DEF Kept
<1>3. QED
  BY <1>1, <1>2

LEMMA OneMoves ==
  ASSUME EventsKept, ElementsOwed, NEW x \in Contexts, Elsewhere(x),
         owed' \subseteq owed, status' = status,
         \A i \in owed' : ~About(x, i)
  PROVE  EventsKept' /\ ElementsOwed'
<1>1. ASSUME NEW i \in owed', NeverLast(i)'
      PROVE  Kept(i)'
  BY <1>1, OthersKeep DEF NeverLast
<1>2. QED
  BY <1>1 DEF EventsKept, ElementsOwed

LEMMA PolicyStepsTypes ==
  ASSUME NEW i \in Irqs
  PROVE  /\ DOMAIN PolicySteps(i) \subseteq 1..2
         /\ Len(PolicySteps(i)) \in 1..2
         /\ \A k \in 1..Len(PolicySteps(i)) :
              /\ PolicySteps(i)[k] \in {"clear", "body"}
              /\ PolicySteps(i)[k] = "clear" => status_policy[i] # "dont_clear_status"
<1>1. status_policy[i] \in Policies
  BY DispatchConstants
<1>2. CASE status_policy[i] = "clear_status_first"
  BY <1>2 DEF PolicySteps
<1>3. CASE status_policy[i] = "clear_status_last"
  BY <1>3 DEF PolicySteps
<1>4. CASE status_policy[i] = "dont_clear_status"
  BY <1>4 DEF PolicySteps
<1>5. QED
  BY <1>1, <1>2, <1>3, <1>4 DEF Policies

\* Whatever the policy's next step is, or none, the stacks stay well formed.
LEMMA Proceeds ==
  ASSUME WalksInTree, NEW x \in Contexts, walk[x] # <<>>,
         NEW step \in {"clear", "body"}, Proceed(x, step),
         step = "clear" => status_policy[Current(x)] # "dont_clear_status"
  PROVE  WalksInTree' /\ Elsewhere(x)
<1> DEFINE steps == PolicySteps(Current(x))
           done == CHOOSE k \in DOMAIN steps : steps[k] = step
<1>0. Current(x) \in Irqs
  BY TopActivation
<1>1. CASE done < Len(steps)
  <2>1. Goto(x, steps[done + 1])
    BY <1>1 DEF Proceed
  <2>2. \E k \in DOMAIN steps : steps[k] = step
    BY <1>0, DispatchConstants DEF PolicySteps, Policies
  <2>3. done \in DOMAIN steps
    BY <2>2
  <2>4. done + 1 \in 1..Len(steps)
    BY <1>0, <1>1, <2>3, PolicyStepsTypes
  <2>5. /\ steps[done + 1] \in RunSteps
        /\ steps[done + 1] = "clear" => status_policy[Current(x)] # "dont_clear_status"
    BY <1>0, <2>4, PolicyStepsTypes DEF RunSteps
  <2> HIDE DEF steps, done
  <2>6. QED
    BY <2>1, <2>5, GoesOn
<1>2. CASE ~(done < Len(steps))
  <2>1. Return(x)
    BY <1>2 DEF Proceed
  <2>2. QED
    BY <2>1, Returns
<1>3. QED
  BY <1>1, <1>2

\* clear_status_first: after the status is cleared the flows start.
LEMMA ClearedFirst ==
  ASSUME WalksInTree, NEW x \in Contexts, walk[x] # <<>>,
         Proceed(x, "clear"), status_policy[Current(x)] = "clear_status_first"
  PROVE  At(x, "body")' /\ Current(x)' = Current(x)
<1> DEFINE steps == PolicySteps(Current(x))
           done == CHOOSE k \in DOMAIN steps : steps[k] = "clear"
<1>1. steps = <<"clear", "body">>
  BY DEF PolicySteps
<1>2. DOMAIN steps = {1, 2} /\ Len(steps) = 2 /\ steps[1] = "clear" /\ steps[2] = "body"
  BY <1>1
<1>3. done = 1
  BY <1>2
<1>4. Goto(x, "body")
  <2>1. done < Len(steps) /\ steps[done + 1] = "body"
    BY <1>2, <1>3
  <2>2. QED
    BY <2>1 DEF Proceed
<1>5. QED
  BY <1>4, GoesOn DEF RunSteps

----------------------------------------------------------------------------
(* The steps. *)

LEMMA InitKept == DispatchInit => DispatchInv
<1> SUFFICES ASSUME DispatchInit PROVE DispatchInv
  OBVIOUS
<1>1. WalksInTree
  BY DEF DispatchInit, WalksInTree
<1>2. ElementsOwed /\ EventsKept
  BY DEF DispatchInit, ElementsOwed, EventsKept
<1>3. QED
  BY <1>1, <1>2 DEF DispatchInv

LEMMA Unmoved ==
  ASSUME DispatchInv, walk' = walk, status \subseteq status', owed' \subseteq owed
  PROVE  DispatchInv'
<1>1. \A x, i : About(x, i) => About(x, i)'
  BY DEF About, At, Current
<1>2. \A i : Kept(i) => Kept(i)'
  BY <1>1 DEF Kept
<1>3. QED
  BY <1>2 DEF DispatchInv, WalksInTree, ElementsOwed, EventsKept, NeverLast

LEMMA RaiseKeeps ==
  ASSUME DispatchInv, NEW i \in Irqs, Raise(i)
  PROVE  DispatchInv'
<1>1. WalksInTree'
  BY DEF Raise, DispatchInv, WalksInTree
<1>2. ElementsOwed'
  BY DEF Raise, DispatchInv, ElementsOwed
<1>3. ASSUME NEW j \in owed', NeverLast(j)'
      PROVE  Kept(j)'
  <2>1. CASE j \in owed
    <3>1. Kept(j)
      BY <1>3, <2>1 DEF DispatchInv, EventsKept, NeverLast
    <3>2. \A x : About(x, j) => About(x, j)'
      BY DEF Raise, About, At, Current
    <3>3. QED
      BY <3>1, <3>2 DEF Raise, Kept
  <2>2. CASE j = i
    BY <1>3, <2>2 DEF Raise, Kept, NeverLast, has_status_field
  <2>3. QED
    BY <2>1, <2>2 DEF Raise
<1>4. QED
  BY <1>1, <1>2, <1>3 DEF DispatchInv, EventsKept

LEMMA TriggerKeeps ==
  ASSUME DispatchInv, NEW x \in Contexts, NEW t \in Top, Trigger(x, t)
  PROVE  DispatchInv'
<1> DEFINE f == [irq |-> t, at |-> "enable", next |-> 1]
<1>1. <<>> \in Seq(Activation) /\ <<f>> \in Seq(Activation)
  BY ConfigTypes DEF Activation, RunSteps
<1>2. WalksInTree' /\ Elsewhere(x)
  BY <1>1 DEF Trigger, DispatchInv, WalksInTree, Elsewhere
<1>3. \A i : ~About(x, i)
  BY DEF Trigger, About, At
<1>4. EventsKept' /\ ElementsOwed'
  BY <1>2, <1>3, OneMoves DEF Trigger, DispatchInv
<1>5. QED
  BY <1>2, <1>4 DEF DispatchInv

LEMMA ReadEnableKeeps ==
  ASSUME DispatchInv, NEW x \in Contexts, ReadEnable(x)
  PROVE  DispatchInv'
<1>1. walk[x] # <<>> /\ WalksInTree
  BY DEF ReadEnable, At, DispatchInv
<1>2. WalksInTree' /\ Elsewhere(x)
  <2>1. Goto(x, "status") => WalksInTree' /\ Elsewhere(x)
    BY <1>1, GoesOn DEF RunSteps
  <2>2. Return(x) => WalksInTree' /\ Elsewhere(x)
    BY <1>1, Returns
  <2>3. QED
    BY <2>1, <2>2 DEF ReadEnable
<1>3. \A i : ~About(x, i)
  BY DEF ReadEnable, About, At
<1>4. EventsKept' /\ ElementsOwed'
  BY <1>2, <1>3, OneMoves DEF ReadEnable, hardware, DispatchInv
<1>5. QED
  BY <1>2, <1>4 DEF DispatchInv

LEMMA ReadStatusKeeps ==
  ASSUME DispatchInv, NEW x \in Contexts, ReadStatus(x)
  PROVE  DispatchInv'
<1> DEFINE step == PolicySteps(Current(x))[1]
<1>1. walk[x] # <<>> /\ WalksInTree
  BY DEF ReadStatus, At, DispatchInv
<1>2. WalksInTree' /\ Elsewhere(x)
  <2>1. step \in RunSteps /\ (step = "clear" => status_policy[Current(x)] # "dont_clear_status")
    <3>1. Current(x) \in Irqs
      BY <1>1, TopActivation
    <3>2. 1 \in 1..Len(PolicySteps(Current(x)))
      BY <3>1, PolicyStepsTypes
    <3>3. QED
      BY <3>1, <3>2, PolicyStepsTypes DEF RunSteps
  <2>2. Goto(x, step) \/ Return(x)
    BY DEF ReadStatus
  <2> HIDE DEF step
  <2>3. QED
    BY <1>1, <2>1, <2>2, GoesOn, Returns
<1>3. \A i : ~About(x, i)
  BY DEF ReadStatus, About, At
<1>4. EventsKept' /\ ElementsOwed'
  BY <1>2, <1>3, OneMoves DEF ReadStatus, hardware, DispatchInv
<1>5. QED
  BY <1>2, <1>4 DEF DispatchInv

\* The step that takes a status away: it hands the event to the flows.
LEMMA ClearStatusKeeps ==
  ASSUME DispatchInv, NEW x \in Contexts, ClearStatus(x)
  PROVE  DispatchInv'
<1>1. /\ walk[x] # <<>> /\ WalksInTree /\ Last(walk[x]).at = "clear"
      /\ Proceed(x, "clear") /\ owed' = owed /\ status' = status \ {Current(x)}
  BY DEF ClearStatus, At, DispatchInv
<1>2. Current(x) \in Irqs /\ status_policy[Current(x)] # "dont_clear_status"
  BY <1>1, TopActivation DEF Activation, Current
<1>3. WalksInTree' /\ Elsewhere(x)
  BY <1>1, <1>2, Proceeds
<1>4. ASSUME NEW i \in owed', NeverLast(i)'
      PROVE  Kept(i)'
  <2>1. i \in owed /\ NeverLast(i)
    BY <1>1, <1>4 DEF NeverLast
  <2>2. CASE i = Current(x)
    <3>1. status_policy[i] = "clear_status_first"
      BY <1>2, <2>1, <2>2, DispatchConstants DEF NeverLast, Policies
    <3>2. At(x, "body")' /\ Current(x)' = Current(x)
      BY <1>1, <2>2, <3>1, ClearedFirst
    <3>3. About(x, i)'
      BY <2>2, <3>2 DEF About
    <3>4. QED
      BY <3>3 DEF Kept
  <2>3. CASE i # Current(x)
    <3>1. ~About(x, i) /\ (i \in status => i \in status')
      BY <1>1, <2>3 DEF About
    <3>2. QED
      BY <1>3, <2>1, <3>1, OthersKeep DEF DispatchInv
  <2>4. QED
    BY <2>2, <2>3
<1>5. ElementsOwed'
  BY <1>1 DEF DispatchInv, ElementsOwed
<1>6. QED
  BY <1>3, <1>4, <1>5 DEF DispatchInv, EventsKept

\* The flows start, and with them what is owed to the element is paid.
LEMMA StartFlowsKeeps ==
  ASSUME DispatchInv, NEW x \in Contexts, StartFlows(x)
  PROVE  DispatchInv'
<1>1. /\ walk[x] # <<>> /\ WalksInTree /\ Goto(x, "flows")
      /\ owed' = owed \ {Current(x)} /\ status' = status
  BY DEF StartFlows, At, hardware, DispatchInv
<1>2. WalksInTree' /\ Elsewhere(x)
  BY <1>1, GoesOn DEF RunSteps
<1>3. \A i \in owed' : ~About(x, i)
  BY <1>1 DEF About
<1>4. EventsKept' /\ ElementsOwed'
  BY <1>1, <1>2, <1>3, OneMoves DEF DispatchInv
<1>5. QED
  BY <1>2, <1>4 DEF DispatchInv

LEMMA EndFlowsKeeps ==
  ASSUME DispatchInv, NEW x \in Contexts, EndFlows(x)
  PROVE  DispatchInv'
<1>1. walk[x] # <<>> /\ WalksInTree /\ Proceed(x, "body")
  BY DEF EndFlows, At, DispatchInv
<1>2. WalksInTree' /\ Elsewhere(x)
  BY <1>1, Proceeds
<1>3. \A i : ~About(x, i)
  BY DEF EndFlows, About, At
<1>4. EventsKept' /\ ElementsOwed'
  BY <1>2, <1>3, OneMoves DEF EndFlows, hardware, DispatchInv
<1>5. QED
  BY <1>2, <1>4 DEF DispatchInv

LEMMA RunChildKeeps ==
  ASSUME DispatchInv, NEW x \in Contexts, RunChild(x)
  PROVE  DispatchInv'
<1> DEFINE frame == Last(walk[x])
           child == children[frame.irq][frame.next]
           onward == [frame EXCEPT !.next = @ + 1]
           rest == Append(Front(walk[x]), onward)
           entered == [irq |-> child, at |-> "enable", next |-> 1]
<1>1. walk[x] # <<>> /\ WalksInTree /\ frame.next <= Len(children[frame.irq])
  BY DEF RunChild, At, DispatchInv
<1>2. frame \in Activation /\ Front(walk[x]) \in Seq(Activation)
  BY <1>1, TopActivation
<1>3. frame.irq \in Irqs /\ frame.next \in Nat \ {0}
  BY <1>2 DEF Activation
<1>4. frame.next \in DOMAIN children[frame.irq] /\ child \in Irqs
  <2>1. children[frame.irq] \in Seq(Irqs)
    BY <1>3, ConfigTypes
  <2>2. QED
    BY <1>1, <1>3, <2>1
<1>5. onward \in Activation /\ entered \in Activation
  BY <1>2, <1>4 DEF Activation, RunSteps
<1>6. rest \in Seq(Activation) /\ Append(rest, entered) \in Seq(Activation)
  BY <1>2, <1>5, PushedOnStack
<1>7. walk' = [walk EXCEPT ![x] = IF active[child] THEN Append(rest, entered) ELSE rest]
  BY DEF RunChild
<1>8. IsContainer(Current(x))
  BY <1>4 DEF IsContainer, Current
<1> HIDE DEF rest, entered
<1>9. WalksInTree' /\ Elsewhere(x)
  BY <1>1, <1>6, <1>7 DEF WalksInTree, Elsewhere
<1>10. \A i \in owed : ~About(x, i)
  BY <1>8 DEF DispatchInv, ElementsOwed, About
<1>11. EventsKept' /\ ElementsOwed'
  BY <1>9, <1>10, OneMoves DEF RunChild, hardware, DispatchInv
<1>12. QED
  BY <1>9, <1>11 DEF DispatchInv

LEMMA EndChildrenKeeps ==
  ASSUME DispatchInv, NEW x \in Contexts, EndChildren(x)
  PROVE  DispatchInv'
<1>1. walk[x] # <<>> /\ WalksInTree /\ Proceed(x, "body")
  BY DEF EndChildren, At, DispatchInv
<1>2. WalksInTree' /\ Elsewhere(x)
  BY <1>1, Proceeds
<1>3. \A i \in owed : ~About(x, i)
  BY DEF EndChildren, DispatchInv, ElementsOwed, About
<1>4. EventsKept' /\ ElementsOwed'
  BY <1>2, <1>3, OneMoves DEF EndChildren, hardware, DispatchInv
<1>5. QED
  BY <1>2, <1>4 DEF DispatchInv

LEMMA NextKeeps ==
  ASSUME DispatchInv, [DispatchNext]_all_vars
  PROVE  DispatchInv'
<1>1. ASSUME UNCHANGED all_vars
      PROVE  DispatchInv'
  BY <1>1, Unmoved DEF all_vars, dispatch, hardware
<1>2. ASSUME Next, UNCHANGED dispatch
      PROVE  DispatchInv'
  BY <1>2, Unmoved DEF dispatch, hardware
<1>3. ASSUME NEW i \in Irqs, Raise(i)
      PROVE  DispatchInv'
  BY <1>3, RaiseKeeps
<1>4. ASSUME NEW x \in Contexts, Run(x)
      PROVE  DispatchInv'
  BY <1>4, ReadEnableKeeps, ReadStatusKeeps, ClearStatusKeeps, StartFlowsKeeps,
     EndFlowsKeeps, RunChildKeeps, EndChildrenKeeps DEF Run
<1>5. ASSUME NEW x \in Contexts, NEW t \in Top, Trigger(x, t)
      PROVE  DispatchInv'
  BY <1>5, TriggerKeeps
<1>6. QED
  BY <1>1, <1>2, <1>3, <1>4, <1>5 DEF DispatchNext

(* Every event stays with its element, for any forest, policies and number *)
(* of contexts: what is owed is latched or handed to run().                *)
THEOREM DispatchInvariant == DispatchSpec => []DispatchInv
<1>1. QED
  BY InitKept, NextKeeps, PTL DEF DispatchSpec

(* No event is forgotten by an element whose policy is not to clear its    *)
(* status last: policies.hpp clears before the flows run, and a status     *)
(* latched in between is kept for the next interrupt.                      *)
THEOREM EventsAreKept == DispatchSpec => []EventKept
<1>1. DispatchInv => EventKept
  BY DEF DispatchInv, EventsKept, EventKept, NeverLast, Kept, About
<1>2. QED
  BY <1>1, DispatchInvariant, PTL

(***************************************************************************)
(* From here on init is called once, with what the static initialisation   *)
(* did, and reset, which takes no critical section, is not called.         *)
(***************************************************************************)
\* What name and resources ask for, of IRQs with and without children.
Allowed(i, N, R) == name_t[i] \in N /\ resources_t[i] \subseteq R

AllowedIn(state, i) == Allowed(i, state.named, state.resources)

\* A call that does not recompute an IRQ does not take it off.
LEMMA UnaffectedAllowed ==
  ASSUME ProperUse, NEW cl \in Calls, NEW i \in Controlled, i \notin AffectedIrqs(cl),
         cl.op # "reset", NEW N \in SUBSET Names, NEW R \in SUBSET Resources,
         Allowed(i, N, R)
  PROVE  Allowed(i, NamesAfter(cl, N), ResourcesAfter(cl, R))
<1> DEFINE r == register_of[enable_field[i]]
<1>1. i \in EnableIrqs /\ i \in Irqs /\ enable_field[i] \in Fields
  BY EnableFieldTypes DEF Controlled
<1>2. name_t[i] \in Names /\ resources_t[i] \in SUBSET Resources
  BY <1>1, ConfigTypes
<1>3. CASE cl.op \in {"enable", "disable"}
  <2>1. cl \in ControlCall \/ cl \in NameCall
    BY <1>3, CallTypes DEF InitCall, RefreshCall, ResetCall
  <2>2. i \notin ControlledIrqs(cl)
    BY <1>3 DEF AffectedIrqs
  <2>3. CASE cl \in NameCall
    <3>1. cl.scope = "by_name" /\ cl.items \subseteq Names \cup {unknown}
      BY <2>3 DEF NameCall
    <3>2. name_t[i] \notin cl.items
      BY <1>1, <2>2, <3>1 DEF ControlledIrqs, has_name
    <3>3. cl.items \cap Resources = {}
      BY <3>1, Rooted, CallTypes
    <3>4. QED
      BY <1>3, <3>2, <3>3 DEF ResourcesAfter, NamesAfter, Changed, Allowed
  <2>4. CASE cl \in ControlCall
    <3>1. cl.scope \in {"propagate", "no_propagate"}
          /\ cl.items \subseteq Resources \cup Flows \cup {unknown}
      BY <2>4 DEF ControlCall
    <3>2. resources_t[i] \cap cl.items = {}
      <4>1. CASE cl.scope = "no_propagate"
        BY <1>1, <2>2, <4>1 DEF ControlledIrqs, has_name, with_items
      <4>2. CASE cl.scope = "propagate"
        BY <1>1, <2>2, <4>2
           DEF ControlledIrqs, has_name, with_items_propagated, all_resources_t
      <4>3. QED
        BY <3>1, <4>1, <4>2
    <3>3. cl.items \cap Names = {}
      BY <3>1, Rooted, CallTypes
    <3>4. QED
      BY <1>2, <1>3, <3>2, <3>3 DEF ResourcesAfter, NamesAfter, Changed, Allowed
  <2>5. QED
    BY <2>1, <2>3, <2>4
<1>4. CASE cl.op = "init"
  <2>1. i \in cl.already
    BY <1>1, <1>4 DEF AffectedIrqs
  <2>2. enable_field[i] \in mask_for(cl.already, r)
    BY <1>1, <2>1 DEF mask_for, FieldsIn
  <2>3. mask_for(cl.already, r) = InitialEnables[r]
    BY <1>1, <1>4 DEF ProperUse, StaticEnablesKnown, RegistersFor
  <2>4. QED
    BY <2>2, <2>3 DEF Controlled
<1>5. CASE cl.op = "refresh"
  BY <1>5 DEF ResourcesAfter, NamesAfter
<1>6. QED
  BY <1>3, <1>4, <1>5, CallTypes
     DEF ControlCall, NameCall, InitCall, RefreshCall, ResetCall

\* is_on implies that name and resources are on, also for a container.
LEMMA OnIsAllowed ==
  ASSUME NEW i \in Irqs, NEW N \in SUBSET Names, NEW R \in SUBSET Resources,
         NEW F \in SUBSET Flows, is_on(N, R, F)[i]
  PROVE  Allowed(i, N, R)
<1>1. is_on_given(is_on(N, R, F), i, N, R, F)
  BY WellFounded
<1>2. QED
  BY <1>1 DEF is_on_given, Allowed

\* An IRQ whose field is set after a call is allowed by its name and resources.
AllowedWhenSet == \A i \in Controlled : BitIn(committed, i) => AllowedIn(committed, i)

LEMMA AllowedInit == Init => AllowedWhenSet
  BY DEF Init, Snapshot, AllowedWhenSet, BitIn, Controlled

LEMMA AllowedNext ==
  ASSUME ProperUse, NoResets, IInv, CommittedTypes, AllowedWhenSet, [Next]_vars
  PROVE  AllowedWhenSet'
<1>1. ASSUME NEW c \in Callers, Leave(c), NEW i \in Controlled, BitIn(committed', i)
      PROVE  AllowedIn(committed', i)
  <2> DEFINE r == register_of[enable_field[i]]
             cl == call[c]
  <2>1. /\ cl \in Calls /\ cl.op # "reset"
        /\ committed'.resources = ResourcesAfter(cl, committed.resources)
        /\ committed'.flows = FlowsAfter(cl, committed.flows)
        /\ committed'.named = NamesAfter(cl, committed.named)
        /\ committed'.resources = resource_enables
        /\ committed'.flows = flow_enables
        /\ committed'.named = named_enables
    BY <1>1, LeaveApplies DEF Snapshot, NoResets
  <2>2. r \in Registers /\ i \in EnableIrqs /\ i \in Irqs
    BY EnableFieldTypes DEF Controlled
  <2>3. committed'.registers[r] = IF r \in AffectedRegisters(cl)
                                  THEN Result(c, r) ELSE committed.registers[r]
    BY <1>1, <2>2, LeaveApplies DEF Snapshot
  <2>4. CASE i \in AffectedIrqs(cl)
    <3>1. r \in AffectedRegisters(cl)
      BY <2>2, <2>4 DEF AffectedRegisters, RegistersFor
    <3>2. is_on(named_enables, resource_enables, flow_enables)[i]
      BY <1>1, <2>1, <2>3, <2>4, <3>1, ControlledBit DEF BitIn, Result
    <3>3. Allowed(i, named_enables, resource_enables)
      BY <2>2, <3>2, OnIsAllowed DEF IInv, TypeOK
    <3>4. QED
      BY <2>1, <3>3 DEF AllowedIn
  <2>5. CASE i \notin AffectedIrqs(cl)
    <3>1. BitIn(committed, i)
      BY <1>1, <2>1, <2>3, <2>5, ControlledBit DEF BitIn, Result
    <3>2. Allowed(i, committed.named, committed.resources)
      BY <3>1 DEF AllowedWhenSet, AllowedIn
    <3>3. Allowed(i, NamesAfter(cl, committed.named), ResourcesAfter(cl, committed.resources))
      BY <2>1, <2>5, <3>2, UnaffectedAllowed DEF CommittedTypes
    <3>4. QED
      BY <2>1, <3>3 DEF AllowedIn
  <2>6. QED
    BY <2>4, <2>5
<1>2. CASE UNCHANGED committed
  BY <1>2 DEF AllowedWhenSet, AllowedIn, BitIn
<1>3. ASSUME NEW c \in Callers,
             \/ Enter(c) \/ SetEnables(c) \/ WriteRegister(c)
             \/ \E r \in Registers : ComputeRegister(c, r)
             \/ \E cl \in Calls : Call(c, cl)
      PROVE  UNCHANGED committed
  BY <1>3 DEF Enter, SetEnables, WriteRegister, ComputeRegister, Call, history
<1>4. QED
  BY <1>1, <1>2, <1>3 DEF Next, Step, vars, history, AllowedWhenSet

\* Everything of the controller that the dispatch relies on.
Rested == IInv /\ CommittedTypes /\ CommittedAgrees /\ AllowedWhenSet

\* While the section is free the hardware is what the last call left.
LEMMA FreeIsCommitted ==
  ASSUME NoResets, IInv, mutex = nobody
  PROVE  committed = Snapshot
<1>1. ASSUME NEW c \in Callers, Updating(c)
      PROVE  FALSE
  <2>1. Inside(c) /\ call[c] \in Calls
    BY <1>1 DEF Updating, Inside, IInv, TypeOK
  <2>2. mutex = c
    BY <2>1 DEF NoResets, IInv, Exclusive
  <2>3. QED
    BY <2>2, ControllerConstants
<1>2. QED
  BY <1>1 DEF IInv, AtRest

\* So an enable field that is read as set belongs to an IRQ that is not off.
LEMMA ReadsAsOn ==
  ASSUME NoResets, Rested, mutex = nobody, NEW i \in Controlled, Enabled(i)
  PROVE  ~Off(i)
<1>1. /\ committed.named = named_enables /\ committed.resources = resource_enables
      /\ committed.flows = flow_enables /\ committed.registers = enable_register
  BY FreeIsCommitted DEF Rested, Snapshot
<1>2. BitIn(committed, i)
  BY <1>1 DEF BitIn, Enabled
<1>3. name_t[i] \in named_enables /\ resources_t[i] \subseteq resource_enables
  BY <1>1, <1>2 DEF Rested, AllowedWhenSet, AllowedIn, Allowed
<1>4. CASE ~IsContainer(i)
  <2>1. i \in Elements
    BY <1>4 DEF Elements
  <2>2. is_on(named_enables, resource_enables, flow_enables)[i]
    BY <1>1, <1>2, <2>1 DEF Rested, CommittedAgrees, OnIn
  <2>3. /\ named_enables \in SUBSET Names /\ resource_enables \in SUBSET Resources
        /\ flow_enables \in SUBSET Flows
    BY DEF Rested, IInv, TypeOK
  <2>4. flows_t(i) \cap flow_enables # {}
    BY <2>1, <2>2, <2>3, ElementOn, Zenon
  <2>5. QED
    BY <1>3, <2>4 DEF Off
<1>5. CASE IsContainer(i)
  BY <1>3, <1>5 DEF Off
<1>6. QED
  BY <1>4, <1>5

\* The dispatch does nothing to the controller.
LEMMA DispatchIsController ==
  ASSUME [DispatchNext]_all_vars
  PROVE  [Next]_vars
<1>1. ASSUME NEW x \in Contexts, Run(x) PROVE UNCHANGED vars
  BY <1>1 DEF Run, ReadEnable, ReadStatus, ClearStatus, StartFlows, EndFlows,
              RunChild, EndChildren
<1>2. ASSUME NEW i \in Irqs, Raise(i) PROVE UNCHANGED vars
  BY <1>2 DEF Raise
<1>3. ASSUME NEW x \in Contexts, NEW t \in Top, Trigger(x, t) PROVE UNCHANGED vars
  BY <1>3 DEF Trigger
<1>4. QED
  BY <1>1, <1>2, <1>3 DEF DispatchNext, all_vars

LEMMA RestedAlways == ASSUME ProperUse, NoResets PROVE DispatchSpec => []Rested
<1>1. DispatchSpec => Spec
  <2>1. DispatchInit => Init
    BY DEF DispatchInit
  <2>2. QED
    BY <2>1, DispatchIsController, PTL DEF DispatchSpec, Spec
<1>2. Spec => []IInv
  BY ProperUse, InductiveInvariant
<1>3. Init => CommittedTypes /\ CommittedAgrees /\ AllowedWhenSet
  BY AgreementInit, AllowedInit
<1>4. IInv /\ CommittedTypes /\ CommittedAgrees /\ AllowedWhenSet /\ [Next]_vars
        => (CommittedTypes /\ CommittedAgrees /\ AllowedWhenSet)'
  BY ProperUse, NoResets, AgreementNext, AllowedNext
<1>5. QED
  BY <1>1, <1>2, <1>3, <1>4, PTL DEF Spec, Rested

----------------------------------------------------------------------------
(* A context's way down the forest: below the top every activation runs    *)
(* its children, and none but the top one is before its enable field.      *)

Passed(f, off) == f.at # "enable" /\ f.irq \in Controlled => f.irq \notin off

Guarded(s, off) ==
  \A k \in 1..Len(s) : (k < Len(s) => s[k].at = "body") /\ Passed(s[k], off)

LEMMA ShrinkGuarded ==
  ASSUME NEW s, NEW off, Guarded(s, off), NEW fewer \in SUBSET off
  PROVE  Guarded(s, fewer)
  BY DEF Guarded, Passed

LEMMA FrontOf ==
  ASSUME NEW s \in Seq(Activation), s # <<>>
  PROVE  /\ Len(Front(s)) = Len(s) - 1
         /\ \A k \in 1..(Len(s) - 1) : Front(s)[k] = s[k]
<1>1. PICK n \in Nat : n = Len(s) - 1
  OBVIOUS
<1>2. \A k \in 1..n : s[k] \in Activation
  BY <1>1
<1>3. Front(s) = SubSeq(s, 1, n)
  BY <1>1 DEF Front
<1>4. /\ Len(SubSeq(s, 1, n)) = IF 1 <= n THEN n - 1 + 1 ELSE 0
      /\ \A k \in 1..(n - 1 + 1) : SubSeq(s, 1, n)[k] = s[1 + k - 1]
  BY <1>2, SubSeqProperties
<1>5. Len(SubSeq(s, 1, n)) = n /\ \A k \in 1..n : SubSeq(s, 1, n)[k] = s[k]
  BY <1>4
<1>6. QED
  BY <1>1, <1>3, <1>5

LEMMA FrontGuarded ==
  ASSUME NEW s \in Seq(Activation), s # <<>>, NEW off, Guarded(s, off)
  PROVE  Guarded(Front(s), off)
<1>1. Len(s) \in Nat /\ Len(s) # 0
  OBVIOUS
<1>2. Len(Front(s)) = Len(s) - 1 /\ \A k \in 1..(Len(s) - 1) : Front(s)[k] = s[k]
  BY FrontOf
<1>3. QED
  BY <1>1, <1>2 DEF Guarded

LEMMA ReplacedGuarded ==
  ASSUME NEW s \in Seq(Activation), s # <<>>, NEW off, Guarded(s, off),
         NEW f \in Activation, Passed(f, off)
  PROVE  Guarded(Append(Front(s), f), off)
<1> DEFINE n == Len(s)
           t == Append(Front(s), f)
<1>1. n \in Nat /\ n # 0
  OBVIOUS
<1>2. Len(Front(s)) = n - 1 /\ \A k \in 1..(n - 1) : Front(s)[k] = s[k]
  BY FrontOf
<1>3. Front(s) \in Seq(Activation)
  BY TopOfStack
<1>4. Len(t) = n /\ t[n] = f /\ \A k \in 1..(n - 1) : t[k] = s[k]
  BY <1>1, <1>2, <1>3
<1> HIDE DEF t
<1>5. ASSUME NEW k \in 1..n
      PROVE  (k < n => t[k].at = "body") /\ Passed(t[k], off)
  <2>1. CASE k = n
    BY <1>4, <2>1
  <2>2. CASE k # n
    BY <1>1, <1>4, <2>2 DEF Guarded
  <2>3. QED
    BY <2>1, <2>2
<1>6. Guarded(t, off)
  BY <1>4, <1>5 DEF Guarded
<1>7. QED
  BY <1>6 DEF t

LEMMA PushedGuarded ==
  ASSUME NEW s \in Seq(Activation), NEW off, Guarded(s, off), Last(s).at = "body",
         NEW f \in Activation, Passed(f, off)
  PROVE  Guarded(Append(s, f), off)
<1> DEFINE n == Len(s)
           t == Append(s, f)
<1>1. n \in Nat /\ Len(t) = n + 1 /\ t[n + 1] = f /\ \A k \in 1..n : t[k] = s[k]
  OBVIOUS
<1> HIDE DEF t
<1>2. ASSUME NEW k \in 1..(n + 1)
      PROVE  (k < n + 1 => t[k].at = "body") /\ Passed(t[k], off)
  <2>1. CASE k = n + 1
    BY <1>1, <2>1
  <2>2. CASE k = n
    BY <1>1, <2>2 DEF Guarded, Last
  <2>3. CASE k < n
    BY <1>1, <2>3 DEF Guarded
  <2>4. QED
    BY <1>1, <2>1, <2>2, <2>3
<1>3. Guarded(t, off)
  BY <1>1, <1>2 DEF Guarded
<1>4. QED
  BY <1>3 DEF t

GuardedWalks == \A x \in Contexts : Guarded(walk[x], off_since[x])

\* The IRQs off ever since context x took its interrupt, after this step.
StillOff(x) == off_since[x] \cap OffNow'

LEMMA GotoGuards ==
  ASSUME WalksInTree, NEW x \in Contexts, walk[x] # <<>>, NEW off,
         Guarded(walk[x], off), NEW step \in RunSteps, Goto(x, step),
         step = "clear" => status_policy[Current(x)] # "dont_clear_status",
         Current(x) \in Controlled => Current(x) \notin off
  PROVE  Guarded(walk'[x], off)
<1> DEFINE f == [Last(walk[x]) EXCEPT !.at = step]
<1>1. walk[x] \in Seq(Activation) /\ Last(walk[x]) \in Activation
  BY TopActivation
<1>2. f \in Activation /\ f.irq = Current(x)
  BY <1>1 DEF Activation, Current
<1>3. Passed(f, off)
  BY <1>2 DEF Passed
<1>4. walk'[x] = Append(Front(walk[x]), f)
  BY DEF Goto, WalksInTree
<1> HIDE DEF f
<1>5. QED
  BY <1>1, <1>2, <1>3, <1>4, ReplacedGuarded

LEMMA ReturnGuards ==
  ASSUME WalksInTree, NEW x \in Contexts, walk[x] # <<>>, NEW off,
         Guarded(walk[x], off), Return(x)
  PROVE  Guarded(walk'[x], off)
<1>1. walk[x] \in Seq(Activation) /\ walk'[x] = Front(walk[x])
  BY TopActivation DEF Return, WalksInTree
<1>2. QED
  BY <1>1, FrontGuarded

\* What is past its enable field was not off then, or is on again.
LEMMA PastEnable ==
  ASSUME WalksInTree, NEW x \in Contexts, walk[x] # <<>>, NEW off,
         Guarded(walk[x], off), Last(walk[x]).at # "enable"
  PROVE  Current(x) \in Controlled => Current(x) \notin off
<1>1. Len(walk[x]) \in 1..Len(walk[x])
  BY TopActivation
<1>2. QED
  BY <1>1 DEF Guarded, Passed, Last, Current

LEMMA ProceedGuards ==
  ASSUME WalksInTree, NEW x \in Contexts, walk[x] # <<>>, NEW off,
         Guarded(walk[x], off), Last(walk[x]).at # "enable",
         NEW step \in {"clear", "body"}, Proceed(x, step),
         step = "clear" => status_policy[Current(x)] # "dont_clear_status"
  PROVE  Guarded(walk'[x], off)
<1> DEFINE steps == PolicySteps(Current(x))
           done == CHOOSE k \in DOMAIN steps : steps[k] = step
<1>0. Current(x) \in Irqs
  BY TopActivation
<1>1. CASE done < Len(steps)
  <2>1. Goto(x, steps[done + 1])
    BY <1>1 DEF Proceed
  <2>2. \E k \in DOMAIN steps : steps[k] = step
    BY <1>0, DispatchConstants DEF PolicySteps, Policies
  <2>3. done \in DOMAIN steps
    BY <2>2
  <2>4. done + 1 \in 1..Len(steps)
    BY <1>0, <1>1, <2>3, PolicyStepsTypes
  <2>5. /\ steps[done + 1] \in RunSteps
        /\ steps[done + 1] = "clear" => status_policy[Current(x)] # "dont_clear_status"
    BY <1>0, <2>4, PolicyStepsTypes DEF RunSteps
  <2> HIDE DEF steps, done
  <2>6. QED
    BY <2>1, <2>5, PastEnable, GotoGuards
<1>2. CASE ~(done < Len(steps))
  <2>1. Return(x)
    BY <1>2 DEF Proceed
  <2>2. QED
    BY <2>1, ReturnGuards
<1>3. QED
  BY <1>1, <1>2

\* Track forgets an IRQ as soon as it is on, and starts anew when nothing runs.
LEMMA RunsGuarded ==
  ASSUME GuardedWalks, NEW x \in Contexts, Elsewhere(x), Track, walk[x] # <<>>,
         Guarded(walk'[x], StillOff(x))
  PROVE  GuardedWalks'
<1>1. \A y \in Contexts : off_since'[y] = IF walk[y] = <<>> THEN OffNow' ELSE StillOff(y)
  BY DEF Track, StillOff
<1>2. ASSUME NEW y \in Contexts
      PROVE  Guarded(walk'[y], off_since'[y])
  <2>1. CASE y = x
    BY <1>1, <2>1
  <2>2. CASE y # x /\ walk[y] = <<>>
    <3>1. walk'[y] = <<>>
      BY <2>2 DEF Elsewhere
    <3>2. QED
      BY <3>1 DEF Guarded
  <2>3. CASE y # x /\ walk[y] # <<>>
    <3>1. walk'[y] = walk[y] /\ off_since'[y] \in SUBSET off_since[y]
      BY <1>1, <2>3 DEF Elsewhere, StillOff
    <3>2. QED
      BY <3>1, ShrinkGuarded DEF GuardedWalks
  <2>4. QED
    BY <2>1, <2>2, <2>3
<1>3. QED
  BY <1>2 DEF GuardedWalks

LEMMA IdleGuarded ==
  ASSUME GuardedWalks, walk' = walk, Track
  PROVE  GuardedWalks'
<1>1. ASSUME NEW y \in Contexts
      PROVE  Guarded(walk'[y], off_since'[y])
  <2>1. off_since'[y] = IF walk[y] = <<>> THEN OffNow' ELSE off_since[y] \cap OffNow'
    BY DEF Track
  <2>2. CASE walk[y] = <<>>
    BY <2>2 DEF Guarded
  <2>3. CASE walk[y] # <<>>
    BY <2>1, <2>3, ShrinkGuarded DEF GuardedWalks
  <2>4. QED
    BY <2>2, <2>3
<1>2. QED
  BY <1>1 DEF GuardedWalks

LEMMA TriggerGuards ==
  ASSUME WalksInTree, GuardedWalks, NEW x \in Contexts, NEW t \in Top, Trigger(x, t), Track
  PROVE  GuardedWalks'
<1> DEFINE f == [irq |-> t, at |-> "enable", next |-> 1]
<1>1. walk[x] = <<>> /\ (walk'[x] = <<f>> \/ walk'[x] = <<>>)
  BY DEF Trigger, WalksInTree
<1>2. Elsewhere(x)
  BY DEF Trigger, Elsewhere, WalksInTree
<1>3. ASSUME NEW y \in Contexts
      PROVE  Guarded(walk'[y], off_since'[y])
  <2>1. off_since'[y] = IF walk[y] = <<>> THEN OffNow' ELSE off_since[y] \cap OffNow'
    BY DEF Track
  <2>2. CASE y = x
    <3>1. \A off : Guarded(<<>>, off)
      BY DEF Guarded
    <3>2. Len(<<f>>) = 1 /\ <<f>>[1].at = "enable"
      OBVIOUS
    <3>3. \A off : Guarded(<<f>>, off)
      BY <3>2 DEF Guarded, Passed
    <3>4. QED
      BY <1>1, <2>2, <3>1, <3>3
  <2>3. CASE y # x
    <3>1. walk'[y] = walk[y]
      BY <1>2, <2>3 DEF Elsewhere
    <3>2. CASE walk[y] = <<>>
      BY <3>1, <3>2 DEF Guarded
    <3>3. CASE walk[y] # <<>>
      BY <2>1, <3>1, <3>3, ShrinkGuarded DEF GuardedWalks
    <3>4. QED
      BY <3>2, <3>3
  <2>4. QED
    BY <2>2, <2>3
<1>4. QED
  BY <1>3 DEF GuardedWalks

\* The enable field is read in the section: what is set there is not off.
LEMMA ReadEnableGuards ==
  ASSUME NoResets, Rested, WalksInTree, NEW x \in Contexts, ReadEnable(x),
         Guarded(walk[x], StillOff(x))
  PROVE  Guarded(walk'[x], StillOff(x)) /\ Elsewhere(x)
<1>0. PICK i : i = Current(x)
  OBVIOUS
<1>1. walk[x] # <<>> /\ i \in Irqs
  BY <1>0, TopActivation DEF ReadEnable, At
<1>2. CASE ~(has_enable_field(i) => Enabled(i))
  BY <1>0, <1>1, <1>2, ReturnGuards, Returns DEF ReadEnable
<1>3. CASE has_enable_field(i) => Enabled(i)
  <2>1. ASSUME i \in Controlled
        PROVE  i \notin StillOff(x)
    <3>1. mutex = nobody /\ Enabled(i)
      BY <1>0, <1>3, <2>1 DEF ReadEnable, MayReadEnable, Controlled, EnableIrqs
    <3>2. ~Off(i)
      BY <2>1, <3>1, ReadsAsOn
    <3>3. ~Off(i)'
      BY <3>2 DEF ReadEnable, vars, enables, Off
    <3>4. QED
      BY <3>3 DEF StillOff, OffNow
  <2>2. Goto(x, "status")
    BY <1>0, <1>3 DEF ReadEnable
  <2>3. QED
    BY <1>0, <1>1, <2>1, <2>2, GotoGuards, GoesOn DEF RunSteps
<1>4. QED
  BY <1>2, <1>3

LEMMA ReadStatusGuards ==
  ASSUME WalksInTree, NEW x \in Contexts, ReadStatus(x), Guarded(walk[x], StillOff(x))
  PROVE  Guarded(walk'[x], StillOff(x)) /\ Elsewhere(x)
<1> DEFINE step == PolicySteps(Current(x))[1]
<1>1. walk[x] # <<>> /\ Last(walk[x]).at # "enable"
  BY DEF ReadStatus, At
<1>2. step \in RunSteps /\ (step = "clear" => status_policy[Current(x)] # "dont_clear_status")
  <2>1. Current(x) \in Irqs
    BY <1>1, TopActivation
  <2>2. 1 \in 1..Len(PolicySteps(Current(x)))
    BY <2>1, PolicyStepsTypes
  <2>3. QED
    BY <2>1, <2>2, PolicyStepsTypes DEF RunSteps
<1>3. Goto(x, step) \/ Return(x)
  BY DEF ReadStatus
<1> HIDE DEF step
<1>4. QED
  BY <1>1, <1>2, <1>3, PastEnable, GotoGuards, GoesOn, ReturnGuards, Returns

LEMMA RunChildGuards ==
  ASSUME WalksInTree, NEW x \in Contexts, RunChild(x), Guarded(walk[x], StillOff(x))
  PROVE  Guarded(walk'[x], StillOff(x)) /\ Elsewhere(x)
<1> DEFINE frame == Last(walk[x])
           child == children[frame.irq][frame.next]
           onward == [frame EXCEPT !.next = @ + 1]
           rest == Append(Front(walk[x]), onward)
           entered == [irq |-> child, at |-> "enable", next |-> 1]
<1>1. /\ walk[x] # <<>> /\ frame.at = "body"
      /\ frame.next <= Len(children[frame.irq])
  BY DEF RunChild, At
<1>2. frame \in Activation /\ walk[x] \in Seq(Activation) /\ Front(walk[x]) \in Seq(Activation)
  BY <1>1, TopActivation
<1>3. child \in Irqs
  <2>1. frame.irq \in Irqs /\ frame.next \in Nat \ {0}
    BY <1>2 DEF Activation
  <2>2. children[frame.irq] \in Seq(Irqs)
    BY <2>1, ConfigTypes
  <2>3. QED
    BY <1>1, <2>1, <2>2
<1>4. /\ onward \in Activation /\ onward.at = "body" /\ onward.irq = Current(x)
      /\ entered \in Activation /\ entered.at = "enable"
  <2>1. onward \in Activation /\ entered \in Activation
    BY <1>2, <1>3 DEF Activation, RunSteps
  <2>2. onward.at = frame.at /\ onward.irq = frame.irq
    BY <1>2 DEF Activation
  <2>3. QED
    BY <1>1, <2>1, <2>2 DEF Current
<1>5. walk' = [walk EXCEPT ![x] = IF active[child] THEN Append(rest, entered) ELSE rest]
  BY DEF RunChild
<1> HIDE DEF onward, entered
<1>6. Passed(onward, StillOff(x)) /\ Passed(entered, StillOff(x))
  BY <1>1, <1>4, PastEnable DEF Passed
<1>7. rest \in Seq(Activation) /\ Last(rest) = onward
  BY <1>2, <1>4, PushedOnStack
<1>8. Guarded(rest, StillOff(x))
  BY <1>1, <1>2, <1>4, <1>6, ReplacedGuarded
<1> HIDE DEF rest
<1>9. Guarded(Append(rest, entered), StillOff(x))
  BY <1>4, <1>6, <1>7, <1>8, PushedGuarded
<1>10. QED
  BY <1>5, <1>8, <1>9 DEF WalksInTree, Elsewhere

LEMMA RunGuards ==
  ASSUME NoResets, Rested, WalksInTree, GuardedWalks, NEW x \in Contexts, Run(x), Track
  PROVE  GuardedWalks'
<1>1. walk[x] # <<>>
  BY DEF Run, ReadEnable, ReadStatus, ClearStatus, StartFlows, EndFlows,
         RunChild, EndChildren, At
<1>2. Guarded(walk[x], StillOff(x))
  BY ShrinkGuarded DEF GuardedWalks, StillOff
<1>3. Guarded(walk'[x], StillOff(x)) /\ Elsewhere(x)
  <2>1. CASE ReadEnable(x)
    BY <1>2, <2>1, ReadEnableGuards
  <2>2. CASE ReadStatus(x)
    BY <1>2, <2>2, ReadStatusGuards
  <2>3. CASE ClearStatus(x)
    <3>1. Last(walk[x]).at = "clear" /\ Proceed(x, "clear")
      BY <2>3 DEF ClearStatus, At
    <3>2. status_policy[Current(x)] # "dont_clear_status"
      BY <1>1, <3>1, TopActivation DEF Activation, Current
    <3>3. QED
      BY <1>1, <1>2, <3>1, <3>2, ProceedGuards, Proceeds
  <2>4. CASE StartFlows(x)
    <3>1. Last(walk[x]).at = "body" /\ Goto(x, "flows")
      BY <2>4 DEF StartFlows, At
    <3>2. QED
      BY <1>1, <1>2, <3>1, PastEnable, GotoGuards, GoesOn DEF RunSteps
  <2>5. CASE EndFlows(x)
    <3>1. Last(walk[x]).at = "flows" /\ Proceed(x, "body")
      BY <2>5 DEF EndFlows, At
    <3>2. QED
      BY <1>1, <1>2, <3>1, ProceedGuards, Proceeds
  <2>6. CASE RunChild(x)
    BY <1>2, <2>6, RunChildGuards
  <2>7. CASE EndChildren(x)
    <3>1. Last(walk[x]).at = "body" /\ Proceed(x, "body")
      BY <2>7 DEF EndChildren, At
    <3>2. QED
      BY <1>1, <1>2, <3>1, ProceedGuards, Proceeds
  <2>8. QED
    BY <2>1, <2>2, <2>3, <2>4, <2>5, <2>6, <2>7 DEF Run
<1>4. QED
  BY <1>1, <1>3, RunsGuarded

LEMMA NextGuards ==
  ASSUME NoResets, Rested, WalksInTree, GuardedWalks, [DispatchNext]_all_vars
  PROVE  GuardedWalks'
<1>1. CASE UNCHANGED all_vars
  BY <1>1 DEF all_vars, dispatch, GuardedWalks
<1>2. CASE Next /\ UNCHANGED dispatch /\ Track
  BY <1>2, IdleGuarded DEF dispatch
<1>3. ASSUME NEW i \in Irqs, Raise(i), Track PROVE GuardedWalks'
  BY <1>3, IdleGuarded DEF Raise
<1>4. ASSUME NEW x \in Contexts, Run(x), Track PROVE GuardedWalks'
  BY <1>4, RunGuards
<1>5. ASSUME NEW x \in Contexts, NEW t \in Top, Trigger(x, t), Track PROVE GuardedWalks'
  BY <1>5, TriggerGuards
<1>6. QED
  BY <1>1, <1>2, <1>3, <1>4, <1>5 DEF DispatchNext

(* An IRQ that has been off ever since an interrupt was taken runs no flow *)
(* in it, nor does anything below it, for any forest, policies, calls but  *)
(* reset, and number of contexts.                                          *)
THEOREM OffRunsNoFlows ==
  ASSUME ProperUse, NoResets PROVE DispatchSpec => FlowsOnlyWhenOn
<1> DEFINE Clean == \A x \in Contexts :
      StartsFlows(x) => Path(x) \cap Controlled \cap off_since[x] = {}
<1>1. DispatchInit => GuardedWalks
  BY DEF DispatchInit, GuardedWalks, Guarded
<1>2. GuardedWalks /\ WalksInTree => Clean
  <2> SUFFICES ASSUME GuardedWalks, WalksInTree, NEW x \in Contexts, StartsFlows(x)
               PROVE  Path(x) \cap Controlled \cap off_since[x] = {}
    OBVIOUS
  <2>1. walk[x] # <<>> /\ Last(walk[x]).at = "body" /\ walk[x] \in Seq(Activation)
    BY TopActivation DEF StartsFlows, At
  <2>2. \A k \in DOMAIN walk[x] : walk[x][k].at = "body"
    BY <2>1 DEF GuardedWalks, Guarded, Last
  <2>3. \A k \in DOMAIN walk[x] : walk[x][k].irq \in Controlled
                                    => walk[x][k].irq \notin off_since[x]
    BY <2>1, <2>2 DEF GuardedWalks, Guarded, Passed
  <2>4. QED
    BY <2>3 DEF Path
<1>3. Rested /\ DispatchInv /\ GuardedWalks /\ [DispatchNext]_all_vars => GuardedWalks'
  BY NoResets, NextGuards DEF DispatchInv
<1>4. DispatchSpec => []Rested
  BY ProperUse, NoResets, RestedAlways
<1>5. GuardedWalks /\ DispatchInv => Clean
  BY <1>2 DEF DispatchInv
<1>6. GuardedWalks /\ DispatchInv /\ [DispatchNext]_all_vars => [Clean]_all_vars
  BY <1>5
<1>7. QED
  BY <1>1, <1>3, <1>4, <1>6, DispatchInvariant, PTL DEF DispatchSpec, FlowsOnlyWhenOn
=============================================================================
