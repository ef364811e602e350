---------------------------- MODULE IrqDispatch ----------------------------
(***************************************************************************)
(* interrupt::manager: the dynamic controller together with the dispatch   *)
(* of interrupts.  A context (an interrupt level or a core) that takes a   *)
(* top-level interrupt runs manager::run<Number>, which walks the tree of  *)
(* that IRQ: it reads the enable field in a critical section on mutex_t,   *)
(* then the status field outside it, clears the status as the policy says  *)
(* and runs the element's flows or the children in declaration order.      *)
(*                                                                         *)
(* The hardware is the environment: an event of an element without parent  *)
(* makes its interrupt pending; an event of a sub-IRQ latches its status   *)
(* field, those of the containers above it and the pending interrupt.      *)
(***************************************************************************)
EXTENDS DynamicController

CONSTANTS
  Contexts,       \* where interrupts are handled
  status_policy,  \* [Irqs -> Policies]
  active_flows,   \* the flows with service_v<Flow>.active
  MaxEvents       \* bound: hardware events

Policies == {"clear_status_first", "clear_status_last", "dont_clear_status"}

ASSUME DispatchConstants ==
  /\ status_policy \in [Irqs -> Policies]
  /\ active_flows \subseteq Flows
  /\ MaxEvents \in Nat

VARIABLES
  status,      \* the IRQs whose status field is set
  raised,      \* top-level interrupts pending in the hardware
  walk,        \* per context: the stack of run() activations
  events,      \* hardware events so far (bound)
  owed,        \* elements with an event no flow has started for (history)
  off_since    \* per context: IRQs off ever since its run began (history)

hardware == <<status, raised, events>>
dispatch == <<hardware, walk, owed>>
all_vars == <<vars, dispatch, off_since>>

\* Config::active of element_irq_impl and container_irq_impl.
active[i \in Irqs] ==
  IF IsContainer(i) THEN \E c \in ChildSet(i) : active[c]
                    ELSE flows_t(i) \cap active_flows # {}

\* init_top_level and irq_init of the HAL: the enable fields it sets.
StaticFields == {enable_field[t] : t \in {u \in Top \cap EnableIrqs : active[u]}}

\* mcu_control_config has no status field, field_control_config has one.
has_status_field(i) == i \notin Top

Above(i) == {p \in Irqs : i \in descendants[p]}

----------------------------------------------------------------------------
\* The hardware.

Raise(i) ==
  /\ events < MaxEvents
  /\ ~IsContainer(i)
  /\ events' = events + 1
  /\ status' = status \cup {j \in {i} \cup Above(i) : has_status_field(j)}
  /\ raised' = raised \cup (({i} \cup Above(i)) \cap Top)
  /\ owed' = owed \cup ({i} \cap {e \in Irqs : active[e]})
  /\ UNCHANGED <<vars, walk>>

\* Interrupts are taken once init has returned, each in one context.
Trigger(x, t) ==
  /\ initialised
  /\ t \in raised
  /\ \A y \in Contexts : walk[y] # <<>> => walk[y][1].irq # t
  /\ walk[x] = <<>>
  /\ raised' = raised \ {t}
  /\ walk' = [walk EXCEPT ![x] =
        IF active[t] THEN <<[irq |-> t, at |-> "enable", next |-> 1]>> ELSE <<>>]
  /\ UNCHANGED <<vars, status, events, owed>>

----------------------------------------------------------------------------
\* The run() of the IRQ on top of a context's stack.

At(x, step) == walk[x] # <<>> /\ Last(walk[x]).at = step

Current(x) == Last(walk[x]).irq

Goto(x, step) ==
  walk' = [walk EXCEPT ![x] = Append(Front(@), [Last(@) EXCEPT !.at = step])]

Return(x) == walk' = [walk EXCEPT ![x] = Front(@)]

\* A mutant: the enable field is read without the critical section.
ReadAnyTime(i) == TRUE

\* read_field<en_t>::with_hal<Hal, Mutex>: a field is read in the critical
\* section, and no_field_t reads as true without one.
MayReadEnable(i) == has_enable_field(i) => mutex = nobody

ReadEnable(x) ==
  /\ At(x, "enable")
  /\ MayReadEnable(Current(x))
  /\ IF has_enable_field(Current(x)) => Enabled(Current(x))
     THEN Goto(x, "status") ELSE Return(x)
  /\ UNCHANGED <<vars, hardware, owed>>

\* A mutant: clear_status_first runs the flows first.
RunFirst(i) ==
  IF status_policy[i] = "dont_clear_status" THEN <<"body">> ELSE <<"body", "clear">>

\* policies.hpp: what a status policy does, in order.
PolicySteps(i) ==
  CASE status_policy[i] = "clear_status_first" -> <<"clear", "body">>
    [] status_policy[i] = "clear_status_last"  -> <<"body", "clear">>
    [] OTHER                                   -> <<"body">>

ReadStatus(x) ==
  /\ At(x, "status")
  /\ IF has_status_field(Current(x)) => Current(x) \in status
     THEN Goto(x, PolicySteps(Current(x))[1]) ELSE Return(x)
  /\ UNCHANGED <<vars, hardware, owed>>

\* The policy's step is done: on to its next one, or run() returns.
Proceed(x, step) ==
  LET steps == PolicySteps(Current(x))
      done  == CHOOSE k \in DOMAIN steps : steps[k] = step
  IN IF done < Len(steps) THEN Goto(x, steps[done + 1]) ELSE Return(x)

ClearStatus(x) ==
  /\ At(x, "clear")
  /\ status' = status \ {Current(x)}
  /\ Proceed(x, "clear")
  /\ UNCHANGED <<vars, raised, events, owed>>

\* Config::isr: the element's flows run, and take time.
StartFlows(x) ==
  /\ At(x, "body")
  /\ ~IsContainer(Current(x))
  /\ owed' = owed \ {Current(x)}
  /\ Goto(x, "flows")
  /\ UNCHANGED <<vars, hardware>>

EndFlows(x) ==
  /\ At(x, "flows")
  /\ Proceed(x, "body")
  /\ UNCHANGED <<vars, hardware, owed>>

\* (Subs::run<Hal, Mutex>(), ...); the run() of an inactive IRQ is empty.
RunChild(x) ==
  LET frame == Last(walk[x])
      child == children[frame.irq][frame.next]
      rest  == Append(Front(walk[x]), [frame EXCEPT !.next = @ + 1])
  IN /\ At(x, "body")
     /\ frame.next <= Len(children[frame.irq])
     /\ walk' = [walk EXCEPT ![x] =
           IF active[child]
           THEN Append(rest, [irq |-> child, at |-> "enable", next |-> 1])
           ELSE rest]
     /\ UNCHANGED <<vars, hardware, owed>>

EndChildren(x) ==
  /\ At(x, "body")
  /\ IsContainer(Current(x))
  /\ Last(walk[x]).next > Len(children[Current(x)])
  /\ Proceed(x, "body")
  /\ UNCHANGED <<vars, hardware, owed>>

Run(x) ==
  \/ ReadEnable(x)
  \/ ReadStatus(x)
  \/ ClearStatus(x)
  \/ StartFlows(x)
  \/ EndFlows(x)
  \/ RunChild(x)
  \/ EndChildren(x)

----------------------------------------------------------------------------
\* An IRQ that must not run flows: off by name or by a resource, and for an
\* element by its flows too.
Off(i) ==
  \/ name_t[i] \notin named_enables
  \/ ~(resources_t[i] \subseteq resource_enables)
  \/ ~IsContainer(i) /\ flows_t(i) \cap flow_enables = {}

OffNow == {i \in Irqs : Off(i)}

Track ==
  off_since' = [x \in Contexts |-> IF walk[x] = <<>> THEN OffNow'
                                   ELSE off_since[x] \cap OffNow']

DispatchInit ==
  /\ Init
  /\ status = {}
  /\ raised = {}
  /\ walk = [x \in Contexts |-> <<>>]
  /\ events = 0
  /\ owed = {}
  /\ off_since = [x \in Contexts |-> OffNow]

DispatchNext ==
  /\ \/ Next /\ UNCHANGED dispatch
     \/ \E i \in Irqs : Raise(i)
     \/ \E x \in Contexts : Run(x) \/ \E t \in Top : Trigger(x, t)
  /\ Track

DispatchSpec == DispatchInit /\ [][DispatchNext]_all_vars

FairDispatchSpec ==
  /\ DispatchSpec
  /\ \A c \in Callers : WF_all_vars(Step(c) /\ UNCHANGED dispatch /\ Track)
  /\ \A x \in Contexts : WF_all_vars(Run(x) /\ Track)
  /\ \A t \in Top : WF_all_vars((\E x \in Contexts : Trigger(x, t)) /\ Track)

----------------------------------------------------------------------------
Path(x) == {walk[x][k].irq : k \in DOMAIN walk[x]}

StartsFlows(x) == At(x, "body") /\ At(x, "flows")'

(* An IRQ that has been off ever since an interrupt was taken runs no flow *)
(* in it, nor does anything below it, whichever calls are in progress: a   *)
(* disable that has returned is seen by every interrupt taken afterwards.  *)
FlowsOnlyWhenOn ==
  [][\A x \in Contexts : StartsFlows(x) =>
       Path(x) \cap Controlled \cap off_since[x] = {}]_all_vars

(* An event is never forgotten by an element that does not clear its       *)
(* status last: until its flows start, the status stays set, or a context  *)
(* has just cleared it and is about to start them.                         *)
EventKept ==
  \A i \in owed \ Top : status_policy[i] # "clear_status_last" =>
    \/ i \in status
    \/ \E x \in Contexts : At(x, "body") /\ Current(x) = i

\* IRQs on from init on, which no other call affects.
Undisturbed ==
  {i \in Irqs : \A cl \in Calls :
     IF cl.op = "init"
     THEN is_on(Names, cl.resources, cl.flows)[i]
     ELSE ({i} \cup Above(i)) \cap AffectedIrqs(cl) = {}}

(* If the containers above clear their status first, an event is served:   *)
(* its flows start, however interrupts and enable calls interleave.        *)
EventsServed ==
  \A i \in Undisturbed : initialised /\ i \in owed ~> i \notin owed
=============================================================================
