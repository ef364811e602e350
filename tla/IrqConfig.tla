----------------------------- MODULE IrqConfig -----------------------------
(***************************************************************************)
(* The compile-time configuration of the interrupt library: a forest of    *)
(* IRQs (interrupt::root) with the resources, flows, enable fields and     *)
(* status policies given to each, and what the dynamic controller derives  *)
(* from it with its type-level computations.                               *)
(*                                                                         *)
(* An IRQ with children is a container (shared_irq, shared_sub_irq); one   *)
(* without is an element (irq, sub_irq).  A register value is the set of   *)
(* the fields that are set in it.                                          *)
(***************************************************************************)
EXTENDS Naturals, FiniteSets, SequencesExt

CONSTANTS
  Irqs,          \* every configuration in the forest
  Top,           \* the children of the root: the top-level IRQs
  children,      \* [Irqs -> Seq(Irqs)]: sub-IRQs in declaration order
  name_t,        \* [Irqs -> Names]
  resources_t,   \* [Irqs -> SUBSET Resources]: required_resources
  element_flows, \* [Irqs -> SUBSET Flows]: the flows listed by an element
  enable_field,  \* [Irqs -> Fields \cup {no_field}]
  Names, Resources, Flows, Fields,
  no_field,
  Registers,
  register_of    \* [Fields -> Registers]: Hal::get_register<Field>()

ChildSet(i) == Range(children[i])

IsContainer(i) == children[i] # <<>>

ASSUME ConfigTypes ==
  /\ IsFiniteSet(Irqs)
  /\ Top \subseteq Irqs
  /\ children \in [Irqs -> Seq(Irqs)]
  /\ name_t \in [Irqs -> Names]
  /\ resources_t \in [Irqs -> SUBSET Resources]
  /\ element_flows \in [Irqs -> SUBSET Flows]
  /\ no_field \notin Fields
  /\ enable_field \in [Irqs -> Fields \cup {no_field}]
  /\ register_of \in [Fields -> Registers]

\* No IRQ is configured below two parents, and a container lists no flow.
ASSUME Forest ==
  /\ \A i \in Irqs : i \in Top <=> \A p \in Irqs : i \notin ChildSet(p)
  /\ \A p, q \in Irqs : ChildSet(p) \cap ChildSet(q) # {} => p = q
  /\ \A i \in Irqs : IsContainer(i) => element_flows[i] = {}

----------------------------------------------------------------------------
\* What config.hpp derives for each IRQ.

\* parent_config: the children, then the descendants of each of them.
descendants[i \in Irqs] ==
  ChildSet(i) \cup UNION {descendants[c] : c \in ChildSet(i)}

\* An element's own flows; a container's flows_t is empty.
flows_t(i) == IF IsContainer(i) THEN {} ELSE element_flows[i]

\* A container's all_flows_t collects its children's all_flows_t.
all_flows_t[i \in Irqs] ==
  IF IsContainer(i) THEN UNION {all_flows_t[c] : c \in ChildSet(i)}
                    ELSE element_flows[i]

\* A mutant: the children's resources are forgotten.
own_resources_only(i) == resources_t[i]

\* policy_config: its own resources and its children's own resources, one
\* level down and no further.
all_resources_t(i) ==
  resources_t[i] \cup UNION {resources_t[c] : c \in ChildSet(i)}

has_enable_field(i) == enable_field[i] # no_field

\* root: every IRQ hangs below a top-level one, and the types that name
\* resources, flows and IRQs are distinct.
ASSUME Rooted ==
  /\ Irqs = Top \cup UNION {descendants[t] : t \in Top}
  /\ Resources \cap Flows = {}
  /\ Names \cap (Resources \cup Flows) = {}

----------------------------------------------------------------------------
\* What the dynamic controller derives for the whole root.

\* The potential_enable_irqs_t of init and the irqs of reset.
EnableIrqs == {i \in Irqs : has_enable_field(i)}

\* The registers update() visits for a list of IRQs, and the mask of the
\* fields it owns in one of them.
RegistersFor(irqs) == {register_of[enable_field[i]] : i \in irqs \cap EnableIrqs}

FieldsIn(r) == {f \in Fields : register_of[f] = r}

mask_for(irqs, r) == {enable_field[i] : i \in irqs \cap EnableIrqs} \cap FieldsIn(r)

\* dynamic_enable_policy::is_on for one IRQ, given what it is for its
\* children: off by name, or off because a required resource is off,
\* otherwise on if a flow or a child is on.
is_on_given(on, i, named, resources, flows) ==
  /\ name_t[i] \in named
  /\ resources_t[i] \subseteq resources
  /\ \/ flows_t(i) \cap flows # {}
     \/ \E c \in ChildSet(i) : on[c]

\* is_on for every IRQ.
is_on(named, resources, flows) ==
  LET on[i \in Irqs] == is_on_given(on, i, named, resources, flows)
  IN on

\* The forest is well founded: no IRQ is below itself, and the recursions over
\* it have a solution, which the compiler finds by instantiating the templates.
ASSUME WellFounded ==
  /\ \A S \in SUBSET Irqs : S # {} => \E i \in S : ChildSet(i) \cap S = {}
  /\ \A i \in Irqs :
       all_flows_t[i] = IF IsContainer(i) THEN UNION {all_flows_t[c] : c \in ChildSet(i)}
                                          ELSE element_flows[i]
  /\ \A N \in SUBSET Names, R \in SUBSET Resources, F \in SUBSET Flows, i \in Irqs :
       is_on(N, R, F)[i] <=> is_on_given(is_on(N, R, F), i, N, R, F)
=============================================================================
