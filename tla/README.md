# Verification of the compile-time init-build library

The library lets the components of an embedded program extend services that
are put together when the program is compiled: flows of actions, interrupt
configurations, message handlers, log back ends.  What is left at run time is
small, runs without an allocator and often in interrupt context, and is hard
to test: interleavings with interrupt handlers, orders a compiler chose, and
the long sequences of legal calls nobody writes a test for.  This directory
holds TLA+ models of those parts, the TLC instances that check them and TLAPS
proofs about them.

Paths below are relative to `src/`.

## 1. Inventory

| Component | Code | State it keeps | Operations | Modelled |
|---|---|---|---|---|
| Interrupt configuration | `include/interrupt/config.hpp`, `fwd.hpp`, `concepts.hpp` | none; a tree of types | `descendants`, `all_flows_t`, `all_resources_t`, what each IRQ contributes to a register | `IrqConfig` |
| Dynamic controller | `include/interrupt/dynamic_controller.hpp`, `policies.hpp` | the sets of enabled resources, flows and names; a shadow of every enable register | `init`, `reset`, `refresh_*`, `enable` and `disable` by type (with or without propagation) and by name | `ControlCalls`, `DynamicController` |
| Manager and dispatch | `include/interrupt/manager.hpp`, `impl.hpp` | none of its own; the status fields in hardware | `init`, `run<Number>` | `IrqDispatch` |
| Sequencer | `include/seq/impl.hpp` | `next_step`, `prev_status`, `prev_direction` | `forward`, `backward` | `Sequencer` |
| Flow language | `include/flow/dsl/`, `step.hpp`, `builder.hpp` | none; fragments | `&&`, `>>`, `*`, `_ref`, `cib::extend`, runtime conditions | `FlowDsl` |
| Flow graph builder | `include/flow/graph_builder.hpp`, `graph_common.hpp` | the graph, the sources, the ordered list (while compiling) | the checks, `make_graph`, `topo_sort`, the diagnosis of cycles | `GraphBuilder` |
| Flow run | `include/flow/func_list.hpp`, `run.hpp`, `nexus/detail/runtime_conditional.hpp` | where the run has got to | running the list, evaluating conditions | `FlowRun` |
| Flow visualisation | `include/flow/viz_builder.hpp`, `debug_builder.hpp` | none | text output of the graph | no |
| Nexus and top | `include/nexus/`, `include/cib/top.hpp` | the function pointers of the services | composition, `init`, calls by type and by name, `top::main` | `Nexus` |
| Matchers | `include/match/`, `msg/field_matchers.hpp` | none; terms | `simplify`, `negate`, `implies`, `sum_of_products` | `FieldRelations`, `Matchers` |
| Callbacks, handlers, indexed dispatch | `include/msg/` and its `detail/` | the indices (built while compiling) | adding callbacks, building the indices, `handle` | `Callbacks`, `IndexedBuilder`, `MessageHandler`, `MessageService` |
| Sending messages | `include/msg/send.hpp` | none; senders | `send`, `then_receive` | no |
| Fields and messages | `include/msg/field.hpp`, `message.hpp` | the message's storage | `insert`, `extract`, `extend`, `pack`, `overlay`, `relaxed_message`, `rename_field`, owners and views | `MessageLayout`, `MessageStorage` |
| Lookup | `include/lookup/` | tables (built while compiling) | choosing a strategy, computing the hash, building the table, looking up | `PseudoPext`, `Lookup` |
| Log, formatting | `include/log/`, `include/log_fmt/` | none | log calls, `CIB_FATAL`, `log_version`; environments, text | `BinaryLog` (the front end) |
| Binary log | `include/log_binary/` | none; the destinations | packing a message, writing it to each destination | `MipiPackets`, `BinaryLog` |
| String catalog, log decoder | `python/cib/gen_str_catalog.py`, `log_decode.py`, `mipi_messages.py` | the JSON kept from build to build | assigning remembered, fixed and fresh identifiers; decoding a log | `Catalog`, `MipiPackets` |

How they interact.  Components extend services in a `cib::config`; the nexus
passes the extensions to each service's builder while compiling, and `init`
stores a function pointer per service.  Flows are services: their builder
sorts the steps and the pointer runs the list.  An interrupt configuration
names flows; `interrupt::manager::run`, called by an interrupt handler, walks
the IRQs, reads enable and status fields through the program's HAL in the same
critical section the dynamic controller uses, and runs flows.  The dynamic
controller is called from anywhere, including those flows.  Message handlers
are services that call the callbacks whose matchers accept a message; the
indexed ones use lookups.  Everything may log, and logging takes one critical
section per destination.

What is hard, and what makes each part correct:

* *Controller.*  Threads and interrupt handlers call it at the same time, on
  fields that share registers, and it never reads a register back: a call must
  take effect as a whole, no update may be lost, and the shadow must never
  differ from the register, because a difference is not repaired later
  (`write_if_changed` skips the write).
* *Dispatch.*  The enable field is read in the critical section, the status
  field and the flows are outside it.  An IRQ that was switched off before an
  interrupt must not run its flows; an event must not be lost between the
  clearing of a status and the start of the flows.
* *Sequencer.*  Polling, with changes of direction while a step is under way:
  what it remembers must be what the steps have done, indices must stay in
  range, and a client that keeps asking must arrive.
* *Flows.*  The order written by many components must hold in the list, a
  cyclic flow must be refused and no other, and conditions that change during a
  run must not break a sequence.
* *Messages.*  A matcher is simplified while it is built, multiplied out, cut into
  terms, and partly replaced by indices whose entries depend on all the other
  callbacks; what is called must still be what was written.  Predicates change
  while a message is handled.
* *Fields.*  A field may lie in several places and cross elements of the storage;
  what is written must come back, and no neighbour may change.  Definitions are
  made from definitions, and what was packed side by side must stay apart.
* *Lookups.*  The hash multiplies, so that carries of one stretch of bits disturb
  the next; the table is searched for a bounded number of entries and without a check for its end.  The
  answer must be that of the map, also for keys it has never seen.
* *Logs.*  Contexts log at once, each destination has a lock of its own, a fatal
  message panics; what a destination has taken must decode.
* *Catalog.*  Identifiers are handed out over a series of builds.  Two strings must
  never share one, and a string must keep its own, or old logs decode wrongly.
* *Nexus.*  `init` sets one pointer after the other while interrupts may already
  call; each call must run what the components of the project added, and what
  a compile-time condition leaves out must not run.

`PROJECT.json` lists each hazard at its line with the properties that cover it.

## 2. Modules

### Interrupts

`IrqConfig` is the compile-time configuration: the forest as constants
(`children`, `name_t`, `resources_t`, `element_flows`, `enable_field`,
`register_of`), and as operators what the templates derive from it.  A register's
value is the set of the fields that are set in it, so `|` is union and `& ~mask`
is set difference.

`ControlCalls` has the calls as records and, for each, the enable sets it asks
for, the IRQs it recomputes and the value it gives a register.  The abstract
and the detailed controller share it.

`EnableControl` (abstract): every call takes effect in one step.

`DynamicController` (detailed) takes a call of each of `Callers` through
`Call`, `Enter` (the critical section), `SetEnables` (`enable_one`,
`reset_internal_state`, ...), and for each register `ComputeRegister` (fold of
`compute_register`) and `WriteRegister` (`write_if_changed` or `force_write`),
then `Leave`.  `reset` has no critical section in the code and none here.
`committed` is a history variable: the state the last completed call left.
`CallsAreAtomic` maps it to `EnableControl`.  Usage is a parameter:
`MayReinit` lets `init` be called again, `MayRaceReset` lets `reset` race.

| Code | Model |
|---|---|
| `allowed_enables_t` bitsets `resource_enables`, `flow_enables`, `named_enables` | sets of the same names |
| `shadow_enable<Register>` | `shadow_enable[r]` |
| what `Hal::write` has stored | `enable_register[r]` |
| `conc::call_in_critical_section<mutex_t>` | `mutex`, `Enter`, `SectionAfter` |
| `manager::init` (static part) | `InitialEnables`, constrained in `MCDispatch` to `StaticFields` |

`IrqDispatch` EXTENDS the controller and adds contexts that take interrupts.
`walk[x]` is the stack of `run()` activations of context x; an activation goes
through `ReadEnable`, `ReadStatus`, then `ClearStatus` and the flows
(`StartFlows`, `EndFlows`) or the children (`RunChild`, `EndChildren`) in the
order its status policy says.  The hardware (`Raise`) latches the status
fields of an event and makes the interrupt pending.  The critical section of the
enable read is a condition on `mutex` (the read itself is one step).
`owed` and `off_since` are history variables.

### Sequencer

`Sequencer` models `go<Dir>()` poll by poll: `Go` decides whether a step of the
other direction must be finished, `Finish` and `Proceed` poll (the step answers
`DONE` or `NOT_DONE` freely), `Complete` returns.  `Turn` is the client changing
its mind between two calls.  `unit` is a history variable: what the steps have
brought up.  `StepLadder` (abstract) is the promise to the steps.

### Flows

`FlowDsl` has subgraphs as trees and `initials_of`, `finals_of`, `nodes_of`,
`edges_of`, `all_mentioned_of` as recursive functions over them; a flow is a
sequence of fragments, each with the predicates of the runtime conditions
around it.  `GraphBuilder` takes a flow through `check_for_missing_nodes`,
`make_graph` (with the check that a sequence is not weaker than its steps), and
`PopSource` / `EraseEdge` / `Finish` of `topo_sort`.  Which source is popped is
left open: the code takes the last of a set whose order depends on names, and
nothing may depend on it.  `FlowRun` EXTENDS it with the run of the built list,
while predicates change at any time.  `FlowPromise` (abstract) says what a flow
owes its components.

### Messages

`Matchers` has matchers as records and the operators the templates are, arm by
arm: `negate`, `implies`, `simplify`
with its costs, `sum_of_products`, and `Holds`, which is a matcher's
`operator()`.  `FieldRelations` is what is below them: the relations on a field, their negation, and
the table of which relation implies which.  `Callbacks` is what happens to a callback as written (a matcher,
the matcher of its message, the runtime conditions around it) until it is
registered, and what of it the indices take over (`index_terms`,
`index_not_terms`) or leave (`remove_terms`).

`IndexedBuilder` builds the indices literal by literal: `AddPositive`,
`CollectDefaults`, `AddNegative`, `PropagateDefaults`.  It and `MessageHandler`
know of a service only a record: how many callbacks it has, their literals in
order, which written callback each is from, on what it accepts and on what it is
meant to run.  So they hold no recursive operator and can be proved about.
`MessageService` fills in that record: `Service(indexed, cs)` is what the builder
makes of the written callbacks cs.

| Code | Model |
|---|---|
| `temp_index::entries`, a `cx_map` from keys to bitsets | a function from values to sets of callback numbers |
| a lookup, whatever its strategy | `lookup`: the entry, or the default |
| `indexed_handler::handle`: intersect, then `transform_reduce` over the set bits | `Handle`, then `Invoke` from the lowest candidate up |
| `handler::handle`: a fold over `or` of all callbacks | every callback is a candidate, invoked in any order (the operands of a bitwise `or` are unsequenced) |
| a runtime condition, `match::predicate` | a member of `predicates`, which `Change` may flip between any two steps |

`served` and `steady` are history variables: what this message has called, and
whether the predicates stayed the same.

### Messages: layout and storage

`MessageLayout` has fields as records (name, type, locations, default) and what the
templates compute of them: where a location lies in elements of any size, how much
storage a message takes, and the messages that `extension`, `overlay`, `pack`,
`relaxed_message` and `rename_field` make.  `MessageStorage` makes up to `MaxOps`
definitions from others, then constructs a message of the last one (`Own`: zeros, the
defaults, the values given; `View` and `OwnCopy`: over, or from, storage the program brings along) and sets fields.
A field is inserted as `field_locator_t::insert` does it, from the last location to the
first (`BeginLocator`), and `bits_locator_t::insert` element by element (`InsertFirst`,
`InsertBetween`, `InsertLast`), each with its masks.  `extract_bits` goes the other way.
`Arranging` has the lists that are sorted or filtered, here and in the catalog.
`content` and `apart` are history variables: what each field was set to last (or what its
bits are in the storage brought along), and which fields were packed side by side.

### Lookup

`PseudoPext` is the hash: the packing coefficient, the multiplication and the shift,
on keys that are sets of bits, with the operators that the search for a mask uses.
`Lookup` follows `make`: `DropBit` and `RemoveBit` (`calc_pseudo_pext_mask`),
`PlaceEntry` (`std::sort`, which leaves the order within a bucket open), `Rotate`, and
`FillTable` backwards; or `FillSlot` for the direct table.  Then keys are asked for, and the
search goes entry by entry (`SearchEntry`), so that each index it reads is a state.
`Takes` is what the static assertions ask of the input.  A linear search is the other
strategy, chosen by `make`.

### Binary log

`Catalog` runs the generator over a series of builds: each reads the strings of a program
and the JSON written before (`read_stable`), merges what is remembered with what asks for
a number of its own (`stables`), gives everything else fresh numbers in the order of the texts (`assign_ids`),
writes the JSON and an image.  The image has the number of each string, and does not link if
a string lost its definition to another of the same key.  `MipiPackets` has both sides of the
wire: what the builder packs for a message, and what the decoder makes of a sequence of words with
some catalog, with a byte of `ByteValues` values and fields of `ShortIds`,
`ModuleIds` and `UnitIds` values, which an instance scales down.  `BinaryLog` EXTENDS both:
builds happen, one of the images is booted, contexts log (`Log`, `LogVersion`) and deliver to one
destination after another, a word at a time, in its critical section (`Enter`, `Write`,
`Leave`); a fatal message ends in a panic.

| Code | Model |
|---|---|
| the JSON files | `collaterals`, one per build |
| `catalog<M>()`, `module<M>()` of a program as linked | `images` |
| `conc::call_in_critical_section<Destination>` | `holder`, by the type of the destination |
| what a destination has been given | `streams`, words; `sent`, the lines they should be |

### Nexus and top

`Nexus` takes a project, a tree of configuration items.  `extends_tuple`, `get_exports`,
`locate_service` and `initialized_builders` are what is computed while compiling and fill `exports`
and `built`.  At run time `InitService` and `InitName` are the two assignments that `nexus::init`
makes per service; `RunPhase` is `top::main`; interrupts call by type or by name, before, during
and after `init`, and panic if the pointer is not set.  A call runs its functions one by one, callbacks in
order, flows in any (their order is `GraphBuilder`'s).

### Instances

`MCController`, `MCDispatch`, `MCGraph`, `MCFlow` (with the notation of
`FlowInputs`), `MCMessages`, `MCStorage`, `MCLookup`, `MCLog` and `MCNexus` are the instances.  An operator commented "a mutant" is not part
of a model: it is the form a bug would give the operator below it, used to see
that the properties notice.

## 3. Runs

| Run | Instance and bounds | What it shows |
|---|---|---|
| `ctl_mixed` | tree shared → sub0, sub1 (that of `test/interrupt/dynamic_controller.cpp` with two sub-IRQs), whose enable fields share a register; two callers, three calls each, of every kind | `ShadowIsRegister`, `ElementsAgree`, `NoGlitch`; refines `EnableControl` (`CallsAreAtomic`) |
| `ctl_propagate` | same tree, one resource or flow at a time with propagation, three calls each, fair callers | `ContainersAgree`, `TurnedBackOn`, `EveryCallReturns` |
| `irq_served` | shared → nested → sub0, sub1, and a plain IRQ; two contexts, two events, one caller with two calls that leave sub0 and the plain IRQ alone; sub1 clears its status last, the plain IRQ never; fairness | `EventKept`, `FlowsOnlyWhenOn`, `EventsServed` |
| `seq_steps` | four steps, six changes of direction | `PollInRange`, `StepsMatch`, `Arrives`; refines `StepLadder` (`StepsInOrder`) |
| `flow_graphs` | every graph on three steps, and on four without self-loops; every pair of fragments of at most one operator on two steps; every fragment of two operators on three steps | `BuiltInOrder`, `CyclicIsCyclic`, `WithinCapacity`, `LookupSucceeds`, `SequencesInOrder` |
| `flow_run` | three steps with all combinations of conditions on two predicates, and starred leaves in conditional sequences | `SequencesRun`, `OnlyAddedStepsRun`; refines `FlowPromise` (`RunsKeepPromise`) |
| `flow_starred` | a starred composite under a condition | violation of `OnlyAddedStepsRun` |
| `msg_services` | messages of two fields of three values, one predicate; plain and indexed services with: one callback of any two relations on a field, or of up to three atoms; pairs out of twelve matchers, one of them for a message with a matcher, the other under a runtime condition; triples | `IndexSelects`, `TermsMeanMatchers`, `CalledAsMatched` |
| `msg_storage` | six messages after `test/msg/` and the MIPI messages, with fields across elements, in several places out of order, and wider than their locations; up to two operations on definitions; elements of 8, 16 and 32 bits; one value given, one field set, to no bits or to a pattern of bits | `GetsWhatWasSet`, `OtherBitsKept`, `WritesInStorage`, `PackedApart` |
| `lookup_map` | keys of eight bits; fourteen sets of up to nine keys, dense, sparse and with few distinct hashes; direct tables, indirect ones with searches of up to 1, 2 and 3, linear search with up to four entries and a table beyond; every key asked for, any number of times | `AnswersAsMap`, `ReadsInBounds`, `SearchLenFitsMask` |
| `binary_log` | four programs whose strings come, go, change order and tags and ask for fixed numbers; up to three builds, any image booted; two contexts, two messages, two destinations with locks of their own; arguments of 1 to 8 bytes, signed or not, and enums; bytes of two values, so that small numbers fill the types | `IdsUnique`, `IdsKept`, `LogsDecode`, `FatalIsLogged`, `LogCallsEnd` |
| `nexus_runs` | six projects: extensions by type and by name, of callbacks and of the flows of `top`, under compile-time and runtime conditions, nested; one interrupt context with two calls | `RunsWhatWasAdded`, `AnsweredAfterInit`, `MainLoopGoesOn` |

Why the bounds are enough.  The controller's races are between two calls on one
register: two callers and two fields in it are the smallest case, and a third
caller adds no new kind of overlap because only one is ever past `Enter`.  Three
calls each let an IRQ be switched off, on and off again during a race after
`init`.  Two contexts and two events let an event arrive at each step of the run
that serves the other one, also in the other context.  The sequencer needs a
step below, above and under way, and enough turns to interrupt the finishing of
an interrupted step; four and six do that.  Three steps show every order of the
sort with self-loops, four a diamond and two disjoint cycles.  Two operators show
every way a composite can be a side of another.  Three values have both ends of a
field's range and one between, where the relations differ; two fields let one
callback's literal be another's default; three callbacks let a key be made
by one, excluded by another and left to a third, in every order.  `msg_services`
takes only matchers and services within what the code supports (`OneExclusion`,
`WellIndexed` in `MCMessages`); section 5 says what happens beyond.
Elements of 8 bits make fields cross up to nine of them, 32 is the default; two operations show
each kind of message made from each other kind.  Eight bits are the narrowest key type, wide enough for
masks with gaps, carries between stretches, and more than the four bits below which
no more are traded for longer searches.  Three builds let a string be remembered, left out and come back.
With one bit to a byte, values from -5 to 100 are cut to their types and signs matter, and
three bits of a short identifier have room for every string.  Two messages and two contexts are every overlap of
two deliveries; a third waits for a lock as the second does.  Two calls of an interrupt fall before,
between and after any two steps of `init` and of the main loop.  TLAPS proofs (below) cover all
sizes for the core of these results.

The runs of the interrupt models say `CHECK_DEADLOCK FALSE` because calls and
events are bounded: the model stops when they are used up and everybody is idle.
Those of the flow models do because a build that fails, or has succeeded in
`MCGraph`, is over, `msg_storage` because fields are set a bounded number of times, and
`binary_log` because logs are bounded and a panic stops its context.  The others check
deadlock: the sequencer, message services, lookups and the main loop go on for ever.  Symmetry is used between
callers and between contexts, and only in runs without liveness properties.

Fairness.
`EveryCallReturns` assumes that a caller in a call keeps taking steps (weak
fairness of `Step(c)`): a caller waiting at `Enter` is only enabled while the
section is free, and weak fairness is enough because the calls are bounded, so
the section is free for good at last; with unbounded callers the lock itself,
which the program provides, would have to be fair.
`EventsServed` assumes in addition that a context in a handler runs on and that a
pending interrupt is taken when a context is free, which is what an interrupt
controller does.
`Arrives` assumes that the client keeps calling (`Go`), that a call runs to its
end, and that a step that is polled again and again is done at some time (strong
fairness of `Poll("DONE")`), which is what polling is for: `include/seq/impl.hpp`
gives up on nothing and has no timeout.
`LogCallsEnd` assumes that a context in a log call keeps taking steps (weak fairness of
`Deliver`), as a thread that is scheduled or an interrupt handler does; messages are bounded, so that a
lock is free for good at last.  `MainLoopGoesOn` assumes that main goes on (`MainStep`);
interrupts are bounded and need no fairness, since main does not wait for them.
Nothing assumes that the client stops changing its mind: `Arrives` only speaks of
a direction that is kept.

## 4. Proofs

| Theorem | Module | States |
|---|---|---|
| `TypeCorrect` | `IrqDispatch_proof` | `Spec => []TypeOK`, for every usage, racing resets and repeated inits included |
| `InductiveInvariant`, `ShadowNeverStale` | `IrqDispatch_proof` | `Spec => []ShadowIsRegister` under `ProperUse` |
| `ControllerIsAtomic` | `IrqDispatch_proof` | `Spec => CallsAreAtomic` under `ProperUse` |
| `ElementsAlwaysAgree`, `NoElementGlitch` | `IrqDispatch_proof` | `ElementsAgree` and `NoGlitch` under `ProperUse` |
| `ContainersAlwaysAgree` | `IrqDispatch_proof` | `Spec => []ContainersAgree` under `ProperUse` and `Propagated` |
| `AlwaysTurnedBackOn` | `IrqDispatch_proof` | `Spec => []TurnedBackOn`, with `FieldsUnshared` in addition |
| `EventsAreKept` | `IrqDispatch_proof` | `DispatchSpec => []EventKept`, for any calls |
| `OffRunsNoFlows` | `IrqDispatch_proof` | `DispatchSpec => FlowsOnlyWhenOn` under `ProperUse` and `NoResets` |
| `TypeCorrect`, `PollsInRange`, `StepsAlwaysMatch`, `ImplementsLadder` | `Sequencer_proof` | the safety properties of the sequencer, for any number of steps |
| `BuilderInvariant`, `BuilderTypeCorrect`, `SortIsInOrder`, `DiagnosisIsRight` | `FlowRun_proof` | the sort, for any flow |
| `LookupAlwaysSucceeds`, `SequencesAlwaysInOrder`, `CapacityIsEnough` | `FlowRun_proof` | `LookupSucceeds`, `SequencesInOrder`, `WithinCapacity`, for fragments nested in any way |
| `RunInvariant`, `SequencesAlwaysRun`, `FlowKeepsPromise` | `FlowRun_proof` | the run, for any flow and any changes of the predicates |
| `OnlyAddedStepsEverRun` | `FlowRun_proof` | `Spec => OnlyAddedStepsRun` under `ConditionsReach` |
| `TypeCorrect`, `IndicesSelect` | `Messages_proof` | `Spec => []IndexSelects`, for any number of fields, values, callbacks and literals with `OneLiteral` and `NoSharedNegative` |
| `RelationsImply`, `RelationsInvert` | `Messages_proof` | the table of implications and the negation of relations mean what they say, for a field type of any size; `!=` with two values excepted |
| `HandlerTypeCorrect`, `CallsAsMatched` | `Messages_proof` | `HandlerSpec /\ []TermsMeanMatchers => []CalledAsMatched`, with the same assumptions |
| `PackedStaysApart` | `Messages_proof` | `StorageSpec => []PackedApart`, for any fields, and messages made of others in any order |
| `OtherBitsAlwaysKept` | `Messages_proof` | `StorageSpec => OtherBitsKept`, for any fields over elements of 8, 16 or 32 bits |
| `WritesAlwaysInStorage` | `Messages_proof` | `StorageSpec => []WritesInStorage`, if a storage is at least as large as `storage_size` says |
| `GetsAsSet` | `Messages_proof` | `StorageSpec => []GetsWhatWasSet` under `NoBitTwice`, for any fields, in any places and any order, and messages made of others |
| `LookupAnswersAsMap`, `LookupReadsInBounds`, `LookupSearchLenFits` | `Lookup_proof` | `AnswersAsMap`, `ReadsInBounds`, `SearchLenFitsMask`, for keys of any width, any entries and each strategy |
| `HashInRange`, `FullMaskIsKey` | `Lookup_proof` | the hash of any mask indexes its table, and is the key when the mask has all bits |
| `OneIdOneString` | `BinaryLog_proof` | `Spec => []IdsUnique` under `AskedAreReserved`, for any programs and any series of builds |
| `IdsAlwaysKept` | `BinaryLog_proof` | `Spec => IdsKept` under `AskedAlike` and `NoneForgotten` |
| `FatalAlwaysLogged` | `BinaryLog_proof` | `Spec => []FatalIsLogged`, for any number of contexts and destinations |
| `LogsAlwaysDecode` | `BinaryLog_proof` | `Spec => []LogsDecode` under `AskedAreReserved`, `AskedAlike`, `NoneForgotten`, `CallsFit` and `IdsFit`, for any strings, argument types and values, contexts and destinations |
| `AlwaysAnswers` | `Nexus_proof` | `Spec => []AnsweredAfterInit`, for any project |
| `CallsRunWhatWasAdded` | `Nexus_proof` | `Spec => []RunsWhatWasAdded`, for any project and interrupts at any time |

`IrqDispatch_proof` begins with the controller, `FlowRun_proof` with the builder and
`Messages_proof` with the indices.  `Recursion` has what several proofs share:
a set of naturals has a least member, a function that is written as a
recursion over the parts of a finite structure exists and is unique, and a list that is
sorted or filtered by rank (`Arranging`) has the items it should.  The library's
induction theorems take an operator, which the provers cannot instantiate; these lemmas
take sets and functions instead, and each use goes by the lowest
counterexample.

*Controller.*  `ShadowIsRegister` says nothing of a call under way, so it is not
inductive.  `IInv` adds that at most one caller is past `Enter`, or resetting
alone (`Exclusive`); that nothing but `init` is in progress before `init` has
returned (`InitFirst`); that with nobody updating, the state is the one the
last call left (`AtRest`); and that a call which is updating has changed the enable
sets from that state and exactly the registers it has already visited, each to
the value `NewValue` gives from that state (`MidCall`).  The last is what makes
the refinement go through: when the call leaves, every register it affects has
been visited, so the step is `Apply` of the abstract controller.
`ElementsAgree` and `NoGlitch` follow with one more invariant, that at rest an
element's bit is what `is_on` says: a call that does not affect an element changes
nothing `is_on` of an element depends on, and this is where elements and
containers differ.

Assumptions.  `ConfigTypes`, `Forest`, `Rooted`: the shape of a configuration,
which the library's concepts and static assertions enforce or which follow from
types being distinct.  `WellFounded`: the forest is well-founded, as a tree of types is, and
the two recursions over it have the solution their equations say.
TLC evaluates all of them on the instances.  `CallTypes`, `ControllerConstants`:
types.  `ProperUse` is the usage the theorems need: `init` is called once, `reset`
alone, and `init` is told exactly the fields that are set when the program starts; the instances assume it
(`UsedProperly`), so that TLC evaluates it, and so with the assumptions on calls below.
Section 5 says what the code does without the first and the last.

*Containers.*  A container is on when it is on itself and something below it is, so that its
bit depends on the state of its children.  `ContainersAgree` needs that a call which changes a
child recomputes its parents: `Propagated` says that the calls propagate, or name
the parents of the IRQs they name, and that what a container collects as its resources contains
what its children do.  The latter fails in a tree of three levels with a resource at the bottom
(section 5); it is what the code's one-level `all_resources_t` gives in two levels.  The
invariant (`Containment`) speaks of the state the last call left: there a container of which the controller
has the field (`Controlled`) has its bit set exactly if it is on (`ContainersMatch`), and an IRQ that is on and
shares its field with no other has its bit set, statically enabled or not (`OnMeansEnabled`);
`FieldsUnshared` makes the latter hold of every IRQ.  `ctl_propagate` is an instance of all
these assumptions; TLC evaluates those on calls and fields (`UsedProperly`), and that resources reach holds of it
because its tree has two levels.

*Dispatch.*  `EventKept` needs to know that only elements are owed flows, so that what
walks on from a "body" without starting flows owes nothing, and that a status is cleared
only where the policy clears one; the step to look at is `ClearStatus`, which under
`clear_status_first` hands the event to the body.  `OffRunsNoFlows` builds on the
invariant of the controller.  With the section free, the hardware is what the last call
left (`FreeIsCommitted`), and there an IRQ whose field is set is allowed by its name and
resources (`AllowedWhenSet`: a call that takes one of them away recomputes the IRQ,
container or not) and, if it is an element, by its flows (`CommittedAgrees`).  So what
`ReadEnable` passes is not off at that moment, and `off_since` only shrinks while a
context runs; below the top of its stack every activation is past its enable field
(`Guarded`).  `NoResets` is needed because `reset` clears the enable sets and then the
registers without the section: in between an interrupt may pass a field that is off
already.

*Sequencer.*  `StepsMatch` with `PollInRange` and `TypeOK` is almost inductive;
the invariant adds what `at = "finish"` implies about the previous direction.
Assumptions: `NumSteps` and `MaxTurns` are naturals.

*Sort.*  The invariant says, of each edge, whether it is still in the graph: all
edges of a step that is not yet placed, none of one that is placed and done, and
those in `pending` of the one being erased; and that sources are exactly the
unplaced steps without remaining predecessors.  `SortIsInOrder` then needs that a
step becomes a source only when its last incoming edge goes.  `CyclicIsCyclic`
is the absence of sources.  Assumption: `NoneIsNoName`.

*Language.*  The operators of the flow language are recursive functions over the subgraphs,
which `SubgraphTypes` says are finitely nested, and the flows are sequences over them (`FlowTypes`).
The ends of every edge are mentioned (`EdgeEndsMentioned`), so that after the check for
missing steps none of them is looked up in vain.  `SequencesInOrder` is more than the edges
say: they join the last steps of the left side of a `>>` to the first ones of its right side.
Between a step of a subgraph and the subgraph's first and last steps there
is a path of edges, all of which the list respects.
`WithinCapacity`: the successors of a step are ends of edges that `edge_size` counts.

*Run.*  `SequencesRun` needs that a predicate that has held since the run began
held at both turns (`RanWhenHeld`) and that the builder has checked every
sequence against its steps (`Checked`).
`OnlyAddedStepsRun` fails where a condition is lost (section 5).  `ConditionsReach` says of each fragment with
a condition that what is starred in it are leaves, or composites with starred leaves only; then
every step it adds has the condition (`SubgraphsAdd`, by the lowest subgraph of which it fails).  The instance of
`flow_run` satisfies `ConditionsReach`, and that of `flow_starred` does not.

*Indices.*  `IndexSelects` speaks of the end of the building.  The invariant says,
of each key and callback while the negative literals are processed, why the
callback is under the key (`Yields`): a positive literal of its own put it there,
or it has been excluded from another key, or it is a default that nothing has yet
excluded and the key came with an exclusion.  `OneLiteral` is needed because the
entries of one callback are united where its matcher is a conjunction, and
`NoSharedNegative` because a second exclusion of a value takes the defaults
again, the first one among them.  They are hypotheses of the theorem, and what
`WellIndexed` asks of the instances.

*Calls.*  A callback that is `Due` is known from the service and the message alone.
While a message is handled, the candidates are due, and a due callback that is no
candidate has been called if it accepts and the predicates stayed the same
(`HadItsTurn`).  What is due and accepts is what is meant to run by
`TermsMeanMatchers`, which is about recursive operators on matchers and
is the part that TLC checks.  Assumption: `ServiceTypes`, `MessageTypes`.

*Relations.*  What simplification drops, it drops because one relation on a field is said to imply another.
`RelationsImply` goes through the table of the overloads, for a field type of any size: the entries that
increment a value are right even where it wraps, since a relation with the largest value of the type is then
never or always true.  The one entry it leaves out is `!=` with two different values, which the code gets
wrong (section 5).  With `RelationsInvert` the same holds where a relation is compared with the
negation of another (`and` becomes `never`, `or` becomes `always`).  The recursion of `implies` over
`and` and `or` is on top of it, and stays with TLC.

*Fields.*  A message is a list of located fields, whatever it is made of.  What is sorted and made
unique by name has the names there were (`UniqueByName`); what is packed is a field of one of the
messages, moved by the sum of the sizes before it (`PackIs`), and since no bit of a message is beyond its
size (`BitsInSize`, which comes from the rounding in `extent`) fields of different messages share
no bit (`PackKeepsApart`).  `DefinitionInv` adds to `PackedApart` that the pairs in `apart` are of
two fields of the message; `Relax` needs that a name tells which of the fields it came from.
An insertion under way (`InsertionInv`) is at the start of its location or at the start of an
element, inside the location, and what is left of the value is no longer than what is left of the
location.  Then the bits that are masked out and set are bits of the location (`PartOfLocation`), and the
element is one of those that `storage_size` counts (`RoomInv`).  The divisions and remainders by the
size of an element are done once for each of 8, 16 and 32 bits.  Assumptions: `FieldTypes` and
`StorageTypes`, the shape of fields and of the program's choices, and for `WritesInStorage` that the storage has the
size the message asks for or more; the code's own check admits less (section 5).

*What a field reads.*  `GetsWhatWasSet` follows from two invariants.  `WritingInv` describes the storage while
a field is being inserted: the bits of the locations already inserted, and those of the present one
up to the element at hand, are the bits of the value that belong there (`SpotIs` says which bit of the value
a bit of a location is); the steps change no others (`PartWrites`).  So when the last element is written
every bit of the field is a bit of the value, reading element by element gives the bits in
their order (`ReadingIs`), and what a field reads depends on its bits alone (`SameReading`).  `ContentInv` says
of each field that shares no bit with another that it reads as it was set last; a step that inserts a
field leaves such fields alone, by `OtherBitsAlwaysKept`'s argument.  The layouts stay such that a name stands for one field and
a field for bits that are all different (`LayoutStep`).
Assumptions: `NoBitTwice`, that no field which the program writes down names a bit twice, neither within a location nor in two: the
code has no check of that (`include/msg/field.hpp:411` asks for valid locations and compares sizes), and
a field that does cannot hold every value.  The instance of `msg_storage` is assumed to have it
(`MessagesNameBitsOnce`), so that TLC evaluates it; and `Spare`, by how much a storage is longer, are naturals.

*Lookups.*  The invariant follows the construction.  While the mask is reduced, the
search length is the size of the largest bucket of the mask (`MaskInv`).  When the table is filled,
the storage has each bucket in one stretch, the largest of them at the end thanks to the
rotation, so that a search of `search_len` entries from the first entry of any bucket ends
within the storage; and the table has that first entry for each hash, or entry 1 for a hash
without entries (`TableInv`).  While a key is looked for, it is not among the entries
already seen (`SearchInv`), and after `search_len` of them its bucket has been seen
whole, so that it has no entry.  A direct table has one slot per hash, and no two entries share one.
Of the hash two facts are needed: that it stays in the table (`HashInRange`), and that it keeps
keys apart while no bit has been dropped (`FullMaskIsKey`).  A number is the sum of the powers of
two of its bits, in whichever order they are added (`SumsTake`), so that the n lowest bits give each number below
2^n once (`NumbersFit`); and no stretch of the mask is shifted down, because the gaps that `gap_bits` counts are at
least those above its first bit (`GapsOf`).  What the carries do to the hash in between does not matter.
The only assumption is `LookupTypes`.

*Catalog.*  The invariant describes the JSON that each build leaves: every string has an
identifier, reserved ones only if it asks for it, and no two keys share one (`WellNumbered`); and the images
have the identifiers of their catalog.  A build keeps it because the generator's
count leaves out what is remembered, reserved or asked for, and counts each number once.
`AskedAreReserved`: the identifiers strings ask for are reserved, and no two keys ask
for the same; the generator checks neither.  For `IdsKept` the invariant adds that a key has one
identifier over all collaterals, and that the last one has every key there was.
`AskedAlike` says that a string asks for the same identifier, or for none, wherever it is mentioned: one that
later asks for a number is renumbered (section 5).  `NoneForgotten` leaves out `--forget_old_ids`.
TLC evaluates all three on the instance of `binary_log` (`StringsAskWell`).

*Fatal messages.*  The invariant follows a context through the destinations: it has written its
message to all those before the one it is at.

*Decoding.*  `LogsAlwaysDecode` joins three arguments.  Numbers: the bytes of a number give it back, unsigned
or as two's complement (`weight` is the value of each byte), and what was packed word by
word is read word by word, so that a packet which stands in a stream decodes to its line and ends where
the decoder goes on (`PacketDecodes`).  Streams: `StreamsInv` says that a destination has taken the
packets of the lines handed to it, one after the other (`Laid`), the last one in part exactly while a
context is inside its section, and that this context has written the part that is there (`Delivered`); it is what a
context that writes without the section breaks.  A list that is laid out so is read line by line, up to the first
line that raises (`LogReads`, `StreamDecodes`).  Identifiers: `ImagesInv` says that the identifiers of each
image are those of the catalog written with it, and that each later catalog keeps what an earlier one has, so
that whatever an image writes means the same string in all later catalogs (`RunningKnown`).
Assumptions besides those of the catalog: `CallsFit`, that the values logged are values of the types
of their message, where an enum that is not an enum class must not be negative, since the decoder reads it as unsigned
(section 5); and `IdsFit`, that message identifiers fit the payload of a short message and module identifiers their
field.  For message identifiers that is a bound on the number of strings, on the reserved identifiers
and on those asked for, which the generator does not check; for module identifiers it is the limit it does check.
The instance of `binary_log` is assumed to have both (`ValuesAndIdsFit`), so that TLC evaluates them.

*Nexus.*  A project is a tree of items numbered from the root (`ProjectTypes`), and a function
stands for one place where something is added.  What an item extends and
exports are recursions over its parts, what is above it one in the other direction.  The
lemma that carries the theorem (`GathersAll`) is proved from the leaves up, by the lowest item of which it
fails: the extensions gathered from an item have the functions of all items within it that no
compile-time condition between leaves out, each once, under exactly the runtime conditions between.
At the root that is what `Promised` reads from the leaves to the root.  What is built for a
service has each of these functions once (`BuilderIs`).  The
invariant of a behaviour then says, of each call under way, that what is left is of the service, that what is
done was enabled and is not left, and that nothing enabled was passed over (`Going`); a call by name is
one of a built service because the name is the name of a service that init has set.  For
`AnsweredAfterInit` every exported service is built, extended or not (`OfferedAll`,
`BuiltExports`), and a service that is set has its name set, or it is the name init sets next.
There are no assumptions beyond the types.

*Only model-checked.*  Liveness (`EveryCallReturns`, `EventsServed`, `Arrives`, `LogCallsEnd`,
`MainLoopGoesOn`), which is out of the prover's reach.  What the matcher
operators compute (`TermsMeanMatchers`): they are `RECURSIVE` operators, which cost the prover its backend;
only the relations on fields below them are proved.

## 5. What the code does not do as it says

* `flow_starred`: `when(extend<F>(*(a >> b)))` loses the condition
  (`include/flow/step.hpp:87`), and the steps run when it is false.

Read from the code, and kept out of the models' inputs by the assumptions above
rather than shown by a run (paths are relative to `include/`, except under `python/` and `docs/`).

Interrupts:

* Propagation of a resource goes one level up only (`all_resources_t`,
  `interrupt/config.hpp:80`), so in a three-level tree an interrupt that depends on it
  is not re-enabled, though `docs/interrupts.adoc:225` says that it is.
* `init` called a second time clears the shadow of registers it may then not write
  (`interrupt/dynamic_controller.hpp:411`).
* The manager passes inactive top-level IRQs to `init` as already enabled
  (`interrupt/manager.hpp:55`), after having disabled them.
* With the default policy a top-level IRQ whose resource is off is enabled and runs
  its flows.

Matchers and services:

* `f != 0` is taken to imply `f != 1` (`msg/field_matchers.hpp:189`), so the
  conjunction of two exclusions keeps one of them (`docs/match.adoc:87`, `:171`).
* An indexed service drops every `not`, also one that is not in an index
  (`msg/field_matchers.hpp:84`, against the comment at `:82`).
* Two callbacks of an indexed service that exclude the same value: the second takes
  the default set for that key again (`msg/detail/indexed_builder_common.hpp:104`),
  the first callback included, which is then called on the value it excludes.
  `docs/message.adoc:473` says "the value is the default bitset, excepting the
  current callback index".
* Two literals on one field in one callback, as when the message's matcher names the
  field too: either selects the callback, and neither is asked when it is invoked.
* A callback whose matcher is a sum is called once for each of its terms that the
  message satisfies.
* `with_less_than` is `less_than_or_equal_to_t` (`msg/field.hpp:515`).

Fields and messages:

* `fits_inside` compares the highest bit with `<=` (`msg/field.hpp:204`): a storage that is one
  bit short passes "Fields overflow message storage!".  The instances give storage that is large enough.
* In elements of 64 bits the base index of an odd dword is rounded down
  (`msg/field.hpp:106`), and its fields fall on the low half of the element.
* New fields override old ones of the same name (comment on `extension`, `msg/message.hpp:622`)
  only if they are not located after them: `unique_by_name` keeps the first.

Lookups:

* `calc_pseudo_pext_mask` compares the longest run, which is the search length less one,
  with the greatest search length (`lookup/pseudo_pext_lookup.hpp:241`, "staying under the max
  search length"): a search may be one longer than asked for.

Nexus:

* Callback services run the extensions of later components first (`fold_right`,
  `nexus/detail/nexus_details.hpp`).
* The four services of `top` have the same name, so that one of them is called by it: the first.
* An extension by name under a runtime condition does not compile.

Logs and catalog:

* Two contexts may reach two destinations in different orders; each locks on its own.
* A log call copies the writer with its destinations (`log_binary/catalog/encoder.hpp:105`), so a destination must
  not keep state of its own.
* The identifier of a message goes through `to_le` twice
  (`log_binary/catalog/mipi_builder.hpp:60`), which does nothing on little-endian machines.
* A string remembered from earlier builds that later asks for a number loses its old one, which a fresh
  string may get (`python/cib/gen_str_catalog.py:711`).  Numbers that are asked for are not
  checked against each other, against remembered ones or against 28 bits.
* `--stable_json` of several files: the lists of a later file replace those of an earlier
  one (`dict.update` in `read_stable`).
* `--forget_old_ids` drops the strings a program lacks from the JSON, but still
  uses the remembered identifiers of those it has (`docs/logging.adoc:254`: "disregards the STABLE_JSON information").
* Messages with the same text and arguments and other tags or numbers: only the last gets a definition, and
  the program does not link.
* Nothing checks that a message number fits the 28 bits of a short message; it would be cut.
* The module limit is checked after the C++ file has been written.
* The decoder raises on version messages ("Unknown message type: 0"); it reads an enum that is not an
  enum class as an unsigned number of the packed width.
* The formatting back end has no critical section.

## 6. What is not modelled

*Text*: log formatting, diagnostics, `config()`, descriptions of fields, the flow visualisation
and its debug builder, the XML of the catalog, the parsing of symbols and the extraction of enums.
*Compile-time choices*: environments, overloads (`call_with_message`), conditions that only select fragments.
*Sending* (`include/msg/send.hpp`): thirty lines that put an action and a trigger of the async
library together; what may go wrong is decided in that library, whose sources are not in the repository.
*Equivalence of messages* compares what `get` returns, and changes nothing.
*The short 64-bit message*, which the builder never writes.
*A `reset` that races other calls* is in the model (`MayRaceReset`) and its types are
proved, but nothing in the repository says what it should leave behind, so no
property is stated.  *Fields shared by several IRQs*: a call that recomputes one of
them overwrites the field for the others; the properties speak of IRQs that have
their own field (`Controlled`).  *A flow that is run before its service is
initialised* logs an error.  *Status fields* are assumed to be cleared by writing
them, and the hardware to latch an event while its field is being cleared as a new
one.

## 7. Plan

What is left, in this order:

1. Proofs: what the matcher operators compute, which needs them written as recursive functions.
2. The questions of the debug builder (what lies between two steps of a flow) beside `GraphBuilder`.
3. Sending, against a specification of the triggers it relies on.
