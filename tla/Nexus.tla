------------------------------- MODULE Nexus -------------------------------
(***************************************************************************)
(* A project from its configuration to its main loop: the extensions of    *)
(* the components are gathered by service and built (src/include/nexus),   *)
(* init points cib::service and cib::invoke_service at what was built, and *)
(* top::main runs the phases of the program (src/include/cib/top.hpp)      *)
(* while interrupts call services at any time.                             *)
(*                                                                         *)
(* A project is a tree of configuration items, [root, node]; a node is     *)
(*   [kind |-> "exports", services]         cib::exports                   *)
(*   [kind |-> "extend", by, target, funcs] cib::extend, by type or name   *)
(*   [kind |-> "config", parts]             cib::config, cib::components   *)
(*   [kind |-> "constexpr", holds, parts]   cib::constexpr_condition       *)
(*   [kind |-> "runtime", condition, parts] cib::runtime_condition         *)
(* and a function added to a service is [func, conditions].                *)
(***************************************************************************)
EXTENDS Integers, Sequences, SequencesExt, FiniteSets

CONSTANTS
  Projects,      \* the configurations a behaviour may be of
  name_of,       \* the name of each type of service, or no_name
  in_order,      \* the services that are callbacks; the others are flows
  Phases,        \* <<EarlyRuntimeInit, RuntimeInit, RuntimeStart, MainLoop>>
  Conditions,    \* the runtime conditions
  Functions,     \* what services are extended with
  main,          \* the context of top::main
  Interrupts,    \* the contexts that interrupt it
  MaxCalls,      \* bound: calls by interrupts
  no_name, no_service

ASSUME NexusAssumption ==
  /\ Range(Phases) \subseteq DOMAIN name_of /\ Len(Phases) = 4
  /\ in_order \subseteq DOMAIN name_of
  /\ no_service \notin DOMAIN name_of
  /\ main \notin Interrupts
  /\ MaxCalls \in Nat

Types == DOMAIN name_of
Names == Range(name_of) \ {no_name}
Contexts == Interrupts \cup {main}

Added == [func : Functions, conditions : {{}}]

Nodes ==
  [kind : {"exports"}, services : Seq(Types)]
  \cup [kind : {"extend"}, by : {"type"}, target : Types, funcs : Seq(Added)]
  \cup [kind : {"extend"}, by : {"name"}, target : Names, funcs : Seq(Added)]
  \cup [kind : {"config"}, parts : Seq(Nat)]
  \cup [kind : {"constexpr"}, holds : BOOLEAN, parts : Seq(Nat)]
  \cup [kind : {"runtime"}, condition : Conditions, parts : Seq(Nat)]

Parts(node) == IF node.kind \in {"exports", "extend"} THEN <<>> ELSE node.parts

\* The items are numbered from the root down, and each is in one place.
IsTree(p) ==
  /\ p.root \in DOMAIN p.node
  /\ \A m \in DOMAIN p.node : m = p.root \/ \E n \in DOMAIN p.node : m \in Range(Parts(p.node[n]))
  /\ \A n \in DOMAIN p.node : \A i \in DOMAIN Parts(p.node[n]) :
       LET part == Parts(p.node[n])[i]
       IN /\ part \in DOMAIN p.node /\ n < part
          /\ \A m \in DOMAIN p.node : \A j \in DOMAIN Parts(p.node[m]) :
               Parts(p.node[m])[j] = part => m = n /\ j = i

\* A member of Functions is a place in the project where something is added.
AddedOnce(p) ==
  \A m, n \in {k \in DOMAIN p.node : p.node[k].kind = "extend"} :
    \A i \in DOMAIN p.node[m].funcs, j \in DOMAIN p.node[n].funcs :
      p.node[m].funcs[i].func = p.node[n].funcs[j].func => m = n /\ i = j

ASSUME ProjectTypes ==
  \A p \in Projects : p.node \in Seq(Nodes) /\ IsTree(p) /\ AddedOnce(p)

VARIABLES
  project,       \* the configuration; like the next two it is fixed when compiled
  exports,       \* the services it exports, in order
  built,         \* the functions of each service that is built
  holds,         \* what the runtime conditions evaluate to
  services,      \* the types whose cib::service points at what was built
  by_name,       \* the names whose cib::invoke_service is set
  naming,        \* the service whose name init sets next
  phase,         \* of main: 0 during init, then an index into Phases
  calls,         \* per context: the service it runs, what is left and what is done
  called         \* calls by interrupts so far

compiled == <<project, exports, built>>
vars == <<compiled, holds, services, by_name, naming, phase, calls, called>>

----------------------------------------------------------------------------
(* The configuration. *)

\* exports::extends_tuple: an exported service is extended with nothing, so
\* that it is built also when no component extends it.
exported_extends(node) ==
  [i \in DOMAIN node.services |-> [by |-> "type", target |-> node.services[i], funcs |-> <<>>]]

\* A function under a further condition.
when(f, condition) == [f EXCEPT !.conditions = @ \cup {condition}]

\* Mutant: only the first function of an extension gets the condition.
conditional_first(extend, condition) ==
  [extend EXCEPT !.funcs =
     [i \in DOMAIN extend.funcs |->
        IF i = 1 THEN when(extend.funcs[i], condition) ELSE extend.funcs[i]]]

\* runtime_conditional: every function gets the condition.
conditional(extend, condition) ==
  [extend EXCEPT !.funcs = [i \in DOMAIN extend.funcs |-> when(extend.funcs[i], condition)]]

config_extends(node, parts_extends) ==
  CASE node.kind = "exports" -> exported_extends(node)
    [] node.kind = "extend" -> <<[by |-> node.by, target |-> node.target, funcs |-> node.funcs]>>
    [] node.kind = "config" -> parts_extends
    [] node.kind = "constexpr" -> IF node.holds THEN parts_extends ELSE <<>>
    [] node.kind = "runtime" ->
         [i \in DOMAIN parts_extends |-> conditional(parts_extends[i], node.condition)]

\* What each item of a project extends.
extends_in(p) ==
  LET extends[n \in DOMAIN p.node] ==
        config_extends(p.node[n], FlattenSeq([i \in DOMAIN Parts(p.node[n]) |->
                                                extends[Parts(p.node[n])[i]]]))
  IN extends

extends_tuple(p) == extends_in(p)[p.root]

\* What each item exports; a runtime condition keeps what is exported under it.
exports_in(p) ==
  LET exported[n \in DOMAIN p.node] ==
        IF p.node[n].kind = "exports" THEN p.node[n].services
        ELSE IF p.node[n].kind = "constexpr" /\ ~p.node[n].holds THEN <<>>
        ELSE FlattenSeq([i \in DOMAIN Parts(p.node[n]) |-> exported[Parts(p.node[n])[i]]])
  IN exported

get_exports(p) == exports_in(p)[p.root]

\* The first export with a name.
named(exported, name) == SelectInSeq(exported, LAMBDA s : name_of[s] = name)

locate_service(exported, extend) ==
  IF extend.by = "type" THEN extend.target ELSE exported[named(exported, extend.target)]

\* The static assertions of locate_service.
Compiles(exported, extends) ==
  \A extend \in Range(extends) :
    IF extend.by = "type" THEN extend.target \in Range(exported)
    ELSE named(exported, extend.target) # 0

\* initialized_builders: fold_right adds the last extension first.
builder(exported, extends, service) ==
  LET added(e) == IF locate_service(exported, e) = service THEN e.funcs ELSE <<>>
  IN FlattenSeq(Reverse([i \in DOMAIN extends |-> added(extends[i])]))

initialized_builders(exported, extends) ==
  [s \in {locate_service(exported, e) : e \in Range(extends)} |-> builder(exported, extends, s)]

----------------------------------------------------------------------------
(* The program. *)

no_call == [service |-> no_service, left |-> <<>>, done |-> <<>>]

Init ==
  /\ project \in Projects
  /\ exports = get_exports(project)
  /\ LET extends == extends_tuple(project)
     IN Compiles(exports, extends) /\ built = initialized_builders(exports, extends)
  /\ holds \in [Conditions -> BOOLEAN]
  /\ services = {} /\ by_name = {} /\ naming = no_name
  /\ phase = 0
  /\ calls = [c \in Contexts |-> no_call]
  /\ called = 0

\* Mutant: a service that no component extends is not named.
name_if_extended(s) == IF built[s] = <<>> THEN no_name ELSE name_of[s]

\* What init sets invoke_service of, if the service has a name.
name_to_set(s) == name_of[s]

\* nexus::init, for one service; which comes first is up to the type names.
InitService ==
  /\ phase = 0 /\ naming = no_name
  /\ \E s \in DOMAIN built \ services :
       /\ services' = services \cup {s}
       /\ naming' = name_to_set(s)
  /\ UNCHANGED <<compiled, holds, by_name, phase, calls, called>>

InitName ==
  /\ phase = 0 /\ naming # no_name
  /\ by_name' = by_name \cup {naming}
  /\ naming' = no_name
  /\ UNCHANGED <<compiled, holds, services, phase, calls, called>>

InitReturns ==
  /\ phase = 0 /\ naming = no_name /\ DOMAIN built \subseteq services
  /\ phase' = 1
  /\ UNCHANGED <<compiled, holds, services, by_name, naming, calls, called>>

\* A call through the pointer of a service; before init set it, it panics.
Run(c, service) ==
  calls' = [calls EXCEPT ![c] =
    [service |-> service, left |-> built[service], done |-> <<>>]]

Call(c, service) == service \in services /\ Run(c, service)

\* top::main, in a phase.
RunPhase ==
  /\ phase > 0 /\ calls[main] = no_call
  /\ Call(main, Phases[phase])
  /\ UNCHANGED <<compiled, holds, services, by_name, naming, phase, called>>

Interrupt(c) == c \in Interrupts /\ calls[c] = no_call /\ called < MaxCalls

CallByType(c, service) ==
  /\ Interrupt(c) /\ Call(c, service)
  /\ called' = called + 1
  /\ UNCHANGED <<compiled, holds, services, by_name, naming, phase>>

\* invoke_service: the function init set finds the service by its name.
CallByName(c, name) ==
  /\ Interrupt(c) /\ name \in by_name
  /\ Run(c, exports[named(exports, name)])
  /\ called' = called + 1
  /\ UNCHANGED <<compiled, holds, services, by_name, naming, phase>>

\* The handler of a panic is the project's; here the caller goes on.
Panics(c) == called' = called + 1 /\ UNCHANGED <<compiled, holds, services, by_name, naming, phase, calls>>

PanicByType(c, service) == Interrupt(c) /\ service \notin services /\ Panics(c)
PanicByName(c, name) == Interrupt(c) /\ name \notin by_name /\ Panics(c)

\* What a call runs next: a callback its first function, a flow any (the order
\* of a flow is GraphBuilder's).
ready(call) ==
  IF call.service \in in_order THEN {1} \cap DOMAIN call.left ELSE DOMAIN call.left

RunFunction(c) ==
  \E i \in ready(calls[c]) :
    LET f == calls[c].left[i]
    IN /\ calls' = [calls EXCEPT
            ![c].left = RemoveAt(@, i),
            ![c].done = IF \A k \in f.conditions : holds[k] THEN Append(@, f.func) ELSE @]
       /\ UNCHANGED <<compiled, holds, services, by_name, naming, phase, called>>

Returned(c) == calls[c] # no_call /\ calls[c].left = <<>>

\* Mutant: off by one, the phase before the last is repeated.
one_short == IF phase < Len(Phases) - 1 THEN phase + 1 ELSE phase

\* Main goes on to the next phase, and stays in the last.
next_phase == IF phase < Len(Phases) THEN phase + 1 ELSE phase

Return(c) ==
  /\ Returned(c)
  /\ calls' = [calls EXCEPT ![c] = no_call]
  /\ phase' = IF c = main THEN next_phase ELSE phase
  /\ UNCHANGED <<compiled, holds, services, by_name, naming, called>>

MainStep ==
  InitService \/ InitName \/ InitReturns \/ RunPhase \/ RunFunction(main) \/ Return(main)

InterruptStep(c) ==
  \/ \E s \in Types : CallByType(c, s) \/ PanicByType(c, s)
  \/ \E n \in Names : CallByName(c, n) \/ PanicByName(c, n)
  \/ RunFunction(c) \/ Return(c)

Next == MainStep \/ \E c \in Interrupts : InterruptStep(c)

\* Main runs whenever no interrupt does, and interrupts return.
Spec == Init /\ [][Next]_vars /\ WF_vars(MainStep)

----------------------------------------------------------------------------
\* Where a node stands in the tree, read from the leaves to the root.
Under(p, m) == Range(Parts(p.node[m]))

AboveAll(p) ==
  LET above[m \in DOMAIN p.node] ==
        UNION {{q} \cup above[q] : q \in {q \in DOMAIN p.node : m \in Under(p, q)}}
  IN above

Above(p, n) == AboveAll(p)[n]

Live(p, n) == \A m \in Above(p, n) : p.node[m].kind = "constexpr" => p.node[m].holds

\* The functions a service is extended with, by its type or as the first of its
\* name, and that are to run under the conditions there are.
Extending(p, n, service) ==
  /\ p.node[n].kind = "extend" /\ Live(p, n)
  /\ \/ p.node[n].by = "type" /\ p.node[n].target = service
     \/ p.node[n].by = "name" /\ service = exports[named(exports, p.node[n].target)]

Promised(service) ==
  LET p == project
      conditions(n) == {p.node[m].condition : m \in {k \in Above(p, n) : p.node[k].kind = "runtime"}}
  IN UNION {{f.func : f \in Range(p.node[n].funcs)} :
              n \in {m \in DOMAIN p.node :
                       Extending(p, m, service) /\ \A k \in conditions(m) : holds[k]}}

\* A call of a service, by type or by name, at any time and in any context, runs
\* what the components of the project added to it, each function once: nothing
\* of a component that is left out, nothing whose condition does not hold.
RunsWhatWasAdded ==
  \A c \in Contexts : Returned(c) =>
    /\ Range(calls[c].done) = Promised(calls[c].service)
    /\ Len(calls[c].done) = Cardinality(Promised(calls[c].service))

\* Once init has returned every exported service answers, by its type and by its
\* name, whether or not a component extends it.
AnsweredAfterInit ==
  phase > 0 =>
    \A s \in Range(exports) :
      s \in services /\ (name_of[s] # no_name => name_of[s] \in by_name)

\* The program gets to its main loop and stays in it: every function that is to
\* run in the loop is run again and again, whatever interrupts call.
Runs(f) == calls[main].service = Phases[4] /\ f \in Range(calls[main].done)

MainLoopGoesOn ==
  \A f \in Functions :
    (f \in Promised(Phases[4]) ~> Runs(f)) /\ (Runs(f) ~> calls[main] = no_call)
=============================================================================
