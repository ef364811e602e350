------------------------------ MODULE MCNexus ------------------------------
(***************************************************************************)
(* Instances of Nexus for TLC: projects whose components extend callbacks  *)
(* and the flows of top, with and without conditions.                      *)
(***************************************************************************)
EXTENDS Nexus, TLC

CONSTANTS early, init, start, loop, event, other, anonymous, tick, i1
CONSTANTS f1, f2, f3, f4, k

\* The flows of top have the default name of flow::service; callbacks have one
\* of their own, or none.
NameOf ==
  early :> anonymous @@ init :> anonymous @@ start :> anonymous @@ loop :> anonymous
    @@ event :> tick @@ other :> no_name

TopPhases == <<early, init, start, loop>>

Exports(list) == [kind |-> "exports", services |-> list]
Extend(target, funcs) ==
  [kind |-> "extend", by |-> "type", target |-> target,
   funcs |-> [i \in DOMAIN funcs |-> [func |-> funcs[i], conditions |-> {}]]]
ExtendNamed(name, funcs) == [Extend(name, funcs) EXCEPT !.by = "name"]
Config(parts) == [kind |-> "config", parts |-> parts]
If(value, parts) == [kind |-> "constexpr", holds |-> value, parts |-> parts]
When(parts) == [kind |-> "runtime", condition |-> k, parts |-> parts]

\* top's own component at node 1, the project's from node 3 on.
Top(nodes) ==
  [root |-> 1, node |-> <<Config(<<2, 3>>), Exports(TopPhases)>> \o nodes]

AllProjects ==
  {Top(<<Config(<<4, 5, 6, 7>>), Exports(<<event, other>>),
         Extend(loop, <<f1, f2>>), ExtendNamed(tick, <<f3>>), Extend(event, <<f4>>)>>),
   Top(<<Config(<<4, 6, 7>>), When(<<5>>), Extend(loop, <<f1, f2>>),
         ExtendNamed(anonymous, <<f3>>), Extend(loop, <<f4>>)>>)}
  \cup
  {Top(<<Config(<<4, 8>>), If(value, <<5, 6>>), Exports(<<event>>), When(<<7>>),
         Extend(loop, <<f2>>), body>>) :
     value \in BOOLEAN, body \in {Extend(loop, <<f1>>), Extend(event, <<f1>>)}}
=============================================================================
