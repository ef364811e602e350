---------------------------- MODULE FlowPromise ----------------------------
(***************************************************************************)
(* What a flow promises the components that extend it: in every run each   *)
(* step has its turn once, after every step that precedes it, and is run   *)
(* or skipped as its condition then tells.                                 *)
(***************************************************************************)
VARIABLES
  steps,      \* the steps of the flow
  precedes,   \* precedes[m]: the steps that come after m
  condition,  \* condition[n]: the predicates of step n
  truth,      \* the predicates that hold now
  decided,    \* the steps that have had their turn in this run
  ran         \* those that were run

flow_vars == <<steps, precedes, condition>>
vars == <<flow_vars, truth, decided, ran>>

PromiseInit == decided = {} /\ ran = {}

Turn(n) ==
  /\ n \in steps \ decided
  /\ \A m \in steps : n \in precedes[m] => m \in decided
  /\ decided' = decided \cup {n}
  /\ ran' = IF condition[n] \subseteq truth THEN ran \cup {n} ELSE ran
  /\ UNCHANGED <<flow_vars, truth>>

\* The run ends, and the next one may begin.
Return ==
  /\ decided = steps
  /\ decided' = {} /\ ran' = {}
  /\ UNCHANGED <<flow_vars, truth>>

\* The predicates are the program's own.
Change == UNCHANGED <<flow_vars, decided, ran>>

PromiseNext == (\E n \in steps : Turn(n)) \/ Return \/ Change

PromiseSpec == PromiseInit /\ [][PromiseNext]_vars
=============================================================================
