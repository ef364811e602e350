----------------------------- MODULE Sequencer -----------------------------
(***************************************************************************)
(* seq::impl: a client calls forward() and backward(); each call polls the *)
(* steps one after the other until one of them is NOT_DONE or there is no  *)
(* further step in that direction.  A step function is external: it is     *)
(* polled, makes some progress and answers DONE or NOT_DONE.  What the     *)
(* steps have brought up so far is kept in unit, a history variable.       *)
(***************************************************************************)
EXTENDS Integers

CONSTANTS
  NumSteps,
  MaxTurns    \* bound: how often the client changes direction

ASSUME NumStepsAssumption == NumSteps \in Nat
ASSUME MaxTurnsAssumption == MaxTurns \in Nat

VARIABLES
  next_step, prev_status, prev_direction,
  at,         \* where the call in progress is: "return" when there is none
  dir,        \* the direction the client wants
  turns,      \* changes of direction so far (bound)
  unit

control == <<next_step, prev_status, prev_direction>>
vars == <<control, at, dir, turns, unit>>

Direction == {"FORWARD", "BACKWARD"}
Status == {"NOT_DONE", "DONE"}

opposite(d) == IF d = "FORWARD" THEN "BACKWARD" ELSE "FORWARD"

Ladder == INSTANCE StepLadder

TypeOK ==
  /\ next_step \in 0 .. NumSteps
  /\ prev_status \in Status
  /\ prev_direction \in Direction
  /\ at \in {"return", "finish", "proceed"}
  /\ dir \in Direction
  /\ turns \in 0 .. MaxTurns
  /\ unit \in [Ladder!StepIndex -> Ladder!Unit]

Init ==
  /\ next_step = 0
  /\ prev_status = "DONE"
  /\ prev_direction = "BACKWARD"
  /\ at = "return"
  /\ dir \in Direction
  /\ turns = 0
  /\ unit = [k \in Ladder!StepIndex |-> "down"]

----------------------------------------------------------------------------
\* The client changes its mind between two calls.
Turn ==
  /\ at = "return"
  /\ turns < MaxTurns
  /\ turns' = turns + 1
  /\ dir' = opposite(dir)
  /\ UNCHANGED <<control, at, unit>>

\* Two mutants: a step left unfinished in the other direction is forgotten,
\* and the previous direction alone decides.
ForgetUnfinished(d) == FALSE

FinishAlways(d) == prev_direction = opposite(d)

MustFinish(d) == prev_direction = opposite(d) /\ prev_status = "NOT_DONE"

\* go<dir>() is called: finish a step of the opposite direction first?
Go ==
  /\ at = "return"
  /\ IF MustFinish(dir)
     THEN at' = "finish" /\ UNCHANGED prev_direction
     ELSE at' = "proceed" /\ prev_direction' = dir
  /\ UNCHANGED <<next_step, prev_status, dir, turns, unit>>

\* step_forward() and step_backward(): one poll, which answers result.
StepForward(result) ==
  /\ unit' = [unit EXCEPT ![next_step] = IF result = "DONE" THEN "up" ELSE "rising"]
  /\ next_step' = IF result = "DONE" THEN next_step + 1 ELSE next_step

StepBackward(result) ==
  /\ unit' = [unit EXCEPT ![next_step - 1] = IF result = "DONE" THEN "down" ELSE "falling"]
  /\ next_step' = IF result = "DONE" THEN next_step - 1 ELSE next_step

step(d, result) ==
  IF d = "FORWARD" THEN StepForward(result) ELSE StepBackward(result)

\* The unfinished step is polled in its own direction first.
Finish(result) ==
  /\ at = "finish"
  /\ step(opposite(dir), result)
  /\ IF result = "DONE"
     THEN at' = "proceed" /\ prev_direction' = dir
     ELSE at' = "return" /\ UNCHANGED prev_direction
  /\ UNCHANGED <<prev_status, dir, turns>>

\* A mutant: one step short.
ContinueShort(d) == IF d = "FORWARD" THEN next_step < NumSteps - 1 ELSE next_step > 0

can_continue(d) == IF d = "FORWARD" THEN next_step < NumSteps ELSE next_step > 0

\* The while loop: one step in the requested direction.
Proceed(result) ==
  /\ at = "proceed"
  /\ can_continue(dir)
  /\ step(dir, result)
  /\ IF result = "DONE"
     THEN UNCHANGED <<at, prev_status>>
     ELSE at' = "return" /\ prev_status' = "NOT_DONE"
  /\ UNCHANGED <<prev_direction, dir, turns>>

\* No step is left: the call returns DONE.
Complete ==
  /\ at = "proceed"
  /\ ~can_continue(dir)
  /\ at' = "return"
  /\ prev_status' = "DONE"
  /\ UNCHANGED <<next_step, prev_direction, dir, turns, unit>>

Poll(result) == Finish(result) \/ Proceed(result)

Next == Turn \/ Go \/ Complete \/ \E result \in Status : Poll(result)

Spec == Init /\ [][Next]_vars

\* The client keeps calling, and a step that is polled again and again is
\* done at some point.
FairSpec ==
  /\ Spec
  /\ WF_vars(Go)
  /\ WF_vars(Complete)
  /\ WF_vars(\E result \in Status : Poll(result))
  /\ SF_vars(Poll("DONE"))

----------------------------------------------------------------------------
(* A call in progress only polls steps that exist: step_backward reads     *)
(* _backward_steps[next_step - 1] without looking at next_step.            *)
PollInRange ==
  at = "finish" => IF opposite(dir) = "FORWARD" THEN next_step < NumSteps
                                               ELSE next_step > 0

\* The step the previous call polled last, if it was not done.
Polled == IF prev_direction = "FORWARD" THEN next_step ELSE next_step - 1

Moving == IF prev_direction = "FORWARD" THEN "rising" ELSE "falling"

Settled(k) == IF k < next_step THEN "up" ELSE "down"

(* What the steps have brought up is what next_step says, except for one   *)
(* step that is under way, and that step and its direction are remembered  *)
(* by prev_status and prev_direction until it is polled again.             *)
StepsMatch ==
  \A k \in Ladder!StepIndex :
    IF k = Polled /\ prev_status = "NOT_DONE"
    THEN unit[k] = Moving \/ (at = "proceed" /\ unit[k] = Settled(k))
    ELSE unit[k] = Settled(k)

(* The steps are taken in order, and none is reversed before it is done.   *)
StepsInOrder == Ladder!LadderSpec

(* As long as the client asks for one direction, every step gets there.    *)
Arrives ==
  \A d \in Direction :
    dir = d ~> \/ dir # d
               \/ \A k \in Ladder!StepIndex :
                    unit[k] = IF d = "FORWARD" THEN "up" ELSE "down"
=============================================================================
