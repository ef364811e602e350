--------------------------- MODULE Sequencer_proof ---------------------------
(***************************************************************************)
(* The safety of seq::impl for any number of steps: the inductive          *)
(* invariant, the range of the step that is polled, and that a sequencer   *)
(* implements the ladder of StepLadder.                                    *)
(***************************************************************************)
EXTENDS Sequencer, TLAPS

\* Where a call in progress stands tells which direction was recorded.
DirectionRecorded ==
  /\ at = "finish" => prev_direction = opposite(dir) /\ prev_status = "NOT_DONE"
  /\ at = "proceed" => prev_direction = dir

\* Between two calls, an unfinished step exists.
UnfinishedExists ==
  at # "proceed" /\ prev_status = "NOT_DONE" => Polled \in Ladder!StepIndex

IInv == TypeOK /\ DirectionRecorded /\ UnfinishedExists /\ StepsMatch

LEMMA InitInv == Init => IInv
  BY NumStepsAssumption, MaxTurnsAssumption
     DEF Init, IInv, TypeOK, DirectionRecorded, UnfinishedExists, StepsMatch,
         Status, Direction, Settled, Ladder!StepIndex, Ladder!Unit

\* A poll of step_forward keeps the invariant on the step it polls.
LEMMA ForwardPoll ==
  ASSUME IInv, NEW result \in Status, StepForward(result),
         next_step < NumSteps
  PROVE  /\ next_step' \in 0 .. NumSteps
         /\ unit' \in [Ladder!StepIndex -> Ladder!Unit]
         /\ next_step \in Ladder!StepIndex
         /\ result = "DONE" => next_step' = next_step + 1
         /\ result # "DONE" => next_step' = next_step
         /\ unit'[next_step] = IF result = "DONE" THEN "up" ELSE "rising"
         /\ \A k \in Ladder!StepIndex \ {next_step} : unit'[k] = unit[k]
  BY NumStepsAssumption
     DEF IInv, TypeOK, StepForward, Ladder!StepIndex, Ladder!Unit, Status

LEMMA BackwardPoll ==
  ASSUME IInv, NEW result \in Status, StepBackward(result),
         next_step > 0
  PROVE  /\ next_step' \in 0 .. NumSteps
         /\ unit' \in [Ladder!StepIndex -> Ladder!Unit]
         /\ next_step - 1 \in Ladder!StepIndex
         /\ result = "DONE" => next_step' = next_step - 1
         /\ result # "DONE" => next_step' = next_step
         /\ unit'[next_step - 1] = IF result = "DONE" THEN "down" ELSE "falling"
         /\ \A k \in Ladder!StepIndex \ {next_step - 1} : unit'[k] = unit[k]
  BY NumStepsAssumption
     DEF IInv, TypeOK, StepBackward, Ladder!StepIndex, Ladder!Unit, Status

LEMMA FinishInv ==
  ASSUME IInv, NEW result \in Status, Finish(result)
  PROVE  IInv'
<1> USE DEF IInv, TypeOK, DirectionRecorded, UnfinishedExists, StepsMatch,
            Polled, Moving, Settled, opposite, Direction, Status
<1>1. CASE dir = "BACKWARD"
  <2>1. StepForward(result)
    BY <1>1 DEF Finish, step
  <2>2. next_step < NumSteps
    BY <1>1, NumStepsAssumption DEF Finish, Ladder!StepIndex
  <2>3. QED
    BY <1>1, <2>1, <2>2, ForwardPoll, NumStepsAssumption DEF Finish, Ladder!StepIndex
<1>2. CASE dir = "FORWARD"
  <2>1. StepBackward(result)
    BY <1>2 DEF Finish, step
  <2>2. next_step > 0
    BY <1>2, NumStepsAssumption DEF Finish, Ladder!StepIndex
  <2>3. QED
    BY <1>2, <2>1, <2>2, BackwardPoll, NumStepsAssumption DEF Finish, Ladder!StepIndex
<1>3. QED
  BY <1>1, <1>2

LEMMA ProceedInv ==
  ASSUME IInv, NEW result \in Status, Proceed(result)
  PROVE  IInv'
<1> USE DEF IInv, TypeOK, DirectionRecorded, UnfinishedExists, StepsMatch,
            Polled, Moving, Settled, opposite, Direction, Status, can_continue
<1>1. CASE dir = "FORWARD"
  <2>1. StepForward(result) /\ next_step < NumSteps
    BY <1>1 DEF Proceed, step
  <2>2. QED
    BY <1>1, <2>1, ForwardPoll, NumStepsAssumption DEF Proceed, Ladder!StepIndex
<1>2. CASE dir = "BACKWARD"
  <2>1. StepBackward(result) /\ next_step > 0
    BY <1>2 DEF Proceed, step
  <2>2. QED
    BY <1>2, <2>1, BackwardPoll, NumStepsAssumption DEF Proceed, Ladder!StepIndex
<1>3. QED
  BY <1>1, <1>2

LEMMA NextInv == IInv /\ [Next]_vars => IInv'
<1> SUFFICES ASSUME IInv, [Next]_vars PROVE IInv'
  OBVIOUS
<1>1. CASE Turn
  BY <1>1, MaxTurnsAssumption DEF Turn, control, IInv, TypeOK, DirectionRecorded, UnfinishedExists,
              StepsMatch, Polled, Moving, Settled, opposite, Direction
<1>2. CASE Go
  BY <1>2 DEF Go, MustFinish, IInv, TypeOK, DirectionRecorded, UnfinishedExists,
              StepsMatch, Polled, Moving, Settled, opposite, Direction, Status
<1>3. CASE Complete
  BY <1>3, NumStepsAssumption
     DEF Complete, can_continue, IInv, TypeOK, DirectionRecorded, UnfinishedExists,
         StepsMatch, Polled, Moving, Settled, opposite, Direction, Status,
         Ladder!StepIndex
<1>4. ASSUME NEW result \in Status, Poll(result) PROVE IInv'
  BY <1>4, FinishInv, ProceedInv DEF Poll
<1>5. CASE UNCHANGED vars
  BY <1>5 DEF vars, control, IInv, TypeOK, DirectionRecorded, UnfinishedExists,
              StepsMatch, Polled, Moving, Settled
<1>6. QED
  BY <1>1, <1>2, <1>3, <1>4, <1>5 DEF Next

(* The inductive invariant of the sequencer, for any number of steps.      *)
THEOREM InductiveInvariant == Spec => []IInv
  BY InitInv, NextInv, PTL DEF Spec

(* The variables of seq::impl keep their types; in particular next_step    *)
(* never leaves 0 .. NumSteps.                                             *)
THEOREM TypeCorrect == Spec => []TypeOK
<1>1. IInv => TypeOK
  BY DEF IInv
<1>2. QED
  BY <1>1, InductiveInvariant, PTL

(* step_forward and step_backward never index past either end of the step  *)
(* vectors, although the finishing poll does not look at next_step.        *)
THEOREM PollsInRange == Spec => []PollInRange
<1>1. IInv => PollInRange
  BY NumStepsAssumption
     DEF IInv, TypeOK, DirectionRecorded, UnfinishedExists, PollInRange, Polled,
         opposite, Direction, Ladder!StepIndex
<1>2. QED
  BY <1>1, InductiveInvariant, PTL

(* next_step, prev_status and prev_direction say exactly what the steps    *)
(* have brought up.                                                        *)
THEOREM StepsAlwaysMatch == Spec => []StepsMatch
<1>1. IInv => StepsMatch
  BY DEF IInv
<1>2. QED
  BY <1>1, InductiveInvariant, PTL

LEMMA PollIsLadderStep ==
  ASSUME IInv, NEW result \in Status, Poll(result)
  PROVE  Ladder!LadderNext
<1> USE DEF IInv, TypeOK, DirectionRecorded, UnfinishedExists, StepsMatch,
            Polled, Moving, Settled, opposite, Direction, Status
<1>1. CASE StepForward(result) /\ next_step < NumSteps /\ prev_direction = "FORWARD"
  <2>1. next_step \in Ladder!StepIndex
    BY <1>1, ForwardPoll
  <2>2. unit[next_step] \in {"down", "rising"}
    BY <1>1, <2>1 DEF Ladder!StepIndex
  <2>3. Ladder!OthersSettled(next_step)
    BY <1>1, <2>1, NumStepsAssumption DEF Ladder!OthersSettled, Ladder!StepIndex
  <2>4. \E u \in {"rising", "up"} : unit' = [unit EXCEPT ![next_step] = u]
    BY <1>1 DEF StepForward
  <2>5. QED
    BY <2>1, <2>2, <2>3, <2>4 DEF Ladder!LadderNext, Ladder!Raise
<1>2. CASE StepBackward(result) /\ next_step > 0 /\ prev_direction = "BACKWARD"
  <2>1. next_step - 1 \in Ladder!StepIndex
    BY <1>2, BackwardPoll
  <2>2. unit[next_step - 1] \in {"up", "falling"}
    BY <1>2, <2>1 DEF Ladder!StepIndex
  <2>3. Ladder!OthersSettled(next_step - 1)
    BY <1>2, <2>1, NumStepsAssumption DEF Ladder!OthersSettled, Ladder!StepIndex
  <2>4. \E u \in {"falling", "down"} : unit' = [unit EXCEPT ![next_step - 1] = u]
    BY <1>2 DEF StepBackward
  <2>5. QED
    BY <2>1, <2>2, <2>3, <2>4 DEF Ladder!LadderNext, Ladder!Lower
<1>3. CASE Finish(result)
  BY <1>1, <1>2, <1>3, NumStepsAssumption DEF Finish, step, Ladder!StepIndex
<1>4. CASE Proceed(result)
  BY <1>1, <1>2, <1>4 DEF Proceed, step, can_continue
<1>5. QED
  BY <1>3, <1>4 DEF Poll

(* Any sequencer implements the ladder: the steps are taken in order, one  *)
(* at a time, and none is reversed before it is done.                      *)
THEOREM ImplementsLadder == Spec => StepsInOrder
<1>1. Init => Ladder!LadderInit
  BY DEF Init, Ladder!LadderInit
<1>2. IInv /\ [Next]_vars => [Ladder!LadderNext]_unit
  <2> SUFFICES ASSUME IInv, [Next]_vars PROVE Ladder!LadderNext \/ unit' = unit
    OBVIOUS
  <2>1. CASE Turn \/ Go \/ Complete \/ UNCHANGED vars
    BY <2>1 DEF Turn, Go, Complete, vars
  <2>2. ASSUME NEW result \in Status, Poll(result) PROVE Ladder!LadderNext
    BY <2>2, PollIsLadderStep
  <2>3. QED
    BY <2>1, <2>2 DEF Next
<1>3. QED
  BY <1>1, <1>2, InductiveInvariant, PTL DEF Spec, StepsInOrder, Ladder!LadderSpec
=============================================================================
