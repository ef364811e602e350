----------------------------- MODULE StepLadder -----------------------------
(***************************************************************************)
(* What a sequencer promises the steps it drives: they are taken up in     *)
(* order and down in the reverse order, one at a time, and a step that has *)
(* started in one direction is polled in that direction until it is done.  *)
(***************************************************************************)
EXTENDS Integers

CONSTANT NumSteps

VARIABLE unit   \* what each step has brought up: [0 .. NumSteps - 1 -> Unit]

StepIndex == 0 .. NumSteps - 1

Unit == {"down", "rising", "up", "falling"}

LadderInit == unit = [k \in StepIndex |-> "down"]

OthersSettled(k) ==
  \A j \in StepIndex : /\ j < k => unit[j] = "up"
                       /\ j > k => unit[j] = "down"

\* Step k is polled forward, and is done or not.
Raise(k) ==
  /\ OthersSettled(k)
  /\ unit[k] \in {"down", "rising"}
  /\ \E u \in {"rising", "up"} : unit' = [unit EXCEPT ![k] = u]

\* Step k is polled backward, and is done or not.
Lower(k) ==
  /\ OthersSettled(k)
  /\ unit[k] \in {"up", "falling"}
  /\ \E u \in {"falling", "down"} : unit' = [unit EXCEPT ![k] = u]

LadderNext == \E k \in StepIndex : Raise(k) \/ Lower(k)

LadderSpec == LadderInit /\ [][LadderNext]_unit
=============================================================================
