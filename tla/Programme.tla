------------------------------ MODULE Programme ------------------------------
(***************************************************************************)
(* What a sequence of actions promises: its actions are carried out in     *)
(* order, each to its end, in as many rounds as were asked for.  A         *)
(* sequence that is aborted and started again goes through what is left of *)
(* its rounds, beginning with the one that was interrupted, and through    *)
(* one more if nothing is left.                                            *)
(***************************************************************************)
EXTENDS Integers

CONSTANT LOOP_FOREVER

VARIABLES
  size,         \* number of actions
  rounds,       \* rounds to go through since the start, or LOOP_FOREVER
  completed,    \* actions completed in this round
  round,        \* rounds completed since the start
  state         \* "new", "running", "complete" or "aborted"

vars == <<size, rounds, completed, round, state>>

Init ==
  /\ size \in Nat /\ rounds \in Int
  /\ completed = size /\ round = 0
  /\ state = "new"

Start ==
  /\ state # "running" /\ state' = "running"
  /\ rounds' = rounds - round /\ round' = 0
  /\ completed' = 0
  /\ UNCHANGED size

\* The next action of the round comes to its end.
Advance ==
  /\ state = "running" /\ completed < size
  /\ completed' = completed + 1
  /\ UNCHANGED <<size, rounds, round, state>>

\* The next round begins, and its first action may be over at once.
Again ==
  /\ state = "running" /\ completed = size /\ size > 0
  /\ \/ rounds = LOOP_FOREVER /\ UNCHANGED round
     \/ rounds # LOOP_FOREVER /\ round + 1 < rounds /\ round' = round + 1
  /\ completed' \in {0, 1}
  /\ UNCHANGED <<size, rounds, state>>

Finish ==
  /\ state = "running" /\ completed = size
  /\ rounds # LOOP_FOREVER /\ round + 1 >= rounds
  /\ state' = "complete"
  /\ round' = IF rounds > round THEN rounds ELSE round
  /\ UNCHANGED <<size, rounds, completed>>

Abort ==
  /\ state = "running" /\ state' = "aborted"
  /\ completed' = size
  /\ UNCHANGED <<size, rounds, round>>

Next == Start \/ Advance \/ Again \/ Finish \/ Abort

Spec == Init /\ [][Next]_vars

==============================================================================
