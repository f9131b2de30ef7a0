--------------------------------- MODULE Waddle ---------------------------------
(***************************************************************************)
(* The gait of LocomotionWaddle.  The control loop tilts the feet to       *)
(* alternate sides and, half a cycle after each tilt, turns the wheels by  *)
(* the distances that the keys have set, to and fro.  A client thread      *)
(* changes the two distances one after the other, the control loop reads   *)
(* them one after the other, and nothing is locked.                        *)
(*                                                                         *)
(* The goals of the wheels start from what a read of the bus returned,     *)
(* which leaves out the servos that did not answer.  on_stop() takes the   *)
(* power from the wheels while the control loop goes on.  on_start(), keys *)
(* and on_stop() do not overlap with each other: Locomotion says when that *)
(* is so.  Angles are in units of INCREMENT_ANGLE.                         *)
(***************************************************************************)
EXTENDS Integers, Sequences, FiniteSets

CONSTANTS
  HalfCycle,      \* rounds of the control loop in half a cycle: 50
  DRIVE_ANGLE,    \* what a key without Control turns a wheel by: 5
  Angles,         \* where a wheel may be when it is not powered
  MaxDistance,    \* bound on what the keys with Control add up to
  MaxAngle        \* bound on the angles that the wheels reach

Cycle == 2 * HalfCycle

ASSUME CycleAssumption == HalfCycle \in Nat \ {0}
ASSUME AngleAssumption ==
  /\ DRIVE_ANGLE \in Nat /\ MaxDistance \in Nat /\ MaxAngle \in Nat
  /\ DRIVE_ANGLE <= MaxDistance
  /\ Angles \subseteq -MaxAngle..MaxAngle

VARIABLES
  running,          \* the thread of the control loop runs
  powered,          \* the wheels that have torque
  iteration,        \* control_loop_iteration, modulo Cycle
  loop,             \* how far the control loop is in turning the wheels
  tilt_direction,
  drive_direction,
  drive_distance,   \* left_drive_distance and right_drive_distance
  right_to_set,     \* {} or what a key has yet to assign to the right distance
  initial_pos,
  angle,            \* where the wheels are
  tilt,             \* the side the feet were last sent to, 0 before
  swing             \* history: goals sent since a distance was last assigned

loopVars == <<iteration, loop, tilt_direction, drive_direction, initial_pos,
              tilt>>
keyVars  == <<drive_distance, right_to_set>>
vars     == <<running, powered, loopVars, keyVars, angle, swing>>

Left   == "left_wheel"
Right  == "right_wheel"
Wheels == {Left, Right}

Sides     == {-1, 1}
Distances == -MaxDistance..MaxDistance
Reach     == -MaxAngle..MaxAngle
Positions == [joint : Wheels, degrees : Reach]

------------------------------------------------------------------------------
(* Reading the bus.                                                         *)

\* What the servos of the joints that answered report, in the order in which
\* they were asked.
read(answered) == [i \in 1..Len(answered) |-> angle[answered[i]]]

\* The results are given to the joints asked for, from the first one on.
get_joint_position(joints, answered) ==
  LET positions == read(answered)
  IN  [i \in 1..Len(positions) |-> [joint |-> joints[i], degrees |-> positions[i]]]

------------------------------------------------------------------------------

TypeOK ==
  /\ running \in BOOLEAN
  /\ powered \subseteq Wheels
  /\ iteration \in 0..(Cycle - 1)
  /\ loop \in {"top", "left_done"}
  /\ {tilt_direction, drive_direction} \subseteq Sides
  /\ drive_distance \in [Wheels -> Distances]
  /\ right_to_set \subseteq Distances /\ Cardinality(right_to_set) <= 1
  /\ initial_pos \in Seq(Positions)
  /\ Len(initial_pos) <= 2
  /\ angle \in [Wheels -> Reach]
  /\ tilt \in Sides \union {0}
  /\ swing \subseteq [Wheels -> Reach]

Init ==
  /\ running = FALSE
  /\ powered = {}
  /\ iteration = 0
  /\ loop = "top"
  /\ tilt_direction \in Sides
  /\ drive_direction \in Sides
  /\ drive_distance = [w \in Wheels |-> 0]
  /\ right_to_set = {}
  /\ initial_pos = <<>>
  /\ angle \in [Wheels -> Angles]
  /\ tilt = 0
  /\ swing = {}

\* The directions are left as the last run of the mode has left them.
KeepDirections == UNCHANGED <<tilt_direction, drive_direction>>

\* The directions are cleared.
ClearDirections == tilt_direction' = 0 /\ drive_direction' = 0

FirstDirections == tilt_direction' = 1 /\ drive_direction' = 1

\* Where the wheels are is read only the first time.
ReadPositionsOnce ==
  \E answered \in {<<>>, <<Left>>, <<Right>>, <<Left, Right>>} :
    initial_pos' = IF initial_pos # <<>> THEN initial_pos
                   ELSE get_joint_position(<<Left, Right>>, answered)

ReadPositions ==
  \E answered \in {<<>>, <<Left>>, <<Right>>, <<Left, Right>>} :
    initial_pos' = get_joint_position(<<Left, Right>>, answered)

on_start ==
  /\ ~running
  /\ running' = TRUE
  /\ powered' = Wheels
  /\ iteration' = 0
  /\ FirstDirections
  /\ drive_distance' = [w \in Wheels |-> 0]
  /\ ReadPositions
  /\ tilt' = 0
  /\ swing' = {}
  /\ UNCHANGED <<loop, right_to_set, angle>>

\* One wheel loses its torque after the other, wherever the control loop is.
on_stop ==
  /\ right_to_set = {}
  /\ \/ powered = Wheels /\ powered' = {Right}
     \/ powered = {Right} /\ powered' = {}
  /\ UNCHANGED <<running, loopVars, keyVars, angle, swing>>

\* stop() ends the control loop between two of its rounds, and joins it.
Stopped ==
  /\ running /\ powered = {}
  /\ loop = "top"
  /\ running' = FALSE
  /\ UNCHANGED <<powered, loopVars, keyVars, angle, swing>>

\* A wheel without torque comes to rest or is turned by hand.
TurnByHand ==
  /\ \E w \in Wheels \ powered, a \in Angles : angle' = [angle EXCEPT ![w] = a]
  /\ UNCHANGED <<running, powered, loopVars, keyVars, swing>>

------------------------------------------------------------------------------
(* Keys.  Each assigns to the left distance and then to the right one.      *)

\* The signs that up, down, left and right give the two distances.
Keys == Sides \X Sides

\* The two distances that a key asks for: with Control it adds to them when
\* it is pressed; without, it sets them when it is pressed and, unless Shift
\* is held, clears them when it is released.
Wanted(signs) ==
  { <<drive_distance[Left] + signs[1], drive_distance[Right] + signs[2]>>,
    <<signs[1] * DRIVE_ANGLE, signs[2] * DRIVE_ANGLE>>,
    <<0, 0>> } \intersect (Distances \X Distances)

SetLeft ==
  /\ powered = Wheels /\ right_to_set = {}
  /\ \E signs \in Keys : \E d \in Wanted(signs) :
       /\ drive_distance' = [drive_distance EXCEPT ![Left] = d[1]]
       /\ right_to_set' = {d[2]}
  /\ swing' = {}
  /\ UNCHANGED <<running, powered, loopVars, angle>>

SetRight ==
  /\ \E d \in right_to_set : drive_distance' = [drive_distance EXCEPT ![Right] = d]
  /\ right_to_set' = {}
  /\ swing' = {}
  /\ UNCHANGED <<running, powered, loopVars, angle>>

------------------------------------------------------------------------------
(* The control loop.                                                        *)

Driving == iteration = HalfCycle /\ Len(initial_pos) = 2

NextIteration == iteration' = IF iteration = Cycle - 1 THEN 0 ELSE iteration + 1

Tilt ==
  /\ running
  /\ iteration = 0
  /\ tilt' = tilt_direction
  /\ tilt_direction' = -tilt_direction
  /\ NextIteration
  /\ UNCHANGED <<running, powered, keyVars, loop, drive_direction, initial_pos, angle,
                 swing>>

\* A drive that has no room below MaxAngle is not made.
DriveLeft ==
  LET to == initial_pos[1].degrees - drive_distance[Left] * drive_direction
  IN  /\ running
      /\ Driving
      /\ loop = "top"
      /\ to \in Reach
      /\ initial_pos' = [initial_pos EXCEPT ![1].degrees = to]
      /\ loop' = "left_done"
      /\ UNCHANGED <<running, powered, iteration, tilt_direction, drive_direction,
                     tilt, keyVars, angle, swing>>

\* The wheels are always driven the same way.
SameDirection == UNCHANGED drive_direction

TurnDirection == drive_direction' = -drive_direction

\* set_joint_position() ends a drive, and the servos that have torque get there
\* before the next one.
DriveRight ==
  LET to    == initial_pos[2].degrees - drive_distance[Right] * drive_direction
      goals == [w \in Wheels |->
        (CHOOSE p \in {initial_pos'[1], initial_pos'[2]} : p.joint = w).degrees]
  IN  /\ loop = "left_done"
      /\ to \in Reach
      /\ initial_pos' = [initial_pos EXCEPT ![2].degrees = to]
      /\ angle' = [w \in Wheels |-> IF w \in powered THEN goals[w] ELSE angle[w]]
      /\ swing' = swing \union {goals}
      /\ TurnDirection
      /\ loop' = "top"
      /\ NextIteration
      /\ UNCHANGED <<running, powered, tilt_direction, tilt, keyVars>>

Pass ==
  /\ running
  /\ iteration # 0 /\ ~Driving
  /\ NextIteration
  /\ UNCHANGED <<running, powered, loop, tilt_direction, drive_direction, initial_pos,
                 tilt, keyVars, angle, swing>>

Next ==
  \/ on_start \/ on_stop \/ Stopped \/ TurnByHand
  \/ SetLeft \/ SetRight
  \/ Tilt \/ DriveLeft \/ DriveRight \/ Pass

Spec == Init /\ [][Next]_vars

------------------------------------------------------------------------------
(* Properties.                                                              *)

\* The wheels are driven towards opposite sides in turn, in step with the
\* feet: when a drive is due, its direction is that of the last tilt, which
\* is what makes the robot move on instead of back and forth.  No restart,
\* key or missing answer gets the two out of step.
InStep ==
  (running /\ Len(initial_pos) = 2 /\ tilt # 0) =>
    drive_direction = IF iteration \in 1..HalfCycle THEN tilt ELSE -tilt

\* As long as nobody assigns to a distance, the wheels swing between two
\* positions, even if a key was handled in the middle of a drive.
SwingsBetweenTwo == Cardinality(swing) <= 2

\* A powered wheel is never sent further than a distance that a key may have
\* set, whatever the bus has returned in on_start(), wherever the wheels were
\* turned to while they had no torque, also while on_stop() is under way.
NoJump ==
  [][\A w \in powered \intersect powered' : angle'[w] - angle[w] \in Distances]_vars

==============================================================================
