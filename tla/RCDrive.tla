------------------------------- MODULE RCDrive -------------------------------
(***************************************************************************)
(* Driving by radio: what Robot::on_rc_radio_channel_change does for the   *)
(* two sticks (channels 0 and 1) and the two motor switches (4 and 7).     *)
(*                                                                         *)
(* A speed is kept as the distance of the stick from its middle: the code  *)
(* scales it by constants only.                                            *)
(***************************************************************************)
EXTENDS RCRadio, MotorSwitches

VARIABLES
  left_motor_channel, right_motor_channel,  \* the switches, as Robot knows them
  move_speed, turn_speed,
  motor,        \* control mode that the radio has given each joint
  goal,         \* goal velocity of each joint
  since,        \* history: joints sent a speed since a motor switch moved
  fresh         \* history: channels polled since they last changed

switches  == <<left_motor_channel, right_motor_channel>>
speeds    == <<move_speed, turn_speed>>
joints    == <<motor, goal, since>>
driveVars == <<radio, switches, speeds, joints, fresh>>

\* turn() and move(): |(v - middle) * 2 / range| < min_speed = 0.01 is stopped.
Speed(v) == IF 200 * Abs(v - middle) < range THEN 0 ELSE v - middle

DriveTypeOK ==
  /\ RadioTypeOK
  /\ {left_motor_channel, right_motor_channel} \subseteq {"low", "middle", "high"}
  /\ {move_speed, turn_speed} \subseteq Int
  /\ motor \in [Joints -> {"unset", "off", "velocity"}]
  /\ goal \in [Joints -> Int]
  /\ since \subseteq Joints
  /\ fresh \subseteq Channels

DriveInit ==
  /\ RadioInit
  /\ left_motor_channel = "high" /\ right_motor_channel = "high"
  /\ move_speed = 0 /\ turn_speed = 0
  /\ motor = [j \in Joints |-> "unset"]
  /\ goal = [j \in Joints |-> 0]
  /\ since = {}
  /\ fresh = {}

------------------------------------------------------------------------------
set_joint_speed(S, speed) ==
  /\ goal' = [j \in Joints |-> IF j \in S THEN speed[j] ELSE goal[j]]
  /\ since' = since \union S
  /\ UNCHANGED motor

turn(v) ==
  /\ turn_speed' = Speed(v)
  /\ set_joint_speed(TurnJoints(left_motor_channel, right_motor_channel),
       [j \in Joints |-> IF j = "left_wheel" THEN -Speed(v) ELSE Speed(v)])
  /\ UNCHANGED <<switches, move_speed>>

\* A stick that is back in the middle sends nothing.
move_no_stop(v) ==
  /\ move_speed' = Speed(v)
  /\ IF Speed(v) = 0 THEN UNCHANGED joints
     ELSE set_joint_speed(MoveJoints(left_motor_channel, right_motor_channel),
            [j \in Joints |-> Speed(v)])
  /\ UNCHANGED <<switches, turn_speed>>

move(v) ==
  /\ move_speed' = Speed(v)
  /\ set_joint_speed(MoveJoints(left_motor_channel, right_motor_channel),
       [j \in Joints |-> Speed(v)])
  /\ UNCHANGED <<switches, turn_speed>>

\* set_joint_control_mode of both joints of a side.  The servos, all of one
\* model, may or may not forget their goal velocity while torque is off.
SwitchMotors(S, state) ==
  /\ motor' = [j \in Joints |-> IF j \notin S THEN motor[j]
                                ELSE IF state = "low" THEN "off" ELSE "velocity"]
  /\ \E forgets \in {{}, S} :
       goal' = [j \in Joints |-> IF j \in forgets THEN 0 ELSE goal[j]]
  /\ since' = {}
  /\ UNCHANGED <<speeds>>

left_motor(v) ==
  /\ left_motor_channel' = State(v)
  /\ SwitchMotors(LeftJoints, State(v))
  /\ UNCHANGED right_motor_channel

right_motor(v) ==
  /\ right_motor_channel' = State(v)
  /\ SwitchMotors(RightJoints, State(v))
  /\ UNCHANGED left_motor_channel

\* The channels of on_rc_radio_channel_change that drive.
on_drive_channel_change(i, v) ==
  \/ i = 0 /\ turn(v)
  \/ i = 1 /\ move(v)
  \/ i = 4 /\ left_motor(v)
  \/ i = 7 /\ right_motor(v)

\* What history keeps of the channels: those polled are fresh until they change.
Watched(polled) == fresh' = {i \in fresh : memory'[i] = memory[i]} \union polled

DriveNext ==
  \/ PollChanged /\ on_drive_channel_change(next, memory[next]) /\ Watched({next})
  \/ PollUnchanged /\ Watched({next}) /\ UNCHANGED <<switches, speeds, joints>>
  \/ Firmware /\ Watched({}) /\ UNCHANGED <<switches, speeds, joints>>

DriveSpec == DriveInit /\ [][DriveNext]_driveVars

------------------------------------------------------------------------------
(* Properties *)

\* The radio is polled with a threshold and the sticks have a dead zone.  A
\* stick at rest within six units of the middle is read as stopped once it
\* has been polled: what the threshold hides never keeps a speed alive.
CentredStickIsStopped ==
  /\ (0 \in fresh /\ Abs(memory[0] - middle) <= 6) => turn_speed = 0
  /\ (1 \in fresh /\ Abs(memory[1] - middle) <= 6) => move_speed = 0

\* Both sticks read as stopped stop every joint that they have driven since a
\* motor switch last moved.
CentredSticksStop ==
  (move_speed = 0 /\ turn_speed = 0) => \A j \in since : goal[j] = 0

\* Once the switches of both sides have reported, the sticks send speeds only
\* to joints that a switch has put into velocity mode.
SpeedsOnlyToVelocityMode ==
  [][\A j \in Joints :
       (Heard(4) /\ Heard(7) /\ j \in since' \ since) => motor[j] = "velocity"]_driveVars

\* Robot.hpp on min_speed: a robot with such a speed is stopped, and its
\* motors are to be stopped.
StoppedMotorsStop ==
  (Heard(0) /\ Heard(1) /\ move_speed = 0 /\ turn_speed = 0) =>
    \A j \in Joints : motor[j] = "velocity" => goal[j] = 0

==============================================================================
