----------------------------- MODULE RobotControl -----------------------------
(***************************************************************************)
(* The radio and the locomotion modes on the same servos.  The thread that *)
(* polls the radio executes Robot::on_rc_radio_channel_change, whose       *)
(* writes to the bus come in between those of the mode that is running,    *)
(* of a key, or of a mode command: nothing but one write is locked.        *)
(*                                                                         *)
(* What makes RCRadio call the handler is left to RCRadio and RCDrive:     *)
(* here any switch may move, and any stick, when the handler is not        *)
(* running.                                                                *)
(***************************************************************************)
EXTENDS ServoModes

CONSTANTS
  Sides,        \* bound: the sides whose motor switches are moved
  States,       \* bound: the positions that they are moved to
  RadioModes,   \* bound: modes commanded while the transmitter is on
  RadioLost,    \* bound: writes missed while the transmitter is on
  FoundDrive    \* bound: the drive mode of unpowered servos that a program
                \* finds that is started with the transmitter on

ASSUME SidesAssumption == Sides \subseteq {"left", "right"} /\ States \subseteq {"low", "middle", "high"}
ASSUME RadioAssumption == RadioModes \subseteq Modes /\ RadioLost \in 0..MaxLost

VARIABLES
  transmitter,      \* whether the transmitter is on
  motor_channel     \* left_motor_channel and right_motor_channel

radio   == <<transmitter, motor_channel>>
control == <<robotVars, radio>>

Wheel == [left |-> "left_wheel", right |-> "right_wheel"]
Ankle == [left |-> "left_ankle", right |-> "right_ankle"]

RobotInit ==
  /\ ServoInit
  /\ transmitter \in BOOLEAN
  /\ transmitter => \A j \in Joints : ~servo[j].torque /\ servo[j].drive = FoundDrive
  /\ motor_channel = [side \in {"left", "right"} |-> "high"]

\* The power of the ankle is left on.
MotorsHalfOff(side, state) ==
  IF state = "low"
    THEN <<TorqueOff(Wheel[side])>>
    ELSE set_joint_control_mode(Wheel[side], "velocity")
           \o set_joint_control_mode(Ankle[side], "velocity")

\* What the handler of a motor switch sends to the joints of its side.
Motors(side, state) ==
  IF state = "low"
    THEN <<TorqueOff(Wheel[side]), TorqueOff(Ankle[side])>>
    ELSE set_joint_control_mode(Wheel[side], "velocity")
           \o set_joint_control_mode(Ankle[side], "velocity")

\* The poll thread calls the handler of a motor switch that has moved.
SwitchMotors(side, state) ==
  /\ todo[Radio] = <<>>
  /\ motor_channel' = [motor_channel EXCEPT ![side] = state]
  /\ Queue(Radio, Motors(side, state))
  /\ UNCHANGED <<vars, transmitter>>

\* ... or that of a stick, which sends speeds to the joints that the switches
\* select.
Stick ==
  /\ todo[Radio] = <<>>
  /\ LET l == motor_channel["left"]
         r == motor_channel["right"]
     IN  \E joints \in {TurnJoints(l, r), MoveJoints(l, r)} \ {{}} :
           Queue(Radio, set_joint_speed(joints))
  /\ UNCHANGED <<vars, radio>>

RadioNext ==
  \/ \E side \in Sides, state \in States : SwitchMotors(side, state)
  \/ Stick
  \/ Bus(Radio) /\ UNCHANGED radio

RobotNext ==
  \/ /\ ServoNext /\ UNCHANGED radio
     /\ transmitter =>
          (\A c \in Commanders : target'[c] \in RadioModes) /\ losses' <= RadioLost
  \/ ~undefined /\ transmitter /\ RadioNext /\ losses' <= RadioLost

RobotSpec == RobotInit /\ [][RobotNext]_control

------------------------------------------------------------------------------
(* Properties                                                               *)

\* Whatever the modes have done to them meanwhile, the joints that the radio
\* was the last to switch are as the motor switch of their side asks for when
\* its handler is done: without power, or in velocity mode.
SwitchesObeyed ==
  todo[Radio] = <<>> =>
    \A side \in Sides : \A j \in {Wheel[side], Ankle[side]} \ lost :
      owner[j] = "radio" =>
        IF motor_channel[side] = "low" THEN ~servo[j].torque
                                       ELSE servo[j] = Configured("velocity", TRUE)

==============================================================================
