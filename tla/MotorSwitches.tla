----------------------------- MODULE MotorSwitches -----------------------------
(***************************************************************************)
(* The joints of the robot, and which of them the two sticks of the        *)
(* transmitter drive for each position of the two motor switches.          *)
(***************************************************************************)

Wheels == {"left_wheel", "right_wheel"}
Ankles == {"left_ankle", "right_ankle"}
LeftJoints  == {"left_wheel", "left_ankle"}
RightJoints == {"right_wheel", "right_ankle"}
Joints      == LeftJoints \union RightJoints

\* The joints that the turn stick drives, by left and right motor switch.
TurnJoints(l, r) ==
  IF l = "middle" /\ r = "middle" THEN {"left_wheel", "right_wheel"}
  ELSE IF l = "high" /\ r = "middle" THEN {"left_ankle"}
  ELSE IF l = "middle" /\ r = "high" THEN {"right_ankle"}
  ELSE {}

\* A switch that is not high counts as the middle.
MoveJointsNoLow(l, r) ==
  IF l = "high" /\ r = "high" THEN Joints
  ELSE IF l = "high" THEN {"left_wheel"}
  ELSE IF r = "high" THEN {"right_wheel"}
  ELSE {"left_wheel", "right_wheel"}

\* The joints that the move stick drives.
MoveJoints(l, r) ==
  IF l = "middle" /\ r = "middle" THEN {"left_wheel", "right_wheel"}
  ELSE IF l = "high" /\ r = "high" THEN Joints
  ELSE IF l = "high" /\ r = "middle" THEN {"left_wheel"}
  ELSE IF l = "middle" /\ r = "high" THEN {"right_wheel"}
  ELSE {}

==============================================================================
