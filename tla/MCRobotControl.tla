---------------------------- MODULE MCRobotControl ----------------------------
(***************************************************************************)
(* RobotControl on small sets, for TLC: all modes without the transmitter, *)
(* two of them with it.                                                    *)
(***************************************************************************)
EXTENDS RobotControl

\* The modifiers that the robot's key commands advertise.
Advertised == {"Control", "Shift"}

==============================================================================
