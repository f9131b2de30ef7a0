----------------------------- MODULE ModeControl -----------------------------
(***************************************************************************)
(* What the robot promises about its modes of operation, with no threads:  *)
(* the control loop of at most one mode runs, and it is switched off       *)
(* before the control loop of any mode is switched on.                     *)
(***************************************************************************)
CONSTANTS Modes, NoMode

VARIABLE active    \* the mode whose control loop runs, or NoMode

Init == active = NoMode

Activate(m) ==
  /\ active = NoMode
  /\ active' = m

Deactivate ==
  /\ active # NoMode
  /\ active' = NoMode

Next == Deactivate \/ \E m \in Modes : Activate(m)

Spec == Init /\ [][Next]_active

==============================================================================
