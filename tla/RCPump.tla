------------------------------- MODULE RCPump --------------------------------
(***************************************************************************)
(* Suction by radio: what Robot::on_rc_radio_channel_change does for the   *)
(* two pump switches (channels 5 and 6), with client threads that may      *)
(* toggle the pump at any time, several at once too.                       *)
(***************************************************************************)
EXTENDS RCRadio

CONSTANT Clients        \* the client threads that may toggle the pump

VARIABLES
  left_pump_channel, right_pump_channel,    \* the switches, as Robot knows them
  pump,                 \* whether the pump runs
  pump_state,           \* what Robot remembers of it
  pump_by,              \* history: who set the pump last
  left_vent, right_vent,\* whether a vent was last told to open
  held,                 \* history: the feet whose vents were closed when the radio
                        \* last stopped the pump, and have not been told to move since
  toggling              \* how far the toggle is that each client thread executes

pumps  == <<left_pump_channel, right_pump_channel, pump, pump_by, left_vent, right_vent, held>>
toggle == <<pump_state, toggling>>
vars   == <<radio, pumps, toggle>>

Sides   == {"left", "right"}
Channel == [left |-> 5, right |-> 6]

Switch(foot) == IF foot = "left" THEN left_pump_channel ELSE right_pump_channel
Vent(foot)   == IF foot = "left" THEN left_vent ELSE right_vent

TypeOK ==
  /\ RadioTypeOK
  /\ {left_pump_channel, right_pump_channel} \subseteq {"low", "middle", "high"}
  /\ {pump, pump_state, left_vent, right_vent} \subseteq BOOLEAN
  /\ held \subseteq Sides
  /\ toggling \in [Clients -> {"no", "to_on", "to_off", "flipped"}]
  /\ pump_by \in {"nobody", "radio", "client"}

\* Where the vents are is not known until they are moved.
Init ==
  /\ RadioInit
  /\ left_pump_channel = "high" /\ right_pump_channel = "high"
  /\ pump = FALSE /\ pump_state = FALSE /\ pump_by = "nobody"
  /\ left_vent \in BOOLEAN /\ right_vent \in BOOLEAN
  /\ held = {}
  /\ toggling = [c \in Clients |-> "no"]

\* The other foot's switch is not looked at.
left_pump_alone(v) ==
  LET off == State(v) = "low"
  IN  /\ left_pump_channel' = State(v)
      /\ pump' = ~off
      /\ pump_by' = "radio"
      /\ left_vent' = IF off THEN left_vent ELSE State(v) # "high"
      /\ UNCHANGED <<right_pump_channel, right_vent, toggle>>

\* With both pump switches low the pump stops and the vent is left alone.
left_pump(v) ==
  LET off == State(v) = "low" /\ right_pump_channel = "low"
  IN  /\ left_pump_channel' = State(v)
      /\ pump' = ~off
      /\ pump_by' = "radio"
      /\ left_vent' = IF off THEN left_vent ELSE State(v) # "high"
      /\ UNCHANGED <<right_pump_channel, right_vent, toggle>>

\* The vent is told to move before it is known whether the pump stops.
right_pump_vents(v) ==
  LET off == State(v) = "low" /\ left_pump_channel = "low"
  IN  /\ right_pump_channel' = State(v)
      /\ pump' = ~off
      /\ pump_by' = "radio"
      /\ right_vent' = (State(v) # "high")
      /\ UNCHANGED <<left_pump_channel, left_vent, toggle>>

right_pump(v) ==
  LET off == State(v) = "low" /\ left_pump_channel = "low"
  IN  /\ right_pump_channel' = State(v)
      /\ pump' = ~off
      /\ pump_by' = "radio"
      /\ right_vent' = IF off THEN right_vent ELSE State(v) # "high"
      /\ UNCHANGED <<left_pump_channel, left_vent, toggle>>

\* What history keeps of a change of channel i.
Remembers(i) ==
  held' = IF pump' THEN {foot \in held : Channel[foot] # i}
                   ELSE {foot \in Sides : ~Vent(foot)}

on_rc_radio_channel_change(i, v) ==
  /\ \/ i = Channel["left"] /\ left_pump(v)
     \/ i = Channel["right"] /\ right_pump(v)
  /\ Remembers(i)

\* The client thread that handles "Toggle pump" reads pump_state ...
TogglePump(c) ==
  /\ toggling[c] = "no"
  /\ toggling' = [toggling EXCEPT ![c] = IF pump_state THEN "to_off" ELSE "to_on"]
  /\ UNCHANGED <<radio, pumps, pump_state>>

\* ... stores the opposite of what it has read ...
FlipState(c) ==
  /\ toggling[c] \in {"to_on", "to_off"}
  /\ pump_state' = (toggling[c] = "to_on")
  /\ toggling' = [toggling EXCEPT ![c] = "flipped"]
  /\ UNCHANGED <<radio, pumps>>

\* ... and then sets the pump to what pump_state is by now.
SetPump(c) ==
  /\ toggling[c] = "flipped"
  /\ pump' = pump_state
  /\ pump_by' = "client"
  /\ toggling' = [toggling EXCEPT ![c] = "no"]
  /\ UNCHANGED <<radio, pump_state, left_pump_channel, right_pump_channel,
                 left_vent, right_vent, held>>

Toggle == \E c \in Clients : TogglePump(c) \/ FlipState(c) \/ SetPump(c)

Next ==
  \/ PollChanged /\ on_rc_radio_channel_change(next, memory[next])
  \/ (Firmware \/ PollUnchanged) /\ UNCHANGED <<pumps, toggle>>
  \/ Toggle

Spec == Init /\ [][Next]_vars

------------------------------------------------------------------------------
(* Properties *)

\* While the radio was the last to set the pump, the pump is off exactly when
\* both feet are switched off.
PumpFollowsSwitches ==
  pump_by = "radio" =>
    (pump <=> ~(left_pump_channel = "low" /\ right_pump_channel = "low"))

\* A foot that is switched to grip has its vent closed, and one in the middle
\* position has it open.  One that is switched off is released, unless that or
\* the other foot's switch stopped the pump while it was still gripping: then it
\* keeps its grip until its own switch moves with the pump on.  All of this
\* whatever the order in which the two switches move, and the clients toggle.
VentFollowsSwitch ==
  \A foot \in Sides : Heard(Channel[foot]) =>
    CASE Switch(foot) = "high"   -> ~Vent(foot)
      [] Switch(foot) = "middle" -> Vent(foot)
      [] Switch(foot) = "low"    -> Vent(foot) <=> foot \notin held

==============================================================================
