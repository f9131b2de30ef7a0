------------------------------ MODULE Pneumatics ------------------------------
(***************************************************************************)
(* What BeagleBoneBluePneumatics makes of RCPump: the pump and the servos  *)
(* of the two vents share a power rail, and telling a vent to move starts  *)
(* a detached thread that sends its servo thirty pulses in 600 ms.  A      *)
(* pulse without power does nothing, and threads of one vent that overlap  *)
(* send it both ways.                                                      *)
(*                                                                         *)
(* Threads may be delayed for any time between two pulses.                 *)
(***************************************************************************)
EXTENDS RCPump

CONSTANTS
  Feet,         \* bound: the feet whose vents are modelled
  Pulses,       \* pulses that a thread sends: 30
  Travel,       \* pulses that a vent needs from one end to the other
  Tasks         \* the threads that send pulses to one vent at once, a bound

ASSUME FeetAssumption   == Feet \subseteq {"left", "right"}
ASSUME PulsesAssumption == Pulses \in Nat /\ Travel \in 1..Pulses

VARIABLES
  tasks,        \* the pulses that the threads of each vent have left to send
  position,     \* where each vent is, from 0, closed, to Travel, open
  last,         \* history: the thread of each vent that was started last
  clean         \* history: since that thread was started all pulses had power,
                \* and it had at least Travel left when older threads had ended

vents      == <<tasks, position, last, clean>>
pneumatics == <<vars, vents>>

Done == [vent |-> FALSE, left |-> 0]

Ended(foot, threads) == \A t \in threads : tasks[foot][t] = Done
Resting(foot)        == Ended(foot, Tasks)

PneumaticsInit ==
  /\ Init
  /\ tasks = [foot \in Feet |-> [t \in Tasks |-> Done]]
  /\ position \in [Feet -> {0, Travel}]
  /\ last \in [Feet -> Tasks]
  /\ clean = [foot \in Feet |-> FALSE]

\* The thread sends one pulse only.
SendOnePulse(vent) == [vent |-> vent, left |-> 1]

\* The thread that start_servo_control_task starts.
SendPulses(vent) == [vent |-> vent, left |-> Pulses]

\* The radio handler moves the vent of the foot whose switch has moved, unless
\* it stops the pump.
Told(foot) == next = Channel[foot] /\ pump'

Handler ==
  /\ PollChanged
  /\ on_rc_radio_channel_change(next, memory[next])
  /\ \E t \in Tasks :
       /\ \A foot \in Feet : Told(foot) => tasks[foot][t] = Done
       /\ tasks' = [foot \in Feet |->
            IF Told(foot) THEN [tasks[foot] EXCEPT ![t] = SendPulses(Vent(foot)')]
                          ELSE tasks[foot]]
       /\ last' = [foot \in Feet |-> IF Told(foot) THEN t ELSE last[foot]]
  /\ clean' = [foot \in Feet |-> clean[foot] \/ Told(foot)]
  /\ UNCHANGED position

\* Where a vent is after a pulse.
Pulsed(at, vent) ==
  IF vent THEN IF at < Travel THEN at + 1 ELSE at
          ELSE IF at > 0 THEN at - 1 ELSE at

\* When thread t ends as the last of the older ones, the newest has as many
\* pulses left as the vent may need.
InTime(foot, t) ==
  (t # last[foot] /\ tasks[foot][t].left = 1 /\ Ended(foot, Tasks \ {t, last[foot]}))
    => tasks[foot][last[foot]].left >= Travel

\* One of the threads of a vent sends a pulse, its last one or not.
Pulse(foot, t) ==
  LET task == tasks[foot][t]
  IN  /\ task.left > 0
      /\ tasks' = [tasks EXCEPT ![foot] = [@ EXCEPT ![t] =
           IF task.left = 1 THEN Done ELSE [vent |-> task.vent, left |-> task.left - 1]]]
      /\ position' = [position EXCEPT ![foot] = IF pump THEN Pulsed(@, task.vent) ELSE @]
      /\ clean' = [clean EXCEPT ![foot] = @ /\ pump /\ InTime(foot, t)]
      /\ UNCHANGED <<vars, last>>

PneumaticsNext ==
  \/ Handler
  \/ \E foot \in Feet, t \in Tasks : Pulse(foot, t)
  \/ /\ \/ (Firmware \/ PollUnchanged) /\ UNCHANGED <<pumps, toggle>>
        \/ Toggle
     /\ UNCHANGED vents

PneumaticsSpec == PneumaticsInit /\ [][PneumaticsNext]_pneumatics

------------------------------------------------------------------------------
(* Properties *)

\* A vent whose pulses have ended is where its switch asks for: closed to
\* grip, open in the middle position, and switched off as the pump was stopped
\* or else open.  Pulses of older commands may have come in between in any
\* order, as long as the last command had power and enough pulses left to make
\* up for them.
VentReaches ==
  \A foot \in Feet :
    (Resting(foot) /\ clean[foot]) =>
      position[foot] =
        CASE Switch(foot) = "high"   -> 0
          [] Switch(foot) = "middle" -> Travel
          [] Switch(foot) = "low"    -> IF foot \in held THEN 0 ELSE Travel

==============================================================================
