------------------------------ MODULE ServoModes ------------------------------
(***************************************************************************)
(* What the locomotion modes do to the servos.  Locomotion says when       *)
(* on_start(), on_stop(), a key method and control_loop() run; here each   *)
(* of them is a sequence of bus writes, sent one at a time by the thread   *)
(* that runs it (DynamixelConnection::write holds the only mutex), and a   *)
(* servo may miss a write: no caller looks at what write() returns.        *)
(*                                                                         *)
(* Angles, speeds and durations are left out; what is kept is which        *)
(* register of which joint a write is for, and its kind of value.          *)
(***************************************************************************)
EXTENDS Locomotion, MotorSwitches, Naturals, Sequences

CONSTANTS
  Modifiers,    \* the modifier keys a client may hold, e.g. {"Control"}
  MaxLost       \* bound: configuration writes that may be missed

ASSUME LostAssumption == MaxLost \in Nat

VARIABLES
  servo,        \* the control table of each joint's servo
  todo,         \* bus writes left in the method a thread executes
  lost,         \* history: joints that missed a write since torque went off,
                \* or that two threads have configured at once
  losses,       \* history: configuration writes missed so far
  owner         \* history: who has switched the torque of each joint last

servos    == <<servo, todo, lost, losses, owner>>
robotVars == <<vars, servos>>

\* The client threads, and the thread of the radio, which RobotControl adds.
Radio   == "radio"
Senders == Commanders \union {Radio}

ASSUME SendersAssumption == Radio \notin Commanders

\* The definitions below name the modes of Robot::locomotion_modes.
ASSUME IdleAssumption == Idle = "Idle"

------------------------------------------------------------------------------
(* hardware::Kinematics on top of the bus.  A write sets one item of the    *)
(* control table of the servos of some joints.                              *)

Write(item, joints, value) ==
  [item |-> item, joints |-> joints, value |-> value]

\* The registers that a joint control mode asks for.  The two profile items
\* are limits in revolutions, or times in milliseconds.
Registers == [
  position |-> [drive |-> "velocity_based", operating |-> "extended_position",
                acceleration |-> "rpm", velocity |-> "rpm"],
  velocity |-> [drive |-> "velocity_based", operating |-> "velocity",
                acceleration |-> "rpm", velocity |-> "rpm"],
  time     |-> [drive |-> "time_based", operating |-> "extended_position",
                acceleration |-> "ms", velocity |-> "ms"]]

TorqueOff(j) == Write("torque", {j}, FALSE)

\* The servo is left powered while it is reconfigured.
ControlModePowered(j, m) ==
  LET r == Registers[m]
  IN  << Write("drive", {j}, r.drive),
         Write("operating", {j}, r.operating),
         Write("acceleration", {j}, r.acceleration),
         Write("velocity", {j}, r.velocity),
         Write("torque", {j}, TRUE) >>

\* The profile is written before the drive mode that gives it its meaning,
\* and torque is back before the operating mode is.
ControlModeEarlyTorque(j, m) ==
  LET r == Registers[m]
  IN  << TorqueOff(j),
         Write("acceleration", {j}, r.acceleration),
         Write("velocity", {j}, r.velocity),
         Write("torque", {j}, TRUE),
         Write("drive", {j}, r.drive),
         Write("operating", {j}, r.operating) >>

\* set_joint_control_mode of one joint, in any mode but off and pwm (which
\* nothing asks for).
set_joint_control_mode(j, m) ==
  LET r == Registers[m]
  IN  << TorqueOff(j),
         Write("drive", {j}, r.drive),
         Write("operating", {j}, r.operating),
         Write("acceleration", {j}, r.acceleration),
         Write("velocity", {j}, r.velocity),
         Write("torque", {j}, TRUE) >>

set_joint_position(joints) == <<Write("goal", joints, "extended_position")>>
set_joint_speed(joints)    == <<Write("goal", joints, "velocity")>>

------------------------------------------------------------------------------
(* The modes.  All of them configure the joints in the same order.  The     *)
(* gesture mode is the pole mode with a listener to the camera, whose       *)
(* thread is not started.                                                   *)

Configure(wheels, ankles) ==
  set_joint_control_mode("left_wheel", wheels)
    \o set_joint_control_mode("left_ankle", ankles)
    \o set_joint_control_mode("right_ankle", ankles)
    \o set_joint_control_mode("right_wheel", wheels)

\* One ankle keeps its torque.
PowerDownThree ==
  <<TorqueOff("left_wheel"), TorqueOff("left_ankle"), TorqueOff("right_wheel")>>

\* on_stop() of every mode but Idle.
PowerDown ==
  <<TorqueOff("left_wheel"), TorqueOff("left_ankle"),
    TorqueOff("right_ankle"), TorqueOff("right_wheel")>>

tilt == set_joint_position(Ankles)

Pole_on_start        == Configure("velocity", "position") \o tilt
Segway_on_start      == Configure("position", "time") \o tilt
Ski_on_start         == Configure("velocity", "position")
                          \o set_joint_position(Ankles) \o set_joint_speed(Wheels)
Tail_on_start        == Configure("velocity", "position") \o set_joint_position(Ankles)
Waddle_on_start      == Configure("time", "time") \o set_joint_position(Ankles)
Unicycle_on_start    == Configure("time", "time") \o set_joint_position(Ankles)
Hang_on_start        == Configure("velocity", "position") \o set_joint_position(Ankles)
Caterpillar_on_start == Configure("time", "time") \o set_joint_position(Ankles)

on_start == [
  Idle |-> <<>>, Pole |-> Pole_on_start, Segway |-> Segway_on_start,
  Ski |-> Ski_on_start, Tail |-> Tail_on_start, Waddle |-> Waddle_on_start,
  Unicycle |-> Unicycle_on_start, Hang |-> Hang_on_start,
  Caterpillar |-> Caterpillar_on_start, PoleGestures |-> Pole_on_start]

ASSUME KnownModesAssumption == Modes \subseteq DOMAIN on_start

on_stop(m) == IF m = "Idle" THEN <<>> ELSE PowerDown

\* What up, down, left and right of a mode may send, for the modifiers that
\* clients can hold.  <<>> is a key that only changes the mode's own fields.
PoleTurn ==
  set_joint_speed(Wheels) \o set_joint_speed(Wheels)
    \o set_joint_control_mode("left_wheel", "position")
    \o set_joint_control_mode("right_wheel", "position")
    \o set_joint_position(Wheels)

Pole_keys == {set_joint_speed(Wheels)}
               \union (IF "Control" \in Modifiers THEN {tilt} ELSE {})
               \union (IF "Alt" \in Modifiers THEN {PoleTurn} ELSE {})
Segway_keys == {<<>>} \union (IF "Control" \in Modifiers THEN {tilt} ELSE {})
Ski_keys    == {set_joint_speed(Wheels)}
Tail_keys   == {set_joint_speed(Wheels)} \union
                 (IF "Control" \in Modifiers
                    THEN {set_joint_position({"right_ankle"})} ELSE {})
Unicycle_keys == {<<>>, set_joint_position({"left_ankle", "left_wheel"})}
Hang_keys   == {set_joint_speed(Wheels)}
Waddle_keys == {<<>>}
Caterpillar_keys == {<<>>}

keys == [
  Idle |-> {<<>>}, Pole |-> Pole_keys, Segway |-> Segway_keys,
  Ski |-> Ski_keys, Tail |-> Tail_keys, Waddle |-> Waddle_keys,
  Unicycle |-> Unicycle_keys, Hang |-> Hang_keys,
  Caterpillar |-> Caterpillar_keys, PoleGestures |-> Pole_keys]

\* What one call of control_loop() may send.  The segway never takes a side
\* step: its keys no longer set a direction, which on_start() clears.
Segway_loop == {<<>>} \union {set_joint_position(J) : J \in SUBSET Wheels \ {{}}}
Ski_loop    == {set_joint_position(Ankles)}
Waddle_loop == {<<>>, set_joint_position(Ankles), set_joint_position(Wheels)}
Caterpillar_loop ==
  {<<>>, set_joint_position({"left_ankle", "left_wheel"}),
   set_joint_position({"right_ankle", "right_wheel"})}

control_loop == [
  Idle |-> {<<>>}, Pole |-> {<<>>}, Segway |-> Segway_loop, Ski |-> Ski_loop,
  Tail |-> {<<>>}, Waddle |-> Waddle_loop, Unicycle |-> {<<>>},
  Hang |-> {<<>>}, Caterpillar |-> Caterpillar_loop, PoleGestures |-> {<<>>}]

------------------------------------------------------------------------------
(* The bus and the servos.                                                  *)

\* Drive and operating mode sit in EEPROM, which a servo does not let anyone
\* change while its torque is on.
Written(s, w) ==
  IF w.item = "goal" \/ (w.item \in {"drive", "operating"} /\ s.torque)
    THEN s
    ELSE [s EXCEPT ![w.item] = w.value]

Who(x) == IF x = Radio THEN "radio" ELSE "mode"

\* The joint that a thread is in the middle of configuring which has these
\* writes left: the next torque that it writes is on.
Configuring(writes) ==
  {j \in Joints : \E i \in DOMAIN writes :
     /\ writes[i].item = "torque" /\ writes[i].value /\ j \in writes[i].joints
     /\ \A k \in 1..(i - 1) : writes[k].item # "torque"}

\* The joints that a write of thread x reaches while another configures them.
Torn(x, w) ==
  IF w.item = "goal" THEN {}
  ELSE w.joints \intersect UNION {Configuring(todo[y]) : y \in Senders \ {x}}

\* A sync write is not acknowledged.  The goal writes that servos miss are
\* not counted: the control loop or the next key sends another.
Transmit(x, w) ==
  \E missed \in {{}} \union
       (IF losses < MaxLost /\ w.item # "goal" THEN {w.joints} ELSE {}) :
    LET got  == w.joints \ missed
        kept == IF w.item = "torque" /\ ~w.value THEN lost \ got ELSE lost
    IN  /\ servo' = [j \in Joints |-> IF j \in got THEN Written(servo[j], w)
                                                   ELSE servo[j]]
        /\ lost' = kept \union missed \union Torn(x, w)
        /\ losses' = IF missed = {} THEN losses ELSE losses + 1
        /\ owner' = [j \in Joints |->
             IF w.item = "torque" /\ j \in w.joints
               THEN Who(x)
               ELSE owner[j]]

Configured(m, on) ==
  LET r == Registers[m]
  IN  [torque |-> on, drive |-> r.drive, operating |-> r.operating,
       acceleration |-> r.acceleration, velocity |-> r.velocity]

\* The servos are as an earlier run of the program left them, powered or not.
ServoInit ==
  /\ Init
  /\ \E config \in {<<"velocity", "position">>, <<"position", "time">>,
                    <<"time", "time">>}, on \in BOOLEAN :
       servo = [j \in Joints |-> Configured(config[IF j \in Wheels THEN 1 ELSE 2], on)]
  /\ todo = [x \in Senders |-> <<>>]
  /\ lost = {}
  /\ losses = 0
  /\ owner = [j \in Joints |-> "nobody"]

\* A client thread enters or goes through code that sends nothing.
Quiet == UNCHANGED servos

\* A thread enters a method that sends these writes.
Queue(x, writes) ==
  /\ todo' = [todo EXCEPT ![x] = writes]
  /\ UNCHANGED <<servo, lost, losses, owner>>

ServoStopCheck(c) ==
  /\ StopCheck(c)
  /\ Queue(c, IF stopped[current] THEN <<>> ELSE on_stop(current))

ServoStartCheck(c) ==
  /\ StartCheck(c)
  /\ Queue(c, IF stopped[current] THEN on_start[current] ELSE <<>>)

ServoKey(c) ==
  /\ Key(c)
  /\ \E writes \in keys[current] : Queue(c, writes)

\* One bus write of the method that a thread executes.
Bus(x) ==
  /\ todo[x] # <<>>
  /\ Transmit(x, Head(todo[x]))
  /\ todo' = [todo EXCEPT ![x] = Tail(@)]
  /\ UNCHANGED vars

\* on_start() of Ski looks at the flag once more, and sends nothing if another
\* client thread has started the mode since start() looked at it.
Skips(c) ==
  /\ pc[c] = "on_start" /\ this[c] = "Ski" /\ ~stopped["Ski"]
  /\ todo[c] = Ski_on_start

\* The method returns when its writes are sent.
MethodDone(c) ==
  /\ todo[c] # <<>> => Skips(c)
  /\ OnStop(c) \/ OnStart(c) \/ KeyDone(c)
  /\ Queue(c, <<>>)

ServoLoopBody(t) ==
  /\ LoopBody(t)
  /\ \E writes \in control_loop[loop_of[t]] :
       \/ writes = <<>> /\ Quiet
       \/ /\ writes # <<>>
          /\ Transmit(t, Head(writes))
          /\ UNCHANGED todo

Silent(c) ==
  /\ \/ SetStopped(c) \/ Join(c) \/ Assign(c)
     \/ ClearStopped(c) \/ Launch(c) \/ Update(c)
  /\ Quiet

ServoNext ==
  /\ ~undefined
  /\ \/ \E c \in Commanders :
          \/ ServoStopCheck(c) \/ ServoStartCheck(c) \/ ServoKey(c)
          \/ Bus(c) \/ MethodDone(c) \/ Silent(c)
          \/ \E m \in Modes : Command(c, m) /\ Quiet
     \/ \E t \in Threads : ServoLoopBody(t) \/ (LoopCheck(t) /\ Quiet)

ServoSpec == ServoInit /\ [][ServoNext]_robotVars

------------------------------------------------------------------------------
(* Properties.  They are about servos that, since their torque was last     *)
(* switched off, have not missed a write nor been configured by two threads *)
(* at once: either can do damage until the next mode command, and no longer.*)

\* The joints whose torque a mode was the last to switch.
ByModes == {j \in Joints : owner[j] = "mode"}

Settled == ~overlap /\ \A c \in Commanders : pc[c] \in {"ready", "key"}

\* The value that the last write of an item in a sequence gives to a joint.
Last(writes, j, item) ==
  LET about == {i \in DOMAIN writes : writes[i].item = item /\ j \in writes[i].joints}
  IN  writes[CHOOSE i \in about : \A k \in about : k <= i].value

\* Whatever mode, process or missed write came before, the registers of the
\* joints are those that on_start() of the running mode asks for.
SettledConfiguration ==
  (Settled /\ current # "Idle" /\ ~stopped[current]) =>
    \A j \in ByModes \ lost : \A item \in DOMAIN servo[j] :
      servo[j][item] = Last(on_start[current], j, item)

\* A powered servo never has a profile in units that its drive mode misreads,
\* nor an operating mode from one configuration and a drive from another,
\* not even between two writes of set_joint_control_mode, and not when clients
\* are in handlers at once either.
PoweredIsConsistent ==
  \A j \in Joints \ lost : servo[j].torque =>
    \E m \in DOMAIN Registers : servo[j] = Configured(m, TRUE)

\* What a thread may send next.
NextWrites(x) ==
  LET methods == IF x \in Senders THEN {todo[x]}
                 ELSE IF loop_at[x] = "body" THEN control_loop[loop_of[x]] ELSE {}
  IN  {Head(writes) : writes \in methods \ {<<>>}}

\* A goal that is about to be sent, by a mode or by the radio, suits the
\* operating mode of every powered servo it is for that the sender has powered,
\* although keys, loops, mode changes and sticks come from different threads.
GoalFits ==
  ~overlap =>
    \A x \in Senders \union Threads : \A w \in NextWrites(x) :
      w.item = "goal" =>
        \A j \in w.joints \ lost :
          (owner[j] = Who(x) /\ servo[j].torque) => servo[j].operating = w.value

\* When the robot is idle again, no motor that it has powered stays powered.
IdleUnpowered ==
  (Settled /\ current = "Idle") =>
    \A j \in ByModes \ lost : ~servo[j].torque

==============================================================================
