----------------------------- MODULE RadioProofs -----------------------------
(***************************************************************************)
(* Proofs about what hangs on the radio, for any channels and raw values:  *)
(* facts about the poll loop, then RCDrive, RCPump and Pneumatics, the     *)
(* last for any number of pulses, threads and feet.                        *)
(***************************************************************************)
EXTENDS RCDrive, Pneumatics, WellFoundedInduction, TLAPS

\* A set of channels has a first one.
LEMMA FirstChannel ==
  ASSUME NEW S, S \subseteq Channels, S # {}
  PROVE  \E k \in S : \A n \in S : k <= n
<1>1. S \subseteq Nat
  BY ChannelsAssumption DEF ChannelsAssumption
<1>2. \E k \in S : \A n \in S : <<n, k>> \notin OpToRel(<, Nat)
  BY ONLY <1>1, S # {}, NatLessThanWellFounded, WFMin, Zenon
<1>3. ASSUME NEW n \in Nat, NEW k \in Nat, n < k
      PROVE  <<n, k>> \in OpToRel(<, Nat)
  BY <1>3 DEF OpToRel
<1>4. PICK k \in S : \A n \in S : <<n, k>> \notin OpToRel(<, Nat)
  BY <1>2
<1>5. ASSUME NEW n \in S
      PROVE  k <= n
  <2>1. n \in Nat /\ k \in Nat /\ ~(n < k)
    BY <1>1, <1>3, <1>4
  <2> QED
    BY <2>1
<1> QED
  BY <1>5

\* The poll loop never leaves the channels (After in RCRadio).
LEMMA AfterIsChannel == ASSUME NEW i PROVE After(i) \in Channels
<1> DEFINE above == {k \in Channels : k > i}
           from  == IF above = {} THEN Channels ELSE above
<1>1. from \subseteq Channels /\ from # {}
  BY ChannelsAssumption DEF ChannelsAssumption
<1>2. \E k \in from : \A n \in from : k <= n
  BY <1>1, FirstChannel
<1> QED
  BY <1>1, <1>2 DEF After

\* The poll loop starts on one of the channels.
LEMMA RadioInitType == RadioInit => RadioTypeOK
<1> SUFFICES ASSUME RadioInit
             PROVE  RadioTypeOK
  OBVIOUS
<1>1. \E i \in Channels : \A k \in Channels : i <= k
  BY FirstChannel, ChannelsAssumption DEF ChannelsAssumption
<1>2. next \in Channels
  BY <1>1 DEF RadioInit
<1> QED
  BY <1>2 DEF RadioInit, RadioTypeOK, Raw

\* Whatever a handler does, the radio keeps its own variables in their types.
LEMMA RadioStepType ==
  ASSUME RadioTypeOK, Firmware \/ PollChanged \/ PollUnchanged
  PROVE  RadioTypeOK'
<1> USE DEF RadioTypeOK
<1>1. CASE Firmware
  BY <1>1, ValuesAssumption DEF Firmware, ValuesAssumption
<1>2. CASE PollChanged
  BY <1>2, AfterIsChannel DEF PollChanged
<1>3. CASE PollUnchanged
  BY <1>3, AfterIsChannel DEF PollUnchanged
<1> QED
  BY <1>1, <1>2, <1>3

\* What is in the shared memory, and in the copies, are raw values.
LEMMA RawValues ==
  ASSUME RadioTypeOK, NEW i \in Channels
  PROVE  memory[i] \in Raw /\ channels[i] \in Raw
  BY DEF RadioTypeOK

\* Raw values are numbers; the proofs need no more of them.
LEMMA RawIsInt == ASSUME NEW v \in Raw PROVE v \in Int
  BY DEF Raw

\* A copy is off by less than the threshold as soon as its channel is polled.
LEMMA Threshold ==
  ASSUME NEW old \in Int, NEW new \in Int
  PROVE  /\ Abs(new - new) < 3
         /\ ~Changed(old, new) => Abs(new - old) < 3
  BY DEF Changed, Abs

\* A switch has one of three positions.
LEMMA StateRange == ASSUME NEW v PROVE State(v) \in {"low", "middle", "high"}
  BY DEF State

------------------------------------------------------------------------------
(* RCDrive: the sticks and the motor switches.                              *)

\* The steps of the system, as the proofs below split them.
LEMMA DriveSteps ==
  ASSUME [DriveNext]_driveVars
  PROVE  \/ PollChanged /\ next = 0 /\ turn(memory[0])
         \/ PollChanged /\ next = 1 /\ move(memory[1])
         \/ PollChanged /\ next = 4 /\ left_motor(memory[4])
         \/ PollChanged /\ next = 7 /\ right_motor(memory[7])
         \/ (Firmware \/ PollUnchanged) /\ UNCHANGED <<switches, speeds, joints>>
         \/ UNCHANGED driveVars
  BY DEF DriveNext, on_drive_channel_change

\* The middle of a stick, and the range of a channel.
LEMMA Middle == middle = 991 /\ range = 1638
  BY DEF middle, range, channel_min_value, channel_max_value

\* turn() and move() compute a speed of any raw value.
LEMMA SpeedIsInt ==
  ASSUME NEW v \in Raw
  PROVE  Speed(v) \in Int
  BY Middle, RawIsInt DEF Speed

\* The sticks drive joints only, whatever the switches are.
LEMMA StickJoints ==
  ASSUME NEW l, NEW r
  PROVE  TurnJoints(l, r) \subseteq Joints /\ MoveJoints(l, r) \subseteq Joints
  BY DEF TurnJoints, MoveJoints, Joints, LeftJoints, RightJoints

------------------------------------------------------------------------------
(* The type invariant                                                       *)

\* Every step keeps the variables of the drive and of the radio in their types.
THEOREM DriveTypeCorrect == DriveSpec => []DriveTypeOK
<1>1. DriveInit => DriveTypeOK
  <2> SUFFICES ASSUME DriveInit
               PROVE  DriveTypeOK
    OBVIOUS
  <2>1. RadioTypeOK
    BY RadioInitType DEF DriveInit
  <2> QED
    BY <2>1 DEF DriveInit, DriveTypeOK
<1>2. DriveTypeOK /\ [DriveNext]_driveVars => DriveTypeOK'
  <2> SUFFICES ASSUME DriveTypeOK, [DriveNext]_driveVars
               PROVE  DriveTypeOK'
    OBVIOUS
  <2> USE DEF DriveTypeOK, switches, speeds, joints
  <2>0. fresh' \subseteq Channels
    BY DEF DriveNext, Watched, driveVars, RadioTypeOK
  <2>1. CASE PollChanged /\ next = 0 /\ turn(memory[0])
    <3>1. RadioTypeOK'
      BY <2>1, RadioStepType
    <3>2. 0 \in Channels
      BY <2>1 DEF RadioTypeOK
    <3>3. Speed(memory[0]) \in Int
      BY <3>2, RawValues, SpeedIsInt
    <3>4. goal' \in [Joints -> Int]
      BY <2>1, <3>3 DEF turn, set_joint_speed
    <3>5. since' \subseteq Joints
      BY <2>1, StickJoints DEF turn, set_joint_speed
    <3> QED
      BY <2>0, <2>1, <3>1, <3>3, <3>4, <3>5 DEF turn, set_joint_speed
  <2>2. CASE PollChanged /\ next = 1 /\ move(memory[1])
    <3>1. RadioTypeOK'
      BY <2>2, RadioStepType
    <3>2. 1 \in Channels
      BY <2>2 DEF RadioTypeOK
    <3>3. Speed(memory[1]) \in Int
      BY <3>2, RawValues, SpeedIsInt
    <3>4. goal' \in [Joints -> Int]
      BY <2>2, <3>3 DEF move, set_joint_speed
    <3>5. since' \subseteq Joints
      BY <2>2, StickJoints DEF move, set_joint_speed
    <3> QED
      BY <2>0, <2>2, <3>1, <3>3, <3>4, <3>5 DEF move, set_joint_speed
  <2>3. CASE PollChanged /\ next = 4 /\ left_motor(memory[4])
    BY <2>0, <2>3, RadioStepType, StateRange DEF left_motor, SwitchMotors
  <2>4. CASE PollChanged /\ next = 7 /\ right_motor(memory[7])
    BY <2>0, <2>4, RadioStepType, StateRange DEF right_motor, SwitchMotors
  <2>5. CASE (Firmware \/ PollUnchanged) /\ UNCHANGED <<switches, speeds, joints>>
    BY <2>0, <2>5, RadioStepType
  <2>6. CASE UNCHANGED driveVars
    BY <2>0, <2>6 DEF driveVars, radio, RadioTypeOK
  <2> QED
    BY <2>1, <2>2, <2>3, <2>4, <2>5, <2>6, DriveSteps
<1> QED
  BY <1>1, <1>2, PTL DEF DriveSpec

------------------------------------------------------------------------------
(* A stick at rest stops                                                    *)

\* What the poll thread has seen is what the transmitter sends, to within the
\* threshold, and the speeds are those of what it has seen.
Seen ==
  /\ \A i \in fresh : Abs(memory[i] - channels[i]) < 3
  /\ turn_speed = 0 \/ (0 \in Channels /\ turn_speed = Speed(channels[0]))
  /\ move_speed = 0 \/ (1 \in Channels /\ move_speed = Speed(channels[1]))

\* Every step keeps what has been seen close to what is sent.
LEMMA SeenStep == DriveTypeOK /\ Seen /\ [DriveNext]_driveVars => Seen'
<1> SUFFICES ASSUME DriveTypeOK, Seen, [DriveNext]_driveVars
             PROVE  Seen'
  OBVIOUS
<1> USE DEF Seen, DriveTypeOK, RadioTypeOK
<1>1. \A i \in fresh' : Abs(memory'[i] - channels'[i]) < 3
  <2>1. CASE PollChanged /\ Watched({next})
    <3>1. Abs(memory[next] - memory[next]) < 3
      BY RawValues, RawIsInt, Threshold
    <3> QED
      BY <2>1, <3>1 DEF PollChanged, Watched
  <2>2. CASE PollUnchanged /\ Watched({next})
    <3>1. Abs(memory[next] - channels[next]) < 3
      BY <2>2, RawValues, RawIsInt, Threshold DEF PollUnchanged
    <3> QED
      BY <2>2, <3>1 DEF PollUnchanged, Watched
  <2>3. CASE Firmware /\ Watched({})
    BY <2>3 DEF Firmware, Watched
  <2>4. CASE UNCHANGED driveVars
    BY <2>4 DEF driveVars, radio
  <2> QED
    BY <2>1, <2>2, <2>3, <2>4 DEF DriveNext
<1>2. CASE PollChanged /\ next = 0 /\ turn(memory[0])
  BY <1>1, <1>2 DEF PollChanged, turn
<1>3. CASE PollChanged /\ next = 1 /\ move(memory[1])
  BY <1>1, <1>3 DEF PollChanged, move
<1>4. CASE PollChanged /\ next = 4 /\ left_motor(memory[4])
  BY <1>1, <1>4 DEF PollChanged, left_motor, SwitchMotors, speeds
<1>5. CASE PollChanged /\ next = 7 /\ right_motor(memory[7])
  BY <1>1, <1>5 DEF PollChanged, right_motor, SwitchMotors, speeds
<1>6. CASE (Firmware \/ PollUnchanged) /\ UNCHANGED speeds
  BY <1>1, <1>6 DEF Firmware, PollUnchanged, speeds
<1>7. CASE UNCHANGED driveVars
  BY <1>1, <1>7 DEF driveVars, radio, speeds
<1> QED
  BY <1>2, <1>3, <1>4, <1>5, <1>6, <1>7, DriveSteps

\* A raw value within eight units of the middle is in the dead zone: the
\* threshold and the resting position of a stick together stay inside it.
LEMMA DeadZone ==
  ASSUME NEW m \in Int, NEW c \in Int,
         Abs(m - c) < 3, Abs(m - middle) <= 6
  PROVE  Speed(c) = 0
  BY Middle DEF Abs, Speed

\* A stick at rest within six units of the middle is read as stopped once it
\* has been polled, for the threshold hides less than the dead zone forgives.
THEOREM RestIsStopped == DriveSpec => []CentredStickIsStopped
<1>1. DriveInit => Seen
  BY DEF DriveInit, RadioInit, Seen
<1>2. DriveTypeOK /\ Seen => CentredStickIsStopped
  <2> SUFFICES ASSUME DriveTypeOK, Seen
               PROVE  CentredStickIsStopped
    OBVIOUS
  <2>1. ASSUME NEW i \in fresh, Abs(memory[i] - middle) <= 6
        PROVE  Speed(channels[i]) = 0
    <3>1. /\ memory[i] \in Int /\ channels[i] \in Int
          /\ Abs(memory[i] - channels[i]) < 3
      BY RawValues, RawIsInt DEF DriveTypeOK, RadioTypeOK, Seen
    <3> QED
      BY <2>1, <3>1, DeadZone
  <2> QED
    BY <2>1 DEF Seen, CentredStickIsStopped
<1> QED
  BY <1>1, <1>2, SeenStep, DriveTypeCorrect, PTL DEF DriveSpec

------------------------------------------------------------------------------
(* Sticks at rest stop the joints                                           *)

\* A joint that moves is one that a deflected stick drives with the switches
\* as they are.
Driven ==
  \A j \in since : goal[j] # 0 =>
    \/ /\ turn_speed # 0
       /\ j \in TurnJoints(left_motor_channel, right_motor_channel)
    \/ /\ move_speed # 0
       /\ j \in MoveJoints(left_motor_channel, right_motor_channel)

\* Every step leaves a moving joint to a deflected stick: a stick that is
\* released stops all the joints it drives, and a motor switch forgets them.
LEMMA DrivenStep == DriveTypeOK /\ Driven /\ [DriveNext]_driveVars => Driven'
<1> SUFFICES ASSUME DriveTypeOK, Driven, [DriveNext]_driveVars
             PROVE  Driven'
  OBVIOUS
<1> USE DEF Driven
<1>1. CASE PollChanged /\ next = 0 /\ turn(memory[0])
  <2> DEFINE T == TurnJoints(left_motor_channel, right_motor_channel)
  <2>1. Speed(memory[0]) \in Int
    <3>1. 0 \in Channels
      BY <1>1 DEF DriveTypeOK, RadioTypeOK
    <3> QED
      BY <3>1, RawValues, SpeedIsInt DEF DriveTypeOK
  <2>2. /\ turn_speed' = Speed(memory[0])
        /\ UNCHANGED <<left_motor_channel, right_motor_channel, move_speed>>
        /\ since' = since \union T
    BY <1>1 DEF turn, set_joint_speed, switches
  <2>3. \A j \in Joints :
          /\ j \notin T => goal'[j] = goal[j]
          /\ j \in T => goal'[j] \in {Speed(memory[0]), -Speed(memory[0])}
    BY <1>1 DEF turn, set_joint_speed
  <2>4. since \subseteq Joints /\ T \subseteq Joints
    BY StickJoints DEF DriveTypeOK
  <2> HIDE DEF T
  <2>5. ASSUME NEW j \in since', goal'[j] # 0
        PROVE  \/ turn_speed' # 0 /\ j \in T
               \/ /\ move_speed' # 0
                  /\ j \in MoveJoints(left_motor_channel', right_motor_channel')
    BY <2>1, <2>2, <2>3, <2>4, <2>5 DEF T
  <2> QED
    BY <2>2, <2>5 DEF T
<1>2. CASE PollChanged /\ next = 1 /\ move(memory[1])
  <2> DEFINE M == MoveJoints(left_motor_channel, right_motor_channel)
  <2>1. /\ move_speed' = Speed(memory[1])
        /\ UNCHANGED <<left_motor_channel, right_motor_channel, turn_speed>>
        /\ since' = since \union M
    BY <1>2 DEF move, set_joint_speed, switches
  <2>2. \A j \in Joints :
          goal'[j] = IF j \in M THEN Speed(memory[1]) ELSE goal[j]
    BY <1>2 DEF move, set_joint_speed
  <2>3. since \subseteq Joints /\ M \subseteq Joints
    BY StickJoints DEF DriveTypeOK
  <2> HIDE DEF M
  <2>4. ASSUME NEW j \in since', goal'[j] # 0
        PROVE  \/ move_speed' # 0 /\ j \in M
               \/ /\ turn_speed' # 0
                  /\ j \in TurnJoints(left_motor_channel', right_motor_channel')
    BY <2>1, <2>2, <2>3, <2>4 DEF M
  <2> QED
    BY <2>1, <2>4 DEF M
<1>3. CASE left_motor(memory[4]) \/ right_motor(memory[7])
  BY <1>3 DEF left_motor, right_motor, SwitchMotors
<1>4. CASE UNCHANGED <<switches, speeds, joints>>
  BY <1>4 DEF switches, speeds, joints
<1> QED
  BY <1>1, <1>2, <1>3, <1>4, DriveSteps DEF driveVars

\* Both sticks read as stopped stop every joint that they have driven since a
\* motor switch last moved: no joint keeps a speed that no stick accounts for.
THEOREM RestStopsJoints == DriveSpec => []CentredSticksStop
<1>1. DriveInit => Driven
  BY DEF DriveInit, Driven
<1>2. Driven => CentredSticksStop
  BY DEF Driven, CentredSticksStop
<1> QED
  BY <1>1, <1>2, DrivenStep, DriveTypeCorrect, PTL DEF DriveSpec

------------------------------------------------------------------------------
(* The sticks and the control modes                                         *)

\* The joints of a side are in the control mode of its switch, from the first
\* time that the switch reports.
Mode(state) == IF state = "low" THEN "off" ELSE "velocity"

ModesFollow ==
  /\ Heard(4) => \A j \in LeftJoints : motor[j] = Mode(left_motor_channel)
  /\ Heard(7) => \A j \in RightJoints : motor[j] = Mode(right_motor_channel)

\* A joint is on one side.
LEMMA TwoSides == LeftJoints \subseteq Joints /\ RightJoints \subseteq Joints
               /\ LeftJoints \intersect RightJoints = {}
  BY DEF LeftJoints, RightJoints, Joints

\* Every step keeps the joints of a side in the mode of its switch.
LEMMA ModesFollowStep == DriveTypeOK /\ ModesFollow /\ [DriveNext]_driveVars => ModesFollow'
<1> SUFFICES ASSUME DriveTypeOK, ModesFollow, [DriveNext]_driveVars
             PROVE  ModesFollow'
  OBVIOUS
<1> USE DEF ModesFollow
<1>1. ASSUME NEW i, PollChanged, next # i, Heard(i)'
      PROVE  Heard(i)
  BY <1>1 DEF DriveTypeOK, RadioTypeOK, PollChanged, Heard
<1>2. CASE PollChanged /\ next = 0 /\ turn(memory[0])
  BY <1>1, <1>2 DEF turn, set_joint_speed, switches
<1>3. CASE PollChanged /\ next = 1 /\ move(memory[1])
  BY <1>1, <1>3 DEF move, set_joint_speed, switches
<1>4. CASE PollChanged /\ next = 4 /\ left_motor(memory[4])
  <2>1. Heard(7)' => Heard(7)
    BY <1>1, <1>4
  <2>2. /\ \A j \in LeftJoints : motor'[j] = Mode(left_motor_channel')
        /\ \A j \in RightJoints : motor'[j] = motor[j]
    BY <1>4, TwoSides DEF left_motor, SwitchMotors, Mode
  <2> QED
    BY <1>4, <2>1, <2>2 DEF left_motor
<1>5. CASE PollChanged /\ next = 7 /\ right_motor(memory[7])
  <2>1. Heard(4)' => Heard(4)
    BY <1>1, <1>5
  <2>2. /\ \A j \in RightJoints : motor'[j] = Mode(right_motor_channel')
        /\ \A j \in LeftJoints : motor'[j] = motor[j]
    BY <1>5, TwoSides DEF right_motor, SwitchMotors, Mode
  <2> QED
    BY <1>5, <2>1, <2>2 DEF right_motor
<1>6. CASE UNCHANGED <<channels, switches, joints>>
  BY <1>6 DEF switches, joints, Heard
<1> QED
  BY <1>2, <1>3, <1>4, <1>5, <1>6, DriveSteps
  DEF Firmware, PollUnchanged, driveVars, radio

\* No stick drives a joint of a side that is switched off.
LEMMA DrivesPowered ==
  ASSUME NEW l, NEW r, NEW j \in TurnJoints(l, r) \union MoveJoints(l, r)
  PROVE  \/ j \in LeftJoints /\ l # "low"
         \/ j \in RightJoints /\ r # "low"
  BY DEF TurnJoints, MoveJoints, Joints, LeftJoints, RightJoints

\* Once the switches of both sides have reported, the sticks send speeds only
\* to joints that a switch has put into velocity mode.
THEOREM SpeedsNeedVelocityMode == DriveSpec => SpeedsOnlyToVelocityMode
<1> DEFINE Quiet ==
      \A j \in Joints :
        (Heard(4) /\ Heard(7) /\ j \in since' \ since) => motor[j] = "velocity"
<1>1. DriveInit => ModesFollow
  BY DEF DriveInit, RadioInit, ModesFollow, Heard
<1>2. ModesFollow /\ [DriveNext]_driveVars => [Quiet]_driveVars
  <2> SUFFICES ASSUME ModesFollow, [DriveNext]_driveVars
               PROVE  Quiet
    OBVIOUS
  <2>1. since' \ since \subseteq
          TurnJoints(left_motor_channel, right_motor_channel)
          \union MoveJoints(left_motor_channel, right_motor_channel)
    BY DriveSteps DEF turn, move, set_joint_speed, left_motor, right_motor,
                 SwitchMotors, joints, driveVars
  <2> QED
    BY <2>1, DrivesPowered DEF ModesFollow, Mode
<1> QED
  BY <1>1, <1>2, ModesFollowStep, DriveTypeCorrect, PTL
  DEF DriveSpec, SpeedsOnlyToVelocityMode

------------------------------------------------------------------------------
(* The switches and the pump.                                               *)

\* The steps of the system, as the proofs below split them.
LEMMA Steps ==
  ASSUME [Next]_vars
  PROVE  \/ PollChanged /\ next = 5 /\ left_pump(memory[5]) /\ Remembers(5)
         \/ PollChanged /\ next = 6 /\ right_pump(memory[6]) /\ Remembers(6)
         \/ (Firmware \/ PollUnchanged) /\ UNCHANGED <<pumps, toggle>>
         \/ \E c \in Clients : TogglePump(c) \/ FlipState(c) \/ SetPump(c)
         \/ UNCHANGED vars
  BY DEF Next, Toggle, on_rc_radio_channel_change, Channel

\* Every step keeps the variables of the pump and of the radio in their types.
THEOREM TypeCorrect == Spec => []TypeOK
<1>1. Init => TypeOK
  BY RadioInitType DEF Init, TypeOK
<1>2. TypeOK /\ [Next]_vars => TypeOK'
  <2> SUFFICES ASSUME TypeOK, [Next]_vars
               PROVE  TypeOK'
    OBVIOUS
  <2> USE DEF TypeOK, pumps, toggle
  <2>1. CASE PollChanged /\ next = 5 /\ left_pump(memory[5]) /\ Remembers(5)
    BY <2>1, RadioStepType, StateRange DEF left_pump, Remembers
  <2>2. CASE PollChanged /\ next = 6 /\ right_pump(memory[6]) /\ Remembers(6)
    BY <2>2, RadioStepType, StateRange DEF right_pump, Remembers
  <2>3. CASE (Firmware \/ PollUnchanged) /\ UNCHANGED <<pumps, toggle>>
    BY <2>3, RadioStepType
  <2>4. ASSUME NEW c \in Clients, TogglePump(c) \/ FlipState(c) \/ SetPump(c)
        PROVE  TypeOK'
    <3>1. RadioTypeOK'
      BY <2>4 DEF TogglePump, FlipState, SetPump, radio, RadioTypeOK
    <3> QED
      BY <2>4, <3>1 DEF TogglePump, FlipState, SetPump
  <2>5. CASE UNCHANGED vars
    BY <2>5 DEF vars, radio, RadioTypeOK
  <2> QED
    BY <2>1, <2>2, <2>3, <2>4, <2>5, Steps
<1> QED
  BY <1>1, <1>2, PTL DEF Spec

\* While the radio was the last to set the pump, the pump is off exactly when
\* both feet are switched off: each handler reads the position that Robot last
\* saw of the other foot's switch, and nothing else changes it.
THEOREM PumpObeys == Spec => []PumpFollowsSwitches
<1>1. Init => PumpFollowsSwitches
  BY DEF Init, PumpFollowsSwitches
<1>2. PumpFollowsSwitches /\ [Next]_vars => PumpFollowsSwitches'
  <2> SUFFICES ASSUME PumpFollowsSwitches, [Next]_vars
               PROVE  PumpFollowsSwitches'
    OBVIOUS
  <2> USE DEF PumpFollowsSwitches
  <2>1. CASE PollChanged /\ next = 5 /\ left_pump(memory[5])
    BY <2>1 DEF left_pump
  <2>2. CASE PollChanged /\ next = 6 /\ right_pump(memory[6])
    BY <2>2 DEF right_pump
  <2>3. CASE UNCHANGED pumps
    BY <2>3 DEF pumps
  <2>4. CASE \E c \in Clients : SetPump(c)
    BY <2>4 DEF SetPump
  <2> QED
    BY <2>1, <2>2, <2>3, <2>4, Steps DEF TogglePump, FlipState, vars
<1> QED
  BY <1>1, <1>2, PTL DEF Spec

\* What a foot's switch asks of its vent.
Asked(foot) ==
  CASE Switch(foot) = "high"   -> ~Vent(foot)
    [] Switch(foot) = "middle" -> Vent(foot)
    [] Switch(foot) = "low"    -> Vent(foot) <=> foot \notin held

\* A step that moves the switch of a foot leaves its vent as it asks, and leaves
\* the other foot as it was, even if it stops the pump, which makes both feet
\* that are closed be remembered.
LEMMA Asking ==
  ASSUME TypeOK, TypeOK', NEW foot \in Sides, NEW i \in {5, 6},
         \/ i = 5 /\ left_pump(memory[5])
         \/ i = 6 /\ right_pump(memory[6]),
         Remembers(i)
  PROVE  /\ Vent(foot)' \in BOOLEAN /\ Switch(foot)' \in {"low", "middle", "high"}
         /\ Channel[foot] = i => Asked(foot)'
         /\ Channel[foot] # i => /\ UNCHANGED <<Vent(foot), Switch(foot)>>
                                 /\ Asked(foot) => Asked(foot)'
         /\ Channel[foot] = i /\ ~pump' => UNCHANGED Vent(foot)
         /\ Channel[foot] = i /\ pump' => Vent(foot)' = (Switch(foot)' # "high")
<1>1. foot = "left" \/ foot = "right"
  BY DEF Sides
<1>2. Channel["left"] = 5 /\ Channel["right"] = 6
  BY DEF Channel
<1>3. /\ Vent(foot) \in BOOLEAN /\ Switch(foot) \in {"low", "middle", "high"}
      /\ Vent(foot)' \in BOOLEAN /\ Switch(foot)' \in {"low", "middle", "high"}
  BY <1>1 DEF TypeOK, Vent, Switch
<1>4. foot \in held' <=> IF pump' THEN foot \in held /\ Channel[foot] # i ELSE ~Vent(foot)
  BY DEF Remembers, TypeOK
<1>5. CASE Channel[foot] = i
  <2>1. /\ ~pump' => Switch(foot)' = "low" /\ Vent(foot)' = Vent(foot)
        /\ pump' => Vent(foot)' = (Switch(foot)' # "high")
    BY <1>1, <1>2, <1>3, <1>5 DEF left_pump, right_pump, Vent, Switch, TypeOK
  <2>2. Asked(foot)'
    BY <1>3, <1>4, <1>5, <2>1 DEF Asked
  <2> QED
    BY <1>3, <1>5, <2>1, <2>2
<1>6. CASE Channel[foot] # i
  <2>1. UNCHANGED <<Vent(foot), Switch(foot)>> /\ (~pump' => Switch(foot) = "low")
    BY <1>1, <1>2, <1>6 DEF left_pump, right_pump, Vent, Switch
  <2>2. Asked(foot) => Asked(foot)'
    BY <1>3, <1>4, <1>6, <2>1 DEF Asked
  <2> QED
    BY <1>3, <1>6, <2>1, <2>2
<1> QED
  BY <1>5, <1>6

\* A foot that is switched to grip has its vent closed, one in the middle
\* position has it open, and one that is off has it open or still grips since
\* the pump was stopped, once its switch has reported.  A vent is told anew on
\* every change of its own switch that does not stop the pump, and the pump is
\* only stopped with that switch low.
THEOREM VentObeys == Spec => []VentFollowsSwitch
<1> DEFINE Inv == \A foot \in Sides : Heard(Channel[foot]) => Asked(foot)
<1>1. Init => Inv
  BY DEF Init, RadioInit, Heard
<1>2. TypeOK /\ TypeOK' /\ Inv /\ [Next]_vars => Inv'
  <2> SUFFICES ASSUME TypeOK, TypeOK', Inv, [Next]_vars, NEW foot \in Sides,
                      Heard(Channel[foot])'
               PROVE  Asked(foot)'
    OBVIOUS
  <2>1. ASSUME NEW i \in {5, 6}, PollChanged, next = i, Channel[foot] # i
        PROVE  Heard(Channel[foot])
    BY <2>1 DEF TypeOK, RadioTypeOK, PollChanged, Heard
  <2>2. CASE PollChanged /\ next = 5 /\ left_pump(memory[5]) /\ Remembers(5)
    BY <2>1, <2>2, Asking
  <2>3. CASE PollChanged /\ next = 6 /\ right_pump(memory[6]) /\ Remembers(6)
    BY <2>1, <2>3, Asking
  <2>4. CASE UNCHANGED <<channels, left_pump_channel, right_pump_channel,
                         left_vent, right_vent, held>>
    BY <2>4 DEF Heard, Asked, Switch, Vent
  <2> QED
    BY <2>2, <2>3, <2>4, Steps
    DEF Firmware, PollUnchanged, TogglePump, FlipState, SetPump, vars, radio, pumps
<1>3. Inv => VentFollowsSwitch
  BY DEF Asked, VentFollowsSwitch
<1> QED
  BY <1>1, <1>2, <1>3, TypeCorrect, PTL DEF Spec

------------------------------------------------------------------------------
(* The vents.                                                               *)

\* Whatever the vents do, the switches and the pump behave as RCPump says, so
\* that what is proved of it holds here.
THEOREM ImplementsRCPump == PneumaticsSpec => Spec
<1>1. PneumaticsInit => Init
  BY DEF PneumaticsInit
<1>2. [PneumaticsNext]_pneumatics => [Next]_vars
  BY DEF PneumaticsNext, pneumatics, Handler, Pulse, Next
<1> QED
  BY <1>1, <1>2, PTL DEF PneumaticsSpec, Spec

------------------------------------------------------------------------------

VentsTypeOK ==
  /\ TypeOK
  /\ tasks \in [Feet -> [Tasks -> [vent : BOOLEAN, left : 0..Pulses]]]
  /\ position \in [Feet -> 0..Travel]
  /\ last \in [Feet -> Tasks]
  /\ clean \in [Feet -> BOOLEAN]

Older(foot) == Tasks \ {last[foot]}

\* A thread that was started before the newest has pulses left to send.
Crowded(foot) == ~Ended(foot, Older(foot))

\* The newest thread is alone, and has enough pulses left.
UnderWay(foot) ==
  /\ Ended(foot, Older(foot))
  /\ tasks[foot][last[foot]].left > 0
  /\ Vent(foot)  => Travel - position[foot] <= tasks[foot][last[foot]].left
  /\ ~Vent(foot) => position[foot] <= tasks[foot][last[foot]].left

Arrived(foot) ==
  /\ Resting(foot)
  /\ Vent(foot)  => position[foot] = Travel
  /\ ~Vent(foot) => position[foot] = 0

\* The newest thread moves the vent to where it was last told to go.
ForTheLast(foot) ==
  tasks[foot][last[foot]].left > 0 => tasks[foot][last[foot]].vent = Vent(foot)

OnItsWay(foot) ==
  /\ Asked(foot) /\ ForTheLast(foot)
  /\ Crowded(foot) \/ UnderWay(foot) \/ Arrived(foot)

VentsInv == VentsTypeOK /\ \A foot \in Feet : clean[foot] => OnItsWay(foot)

\* The handler tells a vent what the switch of its foot asks for, or neither
\* tells it nor has it asked.
LEMMA HandlerTells ==
  ASSUME VentsTypeOK, TypeOK', Handler, NEW foot \in Feet
  PROVE  /\ Vent(foot)' \in BOOLEAN
         /\ Told(foot) => Asked(foot)'
         /\ ~Told(foot) => /\ Vent(foot)' = Vent(foot)
                           /\ Asked(foot) => Asked(foot)'
<1>1. foot \in Sides /\ Channel["left"] = 5 /\ Channel["right"] = 6
  BY FeetAssumption DEF Sides, Channel
<1>2. PICK i \in {5, 6} :
        /\ next = i /\ Remembers(i)
        /\ \/ i = 5 /\ left_pump(memory[5])
           \/ i = 6 /\ right_pump(memory[6])
  BY <1>1 DEF Handler, on_rc_radio_channel_change
<1>3. TypeOK
  BY DEF VentsTypeOK
<1>4. /\ Vent(foot)' \in BOOLEAN
      /\ Channel[foot] = i => Asked(foot)'
      /\ Channel[foot] # i => Vent(foot)' = Vent(foot) /\ (Asked(foot) => Asked(foot)')
      /\ Channel[foot] = i /\ ~pump' => Vent(foot)' = Vent(foot)
  BY <1>1, <1>2, <1>3, Asking
<1> QED
  BY <1>2, <1>4 DEF Told

LEMMA VentsInvInit == PneumaticsInit => VentsInv
<1> SUFFICES ASSUME PneumaticsInit
             PROVE  VentsInv
  OBVIOUS
<1>1. TypeOK
  BY RadioInitType DEF PneumaticsInit, Init, TypeOK
<1>2. VentsTypeOK
  <2>1. Done \in [vent : BOOLEAN, left : 0..Pulses]
    BY PulsesAssumption DEF Done
  <2> QED
    BY <1>1, <2>1, PulsesAssumption DEF PneumaticsInit, VentsTypeOK
<1>3. \A foot \in Feet : ~clean[foot]
  BY DEF PneumaticsInit
<1> QED
  BY <1>2, <1>3 DEF VentsInv

\* What does not touch a vent leaves it on its way.
LEMMA Untouched ==
  ASSUME NEW foot \in Feet, OnItsWay(foot), Asked(foot)',
         tasks'[foot] = tasks[foot], position'[foot] = position[foot],
         last'[foot] = last[foot], Vent(foot)' = Vent(foot)
  PROVE  OnItsWay(foot)'
<1>1. ForTheLast(foot)'
  BY DEF OnItsWay, ForTheLast
<1>2. Crowded(foot) => Crowded(foot)'
  BY DEF Crowded, Older, Ended
<1>3. UnderWay(foot) => UnderWay(foot)'
  BY DEF UnderWay, Older, Ended
<1>4. Arrived(foot) => Arrived(foot)'
  BY DEF Arrived, Resting, Ended
<1> QED
  BY <1>1, <1>2, <1>3, <1>4 DEF OnItsWay

LEMMA VentsInvHandler ==
  ASSUME VentsInv, TypeOK', Handler
  PROVE  VentsInv'
<1>1. PICK t \in Tasks :
        /\ \A foot \in Feet : Told(foot) => tasks[foot][t] = Done
        /\ tasks' = [foot \in Feet |->
             IF Told(foot) THEN [tasks[foot] EXCEPT ![t] = SendPulses(Vent(foot)')]
                           ELSE tasks[foot]]
        /\ last' = [foot \in Feet |-> IF Told(foot) THEN t ELSE last[foot]]
  BY DEF Handler
<1>2. VentsTypeOK'
  <2>1. \A foot \in Feet : SendPulses(Vent(foot)') \in [vent : BOOLEAN, left : 0..Pulses]
    BY HandlerTells, PulsesAssumption DEF SendPulses, VentsInv
  <2>2. tasks' \in [Feet -> [Tasks -> [vent : BOOLEAN, left : 0..Pulses]]]
    BY <1>1, <2>1 DEF VentsInv, VentsTypeOK
  <2>3. last' \in [Feet -> Tasks]
    BY <1>1 DEF VentsInv, VentsTypeOK
  <2>4. clean' \in [Feet -> BOOLEAN]
    BY DEF Handler, Told, VentsInv, VentsTypeOK, TypeOK
  <2> QED
    BY <2>2, <2>3, <2>4 DEF Handler, VentsInv, VentsTypeOK
<1>3. ASSUME NEW foot \in Feet, clean'[foot]
      PROVE  OnItsWay(foot)'
  <2>1. CASE Told(foot)
    <3>1. last'[foot] = t /\ tasks'[foot] = [tasks[foot] EXCEPT ![t] = SendPulses(Vent(foot)')]
      BY <1>1, <2>1
    <3>2. tasks'[foot][t].vent = Vent(foot)' /\ tasks'[foot][t].left = Pulses
      BY <3>1 DEF VentsInv, VentsTypeOK, SendPulses
    <3>3. position'[foot] \in 0..Travel
      BY <1>2 DEF VentsTypeOK
    <3>4. Crowded(foot)' \/ UnderWay(foot)'
      BY <3>1, <3>2, <3>3, PulsesAssumption DEF Crowded, UnderWay
    <3>5. ForTheLast(foot)'
      BY <3>1, <3>2 DEF ForTheLast
    <3> QED
      BY <2>1, <3>4, <3>5, HandlerTells DEF VentsInv, OnItsWay
  <2>2. CASE ~Told(foot)
    <3>1. /\ clean[foot] /\ tasks'[foot] = tasks[foot] /\ last'[foot] = last[foot]
          /\ position'[foot] = position[foot]
      BY <1>1, <1>3, <2>2 DEF Handler
    <3> QED
      BY <2>2, <3>1, HandlerTells, Untouched DEF VentsInv, OnItsWay
  <2> QED
    BY <2>1, <2>2
<1> QED
  BY <1>2, <1>3 DEF VentsInv

\* A pulse of the newest thread, when it is alone, brings the vent nearer.
LEMMA Nearer ==
  ASSUME VentsInv, VentsTypeOK', NEW foot \in Feet, Pulse(foot, last[foot]),
         UnderWay(foot), ForTheLast(foot), clean'[foot]
  PROVE  ForTheLast(foot)' /\ (UnderWay(foot)' \/ Arrived(foot)')
<1> DEFINE l    == last[foot]
           task == tasks[foot][l]
           at   == position[foot]
<1>1. /\ l \in Tasks /\ task \in [vent : BOOLEAN, left : 0..Pulses] /\ task.left > 0
      /\ at \in 0..Travel /\ task.vent = Vent(foot)
  BY DEF Pulse, ForTheLast, VentsInv, VentsTypeOK
<1>2. /\ last'[foot] = l /\ Vent(foot)' = Vent(foot)
      /\ tasks'[foot] = [tasks[foot] EXCEPT ![l] =
           IF task.left = 1 THEN Done ELSE [vent |-> task.vent, left |-> task.left - 1]]
      /\ position'[foot] = Pulsed(at, Vent(foot))
  BY <1>1 DEF Pulse, Vent, vars, pumps, VentsInv, VentsTypeOK
<1>3. Done.left = 0
  BY DEF Done
<1>4. \A u \in Tasks \ {l} : tasks'[foot][u] = Done
  BY <1>2 DEF UnderWay, Ended, Older, VentsInv, VentsTypeOK
<1>5. CASE task.left = 1
  <2>1. tasks'[foot][l] = Done
    BY <1>1, <1>2, <1>5 DEF VentsInv, VentsTypeOK
  <2>2. Resting(foot)'
    BY <1>4, <2>1 DEF Resting, Ended
  <2>3. ForTheLast(foot)'
    BY <1>2, <1>3, <2>1 DEF ForTheLast
  <2>4. Vent(foot) => position'[foot] = Travel
    BY <1>1, <1>2, <1>5, PulsesAssumption DEF Pulsed, UnderWay
  <2>5. ~Vent(foot) => position'[foot] = 0
    BY <1>1, <1>2, <1>5, PulsesAssumption DEF Pulsed, UnderWay
  <2> QED
    BY <1>2, <2>2, <2>3, <2>4, <2>5 DEF Arrived
<1>6. CASE task.left # 1
  <2>1. tasks'[foot][l] = [vent |-> task.vent, left |-> task.left - 1]
    BY <1>1, <1>2, <1>6 DEF VentsInv, VentsTypeOK
  <2>2. tasks'[foot][l].vent = Vent(foot) /\ tasks'[foot][l].left = task.left - 1
    BY <1>1, <2>1
  <2>3. /\ task.left - 1 > 0
        /\ Vent(foot) => Travel - position'[foot] <= task.left - 1
        /\ ~Vent(foot) => position'[foot] <= task.left - 1
    BY <1>1, <1>2, <1>6, PulsesAssumption DEF Pulsed, UnderWay
  <2>4. UnderWay(foot)'
    BY <1>2, <1>4, <2>2, <2>3 DEF UnderWay, Ended, Older
  <2> QED
    BY <1>2, <2>2, <2>4 DEF ForTheLast
<1> QED
  BY <1>5, <1>6

\* When a pulse of an older thread leaves the newest alone, that one has as many
\* left as the vent may need from wherever it is.
LEMMA Alone ==
  ASSUME VentsInv, VentsTypeOK', NEW foot \in Feet, NEW t \in Older(foot), Pulse(foot, t),
         ForTheLast(foot), clean'[foot]
  PROVE  ForTheLast(foot)' /\ (Crowded(foot)' \/ UnderWay(foot)')
<1> DEFINE l == last[foot]
           left == tasks[foot][t].left
<1>1. l \in Tasks /\ t \in Tasks /\ t # l /\ left \in Nat /\ left > 0
  BY DEF Older, Pulse, VentsInv, VentsTypeOK
<1>2. /\ last'[foot] = l /\ Vent(foot)' = Vent(foot)
      /\ tasks'[foot] = [tasks[foot] EXCEPT ![t] =
           IF left = 1 THEN Done ELSE [vent |-> tasks[foot][t].vent, left |-> left - 1]]
      /\ InTime(foot, t)
  BY DEF Pulse, Vent, vars, pumps, VentsInv, VentsTypeOK
<1>3. /\ \A u \in Tasks \ {t} : tasks'[foot][u] = tasks[foot][u]
      /\ left # 1 => tasks'[foot][t].left > 0
  BY <1>1, <1>2 DEF VentsInv, VentsTypeOK
<1>4. ForTheLast(foot)'
  BY <1>1, <1>2, <1>3 DEF ForTheLast
<1>5. ASSUME ~Crowded(foot)'
      PROVE  UnderWay(foot)'
  <2>1. \A u \in Tasks \ {l} : tasks'[foot][u] = Done
    BY <1>2, <1>5 DEF Crowded, Ended, Older
  <2>2. left = 1
    <3>1. Done.left = 0
      BY DEF Done
    <3> QED
      BY <1>1, <1>3, <2>1, <3>1
  <2>3. Ended(foot, Tasks \ {t, l})
    BY <1>3, <2>1 DEF Ended
  <2>4. tasks'[foot][l].left >= Travel /\ tasks'[foot][l].left \in Nat
    BY <1>1, <1>2, <1>3, <2>2, <2>3 DEF InTime, VentsInv, VentsTypeOK
  <2>5. position'[foot] \in 0..Travel
    BY DEF VentsTypeOK
  <2> QED
    BY <1>2, <2>1, <2>4, <2>5, PulsesAssumption DEF UnderWay, Ended, Older
<1> QED
  BY <1>4, <1>5

LEMMA VentsInvPulse ==
  ASSUME VentsInv, TypeOK', NEW pulsed \in Feet, NEW t \in Tasks, Pulse(pulsed, t)
  PROVE  VentsInv'
<1> DEFINE task == tasks[pulsed][t]
           rest == IF task.left = 1 THEN Done
                   ELSE [vent |-> task.vent, left |-> task.left - 1]
           at   == position[pulsed]
<1>1. /\ task \in [vent : BOOLEAN, left : 0..Pulses] /\ task.left > 0
      /\ at \in 0..Travel /\ clean[pulsed] \in BOOLEAN
  BY DEF Pulse, VentsInv, VentsTypeOK
<1>2. rest \in [vent : BOOLEAN, left : 0..Pulses]
  <2>1. 0 \in 0..Pulses /\ (task.left # 1 => task.left - 1 \in 0..Pulses)
    BY <1>1, PulsesAssumption
  <2> QED
    BY <1>1, <2>1 DEF Done
<1>3. /\ tasks' = [tasks EXCEPT ![pulsed] = [tasks[pulsed] EXCEPT ![t] = rest]]
      /\ position' = [position EXCEPT ![pulsed] = IF pump THEN Pulsed(at, task.vent) ELSE at]
      /\ clean' = [clean EXCEPT ![pulsed] = clean[pulsed] /\ pump /\ InTime(pulsed, t)]
      /\ UNCHANGED <<vars, last>>
  BY DEF Pulse, VentsInv, VentsTypeOK
<1>4. Pulsed(at, task.vent) \in 0..Travel
  BY <1>1, PulsesAssumption DEF Pulsed
<1>5. VentsTypeOK'
  <2>1. tasks' \in [Feet -> [Tasks -> [vent : BOOLEAN, left : 0..Pulses]]]
    BY <1>2, <1>3 DEF VentsInv, VentsTypeOK
  <2>2. position' \in [Feet -> 0..Travel]
    BY <1>1, <1>3, <1>4 DEF VentsInv, VentsTypeOK
  <2>3. pump \in BOOLEAN /\ InTime(pulsed, t) \in BOOLEAN
    BY DEF VentsInv, VentsTypeOK, TypeOK, InTime
  <2>4. clean' \in [Feet -> BOOLEAN]
    BY <1>1, <1>3, <2>3 DEF VentsInv, VentsTypeOK
  <2> QED
    BY <1>3, <2>1, <2>2, <2>4 DEF VentsTypeOK, VentsInv
<1>6. ASSUME NEW foot \in Feet, clean'[foot]
      PROVE  OnItsWay(foot)'
  <2>1. clean[foot] /\ OnItsWay(foot)
    BY <1>3, <1>6 DEF VentsInv, VentsTypeOK
  <2>2. Vent(foot)' = Vent(foot) /\ Asked(foot)'
    BY <1>3, <2>1 DEF OnItsWay, Asked, Vent, Switch, vars, pumps
  <2>3. CASE foot # pulsed
    <3>1. /\ tasks'[foot] = tasks[foot] /\ position'[foot] = position[foot]
          /\ last'[foot] = last[foot]
      BY <1>3, <2>3 DEF VentsInv, VentsTypeOK
    <3> QED
      BY <2>1, <2>2, <3>1, Untouched
  <2>4. CASE foot = pulsed /\ t # last[foot]
    <3>1. t \in Older(foot)
      BY <2>4 DEF Older
    <3> QED
      BY <1>5, <1>6, <2>1, <2>2, <2>4, <3>1, Alone DEF OnItsWay
  <2>5. CASE foot = pulsed /\ t = last[foot]
    <3>1. Done.left = 0
      BY DEF Done
    <3>2. ~Arrived(foot)
      BY <1>1, <2>5, <3>1 DEF Arrived, Resting, Ended
    <3>3. CASE UnderWay(foot)
      BY <1>5, <1>6, <2>1, <2>2, <2>5, <3>3, Nearer DEF OnItsWay
    <3>4. CASE Crowded(foot)
      <4>1. last'[foot] = t /\ tasks'[foot] = [tasks[foot] EXCEPT ![t] = rest]
        BY <1>3, <2>5 DEF VentsInv, VentsTypeOK
      <4>2. Crowded(foot)'
        BY <2>5, <3>4, <4>1 DEF Crowded, Ended, Older, VentsInv, VentsTypeOK
      <4>3. tasks'[foot][t] = rest
        BY <4>1 DEF VentsInv, VentsTypeOK
      <4>4. rest.left > 0 => rest.vent = task.vent
        BY <3>1
      <4>5. ForTheLast(foot)'
        BY <1>1, <2>1, <2>2, <2>5, <4>1, <4>3, <4>4 DEF OnItsWay, ForTheLast
      <4> QED
        BY <2>2, <4>2, <4>5 DEF OnItsWay
    <3> QED
      BY <2>1, <3>2, <3>3, <3>4 DEF OnItsWay
  <2> QED
    BY <2>3, <2>4, <2>5
<1> QED
  BY <1>5, <1>6 DEF VentsInv

\* What the radio or a client does without moving a vent.
LEMMA VentsInvRest ==
  ASSUME VentsInv, TypeOK', UNCHANGED vents,
         UNCHANGED <<left_vent, right_vent, left_pump_channel, right_pump_channel, held>>
  PROVE  VentsInv'
<1>1. VentsTypeOK'
  BY DEF VentsInv, VentsTypeOK, vents
<1>2. ASSUME NEW foot \in Feet, clean'[foot]
      PROVE  OnItsWay(foot)'
  <2>1. OnItsWay(foot) /\ Vent(foot)' = Vent(foot)
    BY <1>2 DEF VentsInv, vents, Vent
  <2>2. Asked(foot)'
    BY <2>1 DEF OnItsWay, Asked, Vent, Switch
  <2> QED
    BY <2>1, <2>2, Untouched DEF vents
<1> QED
  BY <1>1, <1>2 DEF VentsInv

\* A vent whose pulses have ended is where its switch asks for: once the newest
\* thread is alone it has as many pulses left as the vent needs to arrive.
THEOREM VentsReach == PneumaticsSpec => []VentReaches
<1>1. VentsInv /\ TypeOK' /\ [PneumaticsNext]_pneumatics => VentsInv'
  <2> SUFFICES ASSUME VentsInv, TypeOK', [PneumaticsNext]_pneumatics
               PROVE  VentsInv'
    OBVIOUS
  <2>1. CASE Handler
    BY <2>1, VentsInvHandler
  <2>2. CASE \E foot \in Feet, t \in Tasks : Pulse(foot, t)
    BY <2>2, VentsInvPulse
  <2>3. CASE /\ \/ (Firmware \/ PollUnchanged) /\ UNCHANGED <<pumps, toggle>>
                \/ Toggle
             /\ UNCHANGED vents
    BY <2>3, VentsInvRest DEF Toggle, TogglePump, FlipState, SetPump, pumps
  <2>4. CASE UNCHANGED pneumatics
    BY <2>4, VentsInvRest DEF pneumatics, vars, pumps
  <2> QED
    BY <2>1, <2>2, <2>3, <2>4 DEF PneumaticsNext
<1>2. VentsInv => VentReaches
  <2> SUFFICES ASSUME VentsInv, NEW foot \in Feet, Resting(foot), clean[foot]
               PROVE  position[foot] =
                        CASE Switch(foot) = "high"   -> 0
                          [] Switch(foot) = "middle" -> Travel
                          [] Switch(foot) = "low"    -> IF foot \in held THEN 0 ELSE Travel
    BY DEF VentReaches
  <2>1. Done.left = 0 /\ last[foot] \in Tasks
    BY DEF Done, VentsInv, VentsTypeOK
  <2>2. ~UnderWay(foot) /\ ~Crowded(foot)
    BY <2>1 DEF UnderWay, Crowded, Older, Resting, Ended
  <2>3. Asked(foot) /\ Arrived(foot)
    BY <2>2 DEF VentsInv, OnItsWay
  <2>4. Switch(foot) \in {"low", "middle", "high"} /\ Vent(foot) \in BOOLEAN
    BY DEF VentsInv, VentsTypeOK, TypeOK, Switch, Vent
  <2> QED
    BY <2>3, <2>4 DEF Asked, Arrived
<1>3. PneumaticsSpec => []TypeOK
  BY ImplementsRCPump, TypeCorrect, PTL
<1> QED
  BY <1>1, <1>2, <1>3, VentsInvInit, PTL DEF PneumaticsSpec

==============================================================================
