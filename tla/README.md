# A verification project for naminukas-brain

The program runs on a BeagleBone Blue inside a robot with two feet. Each foot
has a wheel and an ankle, driven by four Dynamixel servos on one serial bus,
and a vacuum grip fed by one pump. Browsers connect over WebSocket, watch
telemetry and press keys; an RC transmitter can drive the robot as well.

Apart from a mutex around each bus write or read nothing in the program is
locked. The project is about what holds anyway, under which condition, and
what does not hold.

## The system

### Threads

| thread | started by | runs |
|---|---|---|
| main | the operating system | `IOServer::start`: waits for connections, calls `WebSocketServer::accept_client` |
| one per client | `accept_client` | `WebSocketServer::handle_client`: handshake, definitions, then messages, and with them **every command handler of the robot** |
| system telemetry | `SystemTelemetry` | updates uptime, load, memory and battery every second |
| robot control loop | `Robot::Robot` | reads the joints and logs collisions; changes nothing |
| locomotion control loop | `Locomotion::start` | `control_loop()` of the running mode until `stopped` |
| radio poll | `RCRadio_PRU::init` | compares the shared memory of PRU 0 with copies, calls `Robot::on_rc_radio_channel_change` |
| vent pulses | `start_servo_control_task` | thirty pulses over 600 ms for one vent |
| IMU callback | librobotcontrol | stores yaw, pitch and roll |

The camera thread exists in the code, but its constructor returns before it
starts it.

### Components, their state, and what makes them correct

* **Mode life cycle** (`Locomotion.cpp`, the commands in `Robot.cpp`). State:
  `current_locomotion_mode`, the telemetry item of its name, and per mode
  `stopped` and a pointer to a thread. Operations: a mode command stops the
  current mode, makes another current and starts it; an arrow command calls a
  method of the current mode. Correct when no two control loops run together,
  none runs while servos are reconfigured, every thread is joined and deleted
  once, commands return, and the item names the mode that runs.
* **Locomotion modes and servo bus** (`locomotion/*.cpp`,
  `DynamixelKinematics.cpp`, `DynamixelUtil.cpp`). State: the control tables
  of the servos, which survive the program. Operations: each method is a
  sequence of bus writes. Correct when the servos are configured as the
  running mode expects whatever came before, when a powered servo never has an
  inconsistent configuration, when goals suit the operating mode, and when
  motors are off when the robot is idle.
* **Radio firmware** (`pru_firmware/fport.pru0.c`, `sbus.pru0.c`). One of two
  programs of PRU 0 reads the frames of the receiver from a pin and stores
  sixteen channels in shared memory. State: the bytes read of a frame. Correct
  when an undamaged frame sets the channels to what was sent, whatever was on
  the wire before.
* **Radio** (`RCRadio_PRU.cpp`, `Robot::on_rc_radio_channel_change`, `turn`,
  `move`). State: the shared memory, the copies, four switch positions and two
  speeds. Correct when centred sticks stop the motors, speeds go to joints
  that take them, and pump and vents follow the switches, also while a mode
  reconfigures the same joints.
* **Vents and pump** (`HardwareBeagleBoneBlue.cpp`). State: the pump, which
  feeds the servos of the vents, and a detached thread with the pulses it has
  left for each command. Correct when a vent that was left to finish is where
  it was told to go.
* **Telemetry server** (`WebSocket.cpp`, `main.cpp`, `Message.cpp`,
  `Telemetry.cpp`). State: `fd_to_client`, a set of changed items per client,
  the values of the items. A change is not pushed: the thread that makes it
  adds the item to every client's set through the listener of `main()`, and a
  client thread drains its set when its browser queries. Correct when no
  client is left with a stale value that it will not be told about, no
  `Client` is used after its thread has returned, and nothing is sent to
  another client's peer.
* **Gait of the waddle** (`LocomotionWaddle.cpp`). State: two directions, two
  distances, the positions of the wheels as read in `on_start()`. A key
  assigns the distances one after the other in a client thread; each half
  cycle the control loop tilts the feet or adds the distances to the positions
  and sends them. Correct when wheels and feet stay in step, the wheels go to
  and fro, and no wheel jumps.
* **Messages** (`handle_client` in `WebSocket.cpp`, `Message.cpp`, the
  `deserialize_value` methods of `Telemetry.cpp`). State: the buffer of a
  connection. Correct when what the handlers are called with is what the
  browser sent, however TCP cuts it, and only the browser ends the connection.
* **Actions** (`action/*.cpp`), which no mode uses at this commit. State: the
  rounds left, the action at hand, the goals of the rotations. Correct when
  the actions are carried out in order, one at a time and each to its end, and
  rotations end where they were told to.
* **3D model, PID, the other board hardware, camera, logger, geometry, event
  loop**: see "What is not modelled".

### What is hard here

Command handlers of several clients interleave with each other, with the
control loop, with the radio and with telemetry updates. Bus writes are lost
without a trace. Pointers to threads and clients outlive what they point to.
File descriptors are reused. Values are read and used later. `hazards` in
`PROJECT.json` lists each of these at its line, with the property that covers
it or the reason why none does.

## The modules

An arrow points from a module to those that extend it.

```
ModeControl  <--implements--  Locomotion --> ServoModes --> RobotControl --> ServoProofs
                                  |              ^                      \--> MCRobotControl
                                  |          MotorSwitches
                                  \--> MCLocomotion

FPort, SBus (both on ChannelPacking) --> Firmware --> FirmwareProofs, MCFirmware

RCRadio --> RCDrive (with MotorSwitches) --> RadioProofs, MCRCDrive
        --> RCPump --> Pneumatics --> RadioProofs, MCPneumatics

Waddle --> WaddleProofs, MCWaddle

Programme  <--implements--  ActionSequential --> Rotations --> RotationsProofs, MCRotations

TelemetryServer --> TelemetryProofs, MCTelemetryServer

MessageCodec --> MessageStream --> MessageStreamProofs, MCMessageStream

StreamLemmas --> FirmwareProofs, MessageStreamProofs
```

**Locomotion** has one action per step of the handlers: `Command`,
`StopCheck`, `OnStop`, `SetStopped`, `Join`, `Assign`, `StartCheck`,
`OnStart`, `ClearStopped`, `Launch`, `Update` for a mode command, `Key` and
`KeyDone` for an arrow command, `LoopCheck` and `LoopBody` for the control
loop thread. The steps are the points at which shared state is read or
written; `on_start()`, `on_stop()`, a key method and one round of the loop
take as long as they like. A use of a deleted thread object sets `undefined`,
and after that nothing is modelled. The history variable `overlap` says
whether two clients were ever inside a handler at once: the code does not
prevent it, and most guarantees are lost with it. Properties are stated for
behaviours in which it has not happened *yet*; the runs explore the others
too, so that `JoinedOnce` also says that nothing else leads to undefined
behaviour.

**ModeControl** is the promise without threads: a mode is active, or none is,
and the active one is switched off before another is switched on.

**ServoModes** adds the servos. A method that a client thread enters puts its
bus writes into `todo`, and each is a step of its own (`Bus`), which
interleaves with the writes of a control loop thread (`ServoLoopBody`). A
write sets one register of some joints to a *kind* of value: velocity or
extended position, revolutions or milliseconds. A servo ignores a drive or
operating mode while its torque is on, as the manual of the servo says.
Configuration writes may be missed (`MaxLost`); `lost` remembers the joints
that missed one since their torque was last switched off, and the properties
are about the others. `Skips` is the second look that `on_start()` of the ski
mode has at its flag. It matters only when handlers overlap, which the one
client of the run does not do; the proofs are about any number. `owner`
remembers whether a mode or the radio was the last to switch the torque of a
joint.

**RobotControl** adds the thread of the radio, which sends the writes of a
motor switch (`SwitchMotors`) or a stick (`Stick`) in between those of a mode
that runs, starts or stops. Two threads that configure one servo at the same
time leave anything behind, and nothing in the code prevents it: a write to a
joint that another thread is in the middle of configuring makes that joint
`lost` (`Torn`), until its torque is switched off again. Without that
exclusion TLC finds `PoweredIsConsistent`, `SettledConfiguration`, `GoalFits`
and `SwitchesObeyed` violated; with it the damage is shown to last until the
next configuration and no longer.
**MotorSwitches** is what RCDrive and RobotControl share: which joints the
sticks drive for which switches.

**FPort** and **SBus** are the two firmwares, in bytes. `Begin` puts a frame
on the wire, `Damage` changes a byte or loses it, `Read` and `ReadByte` are
`read_byte()`; F.Port samples zeros from a silent wire, S.BUS waits and begins
again (`Restart`). **ChannelPacking** packs channels of eleven bits into bytes
as the receivers do and takes them apart as the code does, channel 1 without
its shift. Bytes and channels are the sets of their bits that are 1: a shift
adds to the bits, `|` is a union and `^ 0x20` moves one bit in or out.
**Firmware** is PRU 0 with either of them loaded.

**RCRadio** starts from the shared memory, in which channels may hold any
value: it is the shared memory, the poll loop and its threshold, with raw
values as integers. **RCDrive** adds the sticks and motor switches, **RCPump**
the pump switches, the vents and the "Toggle pump" command. The two handle
disjoint channels and disjoint state, so they are checked apart. A toggle is
three steps (`TogglePump` reads `pump_state`, `FlipState` stores the opposite,
`SetPump` sets the pump to what is stored by then), and any number of clients
may be at any of them. A foot that is switched off has its vent told to open,
unless the other foot was off already: then the pump stops and the vent is
left alone. `held` remembers the feet that were gripping when the radio last
stopped the pump, until their own switches move with the pump on. A speed is
kept as the distance of a stick from its middle; the code scales it by
constants. What servos do with their goal velocity while torque is off is left
open (`SwitchMotors`).

**Pneumatics** adds to RCPump the threads of the vents. `Handler` is the call
of the radio handler that starts one, `Pulse` one of its pulses, which moves
the vent only while the pump has power. Threads that overlap move the vent
both ways, in any order. `last` is the thread started last, and `clean`
remembers whether all pulses since had power and whether that thread had as
many pulses left as the vent may need when the older ones had ended
(`InTime`). As threads send pulses at the same pace, that takes two commands
that are further apart than the time that a vent needs.

**TelemetryServer** has an action per step of `handle_client` (`Accept`,
`HeaderFails`, `Handshake`, `Register`, `SendDefinition`, `DefinitionsSent`,
`Query`, `SendUpdate`, `Clear`, `Disconnect`, `Erase`, `Leave`) and per step
of an item's `update()` (`ReadSize`, `AssignCount`, `AssignItem`, `Begin`,
`Notify`), which any thread may execute. The system thread runs before
`main()` adds its change listener to one item after the other (`AddListener`),
and connections are accepted after that. A value is reduced to the question
which peers were sent it (`current`); the number of clients is a number.
Concurrent access to one of the sets of changed items is modelled by what the
iteration may or may not come across: so few items ever change that a set
which holds any is never rehashed; a change of `fd_to_client` while another thread iterates
over it ends the behaviour (`undefined`), and so may one that comes at the
same time as another (`Collide`).

**Waddle** is the gait that the keys and the control loop share. A key is two
steps (`SetLeft`, `SetRight`), and so is a drive (`DriveLeft`, `DriveRight`).
`on_start` reads the bus: `read` leaves out the servos that did not answer,
and `get_joint_position` gives what it gets to the joints from the first on.
`on_stop` takes the torque from one wheel after the other, wherever the
control loop is, which may still drive the wheel that has it; `Stopped` is the
join. Keys, `on_start` and `on_stop` do not overlap with each other: when that
is so is the business of Locomotion. The wheels that are `powered` are where
they were last sent, because the profile of 1000 ms ends before the next
drive; while neither is, both may be turned to any of `Angles` (`TurnByHand`).
Angles are in tens of degrees, `HalfCycle` is 50 in the program.

**ActionSequential** is a sequence and its caller, an action reduced to
whether its `execute()` returns true; **Programme** is what it promises: the
actions in order, in as many rounds as were asked for. `times` is counted down
and never restored, so a sequence that is aborted and started again has only
the rounds that were left, and one that is over goes through one more;
Programme says so. **Rotations** makes the actions `ActionRotate`s that read
the angles of their joints from the bus, with reads that servos do not answer,
and adds servos that move between two calls. `ideal` is where the joints would
be if every rotation were exact.

**MessageCodec** is the bytes of a message: the writers, `read_int`,
`read_string` and `handle`, as functions on sequences of bytes, and the
messages that the user interface sends. The sign bit is a constant, and all
other bits follow from it, so that TLC can work with bytes of four bits. Bytes
are unsigned, as `char` is on the robot's ARM.

**MessageStream** is the connection. A browser (`Send`) writes masked frames
to `wire`; `Receive` is one `read()` that returns any number of bytes that are
there and fit. Then, until the thread reads again (`reading`), each round of
the loop over the buffer is a step: `Handle` cuts a frame off, unmasks it and
hands it to the handler, `CloseFrame` leaves the loop and `ReadOn` finds
nothing whole. The bit that says that a frame is the last of its message is
left out, as the code only logs it.

## The runs

| run | bounds | shows |
|---|---|---|
| `lifecycle` | 2 modes, 2 clients, 2 thread objects, all interleavings | `QuietReconfiguration`, `JoinedOnce`, `ModeReported` |
| `serial` | 3 modes, 2 clients, clients take turns, fairness | `CommandCompletes`, and `ImplementsModeControl`: the threads refine `ModeControl` |
| `servos` | RobotControl. All ten modes, 1 client, 1 thread object, 2 missed writes, servos left in any of three configurations, powered or not; with the transmitter on, 2 modes, the switch of one side and the sticks at any moment | `SettledConfiguration`, `PoweredIsConsistent`, `GoalFits`, `IdleUnpowered`, `SwitchesObeyed` |
| `sticks` | channels 0, 1, 4, 7; stick values at, just inside and outside threshold and dead zone; switches in all positions | `CentredStickIsStopped`, `CentredSticksStop`, `SpeedsOnlyToVelocityMode` |
| `pumps` | Pneumatics. Channels 5, 6, values for all positions and on both sides of one boundary each, 2 clients that toggle; the vent of one foot, 3 pulses, of which it needs 2, and 2 threads at once | `PumpFollowsSwitches`, `VentFollowsSwitch`, `VentReaches` |
| `telemetry` | 2 connections, 2 descriptors, 2 items, the system thread | `StaleIsChanged`, `NoDanglingClient`, `SendsToOwnPeer`, `CountIsRight`, `MadeAvailable` |
| `waddle` | 4 rounds in a cycle, distances up to 2, angles up to 6, any keys, any servos that do not answer | `InStep`, `SwingsBetweenTwo`, `NoJump` |
| `messages` | 3 messages of 6 kinds, bytes of 4 bits, a buffer of 17, every cut | `ActsOnWhatArrived`, `ClosedByPeer` |
| `frames` | both firmwares, 4 packets, a foreign frame, 1 damaged byte out of 3 kinds, a start anywhere in a frame | `ChannelsArrive`, `ChannelOneIsCoarse`, `WholeFramesOnly` |
| `actions` | sequences of no action or of an absolute and a relative rotation of 2 joints, 2 rounds or for ever, 1 read that goes wrong, 4 rotations after a start | `OneAtATime`, `RotatesAsTold`, `UndefinedOnlyIfMisread`, `RotatesToTheEnd`, and `ImplementsProgramme`: the calls refine `Programme` |
| `stopped_motors` | as `sticks` | **violated**: `StoppedMotorsStop` |
| `value_range` | as `frames`, with sticks at rest and at their limits and no damage | **violated**: `ValuesInRange` |

Why the bounds are enough. Two clients are what an overlap takes, and two
modes are what a change of mode takes; the proofs below remove the bounds
of all runs but for the liveness properties. A second thread object is what an
orphaned loop needs, and it also makes a thread wait for one to be free, as an
abstraction of memory. In `servos` one client is enough because the properties
are about behaviours without overlap, or are proved for any clients that do;
two losses are enough to spoil two different joints or one joint
twice. The two modes of the radio are one that configures wheels and ankles
and one that switches them off; one side has a wheel and an ankle, and the
switch of the other side writes to other joints. In `pumps` a vent needs more
than one pulse and less than a thread has, so that threads overlap in
mid-movement and one of them ends before the other; the proofs remove the
bounds. In `frames` the packets have all bits set, bytes that must be stuffed
and channels that all differ, and the damaged byte may become the one that
announces a stuffed byte; what one byte upsets has to be gone a frame later.
In `actions` the second rotation is relative, so that where the first one
ended matters, and a second round starts from where the first one ended. In
`telemetry` the second connection may take over the descriptor of the first,
and both may be registered at once. In `waddle` two rounds to each half cycle
separate a drive from the tilts before and after it, and a wheel may be in
either of two places when the mode starts; the proofs remove the bounds. In
`messages` the payloads are on both sides of the longer header, and the
integers on both sides of one byte; three messages let one end, another lie
whole and a third begin in one buffer, and two of the longest do not fit into
it. Deadlock is checked except in `lifecycle`, `telemetry`, `messages` and
`actions`, where the model stops after undefined behaviour or when every
connection has ended in it.

Fairness is assumed in `serial` and in `actions`. In `serial` each client
thread goes on with a handler it has entered, and each control loop thread
goes round. Both are plain threads that the operating system schedules, and
neither waits for anything but the join. Nobody is obliged to press a key. In
`actions` the caller keeps calling `execute()`, which is what a control loop
does with an action, and each servo moves on to where it was sent. Nobody is
obliged to start or to abort.

### The violations

* `StoppedMotorsStop`: `Robot.hpp` says that a speed below `min_speed` means
  that the motors are stopped. `move` and `turn` send a zero only to the
  joints that the motor switches select at that moment. With both switches in
  the middle drive forward, flip the right switch high, centre the stick: the
  left wheel goes on turning. What does hold is `CentredSticksStop`: joints
  driven since a motor switch last moved do stop.
* `ValuesInRange`: `Robot.hpp` says that the values handed to the radio
  handler lie between the limits of a channel. Both firmwares put channel 1
  together without the shift of 3 bits that its neighbours have: the stick at
  its maximum of 1810 is stored as 1943, and two sticks at rest, 991, as 991
  and 1019, which is a speed. What does hold is `ChannelOneIsCoarse`: the
  three high bits are right.

Three more disagreements came up and have no run of their own:

* `Robot.hpp` says that `pump_state` tells whether the pump is on. The radio
  switches the pump without setting it, so the next "Toggle pump" may do
  nothing. Two clients that toggle at once may undo or repeat each other.
* The header of the waddle says that the joints move without ever making a
  full rotation. Each drive starts from where the last one ended, so a key
  that comes for every other drive turns a wheel the same way each time. What
  does hold is `SwingsBetweenTwo`, as long as the keys are left alone.
* The comment at the registration in `WebSocket.cpp` says that the client is
  made available. A descriptor is closed before its entry is erased, so a new
  connection on the same descriptor may be unregistered by the thread of the
  old one, and is then told of no change. `MadeAvailable` and `StaleIsChanged`
  are therefore stated for behaviours in which no descriptor was given out too
  early (`reused`).

## The proofs

`tlapm` checks them for every value of the constants, from the assumptions
named in the modules (`ModesAssumption`, `ThreadAssumption`;
`ChannelsAssumption` and `ValuesAssumption` for the radio; `CycleAssumption`
and `AngleAssumption` for the waddle; `FeetAssumption` and `PulsesAssumption`
for the vents; `CountAssumption`, `NoneAssumption` and `FdsAssumption` for the
telemetry; `KnownModesAssumption`, `SendersAssumption`, `IdleAssumption` and
`SidesAssumption` for the servos; `SizesAssumption`, `RoundsAssumption`,
`JointsAssumption` and `RotationsAssumption` for the actions;
`PacketsAssumption`, `NoPacketAssumption`, `NoiseAssumption` and
`OthersAssumption` for the firmware; `SignAssumption`, `ItemsAssumption`,
`MaskAssumption`, `BufferAssumption`, `MessagesAssumption` and `FitAssumption`
for the messages). Two theorems of ServoProofs have a hypothesis besides,
`"Alt" \notin Modifiers`.

**ServoProofs** begins with the life cycle. It proves the invariants of
`lifecycle` and the refinement of `serial`. The properties are not inductive:
that the loop has ended in "assign" depends on the thread that was joined
being the only one, hence on the pointer of the mode being that of its only
live thread, and on no other mode being unstopped. The inductive invariant
`Ordered` says so: while handlers have not overlapped, at most one client is
in a handler (`EntersAlone`), and for each place it may be in `Ordered` gives
the modes that are not stopped and the thread that exists. `OrderedStep` shows
that each action preserves it, `OrderedAlways` turns that into an invariant,
and `ReconfigurationIsQuiet`, `JoinsOnce` and `ModeIsReported` are read off.
For `SerialImplementsModeControl` the active mode is that of the thread not
yet joined (`Active`): `Launch` implements `Activate`, `Join` implements
`Deactivate` and every other step leaves `Active` unchanged.

For `PoweredIsConsistent` and `SwitchesObeyed` of RobotControl, which hold for
any clients, loops, missed writes and movements of the switches, whether or
not handlers overlap, the invariant `ServoInv` is about what is still to be
written, of which neither property speaks: what is left of a method
(`Underway`) is goals, writes that switch torque off, and joint control modes,
of which the first may be half done. Where it is, a servo that missed nothing
has its torque off, has the registers that were written so far (`Prepared`)
and is configured by nobody else. That every method of every mode is made of
such writes is proved by composition (`FreshThenFresh`, `OnStartFresh`,
`OnStopFresh`, `KeysFresh`), and `AfterFirst` says what is left when one has
been sent. `Obeying` adds an aim for each joint, a joint control mode or off:
the writes left end with what the aim asks for, or none of them switches the
joint and it is so already. For the radio the aims are those of the switches.
`RobotLifeCycle` shows that RobotControl implements Locomotion, so that all
theorems about the life cycle hold of it.

`SettledConfiguration`, `GoalFits` and `IdleUnpowered` need to know for which
mode a client thread writes. `AimsOf` gives the joints that each mode
configures and how, read off the modes once; `StartsAsMeant`, `StopsAsMeant`,
`KeysAsMeant` and `LoopsAsMeant` show for all ten modes that `on_start()`
fulfils these aims, `on_stop()` fulfils those of a robot that is switched off,
and keys and loops send nothing but goals that suit them (`Suited`). The
invariant `ModesInv` is about the one client in charge (`Alone`), which exists
as long as handlers do not overlap: its writes obey the aims of the mode that
it is `Meant` to bring about, and `InCharge` says what has been reached at
each place of its handler. In between only that client and the one control
loop that `Ordered` allows send writes (`OthersUntouched`, `BusInCharge`), and
the radio's joints are its own. `IdleIsUnpowered` needs no more. The other two
theorems assume that no client holds Alt: the pole mode turns with Alt in a
joint control mode that its `on_start()` did not ask for and leaves the wheels
there, which would falsify both; the program advertises no command with that
modifier, and the run has the modifiers that it advertises.

**RadioProofs** proves the safety properties of `sticks` and `pumps` for all
channels and raw values, on lemmas about the poll loop. `RestIsStopped` rests
on `Seen`: a copy is off by less than three once its channel has been polled,
and a speed is that of a copy; `DeadZone` adds the two distances up.
`RestStopsJoints` rests on `Driven`: a joint with a speed is one that a
deflected stick drives *with the switches as they are*, which is why a motor
switch has to empty `since`. `SpeedsNeedVelocityMode` rests on `ModesFollow`,
which holds from the first report of a switch on.

Of the pumps, `PumpFollowsSwitches` is inductive as it stands, for any number
of clients that toggle, and so is `VentFollowsSwitch` once the types are
known: `Asking` says that a step leaves the vent of the foot whose switch
moves as it asks, and the other foot as it was, also when it stops the pump.
Both carry over from RCPump to Pneumatics, which implements it
(`ImplementsRCPump`). `VentReaches` is proved for any number of pulses and
threads. The inductive invariant: while a vent is `clean`, the thread started
last moves it to where its switch asks for, and either an older thread has
pulses left (`Crowded`), or that thread is alone and has at least as many left
as the vent has to go (`UnderWay`), or the vent has arrived.

**WaddleProofs** proves all properties of `waddle` for any length of a cycle,
any distances and any angles. The inductive invariant `IInv` adds to `InStep`
what a tilt will do next (`Turns`), where the positions are during a drive
(`Placed`: the left one is ahead of its wheel by at most a distance, as far as
the wheels have torque) and that the goals since the last assignment are the
present one and the next (`Swung`), whether the wheels still follow them or
not. A drive flips its direction, so the next goal of the next goal is the
present one; `ThereAndBack` says so, also for a drive whose halves saw
different distances, because the assignment in between has emptied `swing`.

**TelemetryProofs** proves the invariants of `telemetry` for any number of
connections, descriptors and items. Who owns a descriptor comes first: a
thread that has not closed it is the only one with that socket (`Owned`),
hence `SendsToOwnPeer`. An entry of `fd_to_client` belongs to the thread that
made it, which has yet to erase it or lose it to another (`Entries`), hence
`NoDanglingClient`; until a descriptor is reused too early nobody erases the
entry of another (`Apart`), hence `MadeAvailable`. `StaleIsChanged` is not
inductive: a change that is on its way must be on its way to *this* client, so
`Told` follows the news from the assignment over the listener's visits to the
set and the loop that drains it (`Pending`), and `Drained` says that the set
is cleared only afterwards. `Listening` says that every item has the listener
once a connection exists: a change that finds no listener was made when nobody
was there to be told. `Counted` ties a size that was read to the count.

**RotationsProofs** proves the safety properties of `actions` for sequences of
any length, any rounds, any joints and any rotations, and that the sequence
implements Programme. `SequenceInv` adds to `OneAtATime` what the caller's
state says about the index and about `times`; each call is then a step of
Programme or does not show in it (`PromiseStep`). `RotatesAsTold` is not
inductive, because it does not speak of goals. The invariant `OnTheirWay` says
that, while all servos answer, the goal of the action under way is where its
joints were sent (`Begins`), that at the end of a round the joints are there
but for the threshold, as no obstacle was found (`ObstacleIsJoint`), and that
each further action starts from there and so adds one threshold to the
deviation of the last (`ToStaysNear`, `NearOfNear`). `ReadByAll` and
`FullIsByAll` say that a read has the angles of all joints in their places
just when all answer.

**StreamLemmas** is what the proofs about bytes share. Induction over
sequences, which the provers cannot use in the form of the library because it
is about operators, is stated here of sets: `Induction` and `StrongInduction`
show that a set contains all natural numbers, and a proof makes its claim the
set of the numbers for which it holds. `RecursiveFunction` shows in the same
way that a recursive definition whose argument gets smaller by some measure
has a function that fulfils it. `FlattenCons`, `FlattenAppend` and
`FlattenRest` say what `FlattenSeq` does with the first and the last of its
sequences.

**FirmwareProofs** proves all properties of `frames`, for any channel values,
noise, foreign frames and numbers of damaged bytes. `Unpacks` shows for all
sixteen channels that unpacking undoes packing, but for the five low bits of
channel 1. The invariant of `ChannelsArrive` is about frames on their way, of
which the property does not speak: while the frame on the wire is undamaged,
F.Port has in `got` what was stuffed, and what is left on the wire is the
stuffing of the rest (`Unread`), in the middle of a stuffed byte too; S.BUS
has the start of the frame in its packet and the rest on the wire, or has
neither. What is stored so far is that frame's (`Stored`). A damaged or
foreign frame is under none of these conditions, and each starts anew with the
next `Begin`: that is why nothing is left behind. For `WholeFramesOnly` the
bytes read and those still on the wire are never more than a frame, and fewer
if one was lost, so that a full packet is a whole frame.

**MessageStreamProofs** proves the properties of `messages`, for any messages
whose frames fit the buffer, any mask, any ids and values, and five widths of
a byte, of which the program's is one. First that each part of the codec is
undone: unmasking by `XorBack` (exclusive or with the same byte twice, by
induction over the bits), an integer by `SignedBack` and `UnsignedBack`, a
string by `StringBack`, the modifiers by `ModifiersBack`; `PayloadHandled`
puts them together: the handler does with the payload of a message what the
message means, and nothing with one that it does not understand. Each lemma is
about the bytes followed by *any* others, and leaves those. `FrameParts` and
`FrameAtStart` say the same of a frame: the first six bytes of a buffer tell
where the frame at its start ends and whether it closes the connection. The
inductive invariant `StreamInv` then says that there is a number `k` such that
what is in the buffer and on the wire is the frames after the first `k`, the
handler has done what the first `k` messages ask for, none of them closes the
connection, and a thread that waits does not have the whole next frame (`At`).
`ActsOnWhatArrived` follows because the bytes left decide how many messages
have arrived (`AfterLess`), `ClosedByPeer` because a frame of which a part is
missing leaves room in the buffer. That every frame fits is an assumption
(`FitAssumption`) and necessary: a longer one would end the connection.

Only model-checked: `CommandCompletes` and `RotatesToTheEnd`, which are
liveness under fairness, and out of the provers' reach. All other properties
of the passing runs are proved.

## What is not modelled

* *The end of the program.* `main()` returns while the radio's poll thread and
  the client threads run, and destroys what they use. It is undefined from the
  first access on, and no state tells apart what the threads would do.
* *`get_joint_state`*, of which a servo that does not answer yields an empty
  entry that is then indexed. Waddle and Rotations have the reads that leave
  servos out; what the other modes make of them is left out, with their
  angles.
* *SIGPIPE*: the loss of a peer between two sends, which ends the process.
* *The 3D model*, which keeps angles for display. `reset()` (`Model.cpp:70`)
  sets only the right wheel: after a comma the left one is read, not assigned.
* *The camera*: the constructor of `PointCloud` returns before it starts the
  thread unless the program is terminating.
* Of the messages the length of eight bytes, which takes byte 7 of the header
  twice (`WebSocket.cpp:255`) but belongs to frames that do not fit the
  buffer; `float` and `double`, which no message of a browser has; and what
  the program makes of messages that its own user interface never sends.
* The definitions of telemetry items as bytes, the bytes of the HTTP header,
  the samples of a pin that make up a byte of the radio, SPI, I2C and ADC
  access, logging, the PID controller and the poses (floating point), and the
  geometry.
* The path of the pole mode that leaves its wheels in position mode: it takes
  the modifier Alt, which no client has.

What is worth doing next: the reads of the segway and the caterpillar after
the pattern of Waddle; the definitions of telemetry items as bytes, for which
MessageCodec has the writers and StreamLemmas the induction; and the poses of
the 3D model, which show what a partial read makes of them.
