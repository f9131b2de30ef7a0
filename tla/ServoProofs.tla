----------------------------- MODULE ServoProofs -----------------------------
(***************************************************************************)
(* Proofs about Locomotion, for any set of modes, client threads and       *)
(* thread identities, and about ServoModes and RobotControl, for any       *)
(* number of missed writes and any movement of the switches besides.       *)
(***************************************************************************)
EXTENDS RobotControl, TLAPS

------------------------------------------------------------------------------
(* The type invariant                                                       *)

\* Every step keeps the variables of the life cycle in their types.
THEOREM TypeCorrect == Spec => []TypeOK
<1>1. Init => TypeOK
  <2> SUFFICES ASSUME Init
               PROVE  TypeOK
    OBVIOUS
  <2>1. Idle \in Modes
    BY ModesAssumption DEF ModesAssumption
  <2>2. undefined \in BOOLEAN /\ overlap \in BOOLEAN
    BY DEF Init
  <2> QED
    BY <2>1, <2>2 DEF Init, TypeOK, PCs, LoopPCs
<1>2. TypeOK /\ [Next]_vars => TypeOK'
  <2> SUFFICES ASSUME TypeOK, [Next]_vars
               PROVE  TypeOK'
    OBVIOUS
  <2> USE DEF TypeOK, PCs, LoopPCs, Goto, robot, flags, loops, client
  <2>1. ASSUME NEW c \in Commanders, NEW m \in Modes, Command(c, m)
        PROVE  TypeOK'
    BY <2>1 DEF Command, Enter
  <2>2. ASSUME NEW c \in Commanders, StopCheck(c)
        PROVE  TypeOK'
    BY <2>2 DEF StopCheck
  <2>3. ASSUME NEW c \in Commanders, OnStop(c)
        PROVE  TypeOK'
    BY <2>3 DEF OnStop
  <2>4. ASSUME NEW c \in Commanders, SetStopped(c)
        PROVE  TypeOK'
    BY <2>4 DEF SetStopped
  <2>5. ASSUME NEW c \in Commanders, Join(c)
        PROVE  TypeOK'
    BY <2>5 DEF Join
  <2>6. ASSUME NEW c \in Commanders, Assign(c)
        PROVE  TypeOK'
    BY <2>6 DEF Assign
  <2>7. ASSUME NEW c \in Commanders, StartCheck(c)
        PROVE  TypeOK'
    BY <2>7 DEF StartCheck
  <2>8. ASSUME NEW c \in Commanders, OnStart(c)
        PROVE  TypeOK'
    BY <2>8 DEF OnStart
  <2>9. ASSUME NEW c \in Commanders, ClearStopped(c)
        PROVE  TypeOK'
    BY <2>9 DEF ClearStopped
  <2>10. ASSUME NEW c \in Commanders, Launch(c)
         PROVE  TypeOK'
    BY <2>10 DEF Launch
  <2>11. ASSUME NEW c \in Commanders, Update(c)
         PROVE  TypeOK'
    BY <2>11, ModesAssumption DEF ModesAssumption, Update, Return
  <2>12. ASSUME NEW c \in Commanders, KeyDone(c)
         PROVE  TypeOK'
    BY <2>12, ModesAssumption DEF ModesAssumption, KeyDone, Return
  <2>13. ASSUME NEW c \in Commanders, Key(c)
         PROVE  TypeOK'
    BY <2>13 DEF Key, Enter
  <2>14. ASSUME NEW t \in Threads, Loop(t)
         PROVE  TypeOK'
    BY <2>14 DEF Loop, LoopCheck, LoopBody
  <2>15. CASE UNCHANGED vars
    BY <2>15 DEF vars
  <2> QED
    BY <2>1, <2>2, <2>3, <2>4, <2>5, <2>6, <2>7, <2>8, <2>9, <2>10, <2>11,
       <2>12, <2>13, <2>14, <2>15 DEF Next, Handler
<1> QED
  BY <1>1, <1>2, PTL DEF Spec

------------------------------------------------------------------------------
(* The life cycle while handlers do not overlap                             *)

\* The threads that have been launched and not yet joined.
Running == {t \in Threads : loop_at[t] # "none"}

\* At most one client thread is in a handler, and where it is tells which
\* flag is raised and whether a control loop runs.
OneHandler ==
  \A c, d \in Commanders : pc[c] # "ready" /\ pc[d] # "ready" => c = d

OnlyCurrentRuns ==
  /\ \A m \in Modes : ~stopped[m] => m = current
  /\ \A s, t \in Running : s = t
  /\ \A t \in Running : loop_of[t] = current /\ control_loop_thread[current] = t

HandlerOfCurrent ==
  \A c \in Commanders :
    pc[c] \in {"on_stop", "set_stopped", "join", "on_start", "clear_stopped", "launch"}
      => this[c] = current

FlagTellsPlace ==
  \A c \in Commanders :
    /\ pc[c] \in {"on_stop", "set_stopped", "launch"} => ~stopped[current]
    /\ pc[c] \in {"join", "assign", "start", "on_start", "clear_stopped"}
         => stopped[current]
    /\ pc[c] = "join" =>
         joining[c] = control_loop_thread[current] /\ joining[c] \in Running
    /\ pc[c] = "launch" => Running = {}

FlagTellsLoop ==
  /\ (stopped[current] /\ \A c \in Commanders : pc[c] # "join") => Running = {}
  /\ (~stopped[current] /\ \A c \in Commanders : pc[c] # "launch")
       => control_loop_thread[current] \in Running

ReportedBetweenCommands ==
  (\A c \in Commanders : pc[c] \in {"ready", "key"}) => mode = current

Ordered ==
  ~overlap =>
    /\ ~undefined
    /\ OneHandler
    /\ OnlyCurrentRuns
    /\ HandlerOfCurrent
    /\ FlagTellsPlace
    /\ FlagTellsLoop
    /\ ReportedBetweenCommands

\* A handler that is entered without overlap is the only one.
LEMMA EntersAlone ==
  ASSUME NEW c \in Commanders, NEW to, Enter(c, to), ~overlap'
  PROVE  ~overlap /\ \A d \in Commanders \ {c} : pc[d] = "ready"
BY Zenon DEF Enter

\* Every step keeps the life cycle in order.
LEMMA OrderedStep == TypeOK /\ Ordered /\ [Next]_vars => Ordered'
<1> SUFFICES ASSUME TypeOK, Ordered, [Next]_vars, ~overlap'
             PROVE  /\ ~undefined'
                    /\ OneHandler'
                    /\ OnlyCurrentRuns'
                    /\ HandlerOfCurrent'
                    /\ FlagTellsPlace'
                    /\ FlagTellsLoop'
                    /\ ReportedBetweenCommands'
  BY DEF Ordered
<1> DEFINE Goal == /\ ~undefined'
                   /\ OneHandler'
                   /\ OnlyCurrentRuns'
                   /\ HandlerOfCurrent'
                   /\ FlagTellsPlace'
                   /\ FlagTellsLoop'
                   /\ ReportedBetweenCommands'
<1> USE DEF OneHandler, OnlyCurrentRuns, HandlerOfCurrent, FlagTellsPlace,
            FlagTellsLoop, ReportedBetweenCommands, Running,
            TypeOK, PCs, LoopPCs, Goto, robot, flags, loops, client
<1>1. ASSUME NEW c \in Commanders, NEW m \in Modes, Command(c, m)
      PROVE  Goal
  <2>1. ~overlap /\ \A d \in Commanders \ {c} : pc[d] = "ready"
    BY <1>1, EntersAlone DEF Command
  <2>2. Goto(c, "ready", "stop")
    BY <1>1 DEF Command, Enter
  <2> QED
    BY <1>1, <2>1, <2>2 DEF Ordered, Command
<1>2. ASSUME NEW c \in Commanders, Key(c)
      PROVE  Goal
  <2>1. ~overlap /\ \A d \in Commanders \ {c} : pc[d] = "ready"
    BY <1>2, EntersAlone DEF Key
  <2>2. Goto(c, "ready", "key")
    BY <1>2 DEF Key, Enter
  <2> QED
    BY <1>2, <2>1, <2>2 DEF Ordered, Key
<1>3. ASSUME NEW c \in Commanders, StopCheck(c)
      PROVE  Goal
  BY <1>3 DEF Ordered, StopCheck
<1>4. ASSUME NEW c \in Commanders, OnStop(c)
      PROVE  Goal
  BY <1>4 DEF Ordered, OnStop
<1>5. ASSUME NEW c \in Commanders, SetStopped(c)
      PROVE  Goal
  BY <1>5 DEF Ordered, SetStopped
<1>6. ASSUME NEW c \in Commanders, Join(c)
      PROVE  Goal
  BY <1>6 DEF Ordered, Join
<1>7. ASSUME NEW c \in Commanders, Assign(c)
      PROVE  Goal
  BY <1>7 DEF Ordered, Assign
<1>8. ASSUME NEW c \in Commanders, StartCheck(c)
      PROVE  Goal
  BY <1>8 DEF Ordered, StartCheck
<1>9. ASSUME NEW c \in Commanders, OnStart(c)
      PROVE  Goal
  BY <1>9 DEF Ordered, OnStart
<1>10. ASSUME NEW c \in Commanders, ClearStopped(c)
       PROVE  Goal
  BY <1>10 DEF Ordered, ClearStopped
<1>11. ASSUME NEW c \in Commanders, Launch(c)
       PROVE  Goal
  BY <1>11 DEF Ordered, Launch
<1>12. ASSUME NEW c \in Commanders, Update(c)
       PROVE  Goal
  BY <1>12 DEF Ordered, Update, Return
<1>13. ASSUME NEW c \in Commanders, KeyDone(c)
       PROVE  Goal
  BY <1>13 DEF Ordered, KeyDone, Return
<1>14. ASSUME NEW t \in Threads, Loop(t)
      PROVE  Goal
  BY <1>14 DEF Ordered, Loop, LoopCheck, LoopBody
<1>15. CASE UNCHANGED vars
  BY <1>15 DEF Ordered, vars
<1> QED
  BY <1>1, <1>2, <1>3, <1>4, <1>5, <1>6, <1>7, <1>8, <1>9, <1>10, <1>11, <1>12, <1>13, <1>14, <1>15 DEF Next, Handler

LEMMA OrderedInit == Init => Ordered
BY ModesAssumption DEF ModesAssumption, Init, Ordered, OneHandler,
   OnlyCurrentRuns, HandlerOfCurrent, FlagTellsPlace, FlagTellsLoop,
   ReportedBetweenCommands, Running

LEMMA OrderedAlways == Spec => []Ordered
<1>1. Init => Ordered
  BY OrderedInit
<1>2. TypeOK /\ Ordered /\ [Next]_vars => Ordered'
  BY OrderedStep
<1> QED
  BY <1>1, <1>2, TypeCorrect, PTL DEF Spec

\* No control loop runs, of any mode, while a handler that has the robot to
\* itself is between stop() and the launch of the next loop, so on_start()
\* reconfigures the servos undisturbed.
THEOREM ReconfigurationIsQuiet == Spec => []QuietReconfiguration
<1>1. TypeOK /\ Ordered => QuietReconfiguration
  BY DEF TypeOK, LoopPCs, Ordered, OnlyCurrentRuns, FlagTellsPlace, FlagTellsLoop,
         OneHandler, Running, Live, QuietReconfiguration
<1> QED
  BY <1>1, TypeCorrect, OrderedAlways, PTL

\* Locomotion::stop joins and deletes the thread object that start() made,
\* and does so once, unless two handlers overlap.
THEOREM JoinsOnce == Spec => []JoinedOnce
<1>1. Ordered => JoinedOnce
  BY Zenon DEF Ordered, JoinedOnce
<1> QED
  BY <1>1, OrderedAlways, PTL

\* "Mode of operation" names the current mode between commands, and only
\* that mode's control loop can be running then.
THEOREM ModeIsReported == Spec => []ModeReported
<1>1. Ordered => ModeReported
  BY DEF Ordered, ReportedBetweenCommands, OnlyCurrentRuns, Running, Live, ModeReported
<1> QED
  BY <1>1, OrderedAlways, PTL

------------------------------------------------------------------------------
(* Implementing ModeControl                                                 *)

LEMMA ActiveOfRunning ==
  ASSUME NEW t \in Running, \A s \in Running : s = t
  PROVE  Active = loop_of[t]
<1>1. (CHOOSE s \in Threads : loop_at[s] # "none") = t
  BY DEF Running
<1> QED
  BY <1>1 DEF Active, Running

LEMMA ActiveOfNone == Running = {} => Active = NoMode
BY DEF Active, Running

\* A step that launches and joins nothing shows nothing to ModeControl.
LEMMA ActiveUnchanged ==
  ASSUME OnlyCurrentRuns, Running' = Running, loop_of' = loop_of
  PROVE  Active' = Active
<1>1. CASE Running = {}
  <2>1. Active = NoMode
    BY <1>1, ActiveOfNone
  <2>2. Active' = NoMode
    BY <1>1 DEF Active, Running
  <2> QED
    BY <2>1, <2>2
<1>2. CASE Running # {}
  <2>1. PICK t \in Running : TRUE
    BY <1>2
  <2>2. Active = loop_of[t]
    BY <2>1, ActiveOfRunning DEF OnlyCurrentRuns
  <2>3. (CHOOSE s \in Threads : loop_at'[s] # "none") = t
    BY <2>1 DEF Running, OnlyCurrentRuns
  <2>4. Active' = loop_of[t]
    BY <2>1, <2>3 DEF Active, Running
  <2> QED
    BY <2>2, <2>4
<1> QED
  BY <1>1, <1>2

LEMMA SerialInvariants == SerialSpec => [](TypeOK /\ Ordered /\ ~overlap)
<1>1. SerialSpec => Spec
  <2>1. [SerialNext]_vars => [Next]_vars
    BY DEF SerialNext
  <2> QED
    BY <2>1, PTL DEF SerialSpec, Spec
<1>2. Init => ~overlap
  BY DEF Init
<1>3. ~overlap /\ [SerialNext]_vars => ~overlap'
  BY Zenon DEF SerialNext, vars
<1> QED
  BY <1>1, <1>2, <1>3, TypeCorrect, OrderedAlways, PTL DEF SerialSpec

\* Launching is an Activate of ModeControl, joining a Deactivate, and every
\* other step of any thread is invisible there.
LEMMA StepImplements ==
  ASSUME TypeOK, Ordered, ~overlap, [SerialNext]_vars
  PROVE  [MC!Next]_Active
<1>1. OnlyCurrentRuns
  BY Zenon DEF Ordered
<1>2. ASSUME NEW c \in Commanders, Launch(c)
      PROVE  MC!Next
  <2>1. Running = {}
    BY <1>2 DEF Ordered, FlagTellsPlace, Launch, Goto
  <2>2. PICK t \in Threads : /\ loop_of' = [loop_of EXCEPT ![t] = this[c]]
                              /\ loop_at' = [loop_at EXCEPT ![t] = "check"]
    BY <1>2 DEF Launch
  <2>3. t \in Running' /\ \A s \in Running' : s = t
    BY <2>1, <2>2 DEF Running, TypeOK
  <2>4. (CHOOSE s \in Threads : loop_at'[s] # "none") = t
    BY <2>3 DEF Running
  <2>5. Active' = this[c]
    BY <2>2, <2>3, <2>4 DEF Active, Running, TypeOK
  <2>6. Active = NoMode
    BY <2>1, ActiveOfNone
  <2>7. this[c] \in Modes
    BY DEF TypeOK
  <2> QED
    BY <2>5, <2>6, <2>7 DEF MC!Next, MC!Activate
<1>3. ASSUME NEW c \in Commanders, Join(c)
      PROVE  MC!Next
  <2>1. joining[c] \in Running
    BY <1>3 DEF Ordered, FlagTellsPlace, Join, Goto
  <2>2. Active = loop_of[joining[c]]
    BY <1>1, <2>1, ActiveOfRunning DEF OnlyCurrentRuns
  <2>3. loop_of[joining[c]] # NoMode
    BY <2>1, ModesAssumption DEF ModesAssumption, Running, TypeOK
  <2>4. loop_at' = [loop_at EXCEPT ![joining[c]] = "none"]
    BY <1>3, <2>1 DEF Join, Running, TypeOK
  <2>5. Active' = NoMode
    BY <1>1, <2>1, <2>4 DEF Active, Running, TypeOK, OnlyCurrentRuns
  <2> QED
    BY <2>2, <2>3, <2>5 DEF MC!Next, MC!Deactivate
<1>4. ASSUME NEW t \in Threads, Loop(t)
      PROVE  UNCHANGED Active
  <2>1. loop_of' = loop_of /\ Running' = Running
    BY <1>4 DEF Loop, LoopCheck, LoopBody, Running, TypeOK, LoopPCs
  <2> QED
    BY <1>1, <2>1, ActiveUnchanged
<1>5. ASSUME UNCHANGED loops
      PROVE  UNCHANGED Active
  BY <1>5 DEF loops, Active
<1>6. ASSUME NEW c \in Commanders,
             \/ \E m \in Modes : Command(c, m)
             \/ Key(c) \/ StopCheck(c) \/ OnStop(c) \/ SetStopped(c)
             \/ Assign(c) \/ StartCheck(c) \/ OnStart(c) \/ ClearStopped(c)
             \/ Update(c) \/ KeyDone(c)
      PROVE  UNCHANGED loops
  BY <1>6 DEF Command, Key, StopCheck, OnStop, SetStopped, Assign, StartCheck,
              OnStart, ClearStopped, Update, KeyDone, loops
<1>7. CASE UNCHANGED vars
  BY <1>5, <1>7 DEF vars, loops
<1> QED
  BY <1>2, <1>3, <1>4, <1>5, <1>6, <1>7 DEF SerialNext, Next, Handler

\* As long as the clients take turns, the threads implement ModeControl: one
\* control loop at a time, each switched off before the next is switched on.
THEOREM SerialImplementsModeControl == SerialSpec => ImplementsModeControl
<1>1. Init => MC!Init
  BY DEF Init, MC!Init, Active
<1>2. TypeOK /\ Ordered /\ ~overlap /\ [SerialNext]_vars => [MC!Next]_Active
  BY StepImplements
<1> QED
  BY <1>1, <1>2, SerialInvariants, PTL DEF SerialSpec, ImplementsModeControl, MC!Spec

------------------------------------------------------------------------------
(* What threads have yet to write.                                          *)
(*                                                                          *)
(* The argument is about what is left of a method that a thread executes:   *)
(* goals, writes that switch torque off, and joint control modes, of which  *)
(* the first may be half done.                                              *)

ControlModes == {"position", "velocity", "time"}

Names  == {"velocity_based", "time_based", "velocity", "extended_position", "rpm", "ms"}
Items  == {"drive", "operating", "acceleration", "velocity", "goal"}
Writes == [item : Items, joints : SUBSET Joints, value : Names]
            \union [item : {"torque"}, joints : SUBSET Joints, value : BOOLEAN]

\* The n-th write of set_joint_control_mode.
Nth(j, m, n) == set_joint_control_mode(j, m)[n]

IsGoal(w) == w.item = "goal"
IsOff(w)  == \E j \in Joints : w = TorqueOff(j)

\* From index i on, the writes are those of a joint control mode from the k-th on.
Ahead(s, i, j, m, k) ==
  \A n \in k..6 : i + n - k \in DOMAIN s /\ s[i + n - k] = Nth(j, m, n)

\* The writes before index i are those of the joint control mode as well.
Behind(s, i, j, m, k) ==
  \A n \in 1..(k - 1) : i + n - k >= 1 => s[i + n - k] = Nth(j, m, n)

Inside(s, i) ==
  \E j \in Joints, m \in ControlModes, k \in 2..6 : Ahead(s, i, j, m, k) /\ Behind(s, i, j, m, k)

\* What may be left of a method, and what may be left of it between two joint
\* control modes.
Planned(s) ==
  /\ s \in Seq(Writes)
  /\ \A i \in DOMAIN s : IsGoal(s[i]) \/ IsOff(s[i]) \/ Inside(s, i)

Fresh(s) == Planned(s) /\ (s # <<>> => IsGoal(s[1]) \/ IsOff(s[1]))

------------------------------------------------------------------------------
(* Sequences of writes.                                                     *)

LEMMA RegistersNamed ==
  ASSUME NEW m \in ControlModes
  PROVE  /\ Registers[m].drive \in Names /\ Registers[m].operating \in Names
         /\ Registers[m].acceleration \in Names /\ Registers[m].velocity \in Names
<1>1. CASE m = "position"
  BY <1>1 DEF Registers, Names
<1>2. CASE m = "velocity"
  BY <1>2 DEF Registers, Names
<1>3. CASE m = "time"
  BY <1>3 DEF Registers, Names
<1> QED
  BY <1>1, <1>2, <1>3 DEF ControlModes

LEMMA SixAreASequence ==
  ASSUME NEW S, NEW a \in S, NEW b \in S, NEW c \in S, NEW d \in S, NEW e \in S, NEW f \in S
  PROVE  <<a, b, c, d, e, f>> \in Seq(S) /\ Len(<<a, b, c, d, e, f>>) = 6
OBVIOUS

LEMMA NthWrites ==
  ASSUME NEW j \in Joints, NEW m \in ControlModes
  PROVE  /\ set_joint_control_mode(j, m) \in Seq(Writes)
         /\ Len(set_joint_control_mode(j, m)) = 6
         /\ Nth(j, m, 1) = TorqueOff(j)
         /\ Nth(j, m, 2) = Write("drive", {j}, Registers[m].drive)
         /\ Nth(j, m, 3) = Write("operating", {j}, Registers[m].operating)
         /\ Nth(j, m, 4) = Write("acceleration", {j}, Registers[m].acceleration)
         /\ Nth(j, m, 5) = Write("velocity", {j}, Registers[m].velocity)
         /\ Nth(j, m, 6) = Write("torque", {j}, TRUE)
<1>1. /\ Registers[m].drive \in Names /\ Registers[m].operating \in Names
      /\ Registers[m].acceleration \in Names /\ Registers[m].velocity \in Names
  BY RegistersNamed
<1>2. \A v \in Names : /\ Write("drive", {j}, v) \in Writes
                       /\ Write("operating", {j}, v) \in Writes
                       /\ Write("acceleration", {j}, v) \in Writes
                       /\ Write("velocity", {j}, v) \in Writes
  BY DEF Write, Writes, Items
<1>3. \A v \in BOOLEAN : Write("torque", {j}, v) \in Writes
  BY DEF Write, Writes
<1>4. /\ Nth(j, m, 1) = TorqueOff(j)
      /\ Nth(j, m, 2) = Write("drive", {j}, Registers[m].drive)
      /\ Nth(j, m, 3) = Write("operating", {j}, Registers[m].operating)
      /\ Nth(j, m, 4) = Write("acceleration", {j}, Registers[m].acceleration)
      /\ Nth(j, m, 5) = Write("velocity", {j}, Registers[m].velocity)
      /\ Nth(j, m, 6) = Write("torque", {j}, TRUE)
  BY DEF set_joint_control_mode, Nth
<1>5. /\ TorqueOff(j) \in Writes
      /\ Write("drive", {j}, Registers[m].drive) \in Writes
      /\ Write("operating", {j}, Registers[m].operating) \in Writes
      /\ Write("acceleration", {j}, Registers[m].acceleration) \in Writes
      /\ Write("velocity", {j}, Registers[m].velocity) \in Writes
      /\ Write("torque", {j}, TRUE) \in Writes
  BY <1>1, <1>2, <1>3 DEF TorqueOff
<1>6. Len(set_joint_control_mode(j, m)) = 6 /\ set_joint_control_mode(j, m) \in Seq(Writes)
  BY <1>5, SixAreASequence DEF set_joint_control_mode
<1> QED
  BY <1>4, <1>6

\* No write but the first of a joint control mode is one that a fresh method
\* begins with.
LEMMA NthIsConfiguration ==
  ASSUME NEW j \in Joints, NEW m \in ControlModes, NEW n \in 2..6
  PROVE  ~IsGoal(Nth(j, m, n)) /\ ~IsOff(Nth(j, m, n))
<1>1. n \in {2, 3, 4, 5, 6}
  OBVIOUS
<1> QED
  BY <1>1, NthWrites DEF IsGoal, IsOff, TorqueOff, Write

LEMMA ControlModeFresh ==
  ASSUME NEW j \in Joints, NEW m \in ControlModes
  PROVE  Fresh(set_joint_control_mode(j, m))
<1> DEFINE s == set_joint_control_mode(j, m)
<1>1. s \in Seq(Writes) /\ DOMAIN s = 1..6 /\ s[1] = TorqueOff(j)
  <2>1. s[1] = Nth(j, m, 1)
    BY DEF Nth
  <2>2. s \in Seq(Writes) /\ Len(s) = 6 /\ Nth(j, m, 1) = TorqueOff(j)
    BY NthWrites
  <2>3. DOMAIN s = 1..6
    BY <2>2
  <2> QED
    BY <2>1, <2>2, <2>3
<1>2. \A i \in 2..6 : Inside(s, i)
  BY <1>1 DEF Inside, Ahead, Behind, Nth
<1> QED
  BY <1>1, <1>2 DEF Fresh, Planned, IsOff

LEMMA FreshThenFresh ==
  ASSUME NEW s, NEW t, Fresh(s), Fresh(t)
  PROVE  Fresh(s \o t)
<1> DEFINE u == s \o t
<1>1. /\ s \in Seq(Writes) /\ t \in Seq(Writes) /\ u \in Seq(Writes)
      /\ Len(u) = Len(s) + Len(t)
      /\ \A i \in 1..Len(s) : u[i] = s[i]
      /\ \A i \in 1..Len(t) : u[Len(s) + i] = t[i]
  BY DEF Fresh, Planned
<1>2. ASSUME NEW i \in 1..Len(s)
      PROVE  IsGoal(u[i]) \/ IsOff(u[i]) \/ Inside(u, i)
  <2>1. CASE Inside(s, i)
    <3>1. PICK j \in Joints, m \in ControlModes, k \in 2..6 :
            Ahead(s, i, j, m, k) /\ Behind(s, i, j, m, k)
      BY <2>1 DEF Inside
    <3>2. Ahead(u, i, j, m, k)
      BY <1>1, <3>1 DEF Ahead
    <3>3. Behind(u, i, j, m, k)
      BY <1>1, <3>1 DEF Behind
    <3> QED
      BY <3>2, <3>3 DEF Inside
  <2> QED
    BY <1>1, <2>1 DEF Fresh, Planned
<1>3. ASSUME NEW i \in 1..Len(t)
      PROVE  \/ IsGoal(u[Len(s) + i]) \/ IsOff(u[Len(s) + i])
             \/ Inside(u, Len(s) + i)
  <2>1. CASE Inside(t, i)
    <3>1. PICK j \in Joints, m \in ControlModes, k \in 2..6 :
            Ahead(t, i, j, m, k) /\ Behind(t, i, j, m, k)
      BY <2>1 DEF Inside
    <3>2. i >= k
      <4>1. SUFFICES ASSUME i < k
                     PROVE  FALSE
        OBVIOUS
      <4>2. k - i + 1 \in 2..6 /\ t[1] = Nth(j, m, k - i + 1)
        <5>1. CASE i = 1
          BY <3>1, <5>1 DEF Ahead
        <5>2. CASE i > 1
          <6>1. k - i + 1 \in 1..(k - 1) /\ i + (k - i + 1) - k = 1
            BY <4>1, <5>2
          <6> QED
            BY <3>1, <4>1, <6>1 DEF Behind
        <5> QED
          BY <5>1, <5>2
      <4> QED
        BY <1>3, <4>2, NthIsConfiguration DEF Fresh
    <3>3. Ahead(u, Len(s) + i, j, m, k)
      <4>1. ASSUME NEW n \in k..6
            PROVE  Len(s) + i + n - k \in DOMAIN u /\ u[Len(s) + i + n - k] = Nth(j, m, n)
        <5>1. i + n - k \in 1..Len(t) /\ t[i + n - k] = Nth(j, m, n)
          BY <1>1, <3>1 DEF Ahead
        <5>2. Len(s) + i + n - k = Len(s) + (i + n - k) /\ Len(s) \in Nat
          BY <1>1
        <5> QED
          BY <1>1, <5>1, <5>2
      <4> QED
        BY <4>1 DEF Ahead
    <3>4. Behind(u, Len(s) + i, j, m, k)
      BY <1>1, <3>1, <3>2 DEF Behind
    <3> QED
      BY <3>3, <3>4 DEF Inside
  <2> QED
    BY <1>1, <2>1 DEF Fresh, Planned
<1>4. \A i \in DOMAIN u : IsGoal(u[i]) \/ IsOff(u[i]) \/ Inside(u, i)
  <2>1. \A i \in DOMAIN u : i \in 1..Len(s) \/ (i - Len(s) \in 1..Len(t) /\ i = Len(s) + (i - Len(s)))
    BY <1>1
  <2> QED
    BY <1>2, <1>3, <2>1
<1>5. u # <<>> => IsGoal(u[1]) \/ IsOff(u[1])
  <2>1. CASE s = <<>>
    BY <1>1, <2>1 DEF Fresh
  <2>2. CASE s # <<>>
    BY <1>1, <2>2 DEF Fresh
  <2> QED
    BY <2>1, <2>2
<1> QED
  BY <1>1, <1>4, <1>5 DEF Fresh, Planned

LEMMA NothingFresh == Fresh(<<>>)
BY DEF Fresh, Planned

LEMMA GoalFresh ==
  ASSUME NEW J \in SUBSET Joints, NEW v \in Names
  PROVE  Fresh(<<Write("goal", J, v)>>)
<1>1. Write("goal", J, v) \in Writes
  BY DEF Write, Writes, Items
<1>2. IsGoal(Write("goal", J, v))
  BY DEF IsGoal, Write
<1> QED
  BY <1>1, <1>2 DEF Fresh, Planned

LEMMA OffFresh ==
  ASSUME NEW j \in Joints
  PROVE  Fresh(<<TorqueOff(j)>>)
<1>1. TorqueOff(j) \in Writes
  BY DEF TorqueOff, Write, Writes
<1> QED
  BY <1>1 DEF Fresh, Planned, IsOff

LEMMA JointsAre ==
  /\ Joints = {"left_wheel", "left_ankle", "right_wheel", "right_ankle"}
  /\ Wheels \subseteq Joints /\ Ankles \subseteq Joints
BY DEF Joints, LeftJoints, RightJoints, Wheels, Ankles

LEMMA GoalsFresh ==
  ASSUME NEW J \in SUBSET Joints
  PROVE  Fresh(set_joint_position(J)) /\ Fresh(set_joint_speed(J))
BY GoalFresh DEF set_joint_position, set_joint_speed, Names

LEMMA ConfigureFresh ==
  ASSUME NEW w \in ControlModes, NEW a \in ControlModes
  PROVE  Fresh(Configure(w, a))
BY JointsAre, ControlModeFresh, FreshThenFresh DEF Configure

LEMMA PowerDownFresh == Fresh(PowerDown)
<1>1. PowerDown = <<TorqueOff("left_wheel")>> \o <<TorqueOff("left_ankle")>>
                    \o <<TorqueOff("right_ankle")>> \o <<TorqueOff("right_wheel")>>
  BY DEF PowerDown
<1> QED
  BY <1>1, JointsAre, OffFresh, FreshThenFresh

\* Every method of every mode that client threads execute begins and ends
\* between two joint control modes.
LEMMA OnStartFresh ==
  ASSUME NEW m \in DOMAIN on_start
  PROVE  Fresh(on_start[m])
<1>1. Fresh(tilt) /\ Fresh(set_joint_position(Ankles)) /\ Fresh(set_joint_speed(Wheels))
  BY JointsAre, GoalsFresh DEF tilt
<1>2. /\ Fresh(Configure("velocity", "position")) /\ Fresh(Configure("position", "time"))
      /\ Fresh(Configure("time", "time"))
  BY ConfigureFresh DEF ControlModes
<1>3. /\ Fresh(Pole_on_start) /\ Fresh(Segway_on_start) /\ Fresh(Ski_on_start)
      /\ Fresh(Tail_on_start) /\ Fresh(Waddle_on_start) /\ Fresh(Unicycle_on_start)
      /\ Fresh(Hang_on_start) /\ Fresh(Caterpillar_on_start)
  BY <1>1, <1>2, FreshThenFresh
  DEF Pole_on_start, Segway_on_start, Ski_on_start, Tail_on_start, Waddle_on_start,
      Unicycle_on_start, Hang_on_start, Caterpillar_on_start
<1> QED
  BY <1>3, NothingFresh DEF on_start

LEMMA OnStopFresh ==
  ASSUME NEW m
  PROVE  Fresh(on_stop(m))
BY PowerDownFresh, NothingFresh DEF on_stop

LEMMA KeysFresh ==
  ASSUME NEW m \in DOMAIN keys, NEW writes \in keys[m]
  PROVE  Fresh(writes)
<1>1. /\ Fresh(tilt) /\ Fresh(set_joint_speed(Wheels)) /\ Fresh(set_joint_position(Wheels))
      /\ Fresh(set_joint_position({"right_ankle"}))
      /\ Fresh(set_joint_position({"left_ankle", "left_wheel"}))
  <2>1. {"right_ankle"} \subseteq Joints /\ {"left_ankle", "left_wheel"} \subseteq Joints
    BY JointsAre
  <2> QED
    BY <2>1, JointsAre, GoalsFresh DEF tilt
<1>2. Fresh(PoleTurn)
  <2>1. /\ Fresh(set_joint_control_mode("left_wheel", "position"))
        /\ Fresh(set_joint_control_mode("right_wheel", "position"))
    BY JointsAre, ControlModeFresh DEF ControlModes
  <2> QED
    BY <1>1, <2>1, FreshThenFresh DEF PoleTurn
<1>3. /\ \A k \in Pole_keys : Fresh(k)
      /\ \A k \in Segway_keys : Fresh(k)
      /\ \A k \in Ski_keys : Fresh(k)
      /\ \A k \in Tail_keys : Fresh(k)
      /\ \A k \in Unicycle_keys : Fresh(k)
      /\ \A k \in Hang_keys : Fresh(k)
      /\ \A k \in Waddle_keys : Fresh(k)
      /\ \A k \in Caterpillar_keys : Fresh(k)
  BY <1>1, <1>2, NothingFresh
  DEF Pole_keys, Segway_keys, Ski_keys, Tail_keys, Unicycle_keys, Hang_keys, Waddle_keys,
      Caterpillar_keys
<1> QED
  BY <1>3, NothingFresh DEF keys

------------------------------------------------------------------------------
(* What is left when the first write has been sent.                         *)

LEMMA TailPlanned ==
  ASSUME NEW s, Planned(s), s # <<>>
  PROVE  /\ Planned(Tail(s)) /\ Len(Tail(s)) = Len(s) - 1
         /\ \A i \in 1..(Len(s) - 1) : Tail(s)[i] = s[i + 1]
<1>1. /\ s \in Seq(Writes) /\ Tail(s) \in Seq(Writes) /\ Len(Tail(s)) = Len(s) - 1
      /\ Len(s) \in Nat /\ DOMAIN s = 1..Len(s) /\ DOMAIN Tail(s) = 1..(Len(s) - 1)
      /\ \A i \in 1..(Len(s) - 1) : Tail(s)[i] = s[i + 1]
  BY DEF Planned
<1>2. ASSUME NEW i \in 1..(Len(s) - 1), Inside(s, i + 1)
      PROVE  Inside(Tail(s), i)
  <2>1. PICK j \in Joints, m \in ControlModes, k \in 2..6 :
          Ahead(s, i + 1, j, m, k) /\ Behind(s, i + 1, j, m, k)
    BY <1>2 DEF Inside
  <2>2. ASSUME NEW n \in k..6
        PROVE  i + n - k \in DOMAIN Tail(s) /\ Tail(s)[i + n - k] = Nth(j, m, n)
    <3>1. i + 1 + n - k \in DOMAIN s /\ s[i + 1 + n - k] = Nth(j, m, n)
      BY <2>1 DEF Ahead
    <3>2. i + 1 + n - k = (i + n - k) + 1 /\ i + n - k \in 1..(Len(s) - 1)
      BY <1>1, <3>1
    <3> QED
      BY <1>1, <3>1, <3>2
  <2>3. ASSUME NEW n \in 1..(k - 1), i + n - k >= 1
        PROVE  Tail(s)[i + n - k] = Nth(j, m, n)
    <3>1. i + 1 + n - k = (i + n - k) + 1 /\ i + n - k \in 1..(Len(s) - 1)
      BY <1>1, <2>3
    <3>2. s[i + 1 + n - k] = Nth(j, m, n)
      BY <2>1, <2>3 DEF Behind
    <3> QED
      BY <1>1, <3>1, <3>2
  <2> QED
    BY <2>2, <2>3 DEF Inside, Ahead, Behind
<1>3. \A i \in DOMAIN Tail(s) : IsGoal(Tail(s)[i]) \/ IsOff(Tail(s)[i]) \/ Inside(Tail(s), i)
  <2>1. ASSUME NEW i \in 1..(Len(s) - 1)
        PROVE  IsGoal(Tail(s)[i]) \/ IsOff(Tail(s)[i]) \/ Inside(Tail(s), i)
    <3>1. i + 1 \in DOMAIN s /\ Tail(s)[i] = s[i + 1]
      BY <1>1
    <3> QED
      BY <1>2, <3>1 DEF Planned
  <2> QED
    BY <1>1, <2>1
<1> QED
  BY <1>1, <1>3 DEF Planned

\* The first write of what is left belongs to a joint control mode only if the
\* write before it does.
LEMMA AfterFirst ==
  ASSUME NEW s, Planned(s), s # <<>>, ~Fresh(Tail(s))
  PROVE  \E j \in Joints, m \in ControlModes, k \in 1..5 :
           s[1] = Nth(j, m, k) /\ Ahead(Tail(s), 1, j, m, k + 1)
<1>1. Tail(s) # <<>> /\ Planned(Tail(s)) /\ Len(s) \in Nat /\ Len(s) > 1
  BY TailPlanned DEF Planned, Fresh
<1>2. 2 \in DOMAIN s /\ Tail(s)[1] = s[2]
  BY <1>1, TailPlanned DEF Planned
<1>3. Inside(s, 2)
  BY <1>1, <1>2 DEF Planned, Fresh
<1>4. PICK j \in Joints, m \in ControlModes, k \in 2..6 : Ahead(s, 2, j, m, k) /\ Behind(s, 2, j, m, k)
  BY <1>3 DEF Inside
<1>5. s[1] = Nth(j, m, k - 1)
  <2>1. k - 1 \in 1..(k - 1) /\ 2 + (k - 1) - k = 1
    OBVIOUS
  <2> QED
    BY <1>4, <2>1 DEF Behind
<1>6. ASSUME NEW n \in k..6
      PROVE  1 + n - k \in DOMAIN Tail(s) /\ Tail(s)[1 + n - k] = Nth(j, m, n)
  <2>1. 2 + n - k \in DOMAIN s /\ s[2 + n - k] = Nth(j, m, n)
    BY <1>4 DEF Ahead
  <2>2. 2 + n - k = (1 + n - k) + 1 /\ 1 + n - k \in 1..(Len(s) - 1)
    BY <1>1, <2>1 DEF Planned
  <2> QED
    BY <1>1, <2>1, <2>2, TailPlanned DEF Planned
<1>7. Ahead(Tail(s), 1, j, m, (k - 1) + 1)
  BY <1>6 DEF Ahead
<1> QED
  BY <1>5, <1>7

LEMMA AfterGoal ==
  ASSUME NEW s, Planned(s), s # <<>>, IsGoal(s[1])
  PROVE  Fresh(Tail(s))
<1>1. SUFFICES ASSUME ~Fresh(Tail(s))
               PROVE  FALSE
  OBVIOUS
<1>2. PICK j \in Joints, m \in ControlModes, k \in 1..5 : s[1] = Nth(j, m, k)
  BY <1>1, AfterFirst
<1>3. k \in {1, 2, 3, 4, 5}
  OBVIOUS
<1> QED
  BY <1>2, <1>3, NthWrites DEF IsGoal, TorqueOff, Write

LEMMA AfterOff ==
  ASSUME NEW s, Planned(s), s # <<>>, NEW j \in Joints, s[1] = TorqueOff(j)
  PROVE  Fresh(Tail(s)) \/ \E m \in ControlModes : Ahead(Tail(s), 1, j, m, 2)
<1>1. SUFFICES ASSUME ~Fresh(Tail(s))
               PROVE  \E m \in ControlModes : Ahead(Tail(s), 1, j, m, 2)
  OBVIOUS
<1>2. PICK i \in Joints, m \in ControlModes, k \in 1..5 :
        s[1] = Nth(i, m, k) /\ Ahead(Tail(s), 1, i, m, k + 1)
  BY <1>1, AfterFirst
<1>3. k \in {1, 2, 3, 4, 5}
  OBVIOUS
<1>4. k = 1
  BY <1>2, <1>3, NthWrites DEF TorqueOff, Write
<1>5. TorqueOff(i).joints = TorqueOff(j).joints
  BY <1>2, <1>4, NthWrites
<1>6. i = j
  BY <1>5 DEF TorqueOff, Write
<1> QED
  BY <1>2, <1>4, <1>6

LEMMA AfterNth ==
  ASSUME NEW s, Planned(s), NEW j \in Joints, NEW m \in ControlModes, NEW k \in 2..6,
         Ahead(s, 1, j, m, k)
  PROVE  /\ s # <<>> /\ s[1] = Nth(j, m, k)
         /\ k < 6 => Ahead(Tail(s), 1, j, m, k + 1)
         /\ k = 6 => Fresh(Tail(s))
<1>1. 1 \in DOMAIN s /\ s[1] = Nth(j, m, k)
  BY DEF Ahead
<1>2. s # <<>>
  BY <1>1 DEF Planned
<1>3. ASSUME k < 6, NEW n \in (k + 1)..6
      PROVE  1 + n - (k + 1) \in DOMAIN Tail(s) /\ Tail(s)[1 + n - (k + 1)] = Nth(j, m, n)
  <2>1. 1 + n - k \in DOMAIN s /\ s[1 + n - k] = Nth(j, m, n)
    BY DEF Ahead
  <2>2. 1 + n - k = (1 + n - (k + 1)) + 1 /\ 1 + n - (k + 1) \in 1..(Len(s) - 1)
    BY <2>1 DEF Planned
  <2> QED
    BY <1>2, <2>1, <2>2, TailPlanned DEF Planned
<1>4. ASSUME k = 6, ~Fresh(Tail(s))
      PROVE  FALSE
  <2>1. PICK jj \in Joints, mm \in ControlModes, kk \in 1..5 : s[1] = Nth(jj, mm, kk)
    BY <1>2, <1>4, AfterFirst
  <2>2. kk \in {1, 2, 3, 4, 5}
    OBVIOUS
  <2>3. s[1] = Write("torque", {j}, TRUE)
    BY <1>1, <1>4, NthWrites
  <2>4. s[1].item = "torque" => s[1] = TorqueOff(jj)
    BY <2>1, <2>2, NthWrites DEF TorqueOff, Write
  <2> QED
    BY <2>3, <2>4 DEF TorqueOff, Write
<1> QED
  BY <1>1, <1>2, <1>3, <1>4 DEF Ahead

LEMMA FreshConfigures ==
  ASSUME NEW s, Fresh(s)
  PROVE  Configuring(s) = {}
<1>1. SUFFICES ASSUME NEW i \in DOMAIN s, s[i].item = "torque", s[i].value,
                      \A k \in 1..(i - 1) : s[k].item # "torque"
               PROVE  FALSE
  BY DEF Configuring
<1>2. ~IsGoal(s[i]) /\ ~IsOff(s[i])
  BY <1>1 DEF IsGoal, IsOff, TorqueOff, Write
<1>3. PICK j \in Joints, m \in ControlModes, k \in 2..6 : Ahead(s, i, j, m, k) /\ Behind(s, i, j, m, k)
  BY <1>2 DEF Fresh, Planned, Inside
<1>4. i \in Nat \ {0}
  BY DEF Fresh, Planned
<1>5. CASE i >= k
  <2>1. 1 + i - k \in 1..(i - 1)
    BY <1>4, <1>5
  <2>2. i + 1 - k >= 1 /\ i + 1 - k = 1 + i - k
    BY <1>4, <1>5
  <2>3. s[1 + i - k] = Nth(j, m, 1)
    BY <1>3, <2>2 DEF Behind
  <2> QED
    BY <1>1, <2>1, <2>3, NthWrites DEF TorqueOff, Write
<1>6. CASE i < k
  <2>1. s[1] = Nth(j, m, k - i + 1)
    <3>1. CASE i = 1
      BY <1>3, <3>1 DEF Ahead
    <3>2. CASE i > 1
      <4>1. k - i + 1 \in 1..(k - 1) /\ i + (k - i + 1) - k = 1
        BY <1>4, <1>6, <3>2
      <4> QED
        BY <1>3, <4>1 DEF Behind
    <3> QED
      BY <1>4, <3>1, <3>2
  <2>2. k - i + 1 \in 2..6
    BY <1>4, <1>6
  <2> QED
    BY <2>1, <2>2, NthIsConfiguration DEF Fresh
<1> QED
  BY <1>4, <1>5, <1>6

LEMMA AheadConfigures ==
  ASSUME NEW s, Planned(s), NEW j \in Joints, NEW m \in ControlModes, NEW k \in 2..6,
         Ahead(s, 1, j, m, k)
  PROVE  Configuring(s) = {j}
<1>1. /\ 7 - k \in DOMAIN s /\ s[7 - k] = Write("torque", {j}, TRUE)
  <2>1. 1 + 6 - k \in DOMAIN s /\ s[1 + 6 - k] = Nth(j, m, 6)
    BY DEF Ahead
  <2>2. 1 + 6 - k = 7 - k
    OBVIOUS
  <2> QED
    BY <2>1, <2>2, NthWrites
<1>2. ASSUME NEW i \in 1..(6 - k)
      PROVE  s[i].item # "torque"
  <2>1. k + i - 1 \in k..5 /\ 1 + (k + i - 1) - k = i
    OBVIOUS
  <2>2. s[i] = Nth(j, m, k + i - 1)
    BY <2>1 DEF Ahead
  <2>3. k + i - 1 \in {2, 3, 4, 5}
    BY <2>1
  <2> QED
    BY <2>2, <2>3, NthWrites DEF Write
<1>3. ASSUME NEW i \in DOMAIN s, s[i].item = "torque", \A n \in 1..(i - 1) : s[n].item # "torque"
      PROVE  i = 7 - k
  BY <1>1, <1>2, <1>3 DEF Write, Planned
<1>4. (7 - k) - 1 = 6 - k
  OBVIOUS
<1> QED
  BY <1>1, <1>2, <1>3, <1>4 DEF Configuring, Write

------------------------------------------------------------------------------
(* The invariant.                                                           *)

Tables == [torque : BOOLEAN, drive : Names, operating : Names, acceleration : Names,
           velocity : Names]

ServosTyped ==
  /\ servo \in [Joints -> Tables]
  /\ todo \in [Senders -> Seq(Writes)]
  /\ lost \in SUBSET Joints
  /\ owner \in [Joints -> {"nobody", "radio", "mode"}]
  /\ motor_channel \in [{"left", "right"} -> {"low", "middle", "high"}]

\* What a joint control mode has done to its servo when its first k - 1 writes
\* are sent.
Prepared(s, m, k) ==
  /\ ~s.torque
  /\ k > 2 => s.drive = Registers[m].drive
  /\ k > 3 => s.operating = Registers[m].operating
  /\ k > 4 => s.acceleration = Registers[m].acceleration
  /\ k > 5 => s.velocity = Registers[m].velocity

\* Thread x has the writes from the k-th on to send.  Unless the servo has
\* missed one, or another thread has interfered, it is as far.
HalfDone(x, j, m, k) ==
  /\ Ahead(todo[x], 1, j, m, k)
  /\ j \notin lost =>
       /\ owner[j] = Who(x) /\ Prepared(servo[j], m, k)
       /\ \A y \in Senders \ {x} : j \notin Configuring(todo[y])

Underway(x) ==
  /\ Planned(todo[x])
  /\ \/ Fresh(todo[x])
     \/ \E j \in Joints, m \in ControlModes, k \in 2..6 : HalfDone(x, j, m, k)

Consistent ==
  \A j \in Joints \ lost : servo[j].torque =>
    \E m \in ControlModes : servo[j] = Configured(m, TRUE)

\* What a joint may be meant to be: in a joint control mode, or off.
Aims == ControlModes \union {"off"}

AsAsked(s, aim) == IF aim = "off" THEN ~s.torque ELSE s = Configured(aim, TRUE)

Switches(w, j) == w.item = "torque" /\ j \in w.joints

Powers(s, j) == \E i \in DOMAIN s : Switches(s[i], j)

\* What is left of a method leaves a joint as it is meant to be.
Obeys(s, j, aim) ==
  /\ \A i \in DOMAIN s : Switches(s[i], j) =>
       IF aim = "off" THEN ~s[i].value
       ELSE s[i].value \/ \E n \in DOMAIN s : n > i /\ Switches(s[n], j) /\ s[n].value
  /\ \A i \in DOMAIN s : s[i].item \in {"drive", "operating"} /\ j \in s[i].joints =>
       aim # "off" /\ s[i].value = Registers[aim][s[i].item]

\* The joint control mode that a thread is in the middle of is the one that is
\* meant.
Aimed(x, aim) ==
  \/ Fresh(todo[x])
  \/ \E j \in Joints, k \in 2..6 : aim[j] # "off" /\ HalfDone(x, j, aim[j], k)

\* What thread x has left makes of the joints what aim says; those that x, or
\* another client thread if x is one, was the last to switch, and that x has
\* nothing left for, are so already.
Obeying(x, aim) ==
  /\ \A j \in Joints : Obeys(todo[x], j, aim[j])
  /\ Aimed(x, aim)
  /\ \A j \in Joints \ lost : owner[j] = Who(x) =>
       Powers(todo[x], j) \/ AsAsked(servo[j], aim[j])

\* The switch that a joint belongs to, and what it asks for.
Switch(j) == motor_channel[IF j \in LeftJoints THEN "left" ELSE "right"]

SwitchAims == [j \in Joints |-> IF Switch(j) = "low" THEN "off" ELSE "velocity"]

ServoInv ==
  /\ ServosTyped
  /\ \A x \in Senders : Underway(x)
  /\ Consistent
  /\ Obeying(Radio, SwitchAims)

------------------------------------------------------------------------------
(* One write on the bus.                                                    *)

LEMMA FirstIsAWrite ==
  ASSUME NEW s, s \in Seq(Writes), s # <<>>
  PROVE  s[1] \in Writes /\ Head(s) = s[1]
OBVIOUS

\* What a write does to a joint that it is not for, and to one that it is for
\* and that has not missed it.
LEMMA WriteReaches ==
  ASSUME ServosTyped, NEW x, NEW w \in Writes, Transmit(x, w), NEW j \in Joints
  PROVE  /\ j \notin w.joints =>
              servo'[j] = servo[j] /\ owner'[j] = owner[j] /\ (j \in lost' <=> j \in lost)
         /\ IsGoal(w) =>
              servo'[j] = servo[j] /\ owner'[j] = owner[j] /\ (j \in lost' <=> j \in lost)
         /\ (j \in w.joints /\ j \notin lost' /\ ~IsGoal(w)) =>
              /\ servo'[j] = Written(servo[j], w)
              /\ j \in lost => w.item = "torque" /\ ~w.value
              /\ \A y \in Senders \ {x} : j \notin Configuring(todo[y])
         /\ j \in w.joints =>
              owner'[j] = IF w.item = "torque" THEN Who(x) ELSE owner[j]
<1>1. PICK missed \in {{}} \union
              (IF losses < MaxLost /\ w.item # "goal" THEN {w.joints} ELSE {}) :
        LET got  == w.joints \ missed
            kept == IF w.item = "torque" /\ ~w.value THEN lost \ got ELSE lost
        IN  /\ servo' = [i \in Joints |-> IF i \in got THEN Written(servo[i], w) ELSE servo[i]]
            /\ lost' = kept \union missed \union Torn(x, w)
            /\ owner' = [i \in Joints |->
                 IF w.item = "torque" /\ i \in w.joints THEN Who(x) ELSE owner[i]]
  BY DEF Transmit
<1>2. missed = {} \/ (missed = w.joints /\ ~IsGoal(w))
  BY <1>1 DEF IsGoal
<1>3. Torn(x, w) \subseteq w.joints /\ (IsGoal(w) => Torn(x, w) = {})
  BY DEF Torn, IsGoal
<1>4. ~IsGoal(w) =>
        (j \in Torn(x, w) <=> j \in w.joints /\ \E y \in Senders \ {x} : j \in Configuring(todo[y]))
  BY DEF Torn, IsGoal
<1>5. IsGoal(w) => Written(servo[j], w) = servo[j]
  BY DEF IsGoal, Written
<1>6. j \notin w.joints \/ IsGoal(w) =>
        servo'[j] = servo[j] /\ owner'[j] = owner[j] /\ (j \in lost' <=> j \in lost)
  BY <1>1, <1>2, <1>3, <1>5 DEF IsGoal
<1>7. (j \in w.joints /\ j \notin lost' /\ ~IsGoal(w)) =>
        /\ servo'[j] = Written(servo[j], w)
        /\ j \in lost => w.item = "torque" /\ ~w.value
        /\ \A y \in Senders \ {x} : j \notin Configuring(todo[y])
  BY <1>1, <1>2, <1>4
<1>8. j \in w.joints => owner'[j] = IF w.item = "torque" THEN Who(x) ELSE owner[j]
  BY <1>1
<1> QED
  BY <1>6, <1>7, <1>8

LEMMA WriteTyped ==
  ASSUME ServosTyped, NEW x, NEW w \in Writes, Transmit(x, w)
  PROVE  /\ servo' \in [Joints -> Tables]
         /\ lost' \in SUBSET Joints
         /\ owner' \in [Joints -> {"nobody", "radio", "mode"}]
<1>1. \A j \in Joints : Written(servo[j], w) \in Tables
  <2>1. SUFFICES ASSUME NEW j \in Joints
                 PROVE  Written(servo[j], w) \in Tables
    OBVIOUS
  <2>2. servo[j] \in Tables
    BY DEF ServosTyped
  <2>3. /\ w.item \in Items \union {"torque"}
        /\ w.item = "torque" => w.value \in BOOLEAN
        /\ w.item # "torque" => w.value \in Names
    BY DEF Writes, Items
  <2>4. CASE w.item = "torque"
    BY <2>2, <2>3, <2>4 DEF Written, Tables
  <2>5. CASE w.item \in {"drive", "operating", "acceleration", "velocity"}
    BY <2>2, <2>3, <2>5 DEF Written, Tables
  <2>6. CASE w.item = "goal"
    BY <2>2, <2>6 DEF Written
  <2> QED
    BY <2>3, <2>4, <2>5, <2>6 DEF Items
<1>2. Who(x) \in {"nobody", "radio", "mode"}
  BY DEF Who
<1>3. Torn(x, w) \subseteq Joints /\ w.joints \subseteq Joints
  BY DEF Torn, Writes
<1> QED
  BY <1>1, <1>2, <1>3 DEF Transmit, ServosTyped

LEMMA TailConfigures ==
  ASSUME NEW s, Planned(s), s # <<>>,
         \/ Fresh(s)
         \/ \E j \in Joints, m \in ControlModes, k \in 2..6 : Ahead(s, 1, j, m, k)
  PROVE  /\ IsGoal(s[1]) => Configuring(Tail(s)) = {}
         /\ Configuring(Tail(s)) \subseteq s[1].joints
<1>1. CASE IsGoal(s[1])
  BY <1>1, AfterGoal, FreshConfigures
<1>2. CASE IsOff(s[1])
  <2>1. PICK j \in Joints : s[1] = TorqueOff(j)
    BY <1>2 DEF IsOff
  <2>2. ~IsGoal(s[1]) /\ s[1].joints = {j}
    BY <2>1 DEF IsGoal, TorqueOff, Write
  <2> QED
    BY <2>1, <2>2, AfterOff, FreshConfigures, AheadConfigures, TailPlanned
<1>3. CASE ~Fresh(s)
  <2>1. PICK j \in Joints, m \in ControlModes, k \in 2..6 : Ahead(s, 1, j, m, k)
    BY <1>3
  <2>2. s[1] = Nth(j, m, k) /\ (k < 6 => Ahead(Tail(s), 1, j, m, k + 1)) /\ (k = 6 => Fresh(Tail(s)))
    BY <2>1, AfterNth
  <2>3. k \in {2, 3, 4, 5, 6}
    OBVIOUS
  <2>4. s[1].joints = {j} /\ ~IsGoal(s[1])
    BY <2>2, <2>3, NthWrites, NthIsConfiguration DEF Write
  <2>5. k < 6 => k + 1 \in 2..6
    OBVIOUS
  <2> QED
    BY <2>2, <2>4, <2>5, FreshConfigures, AheadConfigures, TailPlanned
<1> QED
  BY <1>1, <1>2, <1>3 DEF Fresh

LEMMA PreparedNext ==
  ASSUME NEW s \in Tables, NEW j \in Joints, NEW m \in ControlModes, NEW k \in 2..5,
         Prepared(s, m, k)
  PROVE  Prepared(Written(s, Nth(j, m, k)), m, k + 1)
<1>1. CASE k = 2
  BY <1>1, NthWrites DEF Prepared, Written, Write, Tables
<1>2. CASE k = 3
  BY <1>2, NthWrites DEF Prepared, Written, Write, Tables
<1>3. CASE k = 4
  BY <1>3, NthWrites DEF Prepared, Written, Write, Tables
<1>4. CASE k = 5
  BY <1>4, NthWrites DEF Prepared, Written, Write, Tables
<1> QED
  BY <1>1, <1>2, <1>3, <1>4

LEMMA PreparedLast ==
  ASSUME NEW s \in Tables, NEW j \in Joints, NEW m \in ControlModes, Prepared(s, m, 6)
  PROVE  Written(s, Nth(j, m, 6)) = Configured(m, TRUE)
<1> DEFINE t == Written(s, Nth(j, m, 6))
<1>1. t = [s EXCEPT !["torque"] = TRUE]
  <2>1. Nth(j, m, 6) = [item |-> "torque", joints |-> {j}, value |-> TRUE]
    BY NthWrites DEF Write
  <2>2. Nth(j, m, 6).item = "torque" /\ Nth(j, m, 6).value = TRUE
    BY <2>1
  <2> QED
    BY <2>2 DEF Written
<1>2. t \in Tables
  BY <1>1 DEF Tables
<1>3. /\ t.torque = TRUE /\ t.drive = Registers[m].drive /\ t.operating = Registers[m].operating
      /\ t.acceleration = Registers[m].acceleration /\ t.velocity = Registers[m].velocity
  BY <1>1 DEF Tables, Prepared
<1> HIDE DEF t
<1>4. t = [torque |-> t.torque, drive |-> t.drive, operating |-> t.operating,
           acceleration |-> t.acceleration, velocity |-> t.velocity]
  BY <1>2 DEF Tables
<1> QED
  BY <1>3, <1>4 DEF Configured, t

\* A thread sends the first write that its method has left.
SendsFirst(x) ==
  /\ todo[x] # <<>>
  /\ Transmit(x, todo[x][1])
  /\ todo' = [todo EXCEPT ![x] = Tail(@)]
  /\ UNCHANGED motor_channel

\* The first write of what is left is a goal, switches torque off, or goes on
\* with a joint control mode.
LEMMA FirstWrite ==
  ASSUME NEW x, Underway(x), todo[x] # <<>>
  PROVE  \/ IsGoal(todo[x][1])
         \/ \E j \in Joints : todo[x][1] = TorqueOff(j)
         \/ \E j \in Joints, m \in ControlModes, k \in 2..6 :
              HalfDone(x, j, m, k) /\ todo[x][1] = Nth(j, m, k)
<1>1. CASE Fresh(todo[x])
  BY <1>1 DEF Fresh, IsOff
<1>2. ASSUME NEW j \in Joints, NEW m \in ControlModes, NEW k \in 2..6, HalfDone(x, j, m, k)
      PROVE  todo[x][1] = Nth(j, m, k)
  BY <1>2, AfterNth DEF HalfDone, Underway
<1> QED
  BY <1>1, <1>2 DEF Underway

LEMMA SendsTyped ==
  ASSUME ServoInv, NEW x \in Senders, SendsFirst(x)
  PROVE  ServosTyped'
<1>1. todo[x] \in Seq(Writes) /\ todo[x][1] \in Writes /\ Tail(todo[x]) \in Seq(Writes)
  BY FirstIsAWrite DEF ServoInv, ServosTyped, SendsFirst
<1> QED
  BY <1>1, WriteTyped DEF ServoInv, ServosTyped, SendsFirst

\* How far a thread is with a joint control mode, when another one sends.
LEMMA HalfStays ==
  ASSUME ServoInv, NEW x \in Senders, SendsFirst(x), NEW y \in Senders \ {x},
         NEW j \in Joints, NEW m \in ControlModes, NEW k \in 2..6, HalfDone(y, j, m, k)
  PROVE  HalfDone(y, j, m, k)'
<1>1. todo[x] \in Seq(Writes) /\ todo[x][1] \in Writes /\ todo'[y] = todo[y]
  BY FirstIsAWrite DEF ServoInv, ServosTyped, SendsFirst
<1>2. Configuring(todo[y]) = {j}
  BY AheadConfigures DEF ServoInv, Underway, HalfDone
<1>3. CASE j \in todo[x][1].joints /\ ~IsGoal(todo[x][1])
  <2>1. j \in lost'
    BY <1>1, <1>2, <1>3, WriteReaches DEF ServoInv, SendsFirst
  <2> QED
    BY <1>1, <2>1 DEF HalfDone
<1>4. CASE j \notin todo[x][1].joints \/ IsGoal(todo[x][1])
  <2>1. servo'[j] = servo[j] /\ owner'[j] = owner[j] /\ (j \in lost' <=> j \in lost)
    BY <1>1, <1>4, WriteReaches DEF ServoInv, SendsFirst
  <2>2. j \notin Configuring(Tail(todo[x]))
    BY <1>4, TailConfigures DEF ServoInv, Underway, HalfDone, SendsFirst
  <2>3. \A z \in Senders \ {y} : j \notin Configuring(todo[z]) => j \notin Configuring(todo'[z])
    BY <2>2 DEF ServoInv, ServosTyped, SendsFirst
  <2> QED
    BY <1>1, <2>1, <2>3 DEF HalfDone
<1> QED
  BY <1>3, <1>4

\* ... when the thread switches torque off and a joint control mode follows ...
LEMMA HalfBegins ==
  ASSUME ServoInv, NEW x \in Senders, SendsFirst(x), NEW j \in Joints, todo[x][1] = TorqueOff(j),
         NEW m \in ControlModes, Ahead(Tail(todo[x]), 1, j, m, 2)
  PROVE  HalfDone(x, j, m, 2)'
<1>1. todo[x][1] \in Writes /\ todo'[x] = Tail(todo[x])
  BY FirstIsAWrite DEF ServoInv, ServosTyped, SendsFirst
<1>2. ASSUME j \notin lost'
      PROVE  /\ owner'[j] = Who(x) /\ ~servo'[j].torque
             /\ \A y \in Senders \ {x} : j \notin Configuring(todo'[y])
  <2>1. ~IsGoal(todo[x][1]) /\ todo[x][1].joints = {j} /\ todo[x][1].item = "torque"
        /\ todo[x][1].value = FALSE
    BY DEF IsGoal, TorqueOff, Write
  <2>2. /\ servo'[j] = Written(servo[j], todo[x][1]) /\ owner'[j] = Who(x)
        /\ \A y \in Senders \ {x} : j \notin Configuring(todo[y])
    BY <1>1, <1>2, <2>1, WriteReaches DEF ServoInv, SendsFirst
  <2>3. ~Written(servo[j], todo[x][1]).torque
    BY <2>1 DEF Written, ServoInv, ServosTyped, Tables
  <2> QED
    BY <2>2, <2>3 DEF SendsFirst, ServoInv, ServosTyped
<1> QED
  BY <1>1, <1>2 DEF HalfDone, Prepared

\* ... and when it goes on with one.
LEMMA HalfGoesOn ==
  ASSUME ServoInv, NEW x \in Senders, SendsFirst(x), NEW j \in Joints, NEW m \in ControlModes,
         NEW k \in 2..6, HalfDone(x, j, m, k)
  PROVE  IF k < 6 THEN HalfDone(x, j, m, k + 1)' ELSE Fresh(todo'[x])
<1>1. todo[x] \in Seq(Writes) /\ todo[x][1] \in Writes /\ todo'[x] = Tail(todo[x])
  BY FirstIsAWrite DEF ServoInv, ServosTyped, SendsFirst
<1>2. Planned(todo[x]) /\ todo[x][1] = Nth(j, m, k)
  BY AfterNth DEF ServoInv, Underway, HalfDone
<1>3. CASE k = 6
  BY <1>1, <1>2, <1>3, AfterNth DEF HalfDone
<1>4. CASE k < 6
  <2>1. Ahead(Tail(todo[x]), 1, j, m, k + 1)
    BY <1>2, <1>4, AfterNth DEF HalfDone
  <2>2. k \in {2, 3, 4, 5} /\ k \in 2..5
    BY <1>4
  <2>3. ~IsGoal(todo[x][1]) /\ todo[x][1].joints = {j} /\ todo[x][1].item # "torque"
    BY <1>2, <2>2, NthWrites DEF IsGoal, Write
  <2>4. ASSUME j \notin lost'
        PROVE  /\ owner'[j] = Who(x) /\ Prepared(servo'[j], m, k + 1)
               /\ \A y \in Senders \ {x} : j \notin Configuring(todo'[y])
    <3>1. /\ j \notin lost /\ servo'[j] = Written(servo[j], todo[x][1]) /\ owner'[j] = owner[j]
          /\ \A y \in Senders \ {x} : j \notin Configuring(todo[y])
      BY <1>1, <2>3, <2>4, WriteReaches DEF ServoInv, SendsFirst
    <3>2. owner[j] = Who(x) /\ Prepared(servo[j], m, k) /\ servo[j] \in Tables
      BY <3>1 DEF HalfDone, ServoInv, ServosTyped
    <3> QED
      BY <1>2, <2>2, <3>1, <3>2, PreparedNext DEF SendsFirst, ServoInv, ServosTyped
  <2> QED
    BY <1>1, <1>4, <2>1, <2>4 DEF HalfDone
<1> QED
  BY <1>3, <1>4

LEMMA SendsUnderway ==
  ASSUME ServoInv, NEW x \in Senders, SendsFirst(x), NEW y \in Senders
  PROVE  Underway(y)'
<1>1. Planned(todo[x]) /\ todo[x] # <<>> /\ Planned(Tail(todo[x]))
  BY TailPlanned DEF ServoInv, Underway, SendsFirst
<1>2. \A z \in Senders : todo'[z] = IF z = x THEN Tail(todo[x]) ELSE todo[z]
  BY DEF ServoInv, ServosTyped, SendsFirst
<1>3. CASE y # x
  BY <1>2, <1>3, HalfStays DEF ServoInv, Underway
<1>4. CASE y = x
  <2>1. CASE IsGoal(todo[x][1])
    BY <1>1, <1>2, <1>4, <2>1, AfterGoal DEF Underway
  <2>2. ASSUME NEW j \in Joints, todo[x][1] = TorqueOff(j)
        PROVE  Underway(x)'
    BY <1>1, <1>2, <2>2, AfterOff, HalfBegins DEF Underway
  <2>3. ASSUME NEW j \in Joints, NEW m \in ControlModes, NEW k \in 2..6, HalfDone(x, j, m, k)
        PROVE  Underway(x)'
    <3>1. k < 6 => k + 1 \in 2..6
      OBVIOUS
    <3> QED
      BY <1>1, <1>2, <2>3, <3>1, HalfGoesOn DEF Underway
  <2> QED
    BY <1>1, <1>4, <2>1, <2>2, <2>3, FirstWrite DEF ServoInv
<1> QED
  BY <1>3, <1>4

LEMMA SendsConsistent ==
  ASSUME ServoInv, NEW x \in Senders, SendsFirst(x)
  PROVE  Consistent'
<1> DEFINE w == todo[x][1]
<1>1. w \in Writes /\ Underway(x) /\ todo[x] # <<>> /\ ServosTyped /\ Transmit(x, w)
  BY FirstIsAWrite DEF ServoInv, ServosTyped, SendsFirst
<1> HIDE DEF w
<1>2. SUFFICES ASSUME NEW j \in Joints, j \notin lost', servo'[j].torque
               PROVE  \E m \in ControlModes : servo'[j] = Configured(m, TRUE)
  BY DEF Consistent
<1>3. CASE j \notin w.joints \/ IsGoal(w)
  <2>1. servo'[j] = servo[j] /\ j \notin lost
    BY <1>1, <1>2, <1>3, WriteReaches
  <2> QED
    BY <1>2, <2>1 DEF ServoInv, Consistent
<1>4. CASE j \in w.joints /\ ~IsGoal(w)
  <2>1. /\ servo'[j] = Written(servo[j], w) /\ servo[j] \in Tables
        /\ j \in lost => w.item = "torque" /\ ~w.value
    BY <1>1, <1>2, <1>4, WriteReaches DEF ServosTyped
  <2>2. ~(w.item = "torque" /\ ~w.value)
    BY <1>2, <2>1 DEF Written, Tables
  <2>3. \A i \in Joints : w # TorqueOff(i)
    BY <2>2 DEF TorqueOff, Write
  <2>4. PICK i \in Joints, m \in ControlModes, k \in 2..6 :
          HalfDone(x, i, m, k) /\ w = Nth(i, m, k)
    BY <1>1, <1>4, <2>3, FirstWrite DEF w
  <2>5. k \in {2, 3, 4, 5, 6}
    OBVIOUS
  <2>6. i = j
    BY <1>4, <2>4, <2>5, NthWrites DEF Write
  <2>7. Prepared(servo[j], m, k)
    BY <2>1, <2>2, <2>4, <2>6 DEF HalfDone
  <2>8. CASE k = 6
    BY <2>1, <2>4, <2>6, <2>7, <2>8, PreparedLast
  <2>9. CASE k \in 2..5
    <3>1. ~servo'[j].torque
      BY <2>1, <2>4, <2>6, <2>7, <2>9, PreparedNext DEF Prepared
    <3> QED
      BY <1>2, <3>1
  <2>10. k = 6 \/ k \in 2..5
    BY <2>5
  <2> QED
    BY <2>8, <2>9, <2>10
<1> QED
  BY <1>3, <1>4

\* What is left of a method goes on to do as is meant.
LEMMA TailObeys ==
  ASSUME NEW s, Planned(s), s # <<>>, NEW j \in Joints, NEW aim, Obeys(s, j, aim)
  PROVE  /\ Obeys(Tail(s), j, aim)
         /\ \A n \in DOMAIN s : n > 1 /\ Switches(s[n], j) => Powers(Tail(s), j)
<1>1. /\ Len(s) \in Nat /\ DOMAIN s = 1..Len(s) /\ DOMAIN Tail(s) = 1..(Len(s) - 1)
      /\ \A i \in 1..(Len(s) - 1) : Tail(s)[i] = s[i + 1]
  BY TailPlanned DEF Planned
<1>2. \A n \in DOMAIN s : n > 1 => n - 1 \in DOMAIN Tail(s) /\ Tail(s)[n - 1] = s[n]
  BY <1>1
<1>3. ASSUME NEW i \in DOMAIN Tail(s), Switches(Tail(s)[i], j)
      PROVE  IF aim = "off" THEN ~Tail(s)[i].value
             ELSE Tail(s)[i].value
                  \/ \E n \in DOMAIN Tail(s) : n > i /\ Switches(Tail(s)[n], j) /\ Tail(s)[n].value
  <2>1. i + 1 \in DOMAIN s /\ Tail(s)[i] = s[i + 1]
    BY <1>1
  <2>2. ASSUME NEW n \in DOMAIN s, n > i + 1, Switches(s[n], j), s[n].value
        PROVE  \E k \in DOMAIN Tail(s) : k > i /\ Switches(Tail(s)[k], j) /\ Tail(s)[k].value
    <3>1. n - 1 > i /\ n > 1
      BY <1>1, <2>2
    <3> QED
      BY <1>2, <2>2, <3>1
  <2>3. IF aim = "off" THEN ~s[i + 1].value
        ELSE s[i + 1].value \/ \E n \in DOMAIN s : n > i + 1 /\ Switches(s[n], j) /\ s[n].value
    BY <1>3, <2>1 DEF Obeys
  <2> QED
    BY <2>1, <2>2, <2>3
<1>4. \A i \in DOMAIN Tail(s) : Tail(s)[i].item \in {"drive", "operating"} /\ j \in Tail(s)[i].joints =>
        aim # "off" /\ Tail(s)[i].value = Registers[aim][Tail(s)[i].item]
  <2>1. \A i \in DOMAIN Tail(s) : i + 1 \in DOMAIN s /\ Tail(s)[i] = s[i + 1]
    BY <1>1
  <2> QED
    BY <2>1 DEF Obeys
<1>5. \A n \in DOMAIN s : n > 1 /\ Switches(s[n], j) => Powers(Tail(s), j)
  BY <1>2 DEF Powers
<1> QED
  BY <1>3, <1>4, <1>5 DEF Obeys

\* Drive and operating mode tell the joint control modes apart.
LEMMA ModeDetermined ==
  ASSUME NEW m \in ControlModes, NEW n \in ControlModes,
         Registers[m].drive = Registers[n].drive, Registers[m].operating = Registers[n].operating
  PROVE  m = n
BY DEF ControlModes, Registers

\* A joint control mode that is to come whole is the one that is meant.
LEMMA ComesAsMeant ==
  ASSUME NEW s, NEW j \in Joints, NEW m \in ControlModes, Ahead(s, 1, j, m, 2),
         NEW aim \in Aims, Obeys(s, j, aim)
  PROVE  aim = m
<1>1. 1 \in DOMAIN s /\ s[1] = Nth(j, m, 2)
  BY DEF Ahead
<1>2. 2 \in DOMAIN s /\ s[2] = Nth(j, m, 3)
  <2>1. 3 \in 2..6 /\ 1 + 3 - 2 = 2
    OBVIOUS
  <2> QED
    BY <2>1 DEF Ahead
<1>3. /\ s[1].item = "drive" /\ j \in s[1].joints /\ s[1].value = Registers[m].drive
      /\ s[2].item = "operating" /\ j \in s[2].joints /\ s[2].value = Registers[m].operating
  BY <1>1, <1>2, NthWrites DEF Write
<1>4. /\ aim # "off" /\ Registers[m].drive = Registers[aim].drive
      /\ Registers[m].operating = Registers[aim].operating
  BY <1>1, <1>2, <1>3 DEF Obeys
<1> QED
  BY <1>4, ModeDetermined DEF Aims

\* The first write of what is left, if it goes on with a joint control mode,
\* goes on with the one that is meant.
LEMMA AimedFirst ==
  ASSUME NEW x, Underway(x), todo[x] # <<>>, NEW aim \in [Joints -> Aims], Aimed(x, aim)
  PROVE  \/ IsGoal(todo[x][1])
         \/ \E j \in Joints : todo[x][1] = TorqueOff(j)
         \/ \E j \in Joints, k \in 2..6 :
              /\ aim[j] \in ControlModes /\ HalfDone(x, j, aim[j], k)
              /\ todo[x][1] = Nth(j, aim[j], k)
<1>1. CASE Fresh(todo[x])
  BY <1>1 DEF Fresh, IsOff
<1>2. ASSUME NEW j \in Joints, NEW k \in 2..6, aim[j] # "off", HalfDone(x, j, aim[j], k)
      PROVE  aim[j] \in ControlModes /\ todo[x][1] = Nth(j, aim[j], k)
  <2>1. aim[j] \in ControlModes
    BY <1>2 DEF Aims
  <2> QED
    BY <1>2, <2>1, AfterNth DEF HalfDone, Underway
<1> QED
  BY <1>1, <1>2 DEF Aimed

LEMMA SendsAimed ==
  ASSUME ServoInv, NEW x \in Senders, SendsFirst(x), NEW y \in Senders,
         NEW aim \in [Joints -> Aims], Obeying(y, aim)
  PROVE  Aimed(y, aim)'
<1>1. Planned(todo[x]) /\ todo[x] # <<>> /\ Planned(Tail(todo[x]))
  BY TailPlanned DEF ServoInv, Underway, SendsFirst
<1>2. \A z \in Senders : todo'[z] = IF z = x THEN Tail(todo[x]) ELSE todo[z]
  BY DEF ServoInv, ServosTyped, SendsFirst
<1>3. \A j \in Joints : aim[j] # "off" => aim[j] \in ControlModes
  BY DEF Aims
<1>4. CASE y # x
  BY <1>2, <1>3, <1>4, HalfStays DEF Obeying, Aimed
<1>5. CASE y = x
  <2>1. CASE IsGoal(todo[x][1])
    BY <1>1, <1>2, <1>5, <2>1, AfterGoal DEF Aimed
  <2>2. ASSUME NEW j \in Joints, todo[x][1] = TorqueOff(j)
        PROVE  Aimed(x, aim)'
    <3>1. CASE Fresh(Tail(todo[x]))
      BY <1>2, <3>1 DEF Aimed
    <3>2. ASSUME NEW m \in ControlModes, Ahead(Tail(todo[x]), 1, j, m, 2)
          PROVE  Aimed(x, aim)'
      <4>1. Obeys(Tail(todo[x]), j, aim[j]) /\ aim[j] \in Aims
        BY <1>1, <1>5, TailObeys DEF Obeying
      <4>2. aim[j] = m /\ m # "off"
        BY <3>2, <4>1, ComesAsMeant DEF ControlModes
      <4> QED
        BY <2>2, <3>2, <4>2, HalfBegins DEF Aimed
    <3> QED
      BY <1>1, <2>2, <3>1, <3>2, AfterOff
  <2>3. ASSUME NEW j \in Joints, NEW k \in 2..6, aim[j] \in ControlModes, HalfDone(x, j, aim[j], k)
        PROVE  Aimed(x, aim)'
    <3>1. k < 6 => k + 1 \in 2..6
      OBVIOUS
    <3>2. aim[j] # "off"
      BY <2>3 DEF ControlModes
    <3> QED
      BY <2>3, <3>1, <3>2, HalfGoesOn DEF Aimed
  <2> QED
    BY <1>1, <1>5, <2>1, <2>2, <2>3, AimedFirst DEF ServoInv, Obeying
<1> QED
  BY <1>4, <1>5

\* A write of one thread leaves what another, or the rest of it, makes of the
\* joints as it was meant.  Of two client threads only one has writes to send.
LEMMA SendsObeying ==
  ASSUME ServoInv, NEW x \in Senders, SendsFirst(x), NEW y \in Senders, x = y \/ Who(x) # Who(y),
         NEW aim \in [Joints -> Aims], Obeying(y, aim)
  PROVE  Obeying(y, aim)'
<1> DEFINE w == todo[x][1]
           s == todo[y]
<1>1. w \in Writes /\ Underway(x) /\ todo[x] # <<>> /\ ServosTyped /\ Transmit(x, w)
  BY FirstIsAWrite DEF ServoInv, ServosTyped, SendsFirst
<1>2. /\ x = y => todo'[y] = Tail(s) /\ s # <<>> /\ s[1] = w /\ Planned(s)
      /\ x # y => todo'[y] = s
  BY DEF ServoInv, ServosTyped, SendsFirst, Underway
<1>3. \A j \in Joints : Obeys(s, j, aim[j])
  BY DEF Obeying
<1>4. 1 \in DOMAIN s \/ x # y
  BY <1>2 DEF Planned
<1> HIDE DEF w, s
<1>5. \A j \in Joints : Obeys(todo'[y], j, aim[j])
  BY <1>2, <1>3, TailObeys
<1>6. ASSUME NEW j \in Joints, j \notin lost', owner'[j] = Who(y)
      PROVE  Powers(todo'[y], j) \/ AsAsked(servo'[j], aim[j])
  <2>1. CASE j \notin w.joints \/ IsGoal(w)
    <3>1. servo'[j] = servo[j] /\ j \notin lost /\ owner[j] = Who(y)
      BY <1>1, <1>6, <2>1, WriteReaches
    <3>2. Powers(s, j) \/ AsAsked(servo[j], aim[j])
      BY <3>1 DEF Obeying, s
    <3>3. ASSUME Powers(s, j), x = y
          PROVE  Powers(Tail(s), j)
      <4>1. PICK n \in DOMAIN s : Switches(s[n], j)
        BY <3>3 DEF Powers
      <4>2. n # 1
        BY <1>2, <2>1, <3>3, <4>1 DEF Switches, IsGoal
      <4>3. n > 1
        BY <1>2, <3>3, <4>2 DEF Planned
      <4> QED
        BY <1>2, <1>3, <3>3, <4>1, <4>3, TailObeys
    <3> QED
      BY <1>2, <3>1, <3>2, <3>3
  <2>2. CASE j \in w.joints /\ ~IsGoal(w)
    <3>1. /\ servo'[j] = Written(servo[j], w) /\ servo[j] \in Tables
          /\ j \in lost => w.item = "torque" /\ ~w.value
          /\ owner'[j] = IF w.item = "torque" THEN Who(x) ELSE owner[j]
      BY <1>1, <1>6, <2>2, WriteReaches DEF ServosTyped
    <3>2. x = y
      <4>1. CASE w.item = "torque"
        BY <1>6, <3>1, <4>1
      <4>2. CASE w.item # "torque"
        <5>1. j \notin lost /\ \A i \in Joints : w # TorqueOff(i)
          BY <3>1, <4>2 DEF TorqueOff, Write
        <5>2. PICK i \in Joints, m \in ControlModes, k \in 2..6 :
                HalfDone(x, i, m, k) /\ w = Nth(i, m, k)
          BY <1>1, <2>2, <5>1, FirstWrite DEF w
        <5>3. k \in {2, 3, 4, 5, 6}
          OBVIOUS
        <5>4. i = j
          BY <2>2, <5>2, <5>3, NthWrites DEF Write
        <5>5. owner[j] = Who(x)
          BY <5>1, <5>2, <5>4 DEF HalfDone
        <5> QED
          BY <1>6, <3>1, <4>2, <5>5
      <4> QED
        BY <4>1, <4>2
    <3>3. ASSUME NEW i \in Joints, w = TorqueOff(i)
          PROVE  Powers(todo'[y], j) \/ AsAsked(servo'[j], aim[j])
      <4>1. w.item = "torque" /\ w.value = FALSE /\ Switches(w, j)
        BY <2>2, <3>3 DEF TorqueOff, Write, Switches
      <4>2. CASE aim[j] = "off"
        BY <3>1, <4>1, <4>2 DEF AsAsked, Written, Tables
      <4>3. CASE aim[j] # "off"
        <5>1. PICK n \in DOMAIN s : n > 1 /\ Switches(s[n], j)
          BY <1>2, <1>3, <1>4, <3>2, <4>1, <4>3 DEF Obeys
        <5> QED
          BY <1>2, <1>3, <3>2, <5>1, TailObeys
      <4> QED
        BY <4>2, <4>3
    <3>4. ASSUME NEW i \in Joints, NEW k \in 2..6, aim[i] \in ControlModes,
                 HalfDone(y, i, aim[i], k), w = Nth(i, aim[i], k)
          PROVE  Powers(todo'[y], j) \/ AsAsked(servo'[j], aim[j])
      <4>1. k \in {2, 3, 4, 5, 6}
        OBVIOUS
      <4>2. i = j /\ ~(w.item = "torque" /\ ~w.value)
        BY <2>2, <3>4, <4>1, NthWrites DEF Write
      <4>3. Prepared(servo[j], aim[j], k)
        BY <3>1, <3>4, <4>2 DEF HalfDone
      <4>4. 7 - k \in DOMAIN s /\ s[7 - k] = Write("torque", {j}, TRUE)
        <5>1. 1 + 6 - k \in DOMAIN s /\ s[1 + 6 - k] = Nth(j, aim[j], 6)
          BY <3>4, <4>2 DEF HalfDone, Ahead, s
        <5>2. 1 + 6 - k = 7 - k
          OBVIOUS
        <5> QED
          BY <3>4, <4>2, <5>1, <5>2, NthWrites
      <4>5. Switches(s[7 - k], j)
        BY <4>4 DEF Switches, Write
      <4>6. CASE k < 6
        <5>1. 7 - k > 1
          BY <4>6
        <5> QED
          BY <1>2, <1>3, <3>2, <4>4, <4>5, <5>1, TailObeys
      <4>7. CASE k = 6
        <5>1. servo'[j] = Configured(aim[j], TRUE) /\ aim[j] # "off"
          BY <3>1, <3>4, <4>2, <4>3, <4>7, PreparedLast DEF ControlModes
        <5> QED
          BY <5>1 DEF AsAsked
      <4> QED
        BY <4>6, <4>7
    <3> QED
      BY <1>1, <2>2, <3>2, <3>3, <3>4, AimedFirst DEF w, Obeying
  <2> QED
    BY <2>1, <2>2
<1> QED
  BY <1>5, <1>6, SendsAimed DEF Obeying

LEMMA SwitchAimsTyped == SwitchAims \in [Joints -> Aims]
BY DEF SwitchAims, Aims, ControlModes

LEMMA SendsRadioObeys ==
  ASSUME ServoInv, NEW x \in Senders, SendsFirst(x)
  PROVE  Obeying(Radio, SwitchAims)'
<1>1. Radio \in Senders /\ (x = Radio \/ Who(x) # Who(Radio))
  BY DEF Senders, Who
<1>2. SwitchAims' = SwitchAims
  BY DEF SwitchAims, Switch, SendsFirst
<1>3. \A aim \in [Joints -> Aims] : Obeying(Radio, aim) => Obeying(Radio, aim)'
  BY <1>1, SendsObeying
<1> QED
  BY <1>2, <1>3, SwitchAimsTyped DEF ServoInv, Obeying, Aimed

LEMMA SendsInv ==
  ASSUME ServoInv, NEW x \in Senders, SendsFirst(x)
  PROVE  ServoInv'
BY SendsTyped, SendsUnderway, SendsConsistent, SendsRadioObeys DEF ServoInv

------------------------------------------------------------------------------
(* The steps that queue writes.                                             *)

LEMMA ObeyingStays ==
  ASSUME NEW x, NEW aim, Obeying(x, aim), UNCHANGED <<servo, todo, lost, owner>>
  PROVE  Obeying(x, aim)'
BY DEF Obeying, Aimed, HalfDone

LEMMA Unchanged ==
  ASSUME ServoInv, UNCHANGED <<servo, todo, lost, owner, motor_channel>>
  PROVE  ServoInv'
<1>1. ServosTyped' /\ Consistent'
  BY DEF ServoInv, ServosTyped, Consistent
<1>2. \A x \in Senders : Underway(x)'
  BY DEF ServoInv, Underway, HalfDone
<1>3. Obeying(Radio, SwitchAims)'
  <2>1. SwitchAims' = SwitchAims
    BY DEF SwitchAims, Switch
  <2>2. \A aim : Obeying(Radio, aim) => Obeying(Radio, aim)'
    BY ObeyingStays
  <2> QED
    BY <2>1, <2>2 DEF ServoInv, Obeying, Aimed
<1> QED
  BY <1>1, <1>2, <1>3 DEF ServoInv

\* How far a thread is with a joint control mode, when another enters a method.
LEMMA HalfStaysQueued ==
  ASSUME ServoInv, NEW x \in Senders, NEW writes, Fresh(writes), Queue(x, writes),
         NEW y \in Senders \ {x}, NEW j \in Joints, NEW m \in ControlModes, NEW k \in 2..6,
         HalfDone(y, j, m, k)
  PROVE  HalfDone(y, j, m, k)'
<1>1. todo'[x] = writes /\ \A z \in Senders \ {x} : todo'[z] = todo[z]
  BY DEF Queue, ServoInv, ServosTyped
<1>2. \A z \in Senders : Configuring(todo'[z]) \subseteq Configuring(todo[z])
  BY <1>1, FreshConfigures
<1> QED
  BY <1>1, <1>2 DEF HalfDone, Queue

LEMMA Queues ==
  ASSUME ServoInv, NEW x \in Senders, NEW writes, Fresh(writes), Queue(x, writes)
  PROVE  /\ Consistent' /\ \A y \in Senders : Underway(y)'
         /\ todo' \in [Senders -> Seq(Writes)]
<1>1. /\ todo'[x] = writes /\ \A y \in Senders \ {x} : todo'[y] = todo[y]
      /\ todo' \in [Senders -> Seq(Writes)]
  BY DEF Queue, ServoInv, ServosTyped, Fresh, Planned
<1>2. Consistent'
  BY DEF ServoInv, Consistent, Queue
<1>3. Underway(x)'
  BY <1>1 DEF Underway, Fresh
<1>4. \A y \in Senders \ {x} : Underway(y)'
  BY <1>1, HalfStaysQueued DEF ServoInv, Underway
<1> QED
  BY <1>1, <1>2, <1>3, <1>4

\* Entering a method leaves what another thread makes of the joints ...
LEMMA QueuesObeying ==
  ASSUME ServoInv, NEW x \in Senders, NEW writes, Fresh(writes), Queue(x, writes),
         NEW y \in Senders \ {x}, NEW aim \in [Joints -> Aims], Obeying(y, aim)
  PROVE  Obeying(y, aim)'
<1>1. todo'[y] = todo[y]
  BY DEF Queue, ServoInv, ServosTyped
<1>2. Aimed(y, aim)'
  <2>1. \A j \in Joints : aim[j] # "off" => aim[j] \in ControlModes
    BY DEF Aims
  <2> QED
    BY <1>1, <2>1, HalfStaysQueued DEF Obeying, Aimed
<1> QED
  BY <1>1, <1>2 DEF Obeying, Queue

\* ... and makes of them what the method says.
LEMMA QueuesAsAsked ==
  ASSUME ServoInv, NEW x \in Senders, NEW writes, Fresh(writes), Queue(x, writes),
         NEW aim, \A j \in Joints : Obeys(writes, j, aim[j]),
         \A j \in Joints \ lost : owner[j] = Who(x) => Powers(writes, j) \/ AsAsked(servo[j], aim[j])
  PROVE  Obeying(x, aim)'
<1>1. todo'[x] = writes
  BY DEF Queue, ServoInv, ServosTyped
<1> QED
  BY <1>1 DEF Obeying, Aimed, Queue

LEMMA ModeQueues ==
  ASSUME ServoInv, NEW c \in Commanders, NEW writes, Fresh(writes), Queue(c, writes),
         UNCHANGED motor_channel
  PROVE  ServoInv'
<1>1. c \in Senders /\ Radio \in Senders \ {c}
  BY SendersAssumption DEF Senders
<1>2. Obeying(Radio, SwitchAims)'
  <2>1. SwitchAims' = SwitchAims
    BY DEF SwitchAims, Switch
  <2>2. \A aim \in [Joints -> Aims] : Obeying(Radio, aim) => Obeying(Radio, aim)'
    BY <1>1, QueuesObeying
  <2> QED
    BY <2>1, <2>2, SwitchAimsTyped DEF ServoInv, Obeying, Aimed
<1>3. ServosTyped'
  BY <1>1, Queues DEF ServoInv, ServosTyped, Queue
<1> QED
  BY <1>1, <1>2, <1>3, Queues DEF ServoInv

\* A joint control mode is what is meant for its joint, and says nothing of
\* another.
LEMMA ControlModeObeys ==
  ASSUME NEW i \in Joints, NEW j \in Joints, NEW m \in ControlModes, NEW aim, i # j \/ aim = m
  PROVE  Obeys(set_joint_control_mode(i, m), j, aim)
<1> DEFINE s == set_joint_control_mode(i, m)
<1>1. /\ DOMAIN s = 1..6
      /\ s[1] = TorqueOff(i) /\ s[2] = Write("drive", {i}, Registers[m].drive)
      /\ s[3] = Write("operating", {i}, Registers[m].operating)
      /\ s[4] = Write("acceleration", {i}, Registers[m].acceleration)
      /\ s[5] = Write("velocity", {i}, Registers[m].velocity)
      /\ s[6] = Write("torque", {i}, TRUE)
  BY DEF set_joint_control_mode
<1> HIDE DEF s
<1>2. /\ s[1].item = "torque" /\ s[1].joints = {i} /\ s[2].item = "drive" /\ s[2].joints = {i}
      /\ s[2].value = Registers[m].drive
      /\ s[3].item = "operating" /\ s[3].joints = {i} /\ s[3].value = Registers[m].operating
      /\ s[4].item = "acceleration" /\ s[5].item = "velocity"
      /\ s[6].item = "torque" /\ s[6].joints = {i} /\ s[6].value = TRUE
  BY <1>1 DEF TorqueOff, Write
<1>3. \A n \in DOMAIN s : n \in {1, 2, 3, 4, 5, 6}
  BY <1>1
<1>4. aim = m => aim # "off"
  BY DEF ControlModes
<1>5. ASSUME NEW n \in DOMAIN s, s[n].item \in {"drive", "operating"}, j \in s[n].joints
      PROVE  aim # "off" /\ s[n].value = Registers[aim][s[n].item]
  <2>1. n = 2 \/ n = 3
    BY <1>2, <1>3, <1>5
  <2>2. aim = m
    BY <1>2, <1>5, <2>1
  <2> QED
    BY <1>2, <1>4, <2>1, <2>2
<1>6. \A n \in DOMAIN s : Switches(s[n], j) => i = j /\ (n = 1 \/ n = 6)
  BY <1>2, <1>3 DEF Switches
<1>7. i = j => Switches(s[6], j)
  BY <1>2 DEF Switches
<1>8. 6 \in DOMAIN s /\ 6 > 1
  BY <1>1
<1>9. s[6].value
  BY <1>2
<1> QED
  BY <1>4, <1>5, <1>6, <1>7, <1>8, <1>9 DEF Obeys, s

LEMMA ControlModePowers ==
  ASSUME NEW j \in Joints, NEW m
  PROVE  Powers(set_joint_control_mode(j, m), j)
<1>1. /\ 6 \in DOMAIN set_joint_control_mode(j, m)
      /\ set_joint_control_mode(j, m)[6] = Write("torque", {j}, TRUE)
  BY DEF set_joint_control_mode
<1> QED
  BY <1>1 DEF Powers, Switches, Write

LEMMA OffObeys ==
  ASSUME NEW i \in Joints, NEW j \in Joints, NEW aim, i # j \/ aim = "off"
  PROVE  Obeys(<<TorqueOff(i)>>, j, aim)
BY DEF Obeys, Switches, TorqueOff, Write

LEMMA OffPowers ==
  ASSUME NEW j \in Joints
  PROVE  Powers(<<TorqueOff(j)>>, j)
BY DEF Powers, Switches, TorqueOff, Write

\* The writes of two sequences, one after the other.
LEMMA OfBoth ==
  ASSUME NEW s \in Seq(Writes), NEW t \in Seq(Writes)
  PROVE  /\ \A i \in DOMAIN (s \o t) :
              \/ i \in DOMAIN s /\ (s \o t)[i] = s[i]
              \/ \E n \in DOMAIN t : i = Len(s) + n /\ (s \o t)[i] = t[n]
         /\ \A i \in DOMAIN s : i \in DOMAIN (s \o t) /\ (s \o t)[i] = s[i]
         /\ \A n \in DOMAIN t : Len(s) + n \in DOMAIN (s \o t) /\ (s \o t)[Len(s) + n] = t[n]
         /\ Len(s) \in Nat /\ DOMAIN s = 1..Len(s) /\ Len(t) \in Nat /\ DOMAIN t = 1..Len(t)
<1> DEFINE u == s \o t
<1>1. /\ Len(s) \in Nat /\ Len(t) \in Nat /\ DOMAIN u = 1..(Len(s) + Len(t))
      /\ DOMAIN s = 1..Len(s) /\ DOMAIN t = 1..Len(t)
      /\ \A i \in 1..Len(s) : u[i] = s[i]
      /\ \A i \in 1..Len(t) : u[Len(s) + i] = t[i]
  OBVIOUS
<1> HIDE DEF u
<1>2. ASSUME NEW i \in DOMAIN u
      PROVE  \/ i \in DOMAIN s /\ u[i] = s[i]
             \/ \E n \in DOMAIN t : i = Len(s) + n /\ u[i] = t[n]
  <2>1. i \in 1..Len(s) \/ (i - Len(s) \in 1..Len(t) /\ i = Len(s) + (i - Len(s)))
    BY <1>1
  <2> QED
    BY <1>1, <2>1
<1>3. \A i \in DOMAIN s : i \in DOMAIN u /\ u[i] = s[i]
  BY <1>1
<1>4. \A i \in DOMAIN t : Len(s) + i \in DOMAIN u /\ u[Len(s) + i] = t[i]
  BY <1>1
<1> QED
  BY <1>1, <1>2, <1>3, <1>4 DEF u

LEMMA BothPower ==
  ASSUME NEW s \in Seq(Writes), NEW t \in Seq(Writes), NEW j, Powers(s, j) \/ Powers(t, j)
  PROVE  Powers(s \o t, j)
BY OfBoth DEF Powers

LEMMA BothObey ==
  ASSUME NEW s \in Seq(Writes), NEW t \in Seq(Writes), NEW j, NEW aim,
         Obeys(s, j, aim), Obeys(t, j, aim)
  PROVE  Obeys(s \o t, j, aim)
<1> DEFINE u == s \o t
<1>1. /\ \A i \in DOMAIN u :
           \/ i \in DOMAIN s /\ u[i] = s[i]
           \/ \E n \in DOMAIN t : i = Len(s) + n /\ u[i] = t[n]
      /\ \A i \in DOMAIN s : i \in DOMAIN u /\ u[i] = s[i]
      /\ \A n \in DOMAIN t : Len(s) + n \in DOMAIN u /\ u[Len(s) + n] = t[n]
      /\ Len(s) \in Nat /\ DOMAIN s = 1..Len(s) /\ DOMAIN t = 1..Len(t)
  BY OfBoth
<1> HIDE DEF u
<1>2. \A i \in DOMAIN u : u[i].item \in {"drive", "operating"} /\ j \in u[i].joints =>
        aim # "off" /\ u[i].value = Registers[aim][u[i].item]
  BY <1>1 DEF Obeys
<1>3. ASSUME NEW i \in DOMAIN u, Switches(u[i], j)
      PROVE  IF aim = "off" THEN ~u[i].value
             ELSE u[i].value \/ \E n \in DOMAIN u : n > i /\ Switches(u[n], j) /\ u[n].value
  <2>1. CASE i \in DOMAIN s /\ u[i] = s[i]
    BY <1>1, <1>3, <2>1 DEF Obeys
  <2>2. ASSUME NEW n \in DOMAIN t, i = Len(s) + n, u[i] = t[n]
        PROVE  IF aim = "off" THEN ~u[i].value
               ELSE u[i].value \/ \E k \in DOMAIN u : k > i /\ Switches(u[k], j) /\ u[k].value
    <3>1. \A k \in DOMAIN t : k > n => Len(s) + k > i
      BY <1>1, <2>2
    <3> QED
      BY <1>1, <1>3, <2>2, <3>1 DEF Obeys
  <2> QED
    BY <1>1, <2>1, <2>2
<1> QED
  BY <1>2, <1>3 DEF Obeys, u

\* What the handler of a motor switch sends to the joints of its side.
LEMMA MotorsObey ==
  ASSUME NEW side \in {"left", "right"}, NEW state, NEW j \in Joints, NEW asked,
         j \in {Wheel[side], Ankle[side]} => asked = IF state = "low" THEN "off" ELSE "velocity"
  PROVE  /\ Fresh(Motors(side, state)) /\ Obeys(Motors(side, state), j, asked)
         /\ j \in {Wheel[side], Ankle[side]} => Powers(Motors(side, state), j)
<1> DEFINE a == Wheel[side]
           b == Ankle[side]
           writes == Motors(side, state)
           goal == /\ Fresh(writes) /\ Obeys(writes, j, asked)
                   /\ j \in {a, b} => Powers(writes, j)
<1>1. a \in Joints /\ b \in Joints /\ (j \in {a, b} => asked = IF state = "low" THEN "off" ELSE "velocity")
  BY JointsAre DEF Wheel, Ankle
<1>2. /\ state = "low" => writes = <<TorqueOff(a), TorqueOff(b)>>
      /\ state # "low" =>
           writes = set_joint_control_mode(a, "velocity") \o set_joint_control_mode(b, "velocity")
  BY DEF Motors
<1> HIDE DEF a, b, writes
<1>3. /\ Fresh(<<TorqueOff(a)>>) /\ Fresh(<<TorqueOff(b)>>)
      /\ Fresh(set_joint_control_mode(a, "velocity")) /\ Fresh(set_joint_control_mode(b, "velocity"))
  BY <1>1, OffFresh, ControlModeFresh DEF ControlModes
<1>4. state = "low" => goal
  <2> SUFFICES ASSUME state = "low" PROVE goal
    OBVIOUS
  <2>1. writes = <<TorqueOff(a)>> \o <<TorqueOff(b)>>
    BY <1>2
  <2>2. <<TorqueOff(a)>> \in Seq(Writes) /\ <<TorqueOff(b)>> \in Seq(Writes)
    BY <1>3 DEF Fresh, Planned
  <2>3. Obeys(<<TorqueOff(a)>>, j, asked) /\ Obeys(<<TorqueOff(b)>>, j, asked)
    BY <1>1, OffObeys
  <2>4. j \in {a, b} => Powers(<<TorqueOff(a)>>, j) \/ Powers(<<TorqueOff(b)>>, j)
    BY <1>1, OffPowers
  <2> QED
    BY <1>3, <2>1, <2>2, <2>3, <2>4, FreshThenFresh, BothObey, BothPower
<1>5. state # "low" => goal
  <2> SUFFICES ASSUME state # "low" PROVE goal
    OBVIOUS
  <2> DEFINE s == set_joint_control_mode(a, "velocity")
             t == set_joint_control_mode(b, "velocity")
  <2>0. "velocity" \in ControlModes
    BY DEF ControlModes
  <2>1. writes = s \o t
    BY <1>2
  <2>2. s \in Seq(Writes) /\ t \in Seq(Writes)
    BY <1>3 DEF Fresh, Planned
  <2>3. Obeys(s, j, asked) /\ Obeys(t, j, asked)
    BY <1>1, <2>0, ControlModeObeys
  <2>4. j \in {a, b} => Powers(s, j) \/ Powers(t, j)
    BY <1>1, ControlModePowers
  <2> HIDE DEF s, t
  <2>5. Obeys(writes, j, asked) /\ (j \in {a, b} => Powers(writes, j))
    BY <2>1, <2>2, <2>3, <2>4, BothObey, BothPower
  <2>6. Fresh(writes)
    BY <1>3, <2>1, FreshThenFresh DEF s, t
  <2> QED
    BY <2>5, <2>6
<1> QED
  BY <1>4, <1>5 DEF a, b, writes

LEMMA SwitchMotorsInv ==
  ASSUME ServoInv, NEW side \in {"left", "right"}, NEW state \in {"low", "middle", "high"},
         SwitchMotors(side, state)
  PROVE  ServoInv'
<1> DEFINE writes == Motors(side, state)
           of_side == {Wheel[side], Ankle[side]}
<1>1. /\ Radio \in Senders /\ todo[Radio] = <<>> /\ Queue(Radio, writes)
      /\ motor_channel' = [motor_channel EXCEPT ![side] = state]
  BY DEF SwitchMotors, Senders
<1>2. of_side = IF side = "left" THEN LeftJoints ELSE RightJoints
  BY DEF Wheel, Ankle, LeftJoints, RightJoints
<1>3. Wheel[side] \in Joints /\ Ankle[side] \in Joints
  BY <1>2 DEF Joints
<1>4. \A j \in Joints : Switch(j)' = IF j \in of_side THEN state ELSE Switch(j)
  BY <1>1, <1>2 DEF Switch, Joints, LeftJoints, RightJoints, ServoInv, ServosTyped
<1>5. /\ Fresh(writes)
      /\ \A j \in Joints : Obeys(writes, j, SwitchAims'[j]) /\ (j \in of_side => Powers(writes, j))
  <2>1. SUFFICES ASSUME NEW j \in Joints
                 PROVE  /\ Fresh(writes) /\ Obeys(writes, j, SwitchAims'[j])
                        /\ j \in of_side => Powers(writes, j)
    BY JointsAre
  <2>2. j \in of_side => SwitchAims'[j] = IF state = "low" THEN "off" ELSE "velocity"
    BY <1>4 DEF SwitchAims
  <2> QED
    BY <2>2, MotorsObey
<1> HIDE DEF writes
<1>6. Consistent' /\ (\A y \in Senders : Underway(y)') /\ todo' \in [Senders -> Seq(Writes)]
  BY <1>1, <1>5, Queues
<1>7. ServosTyped'
  BY <1>1, <1>6 DEF ServoInv, ServosTyped, Queue
<1>8. ASSUME NEW j \in Joints, j \notin lost, owner[j] = Who(Radio)
      PROVE  Powers(writes, j) \/ AsAsked(servo[j], SwitchAims'[j])
  <2>1. CASE j \in of_side
    BY <1>5, <2>1
  <2>2. CASE j \notin of_side
    <3>1. ~Powers(todo[Radio], j)
      BY <1>1 DEF Powers
    <3>2. AsAsked(servo[j], SwitchAims[j])
      BY <1>8, <3>1 DEF ServoInv, Obeying
    <3>3. SwitchAims'[j] = SwitchAims[j]
      BY <1>4, <2>2 DEF SwitchAims
    <3> QED
      BY <3>2, <3>3
  <2> QED
    BY <2>1, <2>2
<1>9. Obeying(Radio, SwitchAims)'
  <2>1. ASSUME NEW aim, aim = SwitchAims'
        PROVE  Obeying(Radio, aim)'
    <3>1. \A j \in Joints : Obeys(writes, j, aim[j])
      BY <1>5, <2>1
    <3>2. \A j \in Joints \ lost : owner[j] = Who(Radio) => Powers(writes, j) \/ AsAsked(servo[j], aim[j])
      BY <1>8, <2>1
    <3> QED
      BY <1>1, <1>5, <3>1, <3>2, QueuesAsAsked
  <2> QED
    BY <2>1 DEF Obeying, Aimed
<1> QED
  BY <1>6, <1>7, <1>9 DEF ServoInv

LEMMA StickInv ==
  ASSUME ServoInv, Stick
  PROVE  ServoInv'
<1>1. PICK joints \in SUBSET Joints : Queue(Radio, set_joint_speed(joints))
  BY DEF Stick, TurnJoints, MoveJoints, Joints, LeftJoints, RightJoints
<1> DEFINE writes == set_joint_speed(joints)
<1>2. Fresh(writes)
  BY GoalsFresh
<1>3. \A j \in Joints : \A aim : Obeys(writes, j, aim)
  BY DEF Obeys, Switches, set_joint_speed, Write
<1> HIDE DEF writes
<1>4. Radio \in Senders /\ todo[Radio] = <<>> /\ Queue(Radio, writes) /\ motor_channel' = motor_channel
  BY <1>1 DEF Stick, radio, Senders, writes
<1>5. Consistent' /\ (\A y \in Senders : Underway(y)') /\ todo' \in [Senders -> Seq(Writes)]
  BY <1>2, <1>4, Queues
<1>6. ServosTyped'
  BY <1>4, <1>5 DEF ServoInv, ServosTyped, Queue
<1>7. Obeying(Radio, SwitchAims)'
  <2>1. \A j \in Joints : ~Powers(todo[Radio], j)
    BY <1>4 DEF Powers
  <2>2. SwitchAims' = SwitchAims
    BY <1>4 DEF SwitchAims, Switch
  <2>3. ASSUME NEW aim, aim = SwitchAims
        PROVE  Obeying(Radio, aim)'
    <3>1. \A j \in Joints \ lost : owner[j] = Who(Radio) => AsAsked(servo[j], aim[j])
      BY <2>1, <2>3 DEF ServoInv, Obeying
    <3> QED
      BY <1>2, <1>3, <1>4, <3>1, QueuesAsAsked
  <2> QED
    BY <2>2, <2>3 DEF Obeying, Aimed
<1> QED
  BY <1>5, <1>6, <1>7 DEF ServoInv

------------------------------------------------------------------------------
(* Every step.                                                              *)

\* A control loop sends goals only.
LEMMA LoopsSendGoals ==
  ASSUME NEW m \in DOMAIN control_loop, NEW writes \in control_loop[m], writes # <<>>
  PROVE  Head(writes) \in Writes /\ IsGoal(Head(writes))
<1>1. \A J \in SUBSET Joints : /\ Head(set_joint_position(J)) = Write("goal", J, "extended_position")
                              /\ Write("goal", J, "extended_position") \in Writes
                              /\ IsGoal(Write("goal", J, "extended_position"))
  BY DEF set_joint_position, Write, Writes, Items, Names, IsGoal
<1>2. PICK J \in SUBSET Joints : writes = set_joint_position(J)
  <2>1. /\ {"left_ankle", "left_wheel"} \subseteq Joints
        /\ {"right_ankle", "right_wheel"} \subseteq Joints
    BY JointsAre
  <2>2. \A w \in Segway_loop \union Ski_loop \union Waddle_loop \union Caterpillar_loop :
          w # <<>> => \E J \in SUBSET Joints : w = set_joint_position(J)
    BY <2>1, JointsAre DEF Segway_loop, Ski_loop, Waddle_loop, Caterpillar_loop
  <2>3. writes \in Segway_loop \union Ski_loop \union Waddle_loop \union Caterpillar_loop
    BY DEF control_loop
  <2> QED
    BY <2>2, <2>3
<1> QED
  BY <1>1, <1>2

LEMMA SameModes ==
  DOMAIN keys = DOMAIN on_start /\ DOMAIN control_loop = DOMAIN on_start
BY DEF keys, on_start, control_loop

LEMMA LoopBodyShows ==
  ASSUME TypeOK, ServoInv, NEW t \in Threads, ServoLoopBody(t)
  PROVE  UNCHANGED <<servo, todo, lost, owner>>
<1>1. loop_of[t] \in DOMAIN control_loop
  BY KnownModesAssumption, SameModes DEF TypeOK
<1>2. CASE Quiet
  BY <1>2 DEF Quiet, servos
<1>3. ASSUME NEW writes \in control_loop[loop_of[t]], writes # <<>>, Transmit(t, Head(writes)),
             UNCHANGED todo
      PROVE  UNCHANGED <<servo, todo, lost, owner>>
  <2> DEFINE w == Head(writes)
  <2>1. w \in Writes /\ IsGoal(w) /\ Transmit(t, w) /\ ServosTyped
    BY <1>1, <1>3, LoopsSendGoals DEF ServoInv
  <2> HIDE DEF w
  <2>2. \A j \in Joints : servo'[j] = servo[j] /\ owner'[j] = owner[j] /\ (j \in lost' <=> j \in lost)
    BY <2>1, WriteReaches
  <2>3. /\ servo' \in [Joints -> Tables] /\ owner' \in [Joints -> {"nobody", "radio", "mode"}]
        /\ lost' \in SUBSET Joints
    BY <2>1, WriteTyped
  <2>4. servo' = servo /\ owner' = owner /\ lost' = lost
    BY <2>1, <2>2, <2>3 DEF ServosTyped
  <2> QED
    BY <1>3, <2>4
<1> QED
  BY <1>2, <1>3 DEF ServoLoopBody

LEMMA BusIsFirst ==
  ASSUME ServoInv, NEW x \in Senders, Bus(x), UNCHANGED motor_channel
  PROVE  SendsFirst(x)
<1>1. todo[x] # <<>> /\ Head(todo[x]) = todo[x][1]
  BY FirstIsAWrite DEF ServoInv, ServosTyped, Bus
<1> QED
  BY <1>1 DEF Bus, SendsFirst

LEMMA CommanderInv ==
  ASSUME TypeOK, ServoInv, NEW c \in Commanders, UNCHANGED motor_channel,
         \/ ServoStopCheck(c) \/ ServoStartCheck(c) \/ ServoKey(c) \/ Bus(c) \/ Quiet
         \/ Queue(c, <<>>)
  PROVE  ServoInv'
<1>1. current \in DOMAIN on_start /\ current \in DOMAIN keys
  BY KnownModesAssumption, SameModes DEF TypeOK
<1>2. CASE ServoStopCheck(c)
  <2>1. Fresh(IF stopped[current] THEN <<>> ELSE on_stop(current))
    BY NothingFresh, OnStopFresh
  <2> QED
    BY <1>2, <2>1, ModeQueues DEF ServoStopCheck
<1>3. CASE ServoStartCheck(c)
  <2>1. Fresh(IF stopped[current] THEN on_start[current] ELSE <<>>)
    BY <1>1, NothingFresh, OnStartFresh
  <2> QED
    BY <1>3, <2>1, ModeQueues DEF ServoStartCheck
<1>4. CASE ServoKey(c)
  <2>1. PICK writes \in keys[current] : Queue(c, writes)
    BY <1>4 DEF ServoKey
  <2>2. Fresh(writes)
    BY <1>1, <2>1, KeysFresh
  <2> QED
    BY <2>1, <2>2, ModeQueues
<1>5. CASE Bus(c)
  BY <1>5, BusIsFirst, SendsInv DEF Senders
<1>6. CASE Quiet
  BY <1>6, Unchanged DEF Quiet, servos
<1>7. CASE Queue(c, <<>>)
  BY <1>7, NothingFresh, ModeQueues
<1> QED
  BY <1>2, <1>3, <1>4, <1>5, <1>6, <1>7

LEMMA ServoInvInit == RobotInit => ServoInv
<1> SUFFICES ASSUME RobotInit
             PROVE  ServoInv
  OBVIOUS
<1>1. PICK config \in {<<"velocity", "position">>, <<"position", "time">>, <<"time", "time">>},
           on \in BOOLEAN :
        servo = [j \in Joints |-> Configured(config[IF j \in Wheels THEN 1 ELSE 2], on)]
  BY DEF RobotInit, ServoInit
<1>2. config[1] \in ControlModes /\ config[2] \in ControlModes
  BY DEF ControlModes
<1>3. \A m \in ControlModes : Configured(m, on) \in Tables
  BY RegistersNamed DEF Configured, Tables
<1>4. \A j \in Joints : \E m \in ControlModes : servo[j] = Configured(m, on)
  BY <1>1, <1>2
<1>5. servo \in [Joints -> Tables]
  BY <1>1, <1>2, <1>3
<1>6. /\ todo = [x \in Senders |-> <<>>] /\ lost = {} /\ owner = [j \in Joints |-> "nobody"]
      /\ motor_channel = [side \in {"left", "right"} |-> "high"]
  BY DEF RobotInit, ServoInit
<1>7. ServosTyped
  BY <1>5, <1>6 DEF ServosTyped
<1>8. \A x \in Senders : Underway(x)
  BY <1>6, NothingFresh DEF Underway, Fresh
<1>9. Consistent
  <2>1. SUFFICES ASSUME NEW j \in Joints, servo[j].torque
                 PROVE  \E m \in ControlModes : servo[j] = Configured(m, TRUE)
    BY DEF Consistent
  <2>2. PICK m \in ControlModes : servo[j] = Configured(m, on)
    BY <1>4
  <2>3. on = TRUE
    BY <2>1, <2>2 DEF Configured
  <2> QED
    BY <2>2, <2>3
<1>10. Obeying(Radio, SwitchAims)
  <2>1. todo[Radio] = <<>> /\ \A j \in Joints : owner[j] # Who(Radio)
    BY <1>6 DEF Senders, Who
  <2> QED
    BY <2>1, NothingFresh DEF Obeying, Aimed, Obeys
<1> QED
  BY <1>7, <1>8, <1>9, <1>10 DEF ServoInv

LEMMA ServoInvStep == TypeOK /\ ServoInv /\ [RobotNext]_control => ServoInv'
<1> SUFFICES ASSUME TypeOK, ServoInv, [RobotNext]_control
             PROVE  ServoInv'
  OBVIOUS
<1>1. CASE ServoNext /\ UNCHANGED radio
  <2>1. UNCHANGED motor_channel
    BY <1>1 DEF radio
  <2>2. ASSUME NEW c \in Commanders,
               \/ ServoStopCheck(c) \/ ServoStartCheck(c) \/ ServoKey(c)
               \/ Bus(c) \/ MethodDone(c) \/ Silent(c)
               \/ \E m \in Modes : Command(c, m) /\ Quiet
        PROVE  ServoInv'
    <3>1. \/ ServoStopCheck(c) \/ ServoStartCheck(c) \/ ServoKey(c) \/ Bus(c) \/ Quiet
          \/ Queue(c, <<>>)
      BY <2>2 DEF MethodDone, Silent
    <3> QED
      BY <2>1, <3>1, CommanderInv
  <2>3. ASSUME NEW t \in Threads, ServoLoopBody(t) \/ (LoopCheck(t) /\ Quiet)
        PROVE  ServoInv'
    BY <2>1, <2>3, LoopBodyShows, Unchanged DEF Quiet, servos
  <2> QED
    BY <1>1, <2>2, <2>3 DEF ServoNext
<1>2. CASE RadioNext
  <2>1. ASSUME NEW side \in Sides, NEW state \in States, SwitchMotors(side, state)
        PROVE  ServoInv'
    BY <2>1, SidesAssumption, SwitchMotorsInv
  <2>2. CASE Bus(Radio) /\ UNCHANGED radio
    BY <2>2, BusIsFirst, SendsInv DEF radio, Senders
  <2> QED
    BY <1>2, <2>1, <2>2, StickInv DEF RadioNext
<1>3. CASE UNCHANGED control
  BY <1>3, Unchanged DEF control, robotVars, servos, radio
<1> QED
  BY <1>1, <1>2, <1>3 DEF RobotNext

\* What the bus and the radio add leaves the life cycle of the modes as it is.
LEMMA RobotLifeCycle == RobotSpec => Spec
<1>1. RobotInit => Init
  BY DEF RobotInit, ServoInit
<1>2. [RobotNext]_control => [Next]_vars
  <2> SUFFICES ASSUME [RobotNext]_control
               PROVE  [Next]_vars
    OBVIOUS
  <2>1. CASE ServoNext
    <3>1. ASSUME NEW c \in Commanders,
                 \/ ServoStopCheck(c) \/ ServoStartCheck(c) \/ ServoKey(c)
                 \/ MethodDone(c) \/ Silent(c)
          PROVE  Handler(c) \/ Key(c)
      BY <3>1 DEF ServoStopCheck, ServoStartCheck, ServoKey, MethodDone, Silent, Handler
    <3>2. ASSUME NEW c \in Commanders, Bus(c)
          PROVE  UNCHANGED vars
      BY <3>2 DEF Bus
    <3>3. ASSUME NEW t \in Threads, ServoLoopBody(t) \/ LoopCheck(t)
          PROVE  Loop(t)
      BY <3>3 DEF ServoLoopBody, Loop
    <3> QED
      BY <2>1, <3>1, <3>2, <3>3 DEF ServoNext, Next
  <2>2. CASE RadioNext
    BY <2>2 DEF RadioNext, SwitchMotors, Stick, Bus
  <2>3. CASE UNCHANGED control
    BY <2>3 DEF control, robotVars
  <2> QED
    BY <2>1, <2>2, <2>3 DEF RobotNext
<1> QED
  BY <1>1, <1>2, PTL DEF RobotSpec, Spec

LEMMA ServoInvAlways == RobotSpec => []ServoInv
<1>1. RobotSpec => []TypeOK
  BY RobotLifeCycle, TypeCorrect, PTL
<1> QED
  BY <1>1, ServoInvInit, ServoInvStep, PTL DEF RobotSpec

------------------------------------------------------------------------------
(* What the methods of the modes make of the joints.                        *)

WheelMode(m) == IF m \in {"Waddle", "Unicycle", "Caterpillar"} THEN "time"
                ELSE IF m = "Segway" THEN "position"
                ELSE "velocity"

AnkleMode(m) == IF m \in {"Segway", "Waddle", "Unicycle", "Caterpillar"} THEN "time"
                ELSE "position"

\* What a mode that is running means the joints to be.
AimsOf(m) ==
  [j \in Joints |-> IF m = "Idle" THEN "off" ELSE IF j \in Wheels THEN WheelMode(m) ELSE AnkleMode(m)]

\* No configuration follows a goal, and each goal is for joints in the control
\* mode that it suits.
Suited(s, aim) ==
  \A i \in DOMAIN s : IsGoal(s[i]) =>
    /\ \A j \in s[i].joints : aim[j] # "off" => s[i].value = Registers[aim[j]].operating
    /\ \A n \in DOMAIN s : n >= i => IsGoal(s[n])

OnlyGoals(s) == \A i \in DOMAIN s : IsGoal(s[i])

\* The write of an item that is the last for a joint.
LastFor(s, j, item, i) ==
  /\ i \in DOMAIN s /\ s[i].item = item /\ j \in s[i].joints
  /\ \A k \in DOMAIN s : k > i => ~(s[k].item = item /\ j \in s[k].joints)

\* The last writes for a joint are those of a joint control mode.
Makes(s, j, m) ==
  \A item \in {"torque", "drive", "operating", "acceleration", "velocity"} :
    \E i \in DOMAIN s : LastFor(s, j, item, i) /\ s[i].value = Configured(m, TRUE)[item]

\* A joint is sent goals at most.
Spares(s, j) == \A i \in DOMAIN s : j \in s[i].joints => IsGoal(s[i])

LEMMA AimsTyped ==
  ASSUME NEW m
  PROVE  /\ AimsOf(m) \in [Joints -> Aims]
         /\ m # "Idle" => \A j \in Joints : AimsOf(m)[j] \in ControlModes
BY DEF AimsOf, Aims, ControlModes, WheelMode, AnkleMode

LEMMA LastIsLastFor ==
  ASSUME NEW s \in Seq(Writes), NEW j, NEW item, NEW i, LastFor(s, j, item, i)
  PROVE  Last(s, j, item) = s[i].value
<1> DEFINE about == {n \in DOMAIN s : s[n].item = item /\ j \in s[n].joints}
<1>1. i \in about /\ DOMAIN s \subseteq Nat
  BY DEF LastFor
<1>2. \A k \in about : k <= i
  BY <1>1 DEF LastFor
<1>3. \A n \in about : (\A k \in about : k <= n) => n = i
  <2>1. ASSUME NEW n \in about, \A k \in about : k <= n
        PROVE  n = i
    <3>1. i <= n /\ n <= i /\ i \in Nat /\ n \in Nat
      BY <1>1, <1>2, <2>1
    <3> QED
      BY <3>1
  <2> QED
    BY <2>1
<1>4. (CHOOSE n \in about : \A k \in about : k <= n) = i
  <2> HIDE DEF about
  <2> QED
    BY <1>1, <1>2, <1>3
<1> QED
  BY <1>4 DEF Last

LEMMA MakesThenSpares ==
  ASSUME NEW s \in Seq(Writes), NEW t \in Seq(Writes), NEW j, NEW m
  PROVE  /\ Makes(s, j, m) /\ Spares(t, j) => Makes(s \o t, j, m)
         /\ Makes(t, j, m) => Makes(s \o t, j, m)
<1> DEFINE u == s \o t
<1>1. /\ \A i \in DOMAIN u :
           \/ i \in DOMAIN s /\ u[i] = s[i]
           \/ \E n \in DOMAIN t : i = Len(s) + n /\ u[i] = t[n]
      /\ \A i \in DOMAIN s : i \in DOMAIN u /\ u[i] = s[i]
      /\ \A n \in DOMAIN t : Len(s) + n \in DOMAIN u /\ u[Len(s) + n] = t[n]
      /\ Len(s) \in Nat /\ DOMAIN s = 1..Len(s) /\ Len(t) \in Nat /\ DOMAIN t = 1..Len(t)
  BY OfBoth
<1> HIDE DEF u
<1> DEFINE items == {"torque", "drive", "operating", "acceleration", "velocity"}
<1>2. ASSUME NEW item \in items, NEW i \in DOMAIN s, LastFor(s, j, item, i), Spares(t, j)
      PROVE  i \in DOMAIN u /\ LastFor(u, j, item, i) /\ u[i] = s[i]
  <2>1. \A n \in DOMAIN t : ~(t[n].item = item /\ j \in t[n].joints)
    BY <1>2 DEF Spares, IsGoal
  <2> QED
    BY <1>1, <1>2, <2>1 DEF LastFor
<1>3. ASSUME NEW item \in items, NEW i \in DOMAIN t, LastFor(t, j, item, i)
      PROVE  Len(s) + i \in DOMAIN u /\ LastFor(u, j, item, Len(s) + i) /\ u[Len(s) + i] = t[i]
  <2>1. ASSUME NEW k \in DOMAIN u, k > Len(s) + i
        PROVE  ~(u[k].item = item /\ j \in u[k].joints)
    <3>1. PICK n \in DOMAIN t : k = Len(s) + n /\ u[k] = t[n]
      BY <1>1, <2>1
    <3>2. n > i
      BY <1>1, <2>1, <3>1
    <3> QED
      BY <1>3, <3>1, <3>2 DEF LastFor
  <2> QED
    BY <1>1, <1>3, <2>1 DEF LastFor
<1>4. Makes(s, j, m) /\ Spares(t, j) => Makes(u, j, m)
  BY <1>2 DEF Makes
<1>5. ASSUME Makes(t, j, m)
      PROVE  Makes(u, j, m)
  <2>1. ASSUME NEW item \in items
        PROVE  \E i \in DOMAIN u : LastFor(u, j, item, i) /\ u[i].value = Configured(m, TRUE)[item]
    <3>1. PICK i \in DOMAIN t : LastFor(t, j, item, i) /\ t[i].value = Configured(m, TRUE)[item]
      BY <1>5 DEF Makes
    <3>2. Len(s) + i \in DOMAIN u /\ LastFor(u, j, item, Len(s) + i) /\ u[Len(s) + i] = t[i]
      BY <1>3, <3>1
    <3> QED
      BY <3>1, <3>2
  <2> QED
    BY <2>1 DEF Makes
<1> QED
  BY <1>4, <1>5 DEF u

LEMMA ControlModeMakes ==
  ASSUME NEW j \in Joints, NEW m \in ControlModes
  PROVE  /\ Makes(set_joint_control_mode(j, m), j, m)
         /\ \A i \in Joints \ {j} : Spares(set_joint_control_mode(j, m), i)
<1> DEFINE s == set_joint_control_mode(j, m)
<1>1. /\ DOMAIN s = 1..6
      /\ s[1] = TorqueOff(j) /\ s[2] = Write("drive", {j}, Registers[m].drive)
      /\ s[3] = Write("operating", {j}, Registers[m].operating)
      /\ s[4] = Write("acceleration", {j}, Registers[m].acceleration)
      /\ s[5] = Write("velocity", {j}, Registers[m].velocity)
      /\ s[6] = Write("torque", {j}, TRUE)
  BY DEF set_joint_control_mode
<1> HIDE DEF s
<1>2. \A n \in DOMAIN s : n \in {1, 2, 3, 4, 5, 6} /\ s[n].joints = {j}
  BY <1>1 DEF TorqueOff, Write
<1>3. /\ s[1].item = "torque" /\ s[2].item = "drive" /\ s[3].item = "operating"
      /\ s[4].item = "acceleration" /\ s[5].item = "velocity" /\ s[6].item = "torque"
  BY <1>1 DEF TorqueOff, Write
<1>4. /\ LastFor(s, j, "torque", 6) /\ LastFor(s, j, "drive", 2) /\ LastFor(s, j, "operating", 3)
      /\ LastFor(s, j, "acceleration", 4) /\ LastFor(s, j, "velocity", 5)
  <2>1. \A k \in DOMAIN s : /\ k > 6 => FALSE
                            /\ k > 2 => s[k].item # "drive"
                            /\ k > 3 => s[k].item # "operating"
                            /\ k > 4 => s[k].item # "acceleration"
                            /\ k > 5 => s[k].item # "velocity"
    <3>1. SUFFICES ASSUME NEW k \in DOMAIN s
                   PROVE  /\ k > 6 => FALSE
                          /\ k > 2 => s[k].item # "drive"
                          /\ k > 3 => s[k].item # "operating"
                          /\ k > 4 => s[k].item # "acceleration"
                          /\ k > 5 => s[k].item # "velocity"
      OBVIOUS
    <3>2. k = 1 \/ k = 2 \/ k = 3 \/ k = 4 \/ k = 5 \/ k = 6
      BY <1>2
    <3> QED
      BY <1>3, <3>2
  <2>2. /\ 1 \in DOMAIN s /\ 2 \in DOMAIN s /\ 3 \in DOMAIN s /\ 4 \in DOMAIN s
        /\ 5 \in DOMAIN s /\ 6 \in DOMAIN s
    BY <1>1
  <2>3. \A k \in DOMAIN s : j \in s[k].joints
    BY <1>2
  <2> QED
    BY <1>3, <2>1, <2>2, <2>3 DEF LastFor
<1>5. /\ s[6].value = Configured(m, TRUE)["torque"] /\ s[2].value = Configured(m, TRUE)["drive"]
      /\ s[3].value = Configured(m, TRUE)["operating"]
      /\ s[4].value = Configured(m, TRUE)["acceleration"]
      /\ s[5].value = Configured(m, TRUE)["velocity"]
  BY <1>1 DEF Write, Configured
<1>6. Makes(s, j, m)
  <2>1. /\ 1 \in DOMAIN s /\ 2 \in DOMAIN s /\ 3 \in DOMAIN s /\ 4 \in DOMAIN s
        /\ 5 \in DOMAIN s /\ 6 \in DOMAIN s
    BY <1>1
  <2> QED
    BY <2>1, <1>4, <1>5 DEF Makes
<1>7. \A i \in Joints \ {j} : Spares(s, i)
  BY <1>2 DEF Spares
<1> QED
  BY <1>6, <1>7 DEF s

\* A method that makes of every joint what aim says, and then sends it goals
\* that suit it.
StartsAs(s, aim) ==
  /\ s \in Seq(Writes) /\ Suited(s, aim)
  /\ \A j \in Joints : Makes(s, j, aim[j]) /\ Obeys(s, j, aim[j]) /\ Powers(s, j)

LEMMA NoGoals ==
  /\ \A j \in Joints : \A m \in ControlModes : \A i \in DOMAIN set_joint_control_mode(j, m) :
       ~IsGoal(set_joint_control_mode(j, m)[i])
  /\ \A s, t \in Seq(Writes) :
       (\A i \in DOMAIN s : ~IsGoal(s[i])) /\ (\A i \in DOMAIN t : ~IsGoal(t[i])) =>
         \A i \in DOMAIN (s \o t) : ~IsGoal((s \o t)[i])
<1>1. ASSUME NEW j \in Joints, NEW m \in ControlModes, NEW i \in DOMAIN set_joint_control_mode(j, m)
      PROVE  ~IsGoal(set_joint_control_mode(j, m)[i])
  <2>1. i \in 1..6
    BY <1>1 DEF set_joint_control_mode
  <2>2. i = 1 \/ i \in 2..6
    BY <2>1
  <2>3. Nth(j, m, 1) = TorqueOff(j)
    BY NthWrites
  <2> QED
    BY <2>2, <2>3, NthIsConfiguration DEF Nth, IsGoal, TorqueOff, Write
<1>2. ASSUME NEW s \in Seq(Writes), NEW t \in Seq(Writes),
             \A i \in DOMAIN s : ~IsGoal(s[i]), \A i \in DOMAIN t : ~IsGoal(t[i])
      PROVE  \A i \in DOMAIN (s \o t) : ~IsGoal((s \o t)[i])
  BY <1>2, OfBoth
<1> QED
  BY <1>1, <1>2

LEMMA ConfigureStarts ==
  ASSUME NEW w \in ControlModes, NEW a \in ControlModes, NEW aim,
         \A j \in Joints : aim[j] = IF j \in Wheels THEN w ELSE a
  PROVE  StartsAs(Configure(w, a), aim)
<1> DEFINE s1 == set_joint_control_mode("left_wheel", w)
           s2 == set_joint_control_mode("left_ankle", a)
           s3 == set_joint_control_mode("right_ankle", a)
           s4 == set_joint_control_mode("right_wheel", w)
           t2 == s1 \o s2
           t3 == t2 \o s3
           t4 == t3 \o s4
<1>1. s1 \in Seq(Writes) /\ s2 \in Seq(Writes) /\ s3 \in Seq(Writes) /\ s4 \in Seq(Writes)
  BY JointsAre, NthWrites
<1>2. Configure(w, a) = t4
  BY DEF Configure
<1>3. /\ Makes(s1, "left_wheel", w) /\ \A i \in Joints \ {"left_wheel"} : Spares(s1, i)
      /\ Makes(s2, "left_ankle", a) /\ \A i \in Joints \ {"left_ankle"} : Spares(s2, i)
      /\ Makes(s3, "right_ankle", a) /\ \A i \in Joints \ {"right_ankle"} : Spares(s3, i)
      /\ Makes(s4, "right_wheel", w) /\ \A i \in Joints \ {"right_wheel"} : Spares(s4, i)
  BY JointsAre, ControlModeMakes
<1>3a. /\ Spares(s2, "left_wheel") /\ Spares(s3, "left_wheel") /\ Spares(s4, "left_wheel")
       /\ Spares(s3, "left_ankle") /\ Spares(s4, "left_ankle") /\ Spares(s4, "right_ankle")
  BY <1>3, JointsAre
<1>4. /\ aim["left_wheel"] = w /\ aim["left_ankle"] = a /\ aim["right_ankle"] = a
      /\ aim["right_wheel"] = w
  BY JointsAre DEF Wheels
<1>5. /\ \A j \in Joints : Obeys(s1, j, aim[j]) /\ Obeys(s2, j, aim[j])
      /\ \A j \in Joints : Obeys(s3, j, aim[j]) /\ Obeys(s4, j, aim[j])
  BY <1>4, JointsAre, ControlModeObeys
<1>6. /\ Powers(s1, "left_wheel") /\ Powers(s2, "left_ankle") /\ Powers(s3, "right_ankle")
      /\ Powers(s4, "right_wheel")
  BY JointsAre, ControlModePowers
<1>7. /\ \A i \in DOMAIN s1 : ~IsGoal(s1[i])
      /\ \A i \in DOMAIN s2 : ~IsGoal(s2[i])
      /\ \A i \in DOMAIN s3 : ~IsGoal(s3[i])
      /\ \A i \in DOMAIN s4 : ~IsGoal(s4[i])
  BY JointsAre, NoGoals
<1> HIDE DEF s1, s2, s3, s4
<1>8. t2 \in Seq(Writes) /\ t3 \in Seq(Writes) /\ t4 \in Seq(Writes)
  BY <1>1
<1>9. \A i \in DOMAIN t4 : ~IsGoal(t4[i])
  <2>1. \A i \in DOMAIN s1 : ~IsGoal(s1[i])
    BY <1>7
  <2>2. \A i \in DOMAIN t2 : ~IsGoal(t2[i])
    BY <1>1, <1>7, <2>1, NoGoals
  <2>3. \A i \in DOMAIN t3 : ~IsGoal(t3[i])
    BY <1>1, <1>7, <1>8, <2>2, NoGoals
  <2> QED
    BY <1>1, <1>7, <1>8, <2>3, NoGoals
<1>10. ASSUME NEW j \in Joints
       PROVE  Makes(t4, j, aim[j]) /\ Obeys(t4, j, aim[j]) /\ Powers(t4, j)
  <2> HIDE DEF t2, t3, t4
  <2>1. Obeys(t4, j, aim[j])
    <3>1. Obeys(t2, j, aim[j])
      BY <1>1, <1>5, BothObey DEF t2
    <3>2. Obeys(t3, j, aim[j])
      BY <1>1, <1>5, <1>8, <3>1, BothObey DEF t3
    <3> QED
      BY <1>1, <1>5, <1>8, <3>2, BothObey DEF t4
  <2>2. /\ j = "left_wheel" => Powers(t2, j) /\ Makes(t2, j, w)
        /\ j = "left_ankle" => Powers(t2, j) /\ Makes(t2, j, a)
    BY <1>1, <1>3a, <1>3, <1>6, BothPower, MakesThenSpares DEF t2
  <2>3. /\ j = "left_wheel" => Powers(t3, j) /\ Makes(t3, j, w)
        /\ j = "left_ankle" => Powers(t3, j) /\ Makes(t3, j, a)
        /\ j = "right_ankle" => Powers(t3, j) /\ Makes(t3, j, a)
    BY <1>1, <1>3a, <1>3, <1>6, <1>8, <2>2, BothPower, MakesThenSpares DEF t3
  <2>4. /\ j = "left_wheel" => Powers(t4, j) /\ Makes(t4, j, w)
        /\ j = "left_ankle" => Powers(t4, j) /\ Makes(t4, j, a)
        /\ j = "right_ankle" => Powers(t4, j) /\ Makes(t4, j, a)
        /\ j = "right_wheel" => Powers(t4, j) /\ Makes(t4, j, w)
    BY <1>1, <1>3a, <1>3, <1>6, <1>8, <2>3, BothPower, MakesThenSpares DEF t4
  <2> QED
    BY <1>4, <2>1, <2>4, JointsAre
<1> HIDE DEF t4
<1> QED
  BY <1>2, <1>8, <1>9, <1>10 DEF StartsAs, Suited

\* A goal for joints that it suits.
LEMMA GoalSuits ==
  ASSUME NEW J \in SUBSET Joints, NEW v \in Names, NEW aim,
         \A j \in J : aim[j] # "off" => v = Registers[aim[j]].operating
  PROVE  LET t == <<Write("goal", J, v)>>
         IN  /\ t \in Seq(Writes) /\ OnlyGoals(t) /\ Suited(t, aim)
             /\ \A j \in Joints : Spares(t, j) /\ Obeys(t, j, aim[j])
<1> DEFINE t == <<Write("goal", J, v)>>
<1>1. Write("goal", J, v) \in Writes
  BY DEF Write, Writes, Items
<1>2. /\ t \in Seq(Writes) /\ DOMAIN t = {1} /\ t[1].item = "goal" /\ t[1].joints = J
      /\ t[1].value = v
  BY <1>1 DEF Write
<1> HIDE DEF t
<1>3. OnlyGoals(t) /\ Suited(t, aim)
  BY <1>2 DEF OnlyGoals, Suited, IsGoal
<1>4. \A j \in Joints : Spares(t, j) /\ Obeys(t, j, aim[j])
  BY <1>2 DEF Spares, Obeys, IsGoal, Switches
<1> QED
  BY <1>2, <1>3, <1>4 DEF t

LEMMA GoalAfter ==
  ASSUME NEW s, NEW aim, StartsAs(s, aim), NEW J \in SUBSET Joints, NEW v \in Names,
         \A j \in J : aim[j] # "off" => v = Registers[aim[j]].operating
  PROVE  StartsAs(s \o <<Write("goal", J, v)>>, aim)
<1> DEFINE t == <<Write("goal", J, v)>>
           u == s \o t
<1>1. /\ t \in Seq(Writes) /\ OnlyGoals(t) /\ Suited(t, aim)
      /\ \A j \in Joints : Spares(t, j) /\ Obeys(t, j, aim[j])
  BY GoalSuits
<1> HIDE DEF t
<1>2. s \in Seq(Writes) /\ u \in Seq(Writes)
  BY <1>1 DEF StartsAs
<1>3. \A j \in Joints : Makes(u, j, aim[j]) /\ Obeys(u, j, aim[j]) /\ Powers(u, j)
  BY <1>1, <1>2, BothObey, BothPower, MakesThenSpares DEF StartsAs
<1>4. Suited(u, aim)
  <2>1. /\ \A i \in DOMAIN u :
             \/ i \in DOMAIN s /\ u[i] = s[i]
             \/ \E n \in DOMAIN t : i = Len(s) + n /\ u[i] = t[n]
        /\ Len(s) \in Nat /\ DOMAIN s = 1..Len(s) /\ Len(t) \in Nat /\ DOMAIN t = 1..Len(t)
    BY <1>1, <1>2, OfBoth
  <2> HIDE DEF u
  <2>2. ASSUME NEW i \in DOMAIN u, IsGoal(u[i])
        PROVE  /\ \A j \in u[i].joints : aim[j] # "off" => u[i].value = Registers[aim[j]].operating
               /\ \A n \in DOMAIN u : n >= i => IsGoal(u[n])
    <3>1. \A j \in u[i].joints : aim[j] # "off" => u[i].value = Registers[aim[j]].operating
      <4>1. CASE i \in DOMAIN s /\ u[i] = s[i]
        BY <2>2, <4>1 DEF StartsAs, Suited
      <4>2. ASSUME NEW n \in DOMAIN t, u[i] = t[n]
            PROVE  \A j \in u[i].joints : aim[j] # "off" => u[i].value = Registers[aim[j]].operating
        BY <1>1, <2>2, <4>2 DEF Suited
      <4> QED
        BY <2>1, <4>1, <4>2
    <3>2. ASSUME NEW n \in DOMAIN u, n >= i
          PROVE  IsGoal(u[n])
      <4>1. CASE \E k \in DOMAIN t : u[n] = t[k]
        BY <1>1, <4>1 DEF OnlyGoals
      <4>2. CASE n \in DOMAIN s /\ u[n] = s[n]
        <5>1. i \in DOMAIN s /\ u[i] = s[i]
          BY <2>1, <3>2, <4>2
        <5> QED
          BY <2>2, <3>2, <4>2, <5>1 DEF StartsAs, Suited
      <4> QED
        BY <2>1, <4>1, <4>2
    <3> QED
      BY <3>1, <3>2
  <2> QED
    BY <2>2 DEF Suited
<1> QED
  BY <1>2, <1>3, <1>4 DEF StartsAs, t

LEMMA AimsAre ==
  ASSUME NEW m, m # "Idle"
  PROVE  /\ WheelMode(m) \in ControlModes /\ AnkleMode(m) \in ControlModes
         /\ \A j \in Joints : AimsOf(m)[j] = IF j \in Wheels THEN WheelMode(m) ELSE AnkleMode(m)
         /\ \A j \in Ankles : j \in Joints /\ AimsOf(m)[j] = AnkleMode(m)
         /\ \A j \in Wheels : j \in Joints /\ AimsOf(m)[j] = WheelMode(m)
         /\ Registers[AnkleMode(m)].operating = "extended_position"
<1>1. WheelMode(m) \in ControlModes /\ AnkleMode(m) \in ControlModes
  BY DEF WheelMode, AnkleMode, ControlModes
<1>2. Registers["position"].operating = "extended_position" /\ Registers["time"].operating = "extended_position"
  BY DEF Registers
<1>3. Registers[AnkleMode(m)].operating = "extended_position"
  BY <1>2 DEF AnkleMode
<1>4. \A j \in Ankles : j \in Joints /\ j \notin Wheels
  BY JointsAre DEF Ankles, Wheels
<1> QED
  BY <1>1, <1>3, <1>4, JointsAre DEF AimsOf

\* on_start() of a mode makes the joints what the mode means them to be.
LEMMA StartsAsMeant ==
  ASSUME NEW m \in DOMAIN on_start, m # "Idle"
  PROVE  StartsAs(on_start[m], AimsOf(m))
<1> DEFINE s == Configure(WheelMode(m), AnkleMode(m))
           t == s \o set_joint_position(Ankles)
           u == t \o set_joint_speed(Wheels)
<1>1. StartsAs(s, AimsOf(m))
  BY AimsAre, ConfigureStarts
<1> HIDE DEF s
<1>2. StartsAs(t, AimsOf(m))
  <2>1. \A j \in Ankles : "extended_position" = Registers[AimsOf(m)[j]].operating
    BY AimsAre
  <2>2. Ankles \in SUBSET Joints /\ "extended_position" \in Names
    BY JointsAre DEF Names
  <2>3. set_joint_position(Ankles) = <<Write("goal", Ankles, "extended_position")>>
    BY DEF set_joint_position
  <2> HIDE DEF t
  <2>4. t = s \o <<Write("goal", Ankles, "extended_position")>>
    BY <2>3 DEF t
  <2> QED
    BY <1>1, <2>1, <2>2, <2>4, GoalAfter
<1>3. m = "Ski" => StartsAs(u, AimsOf(m))
  <2>1. ASSUME m = "Ski"
        PROVE  \A j \in Wheels : "velocity" = Registers[AimsOf(m)[j]].operating
    <3>1. WheelMode(m) = "velocity" /\ Registers["velocity"].operating = "velocity"
      BY <2>1 DEF WheelMode, Registers
    <3> QED
      BY <3>1, AimsAre
  <2>2. Wheels \in SUBSET Joints /\ "velocity" \in Names
    BY JointsAre DEF Names
  <2> HIDE DEF t, u
  <2>3. u = t \o <<Write("goal", Wheels, "velocity")>>
    BY DEF u, set_joint_speed
  <2> QED
    BY <1>2, <2>1, <2>2, <2>3, GoalAfter
<1>4. on_start[m] = IF m = "Ski" THEN u ELSE t
  <2>1. m \in {"Pole", "Segway", "Ski", "Tail", "Waddle", "Unicycle", "Hang", "Caterpillar",
               "PoleGestures"}
    BY DEF on_start
  <2>2. /\ WheelMode(m) = IF m \in {"Waddle", "Unicycle", "Caterpillar"} THEN "time"
                          ELSE IF m = "Segway" THEN "position" ELSE "velocity"
        /\ AnkleMode(m) = IF m \in {"Segway", "Waddle", "Unicycle", "Caterpillar"} THEN "time"
                          ELSE "position"
    BY DEF WheelMode, AnkleMode
  <2>3. CASE m \in {"Pole", "PoleGestures"}
    BY <2>2, <2>3 DEF on_start, Pole_on_start, tilt, s
  <2>4. CASE m = "Segway"
    BY <2>2, <2>4 DEF on_start, Segway_on_start, tilt, s
  <2>5. CASE m = "Ski"
    BY <2>2, <2>5 DEF on_start, Ski_on_start, s
  <2>6. CASE m = "Tail"
    BY <2>2, <2>6 DEF on_start, Tail_on_start, s
  <2>7. CASE m = "Hang"
    BY <2>2, <2>7 DEF on_start, Hang_on_start, s
  <2>8. CASE m = "Waddle"
    BY <2>2, <2>8 DEF on_start, Waddle_on_start, s
  <2>9. CASE m = "Unicycle"
    BY <2>2, <2>9 DEF on_start, Unicycle_on_start, s
  <2>10. CASE m = "Caterpillar"
    BY <2>2, <2>10 DEF on_start, Caterpillar_on_start, s
  <2> QED
    BY <2>1, <2>3, <2>4, <2>5, <2>6, <2>7, <2>8, <2>9, <2>10
<1> HIDE DEF t, u
<1> QED
  BY <1>2, <1>3, <1>4

\* on_stop() of every mode but Idle switches every joint off.
LEMMA StopsAsMeant ==
  /\ PowerDown \in Seq(Writes)
  /\ \A i \in DOMAIN PowerDown : ~IsGoal(PowerDown[i])
  /\ \A j \in Joints : Obeys(PowerDown, j, "off") /\ Powers(PowerDown, j)
<1>1. /\ DOMAIN PowerDown = 1..4
      /\ PowerDown[1] = TorqueOff("left_wheel") /\ PowerDown[2] = TorqueOff("left_ankle")
      /\ PowerDown[3] = TorqueOff("right_ankle") /\ PowerDown[4] = TorqueOff("right_wheel")
  BY DEF PowerDown
<1>2. PowerDown \in Seq(Writes)
  BY PowerDownFresh DEF Fresh, Planned
<1>3. \A i \in DOMAIN PowerDown : PowerDown[i].item = "torque" /\ PowerDown[i].value = FALSE
  <2>1. \A i \in 1..4 : i = 1 \/ i = 2 \/ i = 3 \/ i = 4
    OBVIOUS
  <2>2. \A j : TorqueOff(j).item = "torque" /\ TorqueOff(j).value = FALSE
    BY DEF TorqueOff, Write
  <2> QED
    BY <1>1, <2>1, <2>2
<1>4. \A j \in Joints : Obeys(PowerDown, j, "off")
  BY <1>3 DEF Obeys
<1>5. \A j \in Joints : Powers(PowerDown, j)
  <2>1. ASSUME NEW i \in 1..4, NEW j, PowerDown[i] = TorqueOff(j)
        PROVE  Powers(PowerDown, j)
    BY <1>1, <2>1 DEF Powers, Switches, TorqueOff, Write
  <2>2. 1 \in 1..4 /\ 2 \in 1..4 /\ 3 \in 1..4 /\ 4 \in 1..4
    OBVIOUS
  <2> QED
    BY <1>1, <2>1, <2>2, JointsAre
<1> QED
  BY <1>2, <1>3, <1>4, <1>5 DEF IsGoal

\* The modifier under which a key of the pole mode reconfigures the wheels.
NoAlt == "Alt" \notin Modifiers

\* A key sends goals that suit the mode, unless it is that one.
LEMMA KeysAsMeant ==
  ASSUME NEW m \in DOMAIN keys, NEW writes \in keys[m]
  PROVE  /\ m = "Idle" => writes = <<>>
         /\ NoAlt => OnlyGoals(writes) /\ Suited(writes, AimsOf(m))
<1>1. CASE writes = <<>>
  BY <1>1 DEF OnlyGoals, Suited
<1>2. CASE writes # <<>> /\ NoAlt
  <2>1. m # "Idle"
    BY <1>2 DEF keys
  <2>2. m \notin {"Waddle", "Caterpillar"}
    BY <1>2 DEF keys, Waddle_keys, Caterpillar_keys
  <2>3. CASE \E J \in SUBSET Ankles : writes = set_joint_position(J)
    <3>1. PICK J \in SUBSET Ankles : writes = <<Write("goal", J, "extended_position")>>
      BY <2>3 DEF set_joint_position
    <3>2. \A j \in J : "extended_position" = Registers[AimsOf(m)[j]].operating
      BY <2>1, AimsAre
    <3>3. J \in SUBSET Joints /\ "extended_position" \in Names
      BY JointsAre DEF Names
    <3> QED
      BY <2>1, <3>1, <3>2, <3>3, GoalSuits
  <2>4. CASE writes = set_joint_speed(Wheels) /\ m \in {"Pole", "Ski", "Tail", "Hang", "PoleGestures"}
    <3>1. WheelMode(m) = "velocity" /\ Registers["velocity"].operating = "velocity"
      BY <2>4 DEF WheelMode, Registers
    <3>2. \A j \in Wheels : "velocity" = Registers[AimsOf(m)[j]].operating
      BY <2>1, <3>1, AimsAre
    <3>3. Wheels \in SUBSET Joints /\ "velocity" \in Names
      BY JointsAre DEF Names
    <3>4. writes = <<Write("goal", Wheels, "velocity")>>
      BY <2>4 DEF set_joint_speed
    <3> QED
      BY <2>1, <3>2, <3>3, <3>4, GoalSuits
  <2>5. CASE writes = set_joint_position({"left_ankle", "left_wheel"}) /\ m = "Unicycle"
    <3>1. WheelMode(m) = "time" /\ Registers["time"].operating = "extended_position"
      BY <2>5 DEF WheelMode, Registers
    <3>2. \A j \in {"left_ankle", "left_wheel"} :
            "extended_position" = Registers[AimsOf(m)[j]].operating
      BY <2>1, <3>1, AimsAre DEF Wheels, Ankles
    <3>3. {"left_ankle", "left_wheel"} \in SUBSET Joints /\ "extended_position" \in Names
      BY JointsAre DEF Names
    <3>4. writes = <<Write("goal", {"left_ankle", "left_wheel"}, "extended_position")>>
      BY <2>5 DEF set_joint_position
    <3> QED
      BY <2>1, <3>2, <3>3, <3>4, GoalSuits
  <2>6. \/ \E J \in SUBSET Ankles : writes = set_joint_position(J)
        \/ writes = set_joint_speed(Wheels) /\ m \in {"Pole", "Ski", "Tail", "Hang", "PoleGestures"}
        \/ writes = set_joint_position({"left_ankle", "left_wheel"}) /\ m = "Unicycle"
    <3>1. tilt = set_joint_position(Ankles) /\ {"right_ankle"} \in SUBSET Ankles
      BY DEF tilt, Ankles
    <3>2. "Alt" \notin Modifiers
      BY <1>2 DEF NoAlt
    <3>3. CASE m \in {"Pole", "PoleGestures"}
      BY <1>2, <3>1, <3>2, <3>3 DEF keys, Pole_keys
    <3>4. CASE m = "Segway"
      BY <1>2, <3>1, <3>4 DEF keys, Segway_keys
    <3>5. CASE m = "Tail"
      BY <1>2, <3>1, <3>5 DEF keys, Tail_keys
    <3>6. CASE m \in {"Ski", "Hang", "Unicycle"}
      BY <1>2, <3>6 DEF keys, Ski_keys, Hang_keys, Unicycle_keys
    <3> QED
      BY <2>1, <2>2, <3>3, <3>4, <3>5, <3>6 DEF keys
  <2> QED
    BY <2>3, <2>4, <2>5, <2>6
<1>3. m = "Idle" => writes = <<>>
  BY DEF keys
<1> QED
  BY <1>1, <1>2, <1>3

\* So does a control loop.
LEMMA LoopsAsMeant ==
  ASSUME NEW m \in DOMAIN control_loop, NEW writes \in control_loop[m], writes # <<>>
  PROVE  LET w == Head(writes)
         IN  m # "Idle" /\ \A j \in w.joints : j \in Joints /\ w.value = Registers[AimsOf(m)[j]].operating
<1>1. m \in {"Segway", "Ski", "Waddle", "Caterpillar"}
  BY DEF control_loop
<1>2. \A J : set_joint_position(J) # <<>> /\ Head(set_joint_position(J)).joints = J
             /\ Head(set_joint_position(J)).value = "extended_position"
  BY DEF set_joint_position, Write
<1>3. PICK J \in SUBSET Joints : writes = set_joint_position(J) /\ (m = "Ski" => J = Ankles)
  <2>1. /\ {"left_ankle", "left_wheel"} \subseteq Joints
        /\ {"right_ankle", "right_wheel"} \subseteq Joints
    BY JointsAre
  <2>2. \A w \in Segway_loop \union Waddle_loop \union Caterpillar_loop :
          w # <<>> => \E J \in SUBSET Joints : w = set_joint_position(J)
    BY <2>1, JointsAre DEF Segway_loop, Waddle_loop, Caterpillar_loop
  <2>3. m # "Ski" => writes \in Segway_loop \union Waddle_loop \union Caterpillar_loop
    BY <1>1 DEF control_loop
  <2>4. m = "Ski" => writes = set_joint_position(Ankles)
    BY DEF control_loop, Ski_loop
  <2> QED
    BY <2>2, <2>3, <2>4, JointsAre
<1>4. m # "Ski" => Registers[WheelMode(m)].operating = "extended_position"
  BY <1>1 DEF WheelMode, Registers
<1>5. m # "Idle"
  BY <1>1
<1>6. \A j \in J : j \in Wheels \/ j \in Ankles
  BY JointsAre DEF Wheels, Ankles
<1>7. m = "Ski" => \A j \in J : j \in Ankles
  BY <1>3
<1> QED
  BY <1>2, <1>3, <1>4, <1>5, <1>6, <1>7, AimsAre

------------------------------------------------------------------------------
(* The invariant of the modes.                                              *)

\* No other client thread is in a handler.
Alone(c) == \A d \in Commanders \ {c} : pc[d] = "ready"

\* The mode that the joints are meant for when client thread c is through with
\* what it has left: none from on_stop() of one mode to on_start() of the next.
Meant(c) ==
  IF pc[c] \in {"ready", "key", "stop", "on_start", "clear_stopped", "launch", "update"}
    THEN current ELSE "Idle"

InCharge(c) ==
  /\ pc[c] \in {"ready", "key", "stop", "update"} /\ stopped[current] => current = "Idle"
  /\ \A m \in DOMAIN on_start :
       m = Meant(c) /\ (NoAlt \/ m = "Idle") => Obeying(c, AimsOf(m))
  /\ pc[c] = "key" /\ (NoAlt \/ current = "Idle") => OnlyGoals(todo[c])
  /\ NoAlt =>
       /\ Suited(todo[c], AimsOf(current))
       /\ pc[c] = "on_stop" =>
            \A j \in ByModes \ lost : servo[j].torque => AsAsked(servo[j], AimsOf(current)[j])

ModesInv ==
  /\ \A c \in Commanders : todo[c] # <<>> => pc[c] \in {"key", "on_stop", "on_start"}
  /\ Suited(todo[Radio], SwitchAims)
  /\ ByModes # {} => Commanders # {}
  /\ ~overlap => \A c \in Commanders : Alone(c) => InCharge(c)

LEMMA CommandersSend ==
  ASSUME NEW c \in Commanders
  PROVE  c \in Senders /\ Radio \in Senders \ {c} /\ c \in Senders \ {Radio} /\ Who(c) = "mode"
         /\ Who(Radio) = "radio"
BY SendersAssumption DEF Senders, Who

LEMMA ModesNamed ==
  TypeOK => current \in DOMAIN on_start /\ current \in DOMAIN keys /\ "Idle" \in DOMAIN on_start
BY KnownModesAssumption, SameModes DEF TypeOK, on_start

\* A step that sends nothing, and that means the same mode.
LEMMA QuietInCharge ==
  ASSUME NEW c \in Commanders, InCharge(c), UNCHANGED <<servo, todo, lost, owner>>, todo[c] = <<>>,
         Meant(c)' = Meant(c), pc'[c] # "on_stop",
         pc'[c] \in {"ready", "key", "stop", "update"} /\ stopped'[current'] => current' = "Idle"
  PROVE  InCharge(c)'
<1>1. \A m \in DOMAIN on_start :
        m = Meant(c)' /\ (NoAlt \/ m = "Idle") => Obeying(c, AimsOf(m))'
  BY ObeyingStays DEF InCharge
<1>2. todo'[c] = <<>>
  OBVIOUS
<1>3. Suited(<<>>, AimsOf(current')) /\ OnlyGoals(<<>>)
  BY DEF Suited, OnlyGoals
<1> QED
  BY <1>1, <1>2, <1>3 DEF InCharge

\* A step that enters a method.
LEMMA QueueInCharge ==
  ASSUME ServoInv, NEW c \in Commanders, NEW writes, Fresh(writes), Queue(c, writes),
         NEW m, m = Meant(c)',
         NoAlt \/ m = "Idle" =>
           /\ \A j \in Joints : Obeys(writes, j, AimsOf(m)[j])
           /\ \A j \in Joints \ lost : owner[j] = "mode" =>
                Powers(writes, j) \/ AsAsked(servo[j], AimsOf(m)[j]),
         pc'[c] = "key" /\ (NoAlt \/ current' = "Idle") => OnlyGoals(writes),
         NoAlt =>
           /\ Suited(writes, AimsOf(current'))
           /\ pc'[c] = "on_stop" =>
                \A j \in ByModes \ lost : servo[j].torque => AsAsked(servo[j], AimsOf(current')[j]),
         pc'[c] \in {"ready", "key", "stop", "update"} /\ stopped'[current'] => current' = "Idle"
  PROVE  InCharge(c)'
<1>1. /\ c \in Senders /\ Who(c) = "mode" /\ todo'[c] = writes
      /\ UNCHANGED <<servo, lost, owner>>
  BY CommandersSend DEF Queue, ServoInv, ServosTyped
<1>2. NoAlt \/ m = "Idle" => Obeying(c, AimsOf(m))'
  BY <1>1, QueuesAsAsked
<1>3. ByModes' = ByModes
  BY <1>1 DEF ByModes
<1> QED
  BY <1>1, <1>2, <1>3 DEF InCharge

\* What the thread that is in charge has made of the joints when it has nothing
\* left.
LEMMA InChargeMade ==
  ASSUME NEW c \in Commanders, InCharge(c), Meant(c) \in DOMAIN on_start,
         NoAlt \/ Meant(c) = "Idle", NEW j \in Joints \ lost, owner[j] = "mode", ~Powers(todo[c], j)
  PROVE  AsAsked(servo[j], AimsOf(Meant(c))[j])
BY CommandersSend DEF InCharge, Obeying

LEMMA NothingLeft ==
  ASSUME NEW j
  PROVE  /\ ~Powers(<<>>, j) /\ Suited(<<>>, j) /\ OnlyGoals(<<>>)
         /\ \A aim : Obeys(<<>>, j, aim)
BY DEF Powers, Suited, OnlyGoals, Obeys

\* The steps of client threads that send nothing.
QuietStep(c) ==
  MethodDone(c) \/ Silent(c) \/ \E m \in Modes : Command(c, m) /\ Quiet

\* A method is skipped only if handlers overlap.
LEMMA SkipsOverlap ==
  ASSUME Ordered, ~overlap, NEW c \in Commanders
  PROVE  ~Skips(c)
BY DEF Ordered, HandlerOfCurrent, FlagTellsPlace, Skips

LEMMA QuietStepMoves ==
  ASSUME TypeOK, ServoInv, ModesInv, NEW c \in Commanders, QuietStep(c), ~Skips(c)
  PROVE  /\ UNCHANGED <<servo, todo, lost, owner>> /\ todo[c] = <<>>
         /\ \/ pc[c] = "on_stop" /\ pc'[c] = "set_stopped"
            \/ pc[c] = "set_stopped" /\ pc'[c] = "join"
            \/ pc[c] = "join" /\ pc'[c] = "assign"
            \/ pc[c] = "assign" /\ pc'[c] = "start"
            \/ pc[c] = "on_start" /\ pc'[c] = "clear_stopped" /\ current' = current
            \/ pc[c] = "clear_stopped" /\ pc'[c] = "launch" /\ current' = current
            \/ /\ \/ pc[c] = "launch" /\ pc'[c] = "update"
                  \/ pc[c] \in {"key", "update"} /\ pc'[c] = "ready"
                  \/ pc[c] = "ready" /\ pc'[c] = "stop"
               /\ current' = current /\ stopped' = stopped
<1>1. pc \in [Commanders -> PCs]
  BY DEF TypeOK
<1>2. UNCHANGED <<servo, todo, lost, owner>> /\ todo[c] = <<>>
  <2>1. CASE MethodDone(c)
    BY <2>1 DEF MethodDone, Queue, ServoInv, ServosTyped
  <2>2. CASE Silent(c) \/ \E m \in Modes : Command(c, m) /\ Quiet
    BY <2>2 DEF ModesInv, Silent, Quiet, servos, SetStopped, Join, Assign, ClearStopped, Launch,
                Update, Return, Command, Enter, Goto
  <2> QED
    BY <2>1, <2>2 DEF QuietStep
<1> QED
  BY <1>1, <1>2 DEF QuietStep, MethodDone, OnStop, OnStart, KeyDone, Silent, SetStopped, Join, Assign,
     ClearStopped, Launch, Update, Return, Command, Enter, Goto, robot, flags

LEMMA OwnStep ==
  ASSUME TypeOK, Ordered, ServoInv, ModesInv, NEW c \in Commanders, ~overlap, InCharge(c),
         ServoStopCheck(c) \/ ServoStartCheck(c) \/ ServoKey(c) \/ QuietStep(c)
  PROVE  InCharge(c)'
<1>1. pc[c] \notin {"key", "on_stop", "on_start"} => todo[c] = <<>>
  BY DEF ModesInv
<1>2. current \in DOMAIN on_start /\ current \in DOMAIN keys /\ "Idle" \in DOMAIN on_start
  BY ModesNamed
<1>3. /\ pc[c] \in {"join", "assign", "start", "on_start", "clear_stopped"} => stopped[current]
      /\ pc[c] \in {"on_stop", "set_stopped", "launch"} => ~stopped[current]
  BY DEF Ordered, FlagTellsPlace
<1>4. pc \in [Commanders -> PCs]
  BY DEF TypeOK
<1>5. CASE ServoStopCheck(c)
  <2> DEFINE writes == IF stopped[current] THEN <<>> ELSE on_stop(current)
  <2>1. /\ pc[c] = "stop" /\ pc'[c] \in {"assign", "on_stop"} /\ Queue(c, writes)
        /\ current' = current /\ todo[c] = <<>>
    BY <1>1, <1>4, <1>5 DEF ServoStopCheck, StopCheck, Goto, robot
  <2>2. Meant(c) = current /\ Meant(c)' = "Idle"
    BY <2>1 DEF Meant
  <2>3. Fresh(writes)
    BY NothingFresh, OnStopFresh
  <2>4. CASE current = "Idle"
    <3>1. writes = <<>>
      BY <2>4 DEF on_stop
    <3>2. \A j \in Joints \ lost : owner[j] = "mode" => AsAsked(servo[j], AimsOf("Idle")[j])
      BY <1>2, <2>1, <2>2, <2>4, InChargeMade, NothingLeft
    <3>3. \A j \in ByModes \ lost : AsAsked(servo[j], AimsOf(current')[j])
      BY <2>1, <2>4, <3>2 DEF ByModes
    <3> HIDE DEF writes
    <3> QED
      BY <2>1, <2>2, <2>3, <3>1, <3>2, <3>3, QueueInCharge, NothingLeft
  <2>5. CASE current # "Idle"
    <3>1. writes = PowerDown
      BY <2>1, <2>5 DEF on_stop, InCharge
    <3>2. \A j \in Joints : AimsOf("Idle")[j] = "off"
      BY DEF AimsOf
    <3>3. Suited(PowerDown, AimsOf(current'))
      BY StopsAsMeant DEF Suited
    <3>4. NoAlt => \A j \in ByModes \ lost : AsAsked(servo[j], AimsOf(current')[j])
      BY <1>2, <2>1, <2>2, InChargeMade, NothingLeft DEF ByModes
    <3> HIDE DEF writes
    <3> QED
      BY <2>1, <2>2, <2>3, <3>1, <3>2, <3>3, <3>4, QueueInCharge, StopsAsMeant
  <2> QED
    BY <2>4, <2>5
<1>6. CASE ServoStartCheck(c)
  <2>1. /\ pc[c] = "start" /\ pc'[c] = "on_start" /\ Queue(c, on_start[current])
        /\ current' = current /\ todo[c] = <<>>
    BY <1>1, <1>3, <1>4, <1>6 DEF ServoStartCheck, StartCheck, Goto, robot
  <2>2. Meant(c) = "Idle" /\ Meant(c)' = current
    BY <2>1 DEF Meant
  <2>3. Fresh(on_start[current])
    BY <1>2, OnStartFresh
  <2>4. CASE current = "Idle"
    <3>1. on_start[current] = <<>>
      BY <2>4 DEF on_start
    <3>2. \A j \in Joints \ lost : owner[j] = "mode" => AsAsked(servo[j], AimsOf("Idle")[j])
      BY <1>2, <2>1, <2>2, InChargeMade, NothingLeft
    <3> QED
      BY <2>1, <2>2, <2>3, <2>4, <3>1, <3>2, QueueInCharge, NothingLeft
  <2>5. CASE current # "Idle"
    <3>1. StartsAs(on_start[current], AimsOf(current))
      BY <1>2, <2>5, StartsAsMeant
    <3> QED
      BY <2>1, <2>2, <2>3, <3>1, QueueInCharge DEF StartsAs
  <2> QED
    BY <2>4, <2>5
<1>7. CASE ServoKey(c)
  <2>1. PICK writes \in keys[current] : Queue(c, writes)
    BY <1>7 DEF ServoKey
  <2>2. /\ pc[c] = "ready" /\ pc'[c] = "key" /\ current' = current /\ stopped' = stopped
        /\ todo[c] = <<>>
    BY <1>1, <1>4, <1>7 DEF ServoKey, Key, Enter, Goto, robot, flags
  <2>3. Meant(c) = current /\ Meant(c)' = current
    BY <2>2 DEF Meant
  <2>4. Fresh(writes)
    BY <1>2, <2>1, KeysFresh
  <2>5. /\ current = "Idle" => writes = <<>>
        /\ NoAlt => OnlyGoals(writes) /\ Suited(writes, AimsOf(current))
    BY <1>2, <2>1, KeysAsMeant
  <2>5a. NoAlt \/ current = "Idle" => OnlyGoals(writes)
    BY <2>5, NothingLeft
  <2>6. NoAlt \/ current = "Idle" => \A j \in Joints : Obeys(writes, j, AimsOf(current)[j])
    <3>1. NoAlt => \A j \in Joints : Obeys(writes, j, AimsOf(current)[j])
      BY <2>5 DEF Obeys, OnlyGoals, IsGoal, Switches
    <3> QED
      BY <2>5, <3>1, NothingLeft
  <2>7. NoAlt \/ current = "Idle" =>
          \A j \in Joints \ lost : owner[j] = "mode" => AsAsked(servo[j], AimsOf(current)[j])
    BY <1>2, <2>2, <2>3, InChargeMade, NothingLeft
  <2>8. stopped[current] => current = "Idle"
    BY <2>2 DEF InCharge
  <2> QED
    BY <2>1, <2>2, <2>3, <2>4, <2>5, <2>5a, <2>6, <2>7, <2>8, QueueInCharge
<1>8. CASE QuietStep(c)
  <2>1. UNCHANGED <<servo, todo, lost, owner>> /\ todo[c] = <<>>
    BY <1>8, SkipsOverlap, QuietStepMoves
  <2>2. Meant(c)' = Meant(c) /\ pc'[c] # "on_stop"
    BY <1>8, SkipsOverlap, QuietStepMoves DEF Meant
  <2>3. pc'[c] \in {"ready", "key", "stop", "update"} /\ stopped'[current'] => current' = "Idle"
    BY <1>3, <1>8, SkipsOverlap, QuietStepMoves DEF InCharge
  <2> QED
    BY <2>1, <2>2, <2>3, QuietInCharge
<1> QED
  BY <1>5, <1>6, <1>7, <1>8

\* A client thread returns, and another is in charge with what it has left.
LEMMA ReturnHandsOver ==
  ASSUME TypeOK, ServoInv, ModesInv, NEW d \in Commanders, NEW c \in Commanders \ {d},
         InCharge(d), QuietStep(d), ~Skips(d),
         pc'[d] = "ready", pc[c] = "ready", pc'[c] = "ready"
  PROVE  InCharge(c)'
<1>1. /\ UNCHANGED <<servo, todo, lost, owner, current, stopped>> /\ todo[d] = <<>>
      /\ pc[d] \in {"key", "update"}
  BY QuietStepMoves
<1>2. todo[c] = <<>> /\ todo'[c] = <<>>
  BY <1>1 DEF ModesInv
<1>3. Meant(d) = current /\ Meant(c)' = current /\ current \in DOMAIN on_start
  BY <1>1, ModesNamed DEF Meant
<1>4. stopped[current] => current = "Idle"
  BY <1>1 DEF InCharge
<1>5. NoAlt \/ current = "Idle" =>
        \A j \in Joints \ lost : owner[j] = "mode" => AsAsked(servo[j], AimsOf(current)[j])
  BY <1>1, <1>3, InChargeMade, NothingLeft
<1>6. ASSUME NoAlt \/ current = "Idle", NEW m, m = current
      PROVE  Obeying(c, AimsOf(m))'
  BY <1>1, <1>2, <1>5, <1>6, NothingLeft, NothingFresh, CommandersSend DEF Obeying, Aimed
<1> QED
  BY <1>1, <1>2, <1>3, <1>4, <1>6, NothingLeft DEF InCharge

LEMMA CommanderModesInv ==
  ASSUME TypeOK, Ordered, ServoInv, ModesInv, NEW d \in Commanders, UNCHANGED motor_channel,
         ServoStopCheck(d) \/ ServoStartCheck(d) \/ ServoKey(d) \/ QuietStep(d)
  PROVE  ModesInv'
<1>1. d \in Senders /\ Radio \in Senders \ {d} /\ todo \in [Senders -> Seq(Writes)]
      /\ \A c \in Commanders : c \in Senders
  BY CommandersSend DEF ServoInv, ServosTyped
<1>2. pc \in [Commanders -> PCs] /\ pc' = [pc EXCEPT ![d] = pc'[d]]
  BY DEF TypeOK, ServoStopCheck, StopCheck, ServoStartCheck, StartCheck, ServoKey, Key, QuietStep,
     MethodDone, OnStop, OnStart, KeyDone, Silent, SetStopped, Join, Assign, ClearStopped, Launch,
     Update, Return, Command, Enter, Goto
<1>3. /\ UNCHANGED <<servo, lost, owner>> /\ \A x \in Senders \ {d} : todo'[x] = todo[x]
      /\ todo'[d] # <<>> => pc'[d] \in {"key", "on_stop", "on_start"}
  <2>1. CASE ServoStopCheck(d)
    BY <1>1, <1>2, <2>1 DEF ServoStopCheck, StopCheck, Goto, Queue
  <2>2. CASE ServoStartCheck(d)
    BY <1>1, <1>2, <2>2 DEF ServoStartCheck, StartCheck, Goto, Queue
  <2>3. CASE ServoKey(d)
    BY <1>1, <1>2, <2>3 DEF ServoKey, Key, Enter, Goto, Queue
  <2>4. CASE QuietStep(d) /\ ~Skips(d)
    BY <2>4, QuietStepMoves
  <2>5. CASE QuietStep(d) /\ Skips(d)
    <3>1. MethodDone(d)
      BY <2>5 DEF QuietStep, Skips, Silent, SetStopped, Join, Assign, ClearStopped, Launch, Update,
         Return, Command, Enter, Goto
    <3> QED
      BY <1>1, <3>1 DEF MethodDone, Queue
  <2> QED
    BY <2>1, <2>2, <2>3, <2>4, <2>5
<1>4. \A c \in Commanders : todo'[c] # <<>> => pc'[c] \in {"key", "on_stop", "on_start"}
  BY <1>1, <1>2, <1>3 DEF ModesInv
<1>5. Suited(todo[Radio], SwitchAims)'
  <2>1. SwitchAims' = SwitchAims
    BY DEF SwitchAims, Switch
  <2>2. todo'[Radio] = todo[Radio]
    BY <1>1, <1>3
  <2> QED
    BY <2>1, <2>2 DEF ModesInv, Suited
<1>6. ~overlap' => ~overlap /\ Alone(d)
  <2>1. SUFFICES ASSUME ~overlap'
                 PROVE  ~overlap /\ Alone(d)
    OBVIOUS
  <2>2. CASE ServoKey(d) \/ \E m \in Modes : Command(d, m) /\ Quiet
    BY <2>1, <2>2, EntersAlone DEF Alone, ServoKey, Key, Command
  <2>3. CASE ServoStopCheck(d) \/ ServoStartCheck(d) \/ MethodDone(d) \/ Silent(d)
    <3>1. overlap' = overlap /\ pc[d] # "ready"
      BY <2>3 DEF ServoStopCheck, StopCheck, ServoStartCheck, StartCheck, MethodDone, OnStop, OnStart,
         KeyDone, Silent, SetStopped, Join, Assign, ClearStopped, Launch, Update, Return, Goto
    <3> QED
      BY <2>1, <3>1 DEF Ordered, OneHandler, Alone
  <2> QED
    BY <2>2, <2>3 DEF QuietStep
<1>7. ASSUME ~overlap', NEW c \in Commanders, Alone(c)'
      PROVE  InCharge(c)'
  <2>1. InCharge(d) /\ Alone(d) /\ ~overlap
    BY <1>6, <1>7 DEF ModesInv
  <2>2. CASE c = d
    BY <2>1, <2>2, OwnStep
  <2>3. CASE c # d
    <3>1. pc'[d] = "ready" /\ pc[c] = "ready" /\ pc'[c] = "ready"
      BY <1>2, <1>7, <2>1, <2>3 DEF Alone
    <3>2. QuietStep(d)
      BY <3>1, <1>2 DEF ServoStopCheck, StopCheck, ServoStartCheck, StartCheck, ServoKey, Key, Enter, Goto
    <3> QED
      BY <2>1, <2>3, <3>1, <3>2, SkipsOverlap, ReturnHandsOver
  <2> QED
    BY <2>2, <2>3
<1> QED
  BY <1>3, <1>4, <1>5, <1>7 DEF ModesInv, ByModes

LEMMA SuitedTail ==
  ASSUME NEW s \in Seq(Writes), s # <<>>, NEW aim
  PROVE  /\ Suited(s, aim) => Suited(Tail(s), aim)
         /\ OnlyGoals(s) => OnlyGoals(Tail(s))
<1>1. /\ Len(s) \in Nat /\ DOMAIN s = 1..Len(s) /\ DOMAIN Tail(s) = 1..(Len(s) - 1)
      /\ \A i \in 1..(Len(s) - 1) : i + 1 \in DOMAIN s /\ Tail(s)[i] = s[i + 1]
  OBVIOUS
<1>2. OnlyGoals(s) => OnlyGoals(Tail(s))
  BY <1>1 DEF OnlyGoals
<1>3. ASSUME Suited(s, aim), NEW i \in DOMAIN Tail(s), IsGoal(Tail(s)[i])
      PROVE  /\ \A j \in Tail(s)[i].joints : aim[j] # "off" => Tail(s)[i].value = Registers[aim[j]].operating
             /\ \A n \in DOMAIN Tail(s) : n >= i => IsGoal(Tail(s)[n])
  <2>1. i + 1 \in DOMAIN s /\ Tail(s)[i] = s[i + 1]
    BY <1>1
  <2>2. \A n \in DOMAIN Tail(s) : n >= i => n + 1 \in DOMAIN s /\ n + 1 >= i + 1 /\ Tail(s)[n] = s[n + 1]
    BY <1>1
  <2> QED
    BY <1>3, <2>1, <2>2 DEF Suited
<1> QED
  BY <1>2, <1>3 DEF Suited

\* A write changes a servo only if its thread was the last to switch it, or is
\* now.
LEMMA OthersUntouched ==
  ASSUME ServoInv, NEW x \in Senders, SendsFirst(x), NEW j \in Joints, j \notin lost', owner'[j] # Who(x)
  PROVE  servo'[j] = servo[j] /\ owner'[j] = owner[j] /\ j \notin lost
<1> DEFINE w == todo[x][1]
<1>1. w \in Writes /\ Underway(x) /\ todo[x] # <<>> /\ ServosTyped /\ Transmit(x, w)
  BY FirstIsAWrite DEF ServoInv, ServosTyped, SendsFirst
<1> HIDE DEF w
<1>2. CASE j \notin w.joints \/ IsGoal(w)
  BY <1>1, <1>2, WriteReaches
<1>3. CASE j \in w.joints /\ ~IsGoal(w)
  <2>1. /\ j \in lost => w.item = "torque" /\ ~w.value
        /\ owner'[j] = IF w.item = "torque" THEN Who(x) ELSE owner[j]
    BY <1>1, <1>3, WriteReaches
  <2>2. w.item # "torque" /\ j \notin lost
    BY <2>1
  <2>3. \A i \in Joints : w # TorqueOff(i)
    BY <2>2 DEF TorqueOff, Write
  <2>4. PICK i \in Joints, m \in ControlModes, k \in 2..6 : HalfDone(x, i, m, k) /\ w = Nth(i, m, k)
    BY <1>1, <1>3, <2>3, FirstWrite DEF w
  <2>5. k \in {2, 3, 4, 5, 6}
    OBVIOUS
  <2>6. i = j
    BY <1>3, <2>4, <2>5, NthWrites DEF Write
  <2>7. owner[j] = Who(x)
    BY <2>2, <2>4, <2>6 DEF HalfDone
  <2> QED
    BY <2>1, <2>2, <2>7
<1> QED
  BY <1>2, <1>3

\* A write of the thread in charge, or of the radio.
LEMMA BusInCharge ==
  ASSUME TypeOK, ServoInv, NEW c \in Commanders, InCharge(c), NEW x \in {c, Radio}, SendsFirst(x),
         UNCHANGED <<pc, current, stopped>>
  PROVE  InCharge(c)'
<1>1. c \in Senders /\ x \in Senders /\ (x = c \/ Who(x) # Who(c)) /\ Who(c) = "mode"
  BY CommandersSend
<1>2. Meant(c)' = Meant(c)
  BY DEF Meant
<1>3. \A m \in DOMAIN on_start : Obeying(c, AimsOf(m)) => Obeying(c, AimsOf(m))'
  BY <1>1, SendsObeying, AimsTyped
<1>4. todo \in [Senders -> Seq(Writes)] /\ todo[x] # <<>>
      /\ todo'[c] = IF x = c THEN Tail(todo[c]) ELSE todo[c]
  BY <1>1 DEF ServoInv, ServosTyped, SendsFirst
<1>5. /\ Suited(todo[c], AimsOf(current)) => Suited(todo'[c], AimsOf(current'))
      /\ OnlyGoals(todo[c]) => OnlyGoals(todo'[c])
  BY <1>1, <1>4, SuitedTail
<1>6. ASSUME NoAlt, pc[c] = "on_stop", NEW j \in Joints, j \notin lost', owner'[j] = "mode",
             servo'[j].torque
      PROVE  AsAsked(servo'[j], AimsOf(current)[j])
  <2>1. CASE servo'[j] = servo[j] /\ owner'[j] = owner[j] /\ j \notin lost
    BY <1>6, <2>1 DEF InCharge, ByModes
  <2>2. CASE x = Radio
    <3>1. owner'[j] # Who(x)
      BY <1>6, <2>2, CommandersSend
    <3> QED
      BY <1>1, <1>6, <2>1, <3>1, OthersUntouched
  <2>3. CASE x = c
    <3> DEFINE w == todo[x][1]
    <3>1. w \in Writes /\ ServosTyped /\ Transmit(x, w)
      BY <1>1, FirstIsAWrite DEF ServoInv, ServosTyped, SendsFirst
    <3>2. Fresh(todo[c])
      <4>1. Meant(c) = "Idle" /\ "Idle" \in DOMAIN on_start
        BY <1>6, ModesNamed DEF Meant
      <4>2. Aimed(c, AimsOf("Idle"))
        BY <1>6, <4>1 DEF InCharge, Obeying
      <4> QED
        BY <4>2 DEF Aimed, AimsOf
    <3>3. IsGoal(w) \/ \E i \in Joints : w = TorqueOff(i)
      BY <1>4, <2>3, <3>2 DEF Fresh, IsOff
    <3> HIDE DEF w
    <3>4. CASE IsGoal(w) \/ j \notin w.joints
      BY <1>6, <2>1, <3>1, <3>4, WriteReaches
    <3>5. CASE ~IsGoal(w) /\ j \in w.joints
      <4>1. servo'[j] = Written(servo[j], w) /\ servo[j] \in Tables
        BY <1>6, <3>1, <3>5, WriteReaches DEF ServosTyped
      <4>2. w.item = "torque" /\ w.value = FALSE
        BY <3>3, <3>5 DEF TorqueOff, Write
      <4> QED
        BY <1>6, <4>1, <4>2 DEF Written, Tables
    <3> QED
      BY <3>4, <3>5
  <2> QED
    BY <2>2, <2>3
<1> QED
  BY <1>2, <1>3, <1>5, <1>6 DEF InCharge, ByModes

LEMMA BusModesInv ==
  ASSUME TypeOK, ServoInv, ModesInv, NEW x \in Senders, SendsFirst(x),
         UNCHANGED <<pc, current, stopped, overlap>>
  PROVE  ModesInv'
<1>1. /\ todo \in [Senders -> Seq(Writes)] /\ todo[x] # <<>> /\ Radio \in Senders
      /\ \A y \in Senders : todo'[y] = IF y = x THEN Tail(todo[x]) ELSE todo[y]
      /\ \A c \in Commanders : c \in Senders
  BY DEF ServoInv, ServosTyped, SendsFirst, Senders
<1>2. \A c \in Commanders : todo'[c] # <<>> => todo[c] # <<>>
  BY <1>1
<1>3. Suited(todo[Radio], SwitchAims)'
  <2>1. SwitchAims' = SwitchAims
    BY DEF SwitchAims, Switch, SendsFirst
  <2>2. Suited(todo'[Radio], SwitchAims)
    BY <1>1, SuitedTail DEF ModesInv
  <2> QED
    BY <2>1, <2>2 DEF Suited
<1>4. ByModes' # {} => Commanders # {}
  <2>1. CASE x \in Commanders
    BY <2>1
  <2>2. CASE x = Radio
    <3>1. todo[x][1] \in Writes /\ ServosTyped /\ Transmit(x, todo[x][1])
      BY FirstIsAWrite DEF ServoInv, ServosTyped, SendsFirst
    <3>2. \A j \in Joints : owner'[j] = "mode" => owner[j] = "mode"
      BY <2>2, <3>1, WriteReaches DEF Who
    <3> QED
      BY <3>2 DEF ModesInv, ByModes
  <2> QED
    BY <2>1, <2>2 DEF Senders
<1>5. ASSUME ~overlap', NEW c \in Commanders, Alone(c)'
      PROVE  InCharge(c)'
  <2>1. InCharge(c) /\ Alone(c)
    BY <1>5 DEF ModesInv, Alone
  <2>2. x \in {c, Radio}
    BY <1>1, <2>1 DEF Alone, ModesInv, Senders
  <2> QED
    BY <2>1, <2>2, BusInCharge
<1> QED
  BY <1>2, <1>3, <1>4, <1>5 DEF ModesInv

LEMMA SwitchModesInv ==
  ASSUME TypeOK, ServoInv, ModesInv, NEW side \in {"left", "right"},
         NEW state \in {"low", "middle", "high"}, SwitchMotors(side, state) \/ Stick
  PROVE  ModesInv'
<1>1. PICK writes : /\ Queue(Radio, writes) /\ Fresh(writes)
                    /\ UNCHANGED <<pc, current, stopped, overlap>>
                    /\ Suited(writes, SwitchAims')
  <2>1. CASE SwitchMotors(side, state)
    <3>1. /\ Queue(Radio, Motors(side, state)) /\ Fresh(Motors(side, state))
          /\ UNCHANGED <<pc, current, stopped, overlap>>
      <4>1. PICK j \in Joints : j \notin {Wheel[side], Ankle[side]}
        BY JointsAre DEF Wheel, Ankle
      <4> QED
        BY <2>1, <4>1, MotorsObey DEF SwitchMotors, vars
    <3>2. \A i \in DOMAIN Motors(side, state) : ~IsGoal(Motors(side, state)[i])
      <4> DEFINE a == Wheel[side]
                 b == Ankle[side]
                 s == set_joint_control_mode(a, "velocity")
                 t == set_joint_control_mode(b, "velocity")
      <4>1. a \in Joints /\ b \in Joints /\ "velocity" \in ControlModes
        BY JointsAre DEF Wheel, Ankle, ControlModes
      <4>2. CASE state = "low"
        <5>1. Motors(side, state) = <<TorqueOff(a), TorqueOff(b)>>
          BY <4>2 DEF Motors
        <5>2. ~IsGoal(TorqueOff(a)) /\ ~IsGoal(TorqueOff(b))
          BY DEF IsGoal, TorqueOff, Write
        <5> HIDE DEF a, b
        <5>3. \A i \in DOMAIN Motors(side, state) : i = 1 \/ i = 2
          BY <5>1
        <5> QED
          BY <5>1, <5>2, <5>3
      <4>3. CASE state # "low"
        <5>1. s \in Seq(Writes) /\ t \in Seq(Writes)
          BY <4>1, NthWrites
        <5>2. \A i \in DOMAIN s : ~IsGoal(s[i])
          BY <4>1, NoGoals
        <5>3. \A i \in DOMAIN t : ~IsGoal(t[i])
          BY <4>1, NoGoals
        <5>4. Motors(side, state) = s \o t
          BY <4>3 DEF Motors
        <5> HIDE DEF s, t
        <5> QED
          BY <5>1, <5>2, <5>3, <5>4, NoGoals
      <4> QED
        BY <4>2, <4>3
    <3>3. Suited(Motors(side, state), SwitchAims')
      BY <3>2 DEF Suited
    <3> QED
      BY <3>1, <3>3
  <2>2. CASE Stick
    <3>1. PICK joints \in SUBSET Joints : Queue(Radio, set_joint_speed(joints))
      BY <2>2 DEF Stick, TurnJoints, MoveJoints, Joints, LeftJoints, RightJoints
    <3>2. UNCHANGED <<pc, current, stopped, overlap>> /\ SwitchAims' = SwitchAims
      BY <2>2 DEF Stick, vars, radio, SwitchAims, Switch
    <3>3. \A j \in joints : SwitchAims[j] # "off" => "velocity" = Registers[SwitchAims[j]].operating
      BY DEF SwitchAims, Registers
    <3>4. set_joint_speed(joints) = <<Write("goal", joints, "velocity")>> /\ "velocity" \in Names
      BY DEF set_joint_speed, Names
    <3>5. ASSUME NEW aim, aim = SwitchAims
          PROVE  Suited(<<Write("goal", joints, "velocity")>>, aim)
      BY <3>3, <3>4, <3>5, GoalSuits
    <3>6. Suited(set_joint_speed(joints), SwitchAims')
      BY <3>2, <3>4, <3>5
    <3> QED
      BY <3>1, <3>2, <3>6, GoalsFresh
  <2> QED
    BY <2>1, <2>2
<1>2. /\ todo'[Radio] = writes /\ \A c \in Commanders : todo'[c] = todo[c]
      /\ UNCHANGED <<servo, lost, owner>> /\ Radio \in Senders
  BY <1>1, CommandersSend DEF Queue, ServoInv, ServosTyped, Senders
<1>3. ASSUME ~overlap', NEW c \in Commanders, Alone(c)'
      PROVE  InCharge(c)'
  <2>1. InCharge(c)
    BY <1>1, <1>3 DEF ModesInv, Alone
  <2>2. \A m \in DOMAIN on_start : Obeying(c, AimsOf(m)) => Obeying(c, AimsOf(m))'
    BY <1>1, <1>2, CommandersSend, QueuesObeying, AimsTyped
  <2>3. Meant(c)' = Meant(c) /\ ByModes' = ByModes
    BY <1>1, <1>2 DEF Meant, ByModes
  <2> QED
    BY <1>1, <1>2, <2>1, <2>2, <2>3 DEF InCharge
<1> QED
  BY <1>1, <1>2, <1>3 DEF ModesInv, Suited, ByModes

LEMMA ModesStay ==
  ASSUME ModesInv, UNCHANGED <<servo, todo, lost, owner, motor_channel, pc, current, stopped>>,
         overlap' = overlap
  PROVE  ModesInv'
<1>1. \A c \in Commanders : \A aim : Obeying(c, aim) => Obeying(c, aim)'
  BY ObeyingStays
<1>2. \A c \in Commanders : Meant(c)' = Meant(c) /\ (Alone(c)' => Alone(c))
  BY DEF Meant, Alone
<1>3. ByModes' = ByModes /\ SwitchAims' = SwitchAims
  BY DEF ByModes, SwitchAims, Switch
<1>4. \A c \in Commanders : InCharge(c) => InCharge(c)'
  BY <1>1, <1>2, <1>3 DEF InCharge
<1> QED
  BY <1>2, <1>3, <1>4 DEF ModesInv, Suited

LEMMA ModesInvInit == RobotInit => ModesInv
<1> SUFFICES ASSUME RobotInit
             PROVE  ModesInv
  OBVIOUS
<1>1. /\ todo = [x \in Senders |-> <<>>] /\ owner = [j \in Joints |-> "nobody"]
      /\ \A c \in Commanders : todo[c] = <<>> /\ pc[c] = "ready"
      /\ current = "Idle"
  BY IdleAssumption DEF RobotInit, ServoInit, Init, Senders
<1>2. todo[Radio] = <<>> /\ ByModes = {}
  BY <1>1 DEF Senders, ByModes
<1>3. \A c \in Commanders : \A m \in DOMAIN on_start : Obeying(c, AimsOf(m))
  BY <1>1, NothingLeft, NothingFresh, CommandersSend DEF Obeying, Aimed
<1>4. \A c \in Commanders : InCharge(c)
  BY <1>1, <1>3, NothingLeft DEF InCharge
<1> QED
  BY <1>1, <1>2, <1>4, NothingLeft DEF ModesInv

LEMMA ModesInvStep == TypeOK /\ Ordered /\ ServoInv /\ ModesInv /\ [RobotNext]_control => ModesInv'
<1> SUFFICES ASSUME TypeOK, Ordered, ServoInv, ModesInv, [RobotNext]_control
             PROVE  ModesInv'
  OBVIOUS
<1>1. CASE ServoNext /\ UNCHANGED radio
  <2>1. UNCHANGED motor_channel
    BY <1>1 DEF radio
  <2>2. ASSUME NEW c \in Commanders,
               \/ ServoStopCheck(c) \/ ServoStartCheck(c) \/ ServoKey(c)
               \/ MethodDone(c) \/ Silent(c)
               \/ \E m \in Modes : Command(c, m) /\ Quiet
        PROVE  ModesInv'
    BY <2>1, <2>2, CommanderModesInv DEF QuietStep
  <2>3. ASSUME NEW c \in Commanders, Bus(c)
        PROVE  ModesInv'
    <3>1. c \in Senders /\ UNCHANGED <<pc, current, stopped, overlap>>
      BY <2>3, CommandersSend DEF Bus, vars
    <3> QED
      BY <2>1, <2>3, <3>1, BusIsFirst, BusModesInv
  <2>4. ASSUME NEW t \in Threads, ServoLoopBody(t) \/ (LoopCheck(t) /\ Quiet)
        PROVE  ModesInv'
    <3>1. UNCHANGED <<servo, todo, lost, owner>>
      BY <2>4, LoopBodyShows DEF Quiet, servos
    <3>2. UNCHANGED <<pc, current, stopped>> /\ overlap' = overlap
      BY <2>4 DEF ServoLoopBody, LoopBody, LoopCheck, robot, flags
    <3> QED
      BY <2>1, <3>1, <3>2, ModesStay
  <2> QED
    BY <1>1, <2>2, <2>3, <2>4 DEF ServoNext
<1>2. CASE RadioNext
  <2>1. CASE Stick \/ \E side \in Sides, state \in States : SwitchMotors(side, state)
    <3>1. "left" \in {"left", "right"} /\ "low" \in {"low", "middle", "high"}
      OBVIOUS
    <3> QED
      BY <2>1, <3>1, SidesAssumption, SwitchModesInv
  <2>2. CASE Bus(Radio) /\ UNCHANGED radio
    <3>1. Radio \in Senders /\ UNCHANGED <<pc, current, stopped, overlap, motor_channel>>
      BY <2>2 DEF Bus, vars, radio, Senders
    <3> QED
      BY <2>2, <3>1, BusIsFirst, BusModesInv
  <2> QED
    BY <1>2, <2>1, <2>2 DEF RadioNext
<1>3. CASE UNCHANGED control
  BY <1>3, ModesStay DEF control, robotVars, vars, servos, radio
<1> QED
  BY <1>1, <1>2, <1>3 DEF RobotNext

LEMMA ModesInvAlways == RobotSpec => [](TypeOK /\ Ordered /\ ServoInv /\ ModesInv)
<1>1. RobotSpec => [](TypeOK /\ Ordered)
  BY RobotLifeCycle, TypeCorrect, OrderedAlways, PTL
<1> QED
  BY <1>1, ServoInvAlways, ModesInvInit, ModesInvStep, PTL DEF RobotSpec

------------------------------------------------------------------------------
(* The theorems.                                                            *)

\* However the writes of client threads, control loops and the radio come in
\* between one another, a servo that has missed none and that no two threads
\* have configured at once is never powered with registers of two different
\* joint control modes (DynamixelKinematics::set_joint_control_mode).
THEOREM PoweredStaysConsistent == RobotSpec => []PoweredIsConsistent
<1>1. ServoInv => PoweredIsConsistent
  <2>1. ControlModes = DOMAIN Registers
    BY DEF ControlModes, Registers
  <2> QED
    BY <2>1 DEF ServoInv, Consistent, PoweredIsConsistent
<1> QED
  BY <1>1, ServoInvAlways, PTL

\* When the handler of a motor switch is done, the joints of its side that the
\* radio was the last to switch are as the switch asks for
\* (Robot::on_rc_radio_channel_change), wherever the writes of a mode came in.
THEOREM SwitchesStayObeyed == RobotSpec => []SwitchesObeyed
<1>1. ServoInv => SwitchesObeyed
  <2> SUFFICES ASSUME ServoInv, todo[Radio] = <<>>, NEW side \in Sides,
                      NEW j \in {Wheel[side], Ankle[side]} \ lost, owner[j] = "radio"
               PROVE  IF motor_channel[side] = "low" THEN ~servo[j].torque
                      ELSE servo[j] = Configured("velocity", TRUE)
    BY DEF SwitchesObeyed
  <2>1. side \in {"left", "right"}
    BY SidesAssumption
  <2>2. j \in Joints /\ Switch(j) = motor_channel[side]
    BY <2>1 DEF Wheel, Ankle, Switch, Joints, LeftJoints, RightJoints
  <2>3. ~Powers(todo[Radio], j)
    BY DEF Powers
  <2> QED
    BY <2>2, <2>3 DEF ServoInv, Obeying, AsAsked, SwitchAims, Who
<1> QED
  BY <1>1, ServoInvAlways, PTL

\* When no two handlers overlap there is a client thread in charge, if there is
\* one at all.
LEMMA SomeoneInCharge ==
  ASSUME Ordered, ModesInv, ~overlap, Commanders # {}
  PROVE  \E c \in Commanders : Alone(c) /\ InCharge(c)
<1>1. \E c \in Commanders : Alone(c)
  <2>1. CASE \E c \in Commanders : pc[c] # "ready"
    BY <2>1 DEF Ordered, OneHandler, Alone
  <2>2. CASE \A c \in Commanders : pc[c] = "ready"
    BY <2>2 DEF Alone
  <2> QED
    BY <2>1, <2>2
<1> QED
  BY <1>1 DEF ModesInv

\* Between the commands of clients that take turns, the joints that a mode was
\* the last to switch, and that have missed no write since they were off, have
\* the registers that on_start() of the running mode gives them
\* (Locomotion::start), whichever modes ran before, whatever the keys, the
\* control loop and the radio sent, and however an earlier run of the program
\* left the servos.  The key that turns the pole mode with Alt held leaves the
\* wheels in another mode: no client may hold it.
THEOREM ConfigurationSettles ==
  ASSUME "Alt" \notin Modifiers
  PROVE  RobotSpec => []SettledConfiguration
<1>1. TypeOK /\ Ordered /\ ServoInv /\ ModesInv => SettledConfiguration
  <2> SUFFICES ASSUME TypeOK, Ordered, ServoInv, ModesInv, Settled, current # "Idle",
                      NEW j \in ByModes \ lost, NEW item \in DOMAIN servo[j]
               PROVE  servo[j][item] = Last(on_start[current], j, item)
    BY DEF SettledConfiguration
  <2>1. j \in Joints \ lost /\ owner[j] = "mode" /\ NoAlt
    BY DEF ByModes, NoAlt
  <2>2. PICK c \in Commanders : Alone(c) /\ InCharge(c) /\ pc[c] \in {"ready", "key"}
    BY SomeoneInCharge DEF ModesInv, Settled
  <2>3. Meant(c) = current /\ current \in DOMAIN on_start
    BY <2>2, ModesNamed DEF Meant
  <2>4. ~Powers(todo[c], j)
    <3>1. OnlyGoals(todo[c])
      BY <2>1, <2>2, NothingLeft DEF InCharge, ModesInv
    <3> QED
      BY <3>1 DEF OnlyGoals, IsGoal, Powers, Switches
  <2>5. servo[j] = Configured(AimsOf(current)[j], TRUE) /\ AimsOf(current)[j] \in ControlModes
    <3>1. AsAsked(servo[j], AimsOf(current)[j])
      BY <2>1, <2>2, <2>3, <2>4, InChargeMade
    <3>2. AimsOf(current)[j] \in ControlModes
      BY <2>1, AimsTyped
    <3> QED
      BY <3>1, <3>2 DEF AsAsked, ControlModes
  <2>6. item \in {"torque", "drive", "operating", "acceleration", "velocity"}
    BY <2>5 DEF Configured
  <2>7. /\ on_start[current] \in Seq(Writes)
        /\ Makes(on_start[current], j, AimsOf(current)[j])
    BY <2>1, <2>3, StartsAsMeant DEF StartsAs
  <2>8. PICK i \in DOMAIN on_start[current] :
          /\ LastFor(on_start[current], j, item, i)
          /\ on_start[current][i].value = Configured(AimsOf(current)[j], TRUE)[item]
    BY <2>6, <2>7 DEF Makes
  <2>9. Last(on_start[current], j, item) = on_start[current][i].value
    BY <2>7, <2>8, LastIsLastFor
  <2> QED
    BY <2>5, <2>8, <2>9
<1> QED
  BY <1>1, ModesInvAlways, PTL

\* A goal that a key, a control loop or a stick is about to send suits the
\* operating mode of every powered joint that its sender was the last to switch
\* (Kinematics::set_joint_position, set_joint_speed), unless two handlers have
\* overlapped or the key that turns the pole mode is used.
THEOREM GoalsFit ==
  ASSUME "Alt" \notin Modifiers
  PROVE  RobotSpec => []GoalFits
<1>1. TypeOK /\ Ordered /\ ServoInv /\ ModesInv => GoalFits
  <2> SUFFICES ASSUME TypeOK, Ordered, ServoInv, ModesInv, ~overlap,
                      NEW x \in Senders \union Threads, NEW w \in NextWrites(x), IsGoal(w),
                      NEW j \in w.joints \ lost, owner[j] = Who(x), servo[j].torque
               PROVE  servo[j].operating = w.value
    BY DEF GoalFits, IsGoal
  <2>1. NoAlt /\ todo \in [Senders -> Seq(Writes)]
    BY DEF NoAlt, ServoInv, ServosTyped
  <2>2. ASSUME NEW aim \in [Joints -> Aims], x \in Senders, Suited(todo[x], aim), Obeying(x, aim)
        PROVE  servo[j].operating = w.value
    <3>1. todo[x] # <<>> /\ w = todo[x][1] /\ w \in Writes /\ 1 \in DOMAIN todo[x]
      <4>1. todo[x] # <<>> /\ w = Head(todo[x])
        BY <2>2 DEF NextWrites
      <4> QED
        BY <2>1, <2>2, <4>1, FirstIsAWrite
    <3>2. j \in Joints
      BY <3>1 DEF Writes
    <3>3. \A n \in DOMAIN todo[x] : IsGoal(todo[x][n])
      <4>1. \A n \in DOMAIN todo[x] : n >= 1
        BY <2>1, <2>2
      <4> QED
        BY <2>2, <3>1, <4>1 DEF Suited
    <3>4. ~Powers(todo[x], j)
      BY <3>3 DEF IsGoal, Powers, Switches
    <3>5. AsAsked(servo[j], aim[j])
      BY <2>2, <3>2, <3>4 DEF Obeying
    <3>6. aim[j] # "off" /\ servo[j] = Configured(aim[j], TRUE)
      BY <3>5 DEF AsAsked
    <3> QED
      BY <2>2, <3>1, <3>6 DEF Suited, Configured
  <2>3. CASE x = Radio
    <3>1. Radio \in Senders
      BY DEF Senders
    <3> QED
      BY <2>2, <2>3, <3>1, SwitchAimsTyped DEF ServoInv, ModesInv
  <2>4. CASE x \in Commanders
    <3>1. todo[x] # <<>> /\ x \in Senders
      BY <2>4 DEF NextWrites, Senders
    <3>2. pc[x] \in {"key", "on_stop", "on_start"}
      BY <2>4, <3>1 DEF ModesInv
    <3>3. InCharge(x)
      BY <2>4, <3>2 DEF ModesInv, Alone, Ordered, OneHandler
    <3>4. Meant(x) \in DOMAIN on_start
      BY <3>2, ModesNamed DEF Meant
    <3>5. CASE pc[x] \in {"key", "on_start"}
      <4>1. Meant(x) = current
        BY <3>5 DEF Meant
      <4>2. Suited(todo[x], AimsOf(current)) /\ Obeying(x, AimsOf(current))
        BY <2>1, <3>3, <3>4, <4>1 DEF InCharge
      <4> QED
        BY <2>2, <3>1, <4>2, AimsTyped
    <3>6. CASE pc[x] = "on_stop"
      <4>1. \A i \in ByModes \ lost : servo[i].torque => AsAsked(servo[i], AimsOf(current)[i])
        BY <2>1, <3>3, <3>6 DEF InCharge
      <4>2. Suited(todo[x], AimsOf(current))
        BY <2>1, <3>3 DEF InCharge
      <4>3. w = todo[x][1] /\ w \in Writes /\ 1 \in DOMAIN todo[x]
        <5>1. w = Head(todo[x])
          BY <3>1 DEF NextWrites
        <5> QED
          BY <2>1, <3>1, <5>1, FirstIsAWrite
      <4>4. j \in Joints /\ owner[j] = "mode"
        BY <2>4, <4>3, CommandersSend DEF Writes
      <4>5. AsAsked(servo[j], AimsOf(current)[j])
        BY <4>1, <4>4 DEF ByModes
      <4>6. AimsOf(current)[j] # "off" /\ servo[j] = Configured(AimsOf(current)[j], TRUE)
        BY <4>5 DEF AsAsked
      <4> QED
        BY <4>2, <4>3, <4>6 DEF Suited, Configured
    <3> QED
      BY <3>2, <3>5, <3>6
  <2>5. CASE x \in Threads /\ x \notin Senders
    <3>1. PICK writes \in control_loop[loop_of[x]] :
            writes # <<>> /\ w = Head(writes) /\ loop_at[x] = "body"
      BY <2>5 DEF NextWrites
    <3>2. loop_of[x] = current /\ current \in DOMAIN control_loop
      BY <2>5, <3>1, ModesNamed, SameModes DEF Ordered, OnlyCurrentRuns, Running
    <3>3. j \in Joints /\ w.value = Registers[AimsOf(current)[j]].operating /\ current # "Idle"
      BY <3>1, <3>2, LoopsAsMeant
    <3>4. owner[j] = "mode"
      <4>1. x # Radio
        BY <2>5 DEF Senders
      <4> QED
        BY <4>1 DEF Who
    <3>5. PICK c \in Commanders : Alone(c) /\ InCharge(c)
      BY <3>3, <3>4, SomeoneInCharge DEF ModesInv, ByModes
    <3>6. pc[c] \notin {"assign", "start", "on_start", "clear_stopped", "launch"}
      BY <2>5, <3>1 DEF Ordered, FlagTellsPlace, FlagTellsLoop, OneHandler, Running
    <3>7. AsAsked(servo[j], AimsOf(current)[j])
      <4>1. CASE pc[c] = "on_stop"
        BY <2>1, <3>3, <3>4, <3>5, <4>1 DEF InCharge, ByModes
      <4>2. CASE pc[c] # "on_stop"
        <5>1. ~Powers(todo[c], j)
          <6>1. pc[c] # "key" => todo[c] = <<>>
            BY <3>6, <4>2 DEF ModesInv
          <6>2. OnlyGoals(todo[c])
            BY <2>1, <3>5, <6>1, NothingLeft DEF InCharge
          <6> QED
            BY <6>2 DEF OnlyGoals, IsGoal, Powers, Switches
        <5>2. AsAsked(servo[j], AimsOf(Meant(c))[j])
          <6>1. Meant(c) \in DOMAIN on_start
            BY ModesNamed DEF Meant
          <6> QED
            BY <2>1, <3>3, <3>4, <3>5, <5>1, <6>1, InChargeMade
        <5>3. Meant(c) # "Idle"
          BY <5>2, <3>3 DEF AsAsked, AimsOf
        <5>4. Meant(c) = current
          BY <5>3 DEF Meant
        <5> QED
          BY <5>2, <5>4
      <4> QED
        BY <4>1, <4>2
    <3>8. AimsOf(current)[j] # "off" /\ servo[j] = Configured(AimsOf(current)[j], TRUE)
      BY <3>7 DEF AsAsked
    <3> QED
      BY <3>3, <3>8 DEF Configured
  <2> QED
    BY <2>3, <2>4, <2>5 DEF Senders
<1> QED
  BY <1>1, ModesInvAlways, PTL

\* When the clients have made the robot idle, taking turns, the joints that a
\* mode was the last to switch and that have missed no write are without power
\* (Locomotion::stop, on_stop() of the modes), whichever keys were used.
THEOREM IdleIsUnpowered == RobotSpec => []IdleUnpowered
<1>1. TypeOK /\ Ordered /\ ServoInv /\ ModesInv => IdleUnpowered
  <2> SUFFICES ASSUME TypeOK, Ordered, ServoInv, ModesInv, Settled, current = "Idle",
                      NEW j \in ByModes \ lost
               PROVE  ~servo[j].torque
    BY DEF IdleUnpowered
  <2>1. j \in Joints \ lost /\ owner[j] = "mode"
    BY DEF ByModes
  <2>2. PICK c \in Commanders : Alone(c) /\ InCharge(c) /\ pc[c] \in {"ready", "key"}
    BY SomeoneInCharge DEF ModesInv, Settled
  <2>3. Meant(c) = "Idle" /\ "Idle" \in DOMAIN on_start
    BY <2>2, ModesNamed DEF Meant
  <2>4. AimsOf("Idle")[j] = "off"
    BY <2>1 DEF AimsOf
  <2>5. ~Powers(todo[c], j)
    <3>1. OnlyGoals(todo[c])
      BY <2>2, NothingLeft DEF InCharge, ModesInv
    <3> QED
      BY <3>1 DEF OnlyGoals, IsGoal, Powers, Switches
  <2>6. AsAsked(servo[j], AimsOf(Meant(c))[j])
    BY <2>1, <2>2, <2>3, <2>5, InChargeMade
  <2> QED
    BY <2>3, <2>4, <2>6 DEF AsAsked
<1> QED
  BY <1>1, ModesInvAlways, PTL

==============================================================================
