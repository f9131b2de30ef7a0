------------------------------ MODULE Locomotion ------------------------------
(***************************************************************************)
(* The life cycle of the locomotion modes: the mode commands and key       *)
(* commands that client threads execute (Robot::add_locomotion and the     *)
(* arrow commands of Robot::Robot), Locomotion::start, Locomotion::stop    *)
(* and the control loop thread that start launches.                        *)
(*                                                                         *)
(* None of this is protected by a lock.  The variable overlap remembers    *)
(* whether two client threads were ever inside a command handler together: *)
(* most guarantees hold until that happens, and only until then.           *)
(***************************************************************************)
EXTENDS FiniteSets

CONSTANTS
  Modes,        \* the Locomotion objects of Robot::locomotion_modes
  Idle,         \* the mode that is current after construction
  Commanders,   \* client threads, each of which runs one handler at a time
  Threads,      \* identities of std::thread objects, reused after delete
  NoThread,     \* a pointer to no std::thread, or to a deleted one
  NoMode        \* no mode at all

ASSUME ModesAssumption  == Idle \in Modes /\ NoMode \notin Modes
ASSUME ThreadAssumption == NoThread \notin Threads

VARIABLES
  current,              \* Robot::current_locomotion_mode
  mode,                 \* value of the telemetry item "Mode of operation"
  stopped,              \* Locomotion::stopped of each mode
  control_loop_thread,  \* Locomotion::control_loop_thread of each mode
  loop_of,              \* the mode whose control loop a thread executes
  loop_at,              \* where that thread is
  pc,                   \* where each client thread is
  target,               \* the mode a mode command was issued for
  this,                 \* the object whose method a client thread executes
  joining,              \* the thread that stop() waits for
  undefined,            \* a thread object was used after its deletion
  overlap               \* history: two handlers were executing at once

robot    == <<current, mode>>
flags    == <<stopped, control_loop_thread>>
loops    == <<loop_of, loop_at>>
client   == <<target, this, joining>>
vars     == <<current, mode, stopped, control_loop_thread, loop_of, loop_at,
              pc, target, this, joining, undefined, overlap>>

PCs == {"ready", "key", "stop", "on_stop", "set_stopped", "join", "assign",
        "start", "on_start", "clear_stopped", "launch", "update"}

LoopPCs == {"none", "check", "body", "exited"}

\* The threads that may still execute a control loop.
Live == {t \in Threads : loop_at[t] \in {"check", "body"}}

TypeOK ==
  /\ current \in Modes
  /\ mode \in Modes
  /\ stopped \in [Modes -> BOOLEAN]
  /\ control_loop_thread \in [Modes -> Threads \union {NoThread}]
  /\ loop_of \in [Threads -> Modes]
  /\ loop_at \in [Threads -> LoopPCs]
  /\ pc \in [Commanders -> PCs]
  /\ target \in [Commanders -> Modes]
  /\ this \in [Commanders -> Modes]
  /\ joining \in [Commanders -> Threads \union {NoThread}]
  /\ undefined \in BOOLEAN
  /\ overlap \in BOOLEAN

\* The constructor makes Idle current without starting it.
Init ==
  /\ current = Idle
  /\ mode = Idle
  /\ stopped = [m \in Modes |-> TRUE]
  /\ control_loop_thread = [m \in Modes |-> NoThread]
  /\ loop_of = [t \in Threads |-> Idle]
  /\ loop_at = [t \in Threads |-> "none"]
  /\ pc = [c \in Commanders |-> "ready"]
  /\ target = [c \in Commanders |-> Idle]
  /\ this = [c \in Commanders |-> Idle]
  /\ joining = [c \in Commanders |-> NoThread]
  /\ undefined = FALSE
  /\ overlap = FALSE

Goto(c, from, to) ==
  /\ pc[c] = from
  /\ pc' = [pc EXCEPT ![c] = to]

\* A handler returns, and with it go its local variables.
Return(c, from) ==
  /\ Goto(c, from, "ready")
  /\ target' = [target EXCEPT ![c] = Idle]
  /\ this' = [this EXCEPT ![c] = Idle]
  /\ joining' = [joining EXCEPT ![c] = NoThread]

\* A client thread enters a command handler.
Enter(c, to) ==
  /\ Goto(c, "ready", to)
  /\ overlap' = (overlap \/ \E d \in Commanders \ {c} : pc[d] # "ready")

------------------------------------------------------------------------------
(* The mode command of mode m, executed by client thread c.                 *)

\* The key of mode m was pressed (a release, value # 1, changes nothing).
Command(c, m) ==
  /\ Enter(c, "stop")
  /\ target' = [target EXCEPT ![c] = m]
  /\ UNCHANGED <<robot, flags, loops, this, joining, undefined>>

\* current_locomotion_mode->stop() finds the mode stopped or goes on.
StopCheck(c) ==
  /\ Goto(c, "stop", IF stopped[current] THEN "assign" ELSE "on_stop")
  /\ this' = [this EXCEPT ![c] = current]
  /\ UNCHANGED <<robot, flags, loops, target, joining, undefined, overlap>>

\* on_stop() returns; the control loop thread is still running.
OnStop(c) ==
  /\ Goto(c, "on_stop", "set_stopped")
  /\ UNCHANGED <<robot, flags, loops, client, undefined, overlap>>

\* The flag is raised, but the thread is not waited for.
SetStoppedNoJoin(c) ==
  /\ Goto(c, "set_stopped", "assign")
  /\ stopped' = [stopped EXCEPT ![this[c]] = TRUE]
  /\ UNCHANGED <<robot, control_loop_thread, loops, client, undefined, overlap>>

\* The thread is waited for, but the flag is not raised.
SetStoppedNoFlag(c) ==
  /\ Goto(c, "set_stopped", "join")
  /\ joining' = [joining EXCEPT ![c] = control_loop_thread[this[c]]]
  /\ UNCHANGED <<robot, flags, loops, target, this, undefined, overlap>>

SetStopped(c) ==
  /\ Goto(c, "set_stopped", "join")
  /\ stopped' = [stopped EXCEPT ![this[c]] = TRUE]
  /\ joining' = [joining EXCEPT ![c] = control_loop_thread[this[c]]]
  /\ UNCHANGED <<robot, control_loop_thread, loops, target, this, undefined, overlap>>

\* join() returns once the thread has exited, and then the object that the
\* mode points to is deleted.  Joining an object that another client has
\* deleted, or deleting one that was not joined, is undefined or terminates
\* the process.  NoThread also stands for the dangling pointer that is left.
Join(c) ==
  /\ Goto(c, "join", "assign")
  /\ \/ /\ joining[c] \in Threads
        /\ loop_at[joining[c]] = "exited"
        /\ loop_at' = [loop_at EXCEPT ![joining[c]] = "none"]
        /\ undefined' = (control_loop_thread[this[c]] # joining[c])
     \/ /\ joining[c] \in Threads => loop_at[joining[c]] = "none"
        /\ undefined' = TRUE
        /\ UNCHANGED loop_at
  /\ control_loop_thread' = [control_loop_thread EXCEPT ![this[c]] = NoThread]
  /\ UNCHANGED <<robot, stopped, loop_of, client, overlap>>

Assign(c) ==
  /\ Goto(c, "assign", "start")
  /\ current' = target[c]
  /\ UNCHANGED <<mode, flags, loops, client, undefined, overlap>>

\* current_locomotion_mode->start() finds the mode running or goes on.
StartCheck(c) ==
  /\ Goto(c, "start", IF stopped[current] THEN "on_start" ELSE "update")
  /\ this' = [this EXCEPT ![c] = current]
  /\ UNCHANGED <<robot, flags, loops, target, joining, undefined, overlap>>

OnStart(c) ==
  /\ Goto(c, "on_start", "clear_stopped")
  /\ UNCHANGED <<robot, flags, loops, client, undefined, overlap>>

ClearStopped(c) ==
  /\ Goto(c, "clear_stopped", "launch")
  /\ stopped' = [stopped EXCEPT ![this[c]] = FALSE]
  /\ UNCHANGED <<robot, control_loop_thread, loops, client, undefined, overlap>>

\* The new thread is started but the pointer to it is not kept.
LaunchForgotten(c) ==
  /\ Goto(c, "launch", "update")
  /\ \E t \in Threads :
       /\ loop_at[t] = "none"
       /\ loop_of' = [loop_of EXCEPT ![t] = this[c]]
       /\ loop_at' = [loop_at EXCEPT ![t] = "check"]
  /\ UNCHANGED <<robot, flags, client, undefined, overlap>>

Launch(c) ==
  /\ Goto(c, "launch", "update")
  /\ \E t \in Threads :
       /\ loop_at[t] = "none"
       /\ loop_of' = [loop_of EXCEPT ![t] = this[c]]
       /\ loop_at' = [loop_at EXCEPT ![t] = "check"]
       /\ control_loop_thread' = [control_loop_thread EXCEPT ![this[c]] = t]
  /\ UNCHANGED <<robot, stopped, client, undefined, overlap>>

\* The telemetry item is left at the name of the previous mode.
UpdateMissing(c) ==
  /\ Return(c, "update")
  /\ UNCHANGED <<robot, flags, loops, undefined, overlap>>

\* The name is that of a null pointer.
UpdateUnset(c) ==
  /\ Return(c, "update")
  /\ mode' = NoMode
  /\ UNCHANGED <<current, flags, loops, undefined, overlap>>

Update(c) ==
  /\ Return(c, "update")
  /\ mode' = current
  /\ UNCHANGED <<current, flags, loops, undefined, overlap>>

------------------------------------------------------------------------------
(* An arrow key command: the method of the mode that is current on entry.   *)

Key(c) ==
  /\ Enter(c, "key")
  /\ this' = [this EXCEPT ![c] = current]
  /\ UNCHANGED <<robot, flags, loops, target, joining, undefined>>

KeyDone(c) ==
  /\ Return(c, "key")
  /\ UNCHANGED <<robot, flags, loops, undefined, overlap>>

------------------------------------------------------------------------------
(* The control loop thread.                                                 *)

LoopCheck(t) ==
  /\ loop_at[t] = "check"
  /\ loop_at' = [loop_at EXCEPT
       ![t] = IF stopped[loop_of[t]] THEN "exited" ELSE "body"]
  /\ UNCHANGED <<robot, flags, loop_of, pc, client, undefined, overlap>>

LoopBody(t) ==
  /\ loop_at[t] = "body"
  /\ loop_at' = [loop_at EXCEPT ![t] = "check"]
  /\ UNCHANGED <<robot, flags, loop_of, pc, client, undefined, overlap>>

------------------------------------------------------------------------------
\* The steps of a handler once it has been entered.
Handler(c) ==
  \/ StopCheck(c) \/ OnStop(c) \/ SetStopped(c) \/ Join(c)
  \/ Assign(c) \/ StartCheck(c) \/ OnStart(c) \/ ClearStopped(c)
  \/ Launch(c) \/ Update(c) \/ KeyDone(c)

Loop(t) == LoopCheck(t) \/ LoopBody(t)

\* After undefined behaviour nothing is claimed, and nothing is modelled.
Next ==
  /\ ~undefined
  /\ \/ \E c \in Commanders :
          Key(c) \/ Handler(c) \/ \E m \in Modes : Command(c, m)
     \/ \E t \in Threads : Loop(t)

Spec == Init /\ [][Next]_vars

\* The behaviours in which the clients take turns.
SerialNext == Next /\ ~overlap'

SerialSpec == Init /\ [][SerialNext]_vars

\* The operating system schedules every thread; nobody has to press a key.
Fairness ==
  /\ \A c \in Commanders : WF_vars(SerialNext /\ Handler(c))
  /\ \A t \in Threads : WF_vars(SerialNext /\ Loop(t))

FairSerialSpec == SerialSpec /\ Fairness

------------------------------------------------------------------------------
(* Properties *)

\* stop() raises the flag and joins before another mode is started, so as
\* long as handlers do not overlap two control loops never run together and
\* none runs while the next mode's on_start() reconfigures the servos.
QuietReconfiguration ==
  ~overlap =>
    /\ \A s, t \in Live : s = t
    /\ \A c \in Commanders :
         pc[c] \in {"assign", "start", "on_start", "clear_stopped", "launch"}
           => Live = {}

\* The thread that stop() joins and deletes is the one start() launched:
\* a second join of a deleted thread object needs overlapping handlers.
JoinedOnce == undefined => overlap

\* Between commands the telemetry item names the current mode, and the only
\* control loop that runs is the current mode's.
ModeReported ==
  (~overlap /\ \A c \in Commanders : pc[c] \in {"ready", "key"}) =>
    /\ mode = current
    /\ \A t \in Live : loop_of[t] = current

\* A mode command returns: the join it may block in is answered by the loop
\* thread, which looks at the flag once per period.
CommandCompletes ==
  \A c \in Commanders : pc[c] = "stop" ~> pc[c] = "ready"

\* The threads implement the promise of ModeControl when clients take turns:
\* the mode whose control loop runs is that of the thread not yet joined.
Active == IF \E t \in Threads : loop_at[t] # "none"
            THEN loop_of[CHOOSE t \in Threads : loop_at[t] # "none"]
            ELSE NoMode

MC == INSTANCE ModeControl WITH active <- Active

ImplementsModeControl == MC!Spec

==============================================================================
