--------------------------- MODULE ActionSequential ---------------------------
(***************************************************************************)
(* An ActionSequential and its caller, which starts it and then calls      *)
(* execute() until that returns true, or aborts it.  An action in the      *)
(* sequence is reduced to whether execute() of it returns true.            *)
(***************************************************************************)
EXTENDS Integers

CONSTANTS
  Sizes,        \* how many actions a sequence may have
  Rounds        \* the values of times that it may be constructed with

ASSUME SizesAssumption  == Sizes \subseteq Nat
ASSUME RoundsAssumption == Rounds \subseteq Int

VARIABLES
  size,                 \* actions.size()
  times,
  current_action_index,
  running,      \* the actions that were started and are neither over nor aborted
  state,        \* what the caller has last been told, or has done
  undefined,    \* an action beyond the end was used
  given         \* history: times, as it was at the last start()

vars == <<size, times, current_action_index, running, state, undefined, given>>

LOOP_FOREVER == -1

TypeOK ==
  /\ size \in Sizes
  /\ times \in Int /\ given \in Int
  /\ current_action_index \in 0..size
  /\ running \subseteq 0..(size - 1)
  /\ state \in {"new", "running", "complete", "aborted"}
  /\ undefined \in BOOLEAN

Init ==
  /\ size \in Sizes
  /\ times \in Rounds /\ given = times
  /\ current_action_index = size
  /\ running = {}
  /\ state = "new"
  /\ undefined = FALSE

\* The first action, if there is one, is started.
FirstOf(n) == IF n > 0 THEN {0} ELSE {}

------------------------------------------------------------------------------
\* A caller does not start what is running.
start ==
  /\ state # "running" /\ state' = "running"
  /\ current_action_index' = 0
  /\ running' = running \union FirstOf(size)
  /\ given' = times
  /\ UNCHANGED <<size, times, undefined>>

\* The action at the index is not told.
abort_quietly ==
  /\ state = "running" /\ state' = "aborted"
  /\ current_action_index' = size
  /\ UNCHANGED <<size, times, running, undefined, given>>

abort ==
  /\ state = "running" /\ state' = "aborted"
  /\ running' = running \ {current_action_index}
  /\ current_action_index' = size
  /\ UNCHANGED <<size, times, undefined, given>>

Past == current_action_index >= size

\* What is left of times at the end of a round.
TimesLeft == IF Past /\ times > 0 THEN times - 1 ELSE times

\* All rounds but the last are gone through.
OverEarly == Past /\ times # LOOP_FOREVER /\ TimesLeft <= 1

\* No further round is to be begun.
Over == Past /\ times # LOOP_FOREVER /\ TimesLeft <= 0

\* execute() returns true, also if it is called again.
ExecuteOver ==
  /\ state \in {"running", "complete"} /\ Over
  /\ state' = "complete"
  /\ times' = TimesLeft
  /\ UNCHANGED <<size, current_action_index, running, undefined, given>>

\* actions[0] of an empty sequence.
ExecuteNothing ==
  /\ state = "running" /\ ~Over /\ size = 0
  /\ undefined' = TRUE
  /\ UNCHANGED <<size, times, current_action_index, running, state, given>>

\* execute() begins a new round if the last one is over, executes the action
\* at the index, and starts the one after it when that one is complete.
Execute(complete) ==
  /\ state = "running" /\ ~Over /\ size > 0
  /\ LET index == IF Past THEN 0 ELSE current_action_index
         begun == IF Past THEN running \union {0} ELSE running
         after == IF index + 1 < size THEN {index + 1} ELSE {}
     IN  /\ current_action_index' = IF complete THEN index + 1 ELSE index
         /\ running' = IF complete THEN (begun \ {index}) \union after ELSE begun
  /\ times' = TimesLeft
  /\ UNCHANGED <<size, state, undefined, given>>

execute == ExecuteOver \/ ExecuteNothing \/ \E complete \in BOOLEAN : Execute(complete)

\* After undefined behaviour nothing is claimed, and nothing is modelled.
Next == ~undefined /\ (start \/ abort \/ execute)

Spec == Init /\ [][Next]_vars

------------------------------------------------------------------------------
(* Properties *)

\* At any time only the action at the index is under way, and none is when
\* the sequence is over or aborted.
OneAtATime ==
  running = IF state = "running" /\ ~Past THEN {current_action_index} ELSE {}

\* The calls keep the promise of Programme, however often the sequence is
\* aborted and started again.
P == INSTANCE Programme WITH
  rounds    <- given,
  completed <- current_action_index,
  round     <- given - times

ImplementsProgramme == P!Spec

==============================================================================
