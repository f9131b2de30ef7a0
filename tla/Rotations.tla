------------------------------- MODULE Rotations -------------------------------
(***************************************************************************)
(* A sequence of ActionRotate on the servo bus.  An ActionRotate reads the *)
(* angles of its joints when it starts, sends them to where they are to    *)
(* go, and reads them again until they are there.  Both reads leave out    *)
(* servos that do not answer, and the angles that remain are taken for     *)
(* those of the first joints.                                              *)
(*                                                                         *)
(* The servos move between calls of execute(), not while one runs.         *)
(***************************************************************************)
EXTENDS ActionSequential, Sequences, FiniteSets

CONSTANTS
  Joints,       \* the joints that every action rotates, in order
  rotations,    \* of each action: its type, and degrees for every joint
  MaxMissed,    \* bound on reads that a servo does not answer
  MaxBegun      \* bound on actions begun by one start()

JointSet == {Joints[i] : i \in DOMAIN Joints}

ASSUME JointsAssumption == Joints \in Seq(JointSet)
ASSUME RotationsAssumption ==
  \A n \in Sizes : \A k \in 0..(n - 1) :
    rotations[k].type \in {"absolute", "relative"} /\ rotations[k].degrees \in Int
ASSUME BoundsAssumption == MaxMissed \in Nat /\ MaxBegun \in Nat

VARIABLES
  position,     \* where each joint is
  order,        \* where it was last sent
  goal,         \* ActionRotate::goal of each action, angles only
  missed,       \* history: reads that a servo did not answer
  misread,      \* history: there was one since the last start()
  begun,        \* history: actions begun since the last start()
  ideal         \* history: where joints would be if no rotation were inexact

rotating == <<order, goal, missed, misread, begun, ideal>>
all      == <<vars, position, rotating>>

Actions == UNION {0..(n - 1) : n \in Sizes}

POS_THRESHOLD == 2

RotationsInit ==
  /\ Init
  /\ position = [j \in JointSet |-> 0]
  /\ order = position /\ ideal = position
  /\ goal = [k \in Actions |-> <<>>]
  /\ missed = 0 /\ misread = FALSE /\ begun = 0

------------------------------------------------------------------------------
(* One ActionRotate.                                                        *)

\* Which of the first k joints answer.
Answering(answered, k) == {i \in 1..k : Joints[i] \in answered}

\* get_joint_position when some servos answer: the first angle is taken for
\* that of the first joint, and so on.
get_joint_position(answered) ==
  LET found == Answering(answered, Len(Joints))
      ith(i) == CHOOSE k \in found : Cardinality(Answering(answered, k)) = i
  IN  [i \in 1..Cardinality(found) |-> position[Joints[ith(i)]]]

Full(angles) == Len(angles) = Len(Joints)

\* Where action k sends a joint that is at the given angle.
Target(k, angle) ==
  IF rotations[k].type = "absolute" THEN rotations[k].degrees
                                    ELSE angle + rotations[k].degrees

\* start(): goal is left as it was read if some servo did not answer ...
Goal(k, angles) ==
  IF Full(angles) THEN [i \in DOMAIN angles |-> Target(k, angles[i])] ELSE angles

\* The goal is not sent to the joints.
OrderNothing(was, g) == was

\* ... and then nothing is sent, and joints are to go where they were.
Order(was, g) ==
  IF Full(g) THEN [j \in JointSet |-> g[CHOOSE i \in DOMAIN g : Joints[i] = j]] ELSE was

Near(a, b, range) == a - b <= range /\ b - a <= range

\* Only the first joint is looked at.
ObstacleOfFirst(g, angles) ==
  IF angles # <<>> /\ (g # <<>> => ~Near(angles[1], g[1], POS_THRESHOLD)) THEN 1 ELSE 0

\* execute(): the first angle that it does not go past, or 0 for true.  If
\* there are more angles than goals it is one that has none.
Obstacle(g, angles) ==
  LET obstacles == {i \in DOMAIN angles : i \in DOMAIN g => ~Near(angles[i], g[i], POS_THRESHOLD)}
  IN  IF obstacles = {} THEN 0
      ELSE CHOOSE i \in obstacles : \A k \in obstacles : i <= k

------------------------------------------------------------------------------
(* The calls of the sequence.                                               *)

\* The servos that may answer a read.
Answers == IF missed < MaxMissed THEN SUBSET JointSet ELSE {JointSet}

Incomplete(reads) == Cardinality({i \in DOMAIN reads : reads[i] # JointSet})

Read(reads) ==
  /\ missed' = missed + Incomplete(reads)
  /\ missed' <= MaxMissed

\* Where joints are after action k if it is exact.
To(k, at) == [j \in JointSet |-> Target(k, at[j])]

\* What was read is forgotten.
BegunWithout(g, k, answered) == g

\* The goal of action k when it is begun.
Begun(g, k, answered) == [g EXCEPT ![k] = Goal(k, get_joint_position(answered))]

RotationsStart ==
  /\ start
  /\ \E answered \in Answers :
       /\ size = 0 => answered = JointSet
       /\ Read(<<answered>>)
       /\ misread' = (answered # JointSet)
       /\ IF size = 0
            THEN begun' = 0 /\ UNCHANGED <<goal, order, ideal>>
            ELSE /\ begun' = 1
                 /\ goal' = Begun(goal, 0, answered)
                 /\ order' = Order(order, goal'[0])
                 /\ ideal' = To(0, position)
  /\ UNCHANGED position

\* ActionRotate::abort() leaves the joints on their way.
RotationsAbort == abort /\ UNCHANGED <<position, rotating>>

\* A call of execute() executes the rotation at the index, after it has begun
\* it if a new round begins, and begins the one after it if this one ends.
RotationsExecute ==
  /\ UNCHANGED position
  /\ ~undefined /\ state = "running" /\ ~Over /\ size > 0
  /\ \E check, second \in Answers :
     \E first \in IF Past THEN Answers ELSE {JointSet} :
       LET index   == IF Past THEN 0 ELSE current_action_index
           begin   == IF Past THEN Begun(goal, 0, first) ELSE goal
           angles  == get_joint_position(check)
           obstacle == Obstacle(begin[index], angles)
           follows == obstacle = 0 /\ index + 1 < size
       IN  /\ second # JointSet => follows
           /\ Read(<<first, check, second>>)
           /\ misread' = (misread \/ missed' > missed)
           /\ IF obstacle > Len(begin[index])
                THEN undefined' = TRUE
                     /\ UNCHANGED <<size, times, current_action_index, running, state, given>>
                ELSE Execute(obstacle = 0)
           /\ goal'  = IF follows THEN Begun(begin, index + 1, second) ELSE begin
           /\ LET sent == IF Past THEN Order(order, begin[0]) ELSE order
              IN  order' = IF follows THEN Order(sent, goal'[index + 1]) ELSE sent
           /\ begun' = begun + (IF Past THEN 1 ELSE 0) + (IF follows THEN 1 ELSE 0)
           /\ begun' <= MaxBegun
           /\ LET at == IF Past THEN To(0, ideal) ELSE ideal
              IN  ideal' = IF follows THEN To(index + 1, at) ELSE at

\* There is no rotation to execute.
RotationsOver == (ExecuteOver \/ ExecuteNothing) /\ UNCHANGED <<position, rotating>>

\* A servo moves on to where it was sent.
Move(j) ==
  /\ ~undefined /\ position[j] # order[j]
  /\ position' = [position EXCEPT ![j] = IF order[j] > @ THEN @ + 1 ELSE @ - 1]
  /\ UNCHANGED <<vars, rotating>>

RotationsNext ==
  /\ ~undefined
  /\ \/ RotationsStart \/ RotationsAbort \/ RotationsExecute
     \/ RotationsOver
     \/ \E j \in JointSet : Move(j)

RotationsSpec == RotationsInit /\ [][RotationsNext]_all

\* The caller keeps calling execute(), and servos go where they are sent.
FairRotationsSpec ==
  /\ RotationsSpec
  /\ WF_all(RotationsOver \/ RotationsExecute)
  /\ \A j \in JointSet : WF_all(Move(j))

------------------------------------------------------------------------------
(* Properties *)

\* As long as all servos answer, a sequence that is over has rotated every
\* joint as its actions say, but for two degrees for each of them: relative
\* rotations go by where a joint is, not by where it was sent.
RotatesAsTold ==
  ~misread =>
    \A j \in JointSet :
      /\ begun > 0 => Near(order[j], ideal[j], POS_THRESHOLD * (begun - 1))
      /\ state = "complete" => Near(position[j], ideal[j], POS_THRESHOLD * begun)

\* A goal that is not there is compared with only if a servo did not answer.
UndefinedOnlyIfMisread == undefined => misread \/ size = 0

\* A sequence that is not to loop for ever ends, unless a servo did not answer.
RotatesToTheEnd ==
  (state = "running" /\ given # LOOP_FOREVER /\ size > 0)
    ~> (state # "running" \/ misread)

==============================================================================
