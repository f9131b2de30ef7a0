------------------------------ MODULE WaddleProofs ------------------------------
(***************************************************************************)
(* Proofs about Waddle, for any length of a cycle, any distances and any   *)
(* place where the wheels may be when the mode starts.                     *)
(***************************************************************************)
EXTENDS Waddle, FiniteSetTheorems, TLAPS

\* What a drive adds to a position.
LEMMA Signed ==
  ASSUME NEW d \in Distances, NEW s \in Sides
  PROVE  /\ d * s \in Distances /\ d * s \in Int
         /\ d * (-s) = -(d * s)
         /\ -s \in Sides
<1>1. CASE s = 1
  BY <1>1, AngleAssumption DEF Distances, Sides
<1>2. CASE s = -1
  <2>1. d \in Int /\ -d \in Distances
    BY AngleAssumption DEF Distances
  <2>2. s \in Int /\ s + 1 = 0
    BY <1>2
  <2>3. -s = 1
    BY <2>2
  <2>4. d * s = -d /\ d * (-s) = d
    BY <1>2, <2>1, <2>3
  <2> QED
    BY <2>1, <2>3, <2>4 DEF Sides
<1> QED
  BY <1>1, <1>2 DEF Sides

\* The other side is a side.
LEMMA Turned ==
  ASSUME NEW s \in Sides
  PROVE  -s \in Sides /\ -(-s) = s /\ s # 0 /\ s # -s
<1>1. s \in Int /\ (s + 1 = 0 \/ s - 1 = 0)
  BY DEF Sides
<1> QED
  BY <1>1 DEF Sides

\* A read of the bus gives the wheels their angles if both have answered.
LEMMA Read ==
  ASSUME angle \in [Wheels -> Reach], ReadPositions
  PROVE  /\ initial_pos' \in Seq(Positions)
         /\ Len(initial_pos') <= 2
         /\ Len(initial_pos') = 2 =>
              /\ initial_pos'[1] = [joint |-> Left, degrees |-> angle[Left]]
              /\ initial_pos'[2] = [joint |-> Right, degrees |-> angle[Right]]
<1>1. PICK answered \in {<<>>, <<Left>>, <<Right>>, <<Left, Right>>} :
        initial_pos' = get_joint_position(<<Left, Right>>, answered)
  BY DEF ReadPositions
<1>2. /\ Len(answered) \in 0..2
      /\ \A i \in 1..Len(answered) : answered[i] \in Wheels
      /\ Len(answered) = 2 => answered = <<Left, Right>>
  BY <1>1 DEF Wheels
<1>3. /\ Len(read(answered)) = Len(answered)
      /\ \A i \in 1..Len(answered) : read(answered)[i] = angle[answered[i]]
  BY <1>2 DEF read
<1>4. initial_pos' =
        [i \in 1..Len(answered) |->
           [joint |-> <<Left, Right>>[i], degrees |-> angle[answered[i]]]]
  BY <1>1, <1>2, <1>3 DEF get_joint_position
<1>5. \A i \in 1..Len(answered) :
        [joint |-> <<Left, Right>>[i], degrees |-> angle[answered[i]]] \in Positions
  BY <1>2 DEF Wheels, Positions
<1>6. initial_pos' \in Seq(Positions) /\ Len(initial_pos') = Len(answered)
  BY <1>2, <1>4, <1>5
<1> QED
  BY <1>2, <1>4, <1>6

\* The control loop counts within a cycle.
LEMMA Counting ==
  ASSUME iteration \in 0..(Cycle - 1), NextIteration
  PROVE  /\ iteration' \in 0..(Cycle - 1)
         /\ iteration = 0 => iteration' \in 1..HalfCycle
         /\ iteration = HalfCycle => iteration' \notin 1..HalfCycle
         /\ iteration \notin {0, HalfCycle} =>
              (iteration' \in 1..HalfCycle <=> iteration \in 1..HalfCycle)
  BY CycleAssumption DEF NextIteration, Cycle

------------------------------------------------------------------------------
(* The inductive invariant.                                                 *)

\* The control loop is between two wheels only in the middle of a drive.
Driven ==
  /\ loop = "left_done" => running /\ Driving
  /\ ~running => loop = "top"

\* The feet and the wheels take turns, from the first tilt on.
Turns ==
  running =>
    /\ tilt = 0 => iteration = 0 /\ tilt_direction = 1 /\ drive_direction = 1
    /\ tilt # 0 => tilt_direction = -tilt

\* What was read is where the wheels are that have torque, but for the left one
\* in a drive.
Placed ==
  (running /\ Len(initial_pos) = 2) =>
    /\ initial_pos[1].joint = Left /\ initial_pos[2].joint = Right
    /\ Right \in powered => initial_pos[2].degrees = angle[Right]
    /\ Left \in powered =>
         /\ loop = "top" => initial_pos[1].degrees = angle[Left]
         /\ initial_pos[1].degrees - angle[Left] \in Distances

\* By how much a drive turns a wheel.
Step(w) == drive_distance[w] * drive_direction

\* Where the last drive has sent the wheels, if no distance has changed since
\* the drive under way has begun, and where the next one will send them.
Sent ==
  [w \in Wheels |->
    IF w = Right THEN initial_pos[2].degrees
    ELSE IF loop = "top" THEN initial_pos[1].degrees
    ELSE initial_pos[1].degrees + Step(w)]
Goal == [w \in Wheels |-> Sent[w] - Step(w)]

\* The goals sent since a distance changed are these two.
Swung ==
  /\ \E a, b : swing \subseteq {a, b}
  /\ running => swing = {} \/ (Len(initial_pos) = 2 /\ swing \subseteq {Sent, Goal})

IInv == TypeOK /\ Driven /\ Turns /\ InStep /\ Placed /\ Swung

\* The steps of the system, as the proofs below split them.
LEMMA Steps ==
  ASSUME [Next]_vars
  PROVE  \/ on_start \/ on_stop \/ Stopped \/ TurnByHand
         \/ SetLeft \/ SetRight
         \/ Tilt \/ DriveLeft \/ DriveRight \/ Pass
         \/ UNCHANGED vars
  BY DEF Next

\* A position with other degrees is about the same joint.
LEMMA Moved ==
  ASSUME NEW p \in Seq(Positions), Len(p) = 2,
         NEW i \in {1, 2}, NEW to \in Reach,
         NEW q, q = [p EXCEPT ![i].degrees = to]
  PROVE  /\ q \in Seq(Positions) /\ Len(q) = 2
         /\ q[1].joint = p[1].joint /\ q[2].joint = p[2].joint
         /\ q[i].degrees = to
         /\ \A k \in {1, 2} \ {i} : q[k] = p[k]
<1>1. p \in [1..2 -> Positions]
  OBVIOUS
<1> DEFINE new == [p[i] EXCEPT !.degrees = to]
<1>2. new \in Positions /\ new.joint = p[i].joint /\ new.degrees = to
  <2>1. p[i] \in Positions
    BY <1>1
  <2> QED
    BY <2>1 DEF Positions
<1>3. q = [p EXCEPT ![i] = new]
  OBVIOUS
<1> HIDE DEF new
<1>4. /\ q \in Seq(Positions) /\ Len(q) = 2
      /\ q[i] = new
      /\ \A k \in {1, 2} \ {i} : q[k] = p[k]
  <2>1. q \in [1..2 -> Positions]
    BY <1>1, <1>2, <1>3
  <2>2. q = [k \in 1..2 |-> q[k]] /\ \A k \in 1..2 : q[k] \in Positions
    BY <2>1
  <2>3. q \in Seq(Positions) /\ Len(q) = 2
    BY <2>2
  <2> QED
    BY <1>1, <1>3, <2>3
<1> QED
  BY <1>2, <1>4

\* What the first half of a drive does to the positions.
LEMMA LeftHalf ==
  ASSUME TypeOK, DriveLeft
  PROVE  /\ initial_pos' \in Seq(Positions)
         /\ Len(initial_pos) = 2 /\ Len(initial_pos') = 2
         /\ initial_pos'[1].joint = initial_pos[1].joint
         /\ initial_pos'[1].degrees =
              initial_pos[1].degrees - drive_distance[Left] * drive_direction
         /\ initial_pos'[2] = initial_pos[2]
<1> DEFINE to == initial_pos[1].degrees - drive_distance[Left] * drive_direction
<1>1. Len(initial_pos) = 2 /\ to \in Reach
  BY DEF DriveLeft, Driving
<1>2. initial_pos' = [initial_pos EXCEPT ![1].degrees = to]
  BY DEF DriveLeft
<1>3. initial_pos \in Seq(Positions)
  BY DEF TypeOK
<1> QED
  BY <1>1, <1>2, <1>3, Moved

\* What the second half does to them and to the wheels.
LEMMA RightHalf ==
  ASSUME TypeOK, Driven, Placed, DriveRight
  PROVE  /\ initial_pos' \in Seq(Positions)
         /\ Len(initial_pos) = 2 /\ Len(initial_pos') = 2
         /\ initial_pos[1].degrees \in Reach /\ initial_pos'[1] = initial_pos[1]
         /\ initial_pos'[2].joint = Right
         /\ initial_pos[2].degrees \in Reach
         /\ initial_pos'[2].degrees = initial_pos[2].degrees - Step(Right)
         /\ angle' \in [Wheels -> Reach]
         /\ Left \in powered => angle'[Left] = initial_pos[1].degrees
         /\ Right \in powered => angle'[Right] = initial_pos'[2].degrees
         /\ \E goals \in [Wheels -> Reach] :
              /\ goals[Left] = initial_pos[1].degrees
              /\ goals[Right] = initial_pos'[2].degrees
              /\ swing' = swing \union {goals}
<1> DEFINE to == initial_pos[2].degrees - drive_distance[Right] * drive_direction
<1>1. running /\ Len(initial_pos) = 2 /\ to \in Reach
  BY DEF DriveRight, Driven, Driving
<1>2. initial_pos' = [initial_pos EXCEPT ![2].degrees = to]
  BY DEF DriveRight
<1>3. /\ initial_pos' \in Seq(Positions)
      /\ Len(initial_pos') = 2
      /\ initial_pos'[1] = initial_pos[1]
      /\ initial_pos'[2].joint = initial_pos[2].joint
      /\ initial_pos'[2].degrees = to
  <2>1. initial_pos \in Seq(Positions)
    BY DEF TypeOK
  <2> HIDE DEF to
  <2> QED
    BY <1>1, <1>2, <2>1, Moved
<1>4. initial_pos[1].joint = Left /\ initial_pos'[2].joint = Right /\ Left # Right
  BY <1>1, <1>3 DEF Placed, Left, Right
<1> DEFINE Goals == {initial_pos'[1], initial_pos'[2]}
           goals == [w \in Wheels |-> (CHOOSE p \in Goals : p.joint = w).degrees]
<1>5. /\ (CHOOSE p \in Goals : p.joint = Left) = initial_pos[1]
      /\ (CHOOSE p \in Goals : p.joint = Right) = initial_pos'[2]
  BY <1>3, <1>4
<1>6. /\ angle' = [w \in Wheels |-> IF w \in powered THEN goals[w] ELSE angle[w]]
      /\ swing' = swing \union {goals}
  BY DEF DriveRight
<1>7. goals[Left] = initial_pos[1].degrees /\ goals[Right] = to
  BY <1>3, <1>5 DEF Wheels
<1>8. initial_pos[1].degrees \in Reach /\ initial_pos[2].degrees \in Reach
  <2>1. initial_pos \in Seq(Positions) /\ Len(initial_pos) = 2
    BY <1>1 DEF TypeOK, Placed
  <2>2. initial_pos[1] \in Positions /\ initial_pos[2] \in Positions
    <3> HIDE DEF to, Goals, goals
    <3> QED
      BY ONLY <2>1
  <2> QED
    BY <2>2 DEF Positions
<1>9. goals \in [Wheels -> Reach]
  <2>1. \A w \in Wheels : goals[w] \in Reach
    BY <1>1, <1>7, <1>8 DEF Wheels
  <2> QED
    BY <2>1
<1> HIDE DEF goals
<1>10. angle' \in [Wheels -> Reach]
  BY <1>6, <1>9 DEF TypeOK
<1>11. \A w \in powered : angle'[w] = goals[w]
  BY <1>6 DEF TypeOK
<1> QED
  BY <1>1, <1>3, <1>4, <1>6, <1>7, <1>8, <1>9, <1>10, <1>11 DEF Step

------------------------------------------------------------------------------
(* Every part of the invariant is kept.                                     *)

\* A key that has one distance to assign has assigned the other.
LEMMA Pending == Cardinality({}) = 0 /\ \A d : Cardinality({d}) = 1
  BY FS_EmptySet, FS_Singleton

LEMMA TypeStep ==
  ASSUME IInv, [Next]_vars
  PROVE  TypeOK'
<1> USE DEF TypeOK, IInv
<1>1. CASE on_start
  <2>1. Len(initial_pos') <= 2 /\ initial_pos' \in Seq(Positions)
    BY <1>1, Read DEF on_start
  <2>2. 0 \in 0..(Cycle - 1) /\ 0 \in Distances
    BY CycleAssumption, AngleAssumption DEF Cycle, Distances
  <2> QED
    BY <1>1, <2>1, <2>2 DEF on_start, FirstDirections, Sides
<1>2. CASE on_stop \/ Stopped \/ TurnByHand
  <2>1. angle' \in [Wheels -> Reach]
    BY <1>2, AngleAssumption DEF on_stop, Stopped, TurnByHand, Reach
  <2>2. powered' \subseteq Wheels
    BY <1>2 DEF on_stop, Stopped, TurnByHand, Wheels
  <2> QED
    BY <1>2, <2>1, <2>2 DEF on_stop, Stopped, TurnByHand, loopVars, keyVars
<1>3. CASE SetLeft
  <2>1. PICK signs \in Keys : \E d \in Wanted(signs) :
          /\ drive_distance' = [drive_distance EXCEPT ![Left] = d[1]]
          /\ right_to_set' = {d[2]}
    BY <1>3 DEF SetLeft
  <2>2. PICK d \in Distances \X Distances :
          /\ drive_distance' = [drive_distance EXCEPT ![Left] = d[1]]
          /\ right_to_set' = {d[2]}
    BY <2>1 DEF Wanted
  <2>3. drive_distance' \in [Wheels -> Distances] /\ right_to_set' \subseteq Distances
    BY <2>2
  <2>4. Cardinality({d[2]}) = 1
    BY Pending
  <2>5. Cardinality(right_to_set') <= 1
    BY <2>2, <2>4
  <2> QED
    BY <1>3, <2>3, <2>5 DEF SetLeft, loopVars
<1>4. CASE SetRight
  <2>1. drive_distance' \in [Wheels -> Distances]
    BY <1>4 DEF SetRight
  <2>2. right_to_set' = {} /\ Cardinality(right_to_set') <= 1
    BY <1>4, Pending DEF SetRight
  <2> QED
    BY <1>4, <2>1, <2>2 DEF SetRight, loopVars
<1>5. CASE Tilt
  <2>1. iteration' \in 0..(Cycle - 1)
    BY <1>5, Counting DEF Tilt
  <2>2. tilt_direction' \in Sides
    BY <1>5, Turned DEF Tilt
  <2> QED
    BY <1>5, <2>1, <2>2 DEF Tilt, keyVars
<1>6. CASE DriveLeft
  BY <1>6, LeftHalf DEF DriveLeft, keyVars
<1>7. CASE DriveRight
  <2>1. iteration' \in 0..(Cycle - 1)
    BY <1>7, Counting DEF DriveRight
  <2>2. drive_direction' \in Sides
    BY <1>7, Turned DEF DriveRight, TurnDirection
  <2> QED
    BY <1>7, <2>1, <2>2, RightHalf DEF DriveRight, keyVars
<1>8. CASE Pass
  BY <1>8, Counting DEF Pass, keyVars
<1>9. CASE UNCHANGED vars
  BY <1>9 DEF vars, loopVars, keyVars
<1> QED
  BY <1>1, <1>2, <1>3, <1>4, <1>5, <1>6, <1>7, <1>8, <1>9, Steps

LEMMA DrivenStep ==
  ASSUME IInv, [Next]_vars
  PROVE  Driven'
<1> USE DEF IInv, Driven
<1>1. CASE on_start
  BY <1>1 DEF on_start
<1>2. CASE on_stop \/ Stopped \/ TurnByHand
  BY <1>2 DEF on_stop, Stopped, TurnByHand, loopVars, Driving
<1>3. CASE SetLeft \/ SetRight
  BY <1>3 DEF SetLeft, SetRight, loopVars, Driving
<1>4. CASE Tilt
  <2>1. iteration = 0 /\ HalfCycle # 0
    BY <1>4, CycleAssumption DEF Tilt
  <2> QED
    BY <1>4, <2>1 DEF Tilt, Driving
<1>5. CASE DriveLeft
  BY <1>5, LeftHalf DEF DriveLeft, Driving
<1>6. CASE DriveRight
  BY <1>6 DEF DriveRight
<1>7. CASE Pass
  BY <1>7 DEF Pass
<1>8. CASE UNCHANGED vars
  BY <1>8 DEF vars, loopVars, Driving
<1> QED
  BY <1>1, <1>2, <1>3, <1>4, <1>5, <1>6, <1>7, <1>8, Steps

LEMMA TurnsStep ==
  ASSUME IInv, [Next]_vars
  PROVE  Turns' /\ InStep'
<1> USE DEF Turns, InStep
<1>0. /\ iteration \in 0..(Cycle - 1) /\ TypeOK /\ Driven
      /\ tilt_direction \in Sides /\ drive_direction \in Sides
      /\ tilt \in Sides \union {0}
      /\ Turns /\ InStep
  BY DEF IInv, TypeOK
<1>1. CASE on_start
  BY <1>1 DEF on_start, FirstDirections
<1>2. CASE on_stop \/ Stopped \/ TurnByHand
  BY <1>0, <1>2 DEF on_stop, Stopped, TurnByHand, loopVars
<1>3. CASE SetLeft \/ SetRight
  BY <1>0, <1>3 DEF SetLeft, SetRight, loopVars
<1>4. CASE Tilt
  <2>1. running /\ iteration = 0 /\ iteration' \in 1..HalfCycle
    BY <1>0, <1>4, Counting DEF Tilt
  <2>2. tilt' = tilt_direction /\ tilt_direction' = -tilt'
    BY <1>4 DEF Tilt
  <2>3. tilt' # 0
    BY <1>0, <2>2, Turned
  <2>4. Len(initial_pos) = 2 => drive_direction = tilt_direction
    <3>1. CASE tilt = 0
      BY <1>0, <2>1, <3>1
    <3>2. CASE tilt # 0
      BY <1>0, <2>1, <3>2
    <3> QED
      BY <3>1, <3>2
  <2> QED
    BY <1>4, <2>1, <2>2, <2>3, <2>4 DEF Tilt
<1>5. CASE DriveLeft
  BY <1>0, <1>5, LeftHalf DEF DriveLeft
<1>6. CASE DriveRight
  <2>1. running /\ running' /\ iteration = HalfCycle /\ HalfCycle \in 1..HalfCycle
    BY <1>0, <1>6, CycleAssumption DEF DriveRight, Driven, Driving
  <2>2. iteration' \notin 1..HalfCycle
    BY <1>0, <1>6, <2>1, Counting DEF DriveRight
  <2>3. tilt # 0 /\ tilt' = tilt /\ tilt_direction' = tilt_direction
    BY <1>0, <1>6, <2>1 DEF DriveRight
  <2>4. drive_direction = tilt
    BY <1>0, <1>6, <2>1, <2>3 DEF Driven, Driving, DriveRight
  <2>5. drive_direction' = -tilt'
    BY <1>6, <2>3, <2>4 DEF DriveRight, TurnDirection
  <2> QED
    BY <1>0, <2>1, <2>2, <2>3, <2>5
<1>7. CASE Pass
  <2>1. running /\ tilt # 0 /\ tilt' = tilt /\ tilt_direction' = tilt_direction
    BY <1>0, <1>7 DEF Pass
  <2>2. Len(initial_pos) = 2 =>
          (iteration' \in 1..HalfCycle <=> iteration \in 1..HalfCycle)
    BY <1>0, <1>7, Counting DEF Pass, Driving
  <2> QED
    BY <1>0, <1>7, <2>1, <2>2 DEF Pass
<1>8. CASE UNCHANGED vars
  BY <1>0, <1>8 DEF vars, loopVars
<1> QED
  BY <1>1, <1>2, <1>3, <1>4, <1>5, <1>6, <1>7, <1>8, Steps

LEMMA PlacedStep ==
  ASSUME IInv, [Next]_vars
  PROVE  Placed'
<1> USE DEF Placed
<1>0. TypeOK /\ Driven /\ Placed /\ angle \in [Wheels -> Reach]
  BY DEF IInv, TypeOK
<1>1. CASE on_start
  <2>1. angle[Left] - angle[Left] \in Distances
    BY <1>0, AngleAssumption DEF Reach, Distances, Wheels
  <2> QED
    BY <1>0, <1>1, <2>1, Read DEF on_start
<1>2. CASE on_stop \/ Stopped
  <2>1. powered' \subseteq powered
    BY <1>2 DEF on_stop, Stopped, Wheels
  <2> QED
    BY <1>0, <1>2, <2>1 DEF on_stop, Stopped, loopVars
<1>3. CASE SetLeft \/ SetRight
  BY <1>0, <1>3 DEF SetLeft, SetRight, loopVars
<1>4. CASE Tilt
  BY <1>0, <1>4 DEF Tilt
<1>9. CASE TurnByHand
  <2>1. \A w \in powered : angle'[w] = angle[w]
    BY <1>0, <1>9 DEF TurnByHand
  <2> QED
    BY <1>0, <1>9, <2>1 DEF TurnByHand, loopVars
<1>5. CASE DriveLeft
  <2>1. drive_distance[Left] \in Distances /\ drive_direction \in Sides
    BY <1>0 DEF TypeOK, Wheels
  <2>2. drive_distance[Left] * drive_direction \in Distances
    BY <2>1, Signed
  <2>3. ASSUME Left \in powered
        PROVE  initial_pos'[1].degrees - angle[Left] \in Distances
    <3> DEFINE d == drive_distance[Left] * drive_direction
    <3>1. initial_pos[1].degrees = angle[Left] /\ angle[Left] \in Int
      BY <1>0, <1>5, <2>3, LeftHalf DEF DriveLeft, Reach, Wheels
    <3>2. initial_pos'[1].degrees = angle[Left] - d
      BY <1>0, <1>5, <3>1, LeftHalf
    <3> HIDE DEF d
    <3>3. angle[Left] - d - angle[Left] \in Distances
      BY <2>2, <3>1, AngleAssumption DEF Distances, d
    <3> QED
      BY <3>2, <3>3
  <2> QED
    BY <1>0, <1>5, <2>3, LeftHalf DEF DriveLeft
<1>6. CASE DriveRight
  <2>1. angle'[Left] - angle'[Left] \in Distances
    BY <1>0, <1>6, RightHalf, AngleAssumption DEF Reach, Distances, Wheels
  <2> QED
    BY <1>0, <1>6, <2>1, RightHalf DEF DriveRight, Driven, Driving
<1>7. CASE Pass
  BY <1>0, <1>7 DEF Pass
<1>8. CASE UNCHANGED vars
  BY <1>0, <1>8 DEF vars, loopVars
<1> QED
  BY <1>1, <1>2, <1>3, <1>4, <1>5, <1>6, <1>7, <1>8, <1>9, Steps

\* The second half of a drive sends the wheels to Goal, and the next drive
\* will send them back, unless a distance has changed.
LEMMA ThereAndBack ==
  ASSUME IInv, DriveRight
  PROVE  swing' = swing \union {Goal} /\ Sent' = Goal /\ Goal' = Sent
<1>1. TypeOK /\ Driven /\ Placed /\ loop = "left_done"
  BY DEF IInv, DriveRight
<1>2. /\ \A w \in Wheels : Step(w) \in Int
      /\ initial_pos[1].degrees \in Int /\ initial_pos[2].degrees \in Int
  <2>1. \A w \in Wheels : Step(w) \in Int
    BY <1>1, Signed DEF TypeOK, Step
  <2>2. initial_pos[1].degrees \in Reach /\ initial_pos[2].degrees \in Reach
    BY <1>1, RightHalf
  <2> QED
    BY <2>1, <2>2 DEF Reach
<1>3. /\ Sent[Left] = initial_pos[1].degrees + Step(Left)
      /\ Sent[Right] = initial_pos[2].degrees
  BY <1>1 DEF Sent, Wheels, Left, Right
<1>4. Goal[Left] = initial_pos[1].degrees /\ Goal[Right] = initial_pos'[2].degrees
  <2>1. Left \in Wheels /\ Right \in Wheels
    BY DEF Wheels
  <2>2. (initial_pos[1].degrees + Step(Left)) - Step(Left) = initial_pos[1].degrees
    BY <1>2, <2>1
  <2>3. Goal[Left] = Sent[Left] - Step(Left) /\ Goal[Right] = Sent[Right] - Step(Right)
    BY <2>1 DEF Goal
  <2>4. initial_pos'[2].degrees = initial_pos[2].degrees - Step(Right)
    BY <1>1, RightHalf
  <2> QED
    BY <1>3, <2>2, <2>3, <2>4
<1>5. swing' = swing \union {Goal}
  <2>1. PICK goals \in [Wheels -> Reach] :
          /\ goals[Left] = initial_pos[1].degrees
          /\ goals[Right] = initial_pos'[2].degrees
          /\ swing' = swing \union {goals}
    BY <1>1, RightHalf
  <2>2. \A w \in Wheels : goals[w] = Goal[w]
    <3>1. goals[Left] = Goal[Left] /\ goals[Right] = Goal[Right]
      BY <1>4, <2>1
    <3> QED
      BY <3>1 DEF Wheels
  <2>3. Goal = [w \in Wheels |-> Goal[w]] /\ goals = [w \in Wheels |-> goals[w]]
    BY DEF Goal
  <2>4. goals = Goal
    BY <2>2, <2>3
  <2> QED
    BY <2>1, <2>4
<1>6. loop' = "top" /\ initial_pos'[1] = initial_pos[1]
  BY <1>1, RightHalf DEF DriveRight
<1>7. Sent' = Goal
  BY <1>4, <1>6 DEF Sent, Goal, Wheels, Left, Right
<1>8. \A w \in Wheels : Step(w)' = -Step(w)
  <2>1. drive_distance' = drive_distance /\ drive_direction' = -drive_direction
    BY DEF DriveRight, TurnDirection, keyVars
  <2> QED
    BY <1>1, <2>1, Signed DEF TypeOK, Step
<1>9. \A w \in Wheels : Goal[w] - (-Step(w)) = Sent[w]
  <2>1. \A w \in Wheels : Sent[w] \in Int
    BY <1>2, <1>3 DEF Wheels
  <2>2. \A w \in Wheels : Sent[w] - Step(w) - (-Step(w)) = Sent[w]
    BY <1>2, <2>1
  <2> QED
    BY <2>2 DEF Goal
<1>10. Goal' = Sent
  <2>1. Goal' = [w \in Wheels |-> Goal[w] - (-Step(w))]
    BY <1>7, <1>8 DEF Goal
  <2>2. Sent = [w \in Wheels |-> Sent[w]]
    BY DEF Sent
  <2> QED
    BY <1>9, <2>1, <2>2
<1> QED
  BY <1>5, <1>7, <1>10

LEMMA SwungStep ==
  ASSUME IInv, [Next]_vars
  PROVE  Swung'
<1> USE DEF Swung
<1>0. TypeOK /\ Driven /\ Placed /\ Swung
  BY DEF IInv
<1>1. CASE on_start \/ SetLeft \/ SetRight
  BY <1>1 DEF on_start, SetLeft, SetRight
<1>2. CASE on_stop \/ Stopped \/ TurnByHand \/ Tilt \/ Pass \/ UNCHANGED vars
  <2>1. \/ Sent' = Sent /\ Goal' = Goal /\ UNCHANGED <<running, initial_pos, swing>>
        \/ ~running' /\ swing' = swing
    <3>1. CASE Tilt
      <4>1. \A w \in Wheels : Step(w)' = Step(w)
        BY <3>1 DEF Tilt, Step, keyVars
      <4> QED
        BY <3>1, <4>1 DEF Tilt, Sent, Goal
    <3>2. CASE ~Tilt
      <4>1. UNCHANGED <<loop, initial_pos, drive_direction, drive_distance, swing>>
        BY <1>2, <3>2 DEF on_stop, Stopped, TurnByHand, Pass, vars, loopVars, keyVars
      <4>2. \A w \in Wheels : Step(w)' = Step(w)
        BY <4>1 DEF Step
      <4>3. Sent' = Sent /\ Goal' = Goal
        BY <4>1, <4>2 DEF Sent, Goal
      <4>4. running' = running \/ ~running'
        BY <1>2, <3>2 DEF on_stop, Stopped, TurnByHand, Pass, vars
      <4> QED
        BY <4>1, <4>3, <4>4
    <3> QED
      BY <3>1, <3>2
  <2> QED
    BY <1>0, <2>1
<1>3. CASE DriveLeft
  <2>1. \A w \in Wheels : Step(w)' = Step(w)
    BY <1>3 DEF DriveLeft, Step, keyVars
  <2>2. /\ loop = "top" /\ loop' = "left_done"
        /\ UNCHANGED <<running, swing>>
        /\ initial_pos'[1].degrees = initial_pos[1].degrees - Step(Left)
        /\ initial_pos'[2] = initial_pos[2]
        /\ Len(initial_pos') = 2
    BY <1>0, <1>3, LeftHalf DEF DriveLeft, Step
  <2>3. initial_pos[1].degrees \in Int /\ Step(Left) \in Int
    <3>1. initial_pos \in Seq(Positions) /\ Len(initial_pos) = 2
      BY <1>0, <1>3, LeftHalf DEF TypeOK
    <3>2. initial_pos[1] \in Positions
      BY ONLY <3>1
    <3> QED
      BY <1>0, <3>2, Signed DEF TypeOK, Positions, Reach, Step, Wheels
  <2>4. initial_pos'[1].degrees + Step(Left) = initial_pos[1].degrees
    BY <2>2, <2>3
  <2>5. Sent' = Sent
    BY <2>1, <2>2, <2>4 DEF Sent, Wheels, Left, Right
  <2>6. Goal' = Goal
    BY <2>1, <2>5 DEF Goal
  <2> QED
    BY <1>0, <2>2, <2>5, <2>6
<1>4. CASE DriveRight
  <2>1. running /\ running' /\ Len(initial_pos') = 2
    BY <1>0, <1>4, RightHalf DEF DriveRight, Driven
  <2>2. swing = {} \/ swing \subseteq {Sent, Goal}
    BY <1>0, <2>1
  <2>3. swing' \subseteq {Sent', Goal'}
    BY <1>4, <2>2, ThereAndBack
  <2> QED
    BY <2>1, <2>3
<1> QED
  BY <1>1, <1>2, <1>3, <1>4, Steps

------------------------------------------------------------------------------
(* What follows from it.                                                    *)

\* The invariant holds of the first state and of every other.
LEMMA InvariantHolds == Spec => []IInv
<1>1. Init => IInv
  <2> SUFFICES ASSUME Init
               PROVE  IInv
    OBVIOUS
  <2>1. <<>> \in Seq(Positions) /\ Len(<<>>) = 0
    OBVIOUS
  <2>2. angle \in [Wheels -> Reach]
    BY AngleAssumption DEF Init, Reach
  <2>3. 0 \in 0..(Cycle - 1) /\ 0 \in Distances
    BY CycleAssumption, AngleAssumption DEF Cycle, Distances
  <2>4. TypeOK
    <3>1. Cardinality(right_to_set) <= 1
      BY Pending DEF Init
    <3>2. drive_distance \in [Wheels -> Distances]
      BY <2>3 DEF Init
    <3>3. initial_pos \in Seq(Positions) /\ Len(initial_pos) <= 2
      BY <2>1 DEF Init
    <3> QED
      BY <2>2, <2>3, <3>1, <3>2, <3>3 DEF Init, TypeOK
  <2> QED
    BY <2>4 DEF Init, IInv, Driven, Turns, InStep, Placed, Swung
<1>2. IInv /\ [Next]_vars => IInv'
  BY TypeStep, DrivenStep, TurnsStep, PlacedStep, SwungStep DEF IInv
<1> QED
  BY <1>1, <1>2, PTL DEF Spec

\* Every variable keeps its type, and so every angle its bound.
THEOREM TypeCorrect == Spec => []TypeOK
<1>1. IInv => TypeOK
  BY DEF IInv
<1> QED
  BY <1>1, InvariantHolds, PTL

\* No restart, key or missing answer of a servo gets wheels and feet out of
\* step, whatever the length of the cycle.
THEOREM StaysInStep == Spec => []InStep
<1>1. IInv => InStep
  BY DEF IInv
<1> QED
  BY <1>1, InvariantHolds, PTL

\* With the distances left alone, the wheels are only ever sent to two
\* places, whatever the distances are and whenever they were assigned.
THEOREM SwingsBetween == Spec => []SwingsBetweenTwo
<1>1. IInv => SwingsBetweenTwo
  <2> SUFFICES ASSUME IInv
               PROVE  SwingsBetweenTwo
    OBVIOUS
  <2>1. PICK a, b : swing \subseteq {a, b}
    BY DEF IInv, Swung
  <2>2. IsFiniteSet({a}) /\ Cardinality({a}) = 1
    BY FS_Singleton
  <2>3. IsFiniteSet({a, b}) /\ Cardinality({a, b}) <= 2
    <3>1. {a, b} = {a} \union {b}
      OBVIOUS
    <3>2. /\ IsFiniteSet({a} \union {b})
          /\ \/ Cardinality({a} \union {b}) = Cardinality({a})
             \/ Cardinality({a} \union {b}) = Cardinality({a}) + 1
      BY <2>2, FS_AddElement
    <3> QED
      BY <2>2, <3>1, <3>2
  <2>4. /\ Cardinality(swing) <= Cardinality({a, b})
        /\ Cardinality(swing) \in Nat /\ Cardinality({a, b}) \in Nat
    BY <2>1, <2>3, FS_Subset, FS_CardinalityType
  <2> QED
    BY <2>3, <2>4 DEF SwingsBetweenTwo
<1> QED
  BY <1>1, InvariantHolds, PTL

\* However the bus was read and wherever the wheels were turned to by hand, a
\* powered wheel moves by no more than a key may ask for at once.
THEOREM NeverJumps == Spec => NoJump
<1> DEFINE Small ==
      \A w \in powered \intersect powered' : angle'[w] - angle[w] \in Distances
<1>1. IInv /\ [Next]_vars => [Small]_vars
  <2> SUFFICES ASSUME IInv, [Next]_vars, NEW w \in powered \intersect powered'
               PROVE  angle'[w] - angle[w] \in Distances
    OBVIOUS
  <2>1. TypeOK /\ Driven /\ Placed /\ w \in Wheels /\ angle[w] \in Int
    BY DEF IInv, TypeOK, Reach
  <2>2. CASE DriveRight
    <3>1. running /\ Len(initial_pos) = 2
      BY <2>1, <2>2, RightHalf DEF DriveRight, Driven
    <3>2. CASE w = Left
      BY <2>1, <2>2, <3>1, <3>2, RightHalf DEF Placed
    <3>3. CASE w = Right
      <4>1. angle'[w] = angle[w] - Step(Right)
        BY <2>1, <2>2, <3>1, <3>3, RightHalf DEF Placed
      <4>2. Step(Right) \in Distances
        BY <2>1, Signed DEF TypeOK, Wheels, Step
      <4> QED
        BY <2>1, <4>1, <4>2, AngleAssumption DEF Distances
    <3> QED
      BY <2>1, <3>2, <3>3 DEF Wheels
  <2>3. CASE angle'[w] = angle[w]
    BY <2>1, <2>3, AngleAssumption DEF Distances
  <2>4. CASE TurnByHand
    <3>1. angle'[w] = angle[w]
      BY <2>1, <2>4 DEF TurnByHand, TypeOK
    <3> QED
      BY <2>3, <3>1
  <2>5. DriveRight \/ TurnByHand \/ angle' = angle
    BY Steps DEF on_start, on_stop, Stopped, SetLeft, SetRight, Tilt, DriveLeft, Pass, vars
  <2> QED
    BY <2>2, <2>3, <2>4, <2>5
<1> QED
  BY <1>1, InvariantHolds, PTL DEF Spec, NoJump

==============================================================================
