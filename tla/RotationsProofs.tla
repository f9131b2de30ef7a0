---------------------------- MODULE RotationsProofs ----------------------------
(***************************************************************************)
(* Proofs about Rotations, and with it ActionSequential, for sequences of  *)
(* any length and any number of rounds, and any rotations of any number of *)
(* joints.                                                                 *)
(***************************************************************************)
EXTENDS Rotations, FiniteSetTheorems, SequenceTheorems, WellFoundedInduction, TLAPS

------------------------------------------------------------------------------
(* The calls of a sequence.                                                 *)

\* A call that uses what is not there changes nothing else of the sequence.
Astray ==
  undefined' = TRUE
    /\ UNCHANGED <<size, times, current_action_index, running, state, given>>

\* The rotations do to the sequence what ActionSequential says, unless they
\* go astray.
LEMMA RotationsStep ==
  ASSUME [RotationsNext]_all
  PROVE  [Next \/ Astray]_vars
<1>1. CASE ~undefined /\ RotationsStart
  BY <1>1 DEF RotationsStart, Next
<1>2. CASE ~undefined /\ RotationsAbort
  BY <1>2 DEF RotationsAbort, Next
<1>3. CASE RotationsExecute
  BY <1>3 DEF RotationsExecute, Next, execute, Astray
<1>4. CASE ~undefined /\ RotationsOver
  BY <1>4 DEF RotationsOver, Next, execute
<1>5. CASE (\E j \in JointSet : Move(j)) \/ UNCHANGED all
  BY <1>5 DEF Move, all
<1> QED
  BY <1>1, <1>2, <1>3, <1>4, <1>5 DEF RotationsNext

\* What is left of times tells whether the sequence is over, and given whether
\* it loops for ever.  A sequence that is not running is past its end.
SequenceInv ==
  /\ TypeOK
  /\ OneAtATime
  /\ state # "running" => current_action_index = size
  /\ state = "complete" => times <= 0
  /\ given = LOOP_FOREVER <=> times = LOOP_FOREVER

LEMMA SequenceInvInit == Init => SequenceInv
<1> SUFFICES ASSUME Init
             PROVE  SequenceInv
  OBVIOUS
<1>1. size \in Nat /\ times \in Int
  BY SizesAssumption, RoundsAssumption DEF SizesAssumption, RoundsAssumption, Init
<1>2. TypeOK
  <2>1. size \in Sizes /\ given \in Int
    BY <1>1 DEF Init
  <2>2. current_action_index \in 0..size
    BY <1>1 DEF Init
  <2>3. undefined \in BOOLEAN /\ running \subseteq 0..(size - 1)
    BY DEF Init
  <2> QED
    BY <1>1, <2>1, <2>2, <2>3 DEF Init, TypeOK
<1>3. OneAtATime
  BY DEF Init, OneAtATime
<1> QED
  BY <1>2, <1>3 DEF Init, SequenceInv

LEMMA SequenceInvStep ==
  ASSUME SequenceInv, [Next \/ Astray]_vars
  PROVE  SequenceInv'
<1> USE SizesAssumption DEF SizesAssumption, SequenceInv, TypeOK, OneAtATime, Past, LOOP_FOREVER
<1>1. CASE start
  BY <1>1 DEF start, FirstOf
<1>2. CASE abort
  BY <1>2 DEF abort
<1>3. CASE ExecuteOver
  BY <1>3 DEF ExecuteOver, Over, TimesLeft
<1>4. ASSUME NEW complete \in BOOLEAN, Execute(complete)
      PROVE  SequenceInv'
  <2>1. size \in Nat
    OBVIOUS
  <2>2. times' \in Int /\ (times' = LOOP_FOREVER <=> times = LOOP_FOREVER)
    BY <1>4 DEF Execute, Over, TimesLeft
  <2>3. CASE Past
    BY <1>4, <2>1, <2>2, <2>3 DEF Execute
  <2>4. CASE ~Past
    BY <1>4, <2>1, <2>2, <2>4 DEF Execute
  <2> QED
    BY <2>3, <2>4
<1>5. CASE ExecuteNothing \/ Astray
  BY <1>5 DEF ExecuteNothing, Astray
<1>6. CASE UNCHANGED vars
  BY <1>6 DEF vars
<1> QED
  BY <1>1, <1>2, <1>3, <1>4, <1>5, <1>6 DEF Next, execute

\* Each call is a step of the programme, or does not show in it.
LEMMA PromiseStep ==
  ASSUME SequenceInv, [Next \/ Astray]_vars
  PROVE  [P!Next]_P!vars
<1> USE SizesAssumption DEF SizesAssumption, SequenceInv, TypeOK, Past, LOOP_FOREVER, P!vars
<1>1. CASE start
  BY <1>1 DEF start, P!Next, P!Start
<1>2. CASE abort
  BY <1>2 DEF abort, P!Next, P!Abort
<1>3. CASE ExecuteOver
  <2>1. CASE state = "running"
    BY <1>3, <2>1 DEF ExecuteOver, Over, TimesLeft, P!Next, P!Finish
  <2>2. CASE state = "complete"
    BY <1>3, <2>2 DEF ExecuteOver, Over, TimesLeft
  <2> QED
    BY <1>3, <2>1, <2>2 DEF ExecuteOver
<1>4. ASSUME NEW complete \in BOOLEAN, Execute(complete)
      PROVE  [P!Next]_P!vars
  <2>1. size \in Nat /\ current_action_index \in 0..size
    OBVIOUS
  <2>2. CASE Past
    BY <1>4, <2>1, <2>2 DEF Execute, Over, TimesLeft, P!Next, P!Again
  <2>3. CASE ~Past
    BY <1>4, <2>1, <2>3 DEF Execute, TimesLeft, P!Next, P!Advance
  <2> QED
    BY <2>2, <2>3
<1>5. CASE ExecuteNothing \/ Astray \/ UNCHANGED vars
  BY <1>5 DEF ExecuteNothing, Astray, vars
<1> QED
  BY <1>1, <1>2, <1>3, <1>4, <1>5 DEF Next, execute

LEMMA PromiseInit == Init => P!Init
<1> SUFFICES ASSUME Init
             PROVE  P!Init
  OBVIOUS
<1>1. size \in Nat /\ times \in Int
  BY SizesAssumption, RoundsAssumption DEF SizesAssumption, RoundsAssumption, Init
<1> QED
  BY <1>1 DEF Init, P!Init

------------------------------------------------------------------------------
(* A read, and what an action makes of it.                                  *)

\* The angles of all joints, where a joint is at at[j].
AnglesOf(at) == [i \in 1..Len(Joints) |-> at[Joints[i]]]

LEMMA JointsAreJoints ==
  /\ Len(Joints) \in Nat
  /\ DOMAIN Joints = 1..Len(Joints)
  /\ \A i \in 1..Len(Joints) : Joints[i] \in JointSet
  /\ \A j \in JointSet : \E i \in 1..Len(Joints) : Joints[i] = j
BY JointsAssumption DEF JointsAssumption, JointSet

\* If the first k joints answer, they are k.
LEMMA AllAnswering ==
  ASSUME NEW answered, NEW n \in 0..Len(Joints),
         \A i \in 1..n : Joints[i] \in answered
  PROVE  Answering(answered, n) = 1..n /\ Cardinality(Answering(answered, n)) = n
<1>1. n \in Nat
  BY JointsAreJoints
<1>2. Answering(answered, n) = 1..n
  BY DEF Answering
<1> QED
  BY <1>1, <1>2, FS_Interval

\* A read that all joints answer has the angles of all, each in its place ...
LEMMA ReadByAll ==
  ASSUME NEW answered, \A i \in 1..Len(Joints) : Joints[i] \in answered
  PROVE  get_joint_position(answered) = AnglesOf(position)
<1> DEFINE n == Len(Joints)
           ith(i) == CHOOSE k \in 1..n : Cardinality(Answering(answered, k)) = i
<1>1. n \in Nat
  BY JointsAreJoints
<1>2. \A k \in 0..n : Answering(answered, k) = 1..k /\ Cardinality(Answering(answered, k)) = k
  BY <1>1, AllAnswering
<1>3. ASSUME NEW i \in 1..n
      PROVE  ith(i) = i
  <2>1. \A k \in 1..n : Cardinality(Answering(answered, k)) = k
    BY <1>1, <1>2
  <2> QED
    BY <1>1, <2>1
<1>4. n \in 0..n /\ Answering(answered, n) = 1..n /\ Cardinality(1..n) = n
  BY <1>1, <1>2
<1>5. get_joint_position(answered) = [i \in 1..n |-> position[Joints[ith(i)]]]
  BY <1>4 DEF get_joint_position
<1> HIDE DEF ith
<1> QED
  BY <1>3, <1>5 DEF AnglesOf

LEMMA LengthOfAngles ==
  ASSUME NEW at
  PROVE  Len(AnglesOf(at)) = Len(Joints) /\ DOMAIN AnglesOf(at) = 1..Len(Joints)
BY JointsAreJoints DEF AnglesOf

\* ... and only such a read is full.
LEMMA FullIsByAll ==
  ASSUME NEW answered, Full(get_joint_position(answered))
  PROVE  get_joint_position(answered) = AnglesOf(position)
<1> DEFINE n == Len(Joints)
           found == Answering(answered, n)
<1>1. n \in Nat
  BY JointsAreJoints
<1>2. found \subseteq 1..n
  BY DEF Answering
<1>3. IsFiniteSet(1..n) /\ Cardinality(1..n) = n
  <2> HIDE DEF n
  <2> QED
    BY <1>1, FS_Interval
<1>4. IsFiniteSet(found) /\ (Cardinality(1..n) = Cardinality(found) => 1..n = found)
  BY <1>2, <1>3, FS_Subset
<1>5. Cardinality(found) \in Nat
  BY <1>4, FS_CardinalityType
<1>6. Len(get_joint_position(answered)) = Cardinality(found)
  BY <1>5 DEF get_joint_position
<1>7. found = 1..n
  BY <1>3, <1>4, <1>6 DEF Full
<1> QED
  BY <1>7, ReadByAll DEF Answering

LEMMA TargetIsInteger ==
  ASSUME NEW k \in Actions, NEW angle \in Int
  PROVE  Target(k, angle) \in Int
BY RotationsAssumption DEF RotationsAssumption, Actions, Target

\* The goal of an action that begins: if all joints answer it is where they
\* are sent, and they are sent where the action tells them to go.
LEMMA Begins ==
  ASSUME position \in [JointSet -> Int], NEW was \in [JointSet -> Int],
         NEW k \in Actions, NEW answered,
         NEW g, g = Goal(k, get_joint_position(answered))
  PROVE  /\ Order(was, g) \in [JointSet -> Int]
         /\ answered = JointSet => g = AnglesOf(Order(was, g)) /\ Order(was, g) = To(k, position)
<1> DEFINE n == Len(Joints)
           angles == get_joint_position(answered)
           place(j) == CHOOSE i \in 1..n : Joints[i] = j
<1>1. answered = JointSet => angles = AnglesOf(position)
  BY ReadByAll, JointsAreJoints
<1>2. answered = JointSet => Full(angles)
  BY <1>1, LengthOfAngles DEF Full
<1>3. CASE Full(angles)
  <2>1. angles = AnglesOf(position) /\ DOMAIN angles = 1..n
    BY <1>3, FullIsByAll, LengthOfAngles
  <2>2. g = [i \in 1..n |-> Target(k, position[Joints[i]])]
    BY <1>3, <2>1 DEF Goal, AnglesOf
  <2>3. Full(g) /\ DOMAIN g = 1..n
    BY <2>2, JointsAreJoints DEF Full
  <2>4. Order(was, g) = [j \in JointSet |-> g[place(j)]]
    BY <2>3 DEF Order
  <2>5. \A j \in JointSet : place(j) \in 1..n /\ Joints[place(j)] = j
    BY JointsAreJoints
  <2>6. Order(was, g) = [j \in JointSet |-> Target(k, position[j])]
    <3>1. ASSUME NEW j \in JointSet
          PROVE  g[place(j)] = Target(k, position[j])
      <4>1. ASSUME NEW i \in 1..n, Joints[i] = j
            PROVE  g[i] = Target(k, position[j])
        BY <2>2, <4>1
      <4> HIDE DEF place
      <4> QED
        BY <2>5, <4>1
    <3> HIDE DEF place
    <3> QED
      BY <2>4, <3>1
  <2>7. Order(was, g) \in [JointSet -> Int]
    BY <2>6, TargetIsInteger
  <2>8. g = AnglesOf(Order(was, g))
    BY <2>2, <2>6, JointsAreJoints DEF AnglesOf
  <2> QED
    BY <2>6, <2>7, <2>8 DEF To
<1>4. CASE ~Full(angles)
  BY <1>2, <1>4 DEF Goal, Order
<1> QED
  BY <1>3, <1>4

\* A nonempty set of places has a first one.
LEMMA FirstPlace ==
  ASSUME NEW n \in Nat, NEW S \in SUBSET (1..n), S # {}
  PROVE  \E k \in S : \A i \in S : k <= i
<1>1. S \subseteq Nat
  OBVIOUS
<1>2. \E k \in S : \A i \in S : <<i, k>> \notin OpToRel(<, Nat)
  BY ONLY <1>1, S # {}, NatLessThanWellFounded, WFMin, Zenon
<1>3. PICK k \in S : \A i \in S : <<i, k>> \notin OpToRel(<, Nat)
  BY <1>2
<1>4. ASSUME NEW i \in S
      PROVE  k <= i
  <2>1. i \in Nat /\ k \in Nat /\ ~(i < k)
    BY <1>1, <1>3 DEF OpToRel
  <2> QED
    BY <2>1
<1> QED
  BY <1>4

\* If all joints answer and have a goal, the first that is not there is one
\* of them, and if there is none, all are there.
LEMMA ObstacleIsJoint ==
  ASSUME position \in [JointSet -> Int], NEW at \in [JointSet -> Int]
  PROVE  LET obstacle == Obstacle(AnglesOf(at), AnglesOf(position))
         IN  /\ ~(obstacle > Len(AnglesOf(at)))
             /\ obstacle = 0 =>
                  \A j \in JointSet : Near(position[j], at[j], POS_THRESHOLD)
<1> DEFINE n == Len(Joints)
           S == {i \in 1..n : ~Near(position[Joints[i]], at[Joints[i]], POS_THRESHOLD)}
           obstacle == Obstacle(AnglesOf(at), AnglesOf(position))
<1>1. n \in Nat
  BY JointsAreJoints
<1>2. obstacle = IF S = {} THEN 0 ELSE CHOOSE i \in S : \A k \in S : i <= k
  <2> DEFINE obstacles ==
        {i \in DOMAIN AnglesOf(position) : i \in DOMAIN AnglesOf(at) =>
           ~Near(AnglesOf(position)[i], AnglesOf(at)[i], POS_THRESHOLD)}
  <2>1. S = obstacles
    BY LengthOfAngles DEF AnglesOf
  <2>2. obstacle = IF obstacles = {} THEN 0
                   ELSE CHOOSE i \in obstacles : \A k \in obstacles : i <= k
    BY DEF Obstacle
  <2> HIDE DEF S, obstacle, obstacles
  <2> QED
    BY <2>1, <2>2
<1>3. CASE S = {}
  <2>1. obstacle = 0
    BY <1>2, <1>3
  <2>2. \A j \in JointSet : Near(position[j], at[j], POS_THRESHOLD)
    BY <1>3, JointsAreJoints
  <2> QED
    BY <1>1, <2>1, <2>2, LengthOfAngles
<1>4. CASE S # {}
  <2>1. \E i \in S : \A k \in S : i <= k
    BY <1>1, <1>4, FirstPlace
  <2>2. obstacle \in S
    BY <1>2, <1>4, <2>1
  <2>3. obstacle \in 1..n
    BY <2>2
  <2> QED
    BY <1>1, <2>3, LengthOfAngles
<1> QED
  BY <1>3, <1>4

\* How many of the reads of one call a servo did not answer.
LEMMA OneRead ==
  ASSUME NEW a
  PROVE  Incomplete(<<a>>) \in Nat
<1> DEFINE S == {i \in DOMAIN <<a>> : <<a>>[i] # JointSet}
<1>1. IsFiniteSet(1..1)
  BY FS_Interval, 1 \in Int, Zenon
<1>2. S \in SUBSET (1..1)
  OBVIOUS
<1> HIDE DEF S
<1>3. IsFiniteSet(S)
  BY <1>1, <1>2, FS_Subset
<1>4. Cardinality(S) \in Nat
  BY <1>3, FS_CardinalityType
<1> QED
  BY <1>4 DEF S, Incomplete

LEMMA ThreeReads ==
  ASSUME NEW a, NEW b, NEW c
  PROVE  /\ Incomplete(<<a, b, c>>) \in Nat
         /\ Incomplete(<<a, b, c>>) = 0 => a = JointSet /\ b = JointSet /\ c = JointSet
<1> DEFINE reads == <<a, b, c>>
           S == {i \in DOMAIN reads : reads[i] # JointSet}
<1>1. IsFiniteSet(1..3)
  BY FS_Interval, 1 \in Int, 3 \in Int, Zenon
<1>2. S \in SUBSET (1..3)
  OBVIOUS
<1>3. S = {} => a = JointSet /\ b = JointSet /\ c = JointSet
  <2>1. 1 \in DOMAIN reads /\ 2 \in DOMAIN reads /\ 3 \in DOMAIN reads
    OBVIOUS
  <2>2. reads[1] = a /\ reads[2] = b /\ reads[3] = c
    OBVIOUS
  <2> HIDE DEF reads
  <2> QED
    BY <2>1, <2>2
<1>4. Incomplete(reads) = Cardinality(S)
  BY DEF Incomplete
<1> HIDE DEF S
<1>5. IsFiniteSet(S)
  BY <1>1, <1>2, FS_Subset
<1> QED
  BY <1>3, <1>4, <1>5, FS_CardinalityType, FS_EmptySet

------------------------------------------------------------------------------
(* Where the joints are.                                                    *)

UnderWay  == state = "running" /\ ~Past
RoundOver == size > 0 /\ Past /\ state \in {"running", "complete"}

JointsTypeOK ==
  /\ position \in [JointSet -> Int]
  /\ order \in [JointSet -> Int]
  /\ ideal \in [JointSet -> Int]
  /\ DOMAIN goal = Actions
  /\ missed \in Nat /\ begun \in Nat
  /\ misread \in BOOLEAN

Within(at, of, range) == \A j \in JointSet : Near(at[j], of[j], range)

\* As long as all servos answer, the goal of the action under way is where its
\* joints were sent, joints are where they were sent when a round is over, and
\* each action that begins adds one deviation of that kind.
OnTheirWay ==
  /\ begun > 0 => Within(order, ideal, POS_THRESHOLD * (begun - 1))
  /\ UnderWay  => begun > 0 /\ goal[current_action_index] = AnglesOf(order)
  /\ RoundOver => begun > 0 /\ Within(position, order, POS_THRESHOLD)

JointsInv ==
  /\ JointsTypeOK
  /\ size = 0 => begun = 0 /\ order = position /\ ideal = position
  /\ undefined => misread \/ size = 0
  /\ ~misread => OnTheirWay

LEMMA ToIsWhole ==
  ASSUME NEW k \in Actions, NEW at \in [JointSet -> Int]
  PROVE  To(k, at) \in [JointSet -> Int]
BY TargetIsInteger DEF To

LEMMA ActionsAre ==
  ASSUME SequenceInv, NEW k \in Int, 0 <= k, k < size
  PROVE  k \in Actions
BY SizesAssumption DEF SizesAssumption, SequenceInv, TypeOK, Actions

\* A rotation to an angle loses the deviation, and one by an angle keeps it.
LEMMA ToStaysNear ==
  ASSUME NEW k \in Actions, NEW at \in [JointSet -> Int],
         NEW of \in [JointSet -> Int], NEW range \in Nat, Within(at, of, range)
  PROVE  Within(To(k, at), To(k, of), range)
<1> SUFFICES ASSUME NEW j \in JointSet
             PROVE  Near(Target(k, at[j]), Target(k, of[j]), range)
  BY DEF Within, To
<1>1. Near(at[j], of[j], range)
  BY DEF Within
<1>2. rotations[k].degrees \in Int
  BY RotationsAssumption DEF RotationsAssumption, Actions
<1> QED
  BY <1>1, <1>2 DEF Near, Target

LEMMA NearOfNear ==
  ASSUME NEW a \in [JointSet -> Int], NEW b \in [JointSet -> Int],
         NEW c \in [JointSet -> Int], NEW m \in Int, NEW n \in Int,
         Within(a, b, m), Within(b, c, n)
  PROVE  Within(a, c, m + n)
BY DEF Within, Near

LEMMA JointsInvInit == RotationsInit => JointsInv
<1> SUFFICES ASSUME RotationsInit
             PROVE  JointsInv
  OBVIOUS
<1>1. JointsTypeOK
  <2>1. position \in [JointSet -> Int]
    BY DEF RotationsInit
  <2>2. DOMAIN goal = Actions
    BY DEF RotationsInit
  <2>3. missed \in Nat /\ begun \in Nat /\ misread \in BOOLEAN
    BY DEF RotationsInit
  <2> QED
    BY <2>1, <2>2, <2>3 DEF RotationsInit, JointsTypeOK
<1>2. OnTheirWay
  BY DEF RotationsInit, Init, OnTheirWay, UnderWay, RoundOver
<1> QED
  BY <1>1, <1>2 DEF RotationsInit, Init, JointsInv

\* The first action begins where the joints are, without a deviation.
LEMMA JointsInvStart ==
  ASSUME SequenceInv, JointsInv, ~undefined, RotationsStart
  PROVE  JointsInv'
<1>1. PICK answered \in Answers :
        /\ size = 0 => answered = JointSet
        /\ Read(<<answered>>)
        /\ misread' = (answered # JointSet)
        /\ IF size = 0
             THEN begun' = 0 /\ UNCHANGED <<goal, order, ideal>>
             ELSE /\ begun' = 1
                  /\ goal' = Begun(goal, 0, answered)
                  /\ order' = Order(order, goal'[0])
                  /\ ideal' = To(0, position)
  BY DEF RotationsStart
<1>2. /\ size' = size /\ size \in Nat /\ undefined' = undefined /\ position' = position
      /\ state' = "running" /\ current_action_index' = 0
  BY SizesAssumption
  DEF SizesAssumption, RotationsStart, start, SequenceInv, TypeOK
<1>3. missed' \in Nat /\ misread' \in BOOLEAN
  BY <1>1, OneRead DEF Read, JointsInv, JointsTypeOK
<1>4. CASE size = 0
  <2>1. ~UnderWay' /\ ~RoundOver'
    BY <1>2, <1>4 DEF UnderWay, RoundOver, Past
  <2> QED
    BY <1>1, <1>2, <1>3, <1>4, <2>1 DEF JointsInv, JointsTypeOK, OnTheirWay
<1>5. CASE size # 0
  <2>1. 0 \in Actions
    BY <1>2, <1>5, ActionsAre
  <2> DEFINE g == Goal(0, get_joint_position(answered))
  <2>2. goal'[0] = g /\ DOMAIN goal' = Actions
    BY <1>1, <1>5, <2>1 DEF Begun, JointsInv, JointsTypeOK
  <2>3. /\ order' \in [JointSet -> Int]
        /\ answered = JointSet => g = AnglesOf(order') /\ order' = To(0, position)
    BY <1>1, <1>5, <2>1, <2>2, Begins DEF JointsInv, JointsTypeOK
  <2>4. ideal' \in [JointSet -> Int]
    BY <1>1, <1>5, <2>1, ToIsWhole DEF JointsInv, JointsTypeOK
  <2>5. JointsTypeOK'
    BY <1>1, <1>2, <1>3, <1>5, <2>2, <2>3, <2>4 DEF JointsInv, JointsTypeOK
  <2>6. ASSUME ~misread'
        PROVE  OnTheirWay'
    <3>1. order' = ideal' /\ goal'[0] = AnglesOf(order') /\ begun' = 1
      BY <1>1, <1>5, <2>2, <2>3, <2>6
    <3>2. Within(order, ideal, POS_THRESHOLD * (begun - 1))'
      BY <2>3, <3>1 DEF Within, Near, POS_THRESHOLD
    <3>3. ~RoundOver'
      BY <1>2, <1>5 DEF RoundOver, Past
    <3>4. (goal[current_action_index] = AnglesOf(order))'
      BY <1>2, <3>1 DEF AnglesOf
    <3> QED
      BY <3>1, <3>2, <3>3, <3>4 DEF OnTheirWay
  <2> QED
    BY <1>2, <1>5, <2>5, <2>6 DEF JointsInv
<1> QED
  BY <1>4, <1>5

\* Nothing begins when the sequence is aborted or over.
LEMMA JointsInvEnds ==
  ASSUME SequenceInv, JointsInv, RotationsAbort \/ RotationsOver \/ UNCHANGED all
  PROVE  JointsInv'
<1>1. UNCHANGED <<position, rotating, size>>
  BY DEF RotationsAbort, RotationsOver, abort, ExecuteOver, ExecuteNothing, all, vars
<1>2. undefined' => undefined \/ size = 0
  BY DEF RotationsAbort, RotationsOver, abort, ExecuteOver, ExecuteNothing, all, vars
<1>3. /\ UnderWay' => UnderWay /\ current_action_index' = current_action_index
      /\ RoundOver' => RoundOver
  BY DEF RotationsAbort, RotationsOver, abort, ExecuteOver, ExecuteNothing, all, vars,
         UnderWay, RoundOver, Past, Over
<1>4. JointsTypeOK'
  BY <1>1 DEF JointsInv, JointsTypeOK, rotating
<1>5. ~misread => OnTheirWay'
  BY <1>1, <1>3 DEF JointsInv, OnTheirWay, rotating, Within, AnglesOf
<1> QED
  BY <1>1, <1>2, <1>4, <1>5 DEF JointsInv, rotating

\* A joint that moves comes nearer to where it was sent.
LEMMA JointsInvMove ==
  ASSUME JointsInv, NEW j \in JointSet, Move(j)
  PROVE  JointsInv'
<1>1. UNCHANGED <<vars, rotating>> /\ position[j] # order[j]
  BY DEF Move
<1>2. position' \in [JointSet -> Int]
  BY DEF Move, JointsInv, JointsTypeOK
<1>3. JointsTypeOK'
  BY <1>1, <1>2 DEF JointsInv, JointsTypeOK, rotating
<1>4. Within(position, order, POS_THRESHOLD) => Within(position, order, POS_THRESHOLD)'
  BY <1>1 DEF Move, JointsInv, JointsTypeOK, Within, Near, POS_THRESHOLD, rotating
<1>5. ~misread => OnTheirWay'
  BY <1>1, <1>4 DEF JointsInv, OnTheirWay, rotating, vars, Within, AnglesOf,
                    UnderWay, RoundOver, Past
<1>6. size # 0
  BY <1>1 DEF JointsInv
<1> QED
  BY <1>1, <1>3, <1>5, <1>6 DEF JointsInv, rotating, vars

\* An action that is at its end has brought the joints near to where they were
\* sent, from where the next one begins.
LEMMA JointsInvExecute ==
  ASSUME SequenceInv, JointsInv, RotationsExecute
  PROVE  JointsInv'
<1> USE DEF JointsInv, JointsTypeOK
<1>1. PICK check \in Answers, second \in Answers, first \in IF Past THEN Answers ELSE {JointSet} :
        LET index   == IF Past THEN 0 ELSE current_action_index
            begin   == IF Past THEN Begun(goal, 0, first) ELSE goal
            angles  == get_joint_position(check)
            obstacle == Obstacle(begin[index], angles)
            follows == obstacle = 0 /\ index + 1 < size
        IN  /\ second # JointSet => follows
            /\ Read(<<first, check, second>>)
            /\ misread' = (misread \/ missed' > missed)
            /\ IF obstacle > Len(begin[index])
                 THEN undefined' = TRUE
                      /\ UNCHANGED <<size, times, current_action_index, running, state, given>>
                 ELSE Execute(obstacle = 0)
            /\ goal'  = IF follows THEN Begun(begin, index + 1, second) ELSE begin
            /\ LET sent == IF Past THEN Order(order, begin[0]) ELSE order
               IN  order' = IF follows THEN Order(sent, goal'[index + 1]) ELSE sent
            /\ begun' = begun + (IF Past THEN 1 ELSE 0) + (IF follows THEN 1 ELSE 0)
            /\ begun' <= MaxBegun
            /\ LET at == IF Past THEN To(0, ideal) ELSE ideal
               IN  ideal' = IF follows THEN To(index + 1, at) ELSE at
  BY DEF RotationsExecute
<1> DEFINE index == IF Past THEN 0 ELSE current_action_index
           begin == IF Past THEN Begun(goal, 0, first) ELSE goal
           angles == get_joint_position(check)
           obstacle == Obstacle(begin[index], angles)
           follows == obstacle = 0 /\ index + 1 < size
           sent == IF Past THEN Order(order, begin[0]) ELSE order
           at == IF Past THEN To(0, ideal) ELSE ideal
           counted == begun + (IF Past THEN 1 ELSE 0)
<1>2. /\ Read(<<first, check, second>>)
      /\ misread' = (misread \/ missed' > missed)
      /\ goal'  = IF follows THEN Begun(begin, index + 1, second) ELSE begin
      /\ order' = IF follows THEN Order(sent, goal'[index + 1]) ELSE sent
      /\ begun' = counted + (IF follows THEN 1 ELSE 0)
      /\ ideal' = IF follows THEN To(index + 1, at) ELSE at
  BY <1>1
<1>3. IF obstacle > Len(begin[index])
        THEN undefined' = TRUE
             /\ UNCHANGED <<size, times, current_action_index, running, state, given>>
        ELSE Execute(obstacle = 0)
  BY <1>1
<1>4. /\ size \in Nat /\ size > 0 /\ size' = size /\ position' = position
      /\ current_action_index \in 0..size
      /\ state = "running" /\ state' = "running" /\ undefined = FALSE
  BY <1>3, SizesAssumption
  DEF SizesAssumption, RotationsExecute, SequenceInv, TypeOK, Execute
<1>5. /\ index \in Nat /\ index < size /\ 0 \in Actions /\ index \in Actions
      /\ index + 1 < size => index + 1 \in Actions
  BY <1>4, ActionsAre DEF Past
<1>6. /\ missed' \in Nat /\ misread' \in BOOLEAN
      /\ ~misread' => /\ ~misread
                      /\ first = JointSet /\ check = JointSet /\ second = JointSet
  <2> DEFINE missing == Incomplete(<<first, check, second>>)
  <2>1. missing \in Nat
    BY ThreeReads
  <2>2. missing = 0 => first = JointSet /\ check = JointSet /\ second = JointSet
    BY ThreeReads
  <2>3. missed' = missed + missing
    BY <1>2 DEF Read
  <2>4. misread' = (misread \/ missed' > missed)
    BY <1>2
  <2> HIDE DEF missing
  <2>5. missed' \in Nat /\ (~(missed' > missed) => missing = 0)
    BY <2>1, <2>3
  <2> QED
    BY <2>2, <2>4, <2>5, Zenon
\* A new round begins ...
<1>7. /\ DOMAIN begin = Actions
      /\ sent \in [JointSet -> Int] /\ at \in [JointSet -> Int]
      /\ counted \in Nat
      /\ ~misread' =>
           /\ counted > 0
           /\ begin[index] = AnglesOf(sent)
           /\ Within(sent, at, POS_THRESHOLD * (counted - 1))
  <2>1. CASE Past
    <3>1. /\ begin = Begun(goal, 0, first) /\ index = 0 /\ counted = begun + 1
          /\ sent = Order(order, begin[0]) /\ at = To(0, ideal)
      BY <2>1
    <3>2. DOMAIN begin = Actions /\ begin[0] = Goal(0, get_joint_position(first))
      BY <3>1, <1>5 DEF Begun
    <3>3. /\ sent \in [JointSet -> Int]
          /\ first = JointSet => begin[0] = AnglesOf(sent) /\ sent = To(0, position)
      BY <3>1, <3>2, <1>5, Begins
    <3>4. at \in [JointSet -> Int]
      BY <3>1, <1>5, ToIsWhole
    <3>5. ASSUME ~misread'
          PROVE  Within(sent, at, POS_THRESHOLD * (counted - 1))
      <4>1. /\ begun > 0 /\ Within(position, order, POS_THRESHOLD)
            /\ Within(order, ideal, POS_THRESHOLD * (begun - 1))
        BY <1>4, <1>6, <2>1, <3>5 DEF OnTheirWay, RoundOver
      <4>2. POS_THRESHOLD \in Int /\ POS_THRESHOLD * (begun - 1) \in Int
        BY DEF POS_THRESHOLD
      <4>3. Within(position, ideal, POS_THRESHOLD + POS_THRESHOLD * (begun - 1))
        BY <4>1, <4>2, NearOfNear
      <4>4. /\ POS_THRESHOLD + POS_THRESHOLD * (begun - 1) = POS_THRESHOLD * (counted - 1)
            /\ POS_THRESHOLD * (counted - 1) \in Nat
        BY <3>1 DEF POS_THRESHOLD
      <4>5. sent = To(0, position)
        BY <1>6, <3>3, <3>5
      <4> HIDE DEF counted, sent, at
      <4> QED
        BY <1>5, <3>1, <4>3, <4>4, <4>5, ToStaysNear
    <3> QED
      BY <1>6, <3>1, <3>2, <3>3, <3>4, <3>5
  <2>2. CASE ~Past
    BY <1>4, <1>6, <2>2 DEF OnTheirWay, UnderWay
  <2> QED
    BY <2>1, <2>2
<1> HIDE DEF begin, sent, at, counted
\* ... and if all servos answer, the action at the index is at its end only
\* when the joints are.
<1>8. ASSUME ~misread'
      PROVE  /\ ~(obstacle > Len(begin[index]))
             /\ obstacle = 0 => Within(position, sent, POS_THRESHOLD)
  <2>1. begin[index] = AnglesOf(sent) /\ angles = AnglesOf(position)
    BY <1>6, <1>7, <1>8, ReadByAll, JointsAreJoints
  <2> HIDE DEF index, angles
  <2> QED
    BY <1>7, <2>1, ObstacleIsJoint DEF Within
<1> HIDE DEF obstacle
<1>9. undefined' => misread' \/ size = 0
  BY <1>3, <1>4, <1>8 DEF Execute
<1>10. ~misread' => current_action_index' = IF obstacle = 0 THEN index + 1 ELSE index
  BY <1>3, <1>4, <1>8 DEF Execute, Past
\* The next action begins.
<1>11. CASE follows
  <2>1. index + 1 \in Actions /\ begun' = counted + 1
    BY <1>2, <1>5, <1>11
  <2>2. /\ DOMAIN goal' = Actions
        /\ goal'[index + 1] = Goal(index + 1, get_joint_position(second))
    BY <1>2, <1>7, <1>11, <2>1 DEF Begun
  <2>3. /\ order' \in [JointSet -> Int]
        /\ second = JointSet =>
             goal'[index + 1] = AnglesOf(order') /\ order' = To(index + 1, position)
    BY <1>2, <1>7, <1>11, <2>1, <2>2, Begins
  <2>4. ideal' = To(index + 1, at) /\ ideal' \in [JointSet -> Int]
    BY <1>2, <1>7, <1>11, <2>1, ToIsWhole
  <2>5. JointsTypeOK'
    BY <1>4, <1>6, <1>7, <2>1, <2>2, <2>3, <2>4
  <2>6. ASSUME ~misread'
        PROVE  OnTheirWay'
    <3>1. obstacle = 0 /\ Within(position, sent, POS_THRESHOLD)
      BY <1>8, <1>11, <2>6
    <3>2. POS_THRESHOLD \in Int /\ POS_THRESHOLD * (counted - 1) \in Int
      BY <1>7 DEF POS_THRESHOLD
    <3>3. Within(position, at, POS_THRESHOLD + POS_THRESHOLD * (counted - 1))
      BY <1>7, <2>6, <3>1, <3>2, NearOfNear
    <3>4. /\ POS_THRESHOLD + POS_THRESHOLD * (counted - 1) = POS_THRESHOLD * (begun' - 1)
          /\ POS_THRESHOLD * (begun' - 1) \in Nat
      BY <1>7, <2>1, <2>6 DEF POS_THRESHOLD
    <3>5. order' = To(index + 1, position) /\ goal'[index + 1] = AnglesOf(order')
      BY <1>6, <2>3, <2>6
    <3>6. Within(order', ideal', POS_THRESHOLD * (begun' - 1))
      BY <1>7, <2>1, <2>4, <3>3, <3>4, <3>5, ToStaysNear
    <3>7. current_action_index' = index + 1 /\ ~RoundOver'
      BY <1>4, <1>5, <1>10, <1>11, <2>6, <3>1 DEF RoundOver, Past
    <3>8. (goal[current_action_index] = AnglesOf(order))'
      BY <3>5, <3>7 DEF AnglesOf
    <3> QED
      BY <1>7, <2>1, <2>6, <3>6, <3>7, <3>8 DEF OnTheirWay, Within
  <2> QED
    BY <1>4, <1>9, <2>5, <2>6
\* The action is under way, or it was the last of the round.
<1>12. CASE ~follows
  <2>1. goal' = begin /\ order' = sent /\ ideal' = at /\ begun' = counted
    BY <1>2, <1>7, <1>12
  <2>2. JointsTypeOK'
    BY <1>4, <1>6, <1>7, <2>1
  <2>3. ASSUME ~misread'
        PROVE  OnTheirWay'
    <3>1. begun' > 0 /\ Within(order', ideal', POS_THRESHOLD * (begun' - 1))
      BY <1>7, <2>1, <2>3
    <3>2. UnderWay' => (goal[current_action_index] = AnglesOf(order))'
      <4>1. UnderWay' => current_action_index' = index
        BY <1>4, <1>5, <1>10, <1>12, <2>3 DEF UnderWay, Past
      <4> QED
        BY <1>7, <2>1, <2>3, <4>1 DEF AnglesOf
    <3>3. RoundOver' => Within(position, order, POS_THRESHOLD)'
      <4>1. RoundOver' => obstacle = 0
        BY <1>4, <1>5, <1>10, <2>3 DEF RoundOver, Past
      <4> QED
        BY <1>4, <1>8, <2>1, <2>3, <4>1 DEF Within
    <3> QED
      BY <3>1, <3>2, <3>3 DEF OnTheirWay, Within
  <2> QED
    BY <1>4, <1>9, <2>2, <2>3
<1> QED
  BY <1>11, <1>12

------------------------------------------------------------------------------
(* The theorems.                                                            *)

LEMMA InvariantsHold == RotationsSpec => [](SequenceInv /\ JointsInv)
<1>1. RotationsInit => SequenceInv /\ JointsInv
  BY SequenceInvInit, JointsInvInit DEF RotationsInit
<1>2. SequenceInv /\ JointsInv /\ [RotationsNext]_all => (SequenceInv /\ JointsInv)'
  <2> SUFFICES ASSUME SequenceInv, JointsInv, [RotationsNext]_all
               PROVE  SequenceInv' /\ JointsInv'
    OBVIOUS
  <2>1. SequenceInv'
    BY RotationsStep, SequenceInvStep
  <2>2. JointsInv'
    BY JointsInvStart, JointsInvEnds, JointsInvMove, JointsInvExecute DEF RotationsNext
  <2> QED
    BY <2>1, <2>2
<1> QED
  BY <1>1, <1>2, PTL DEF RotationsSpec

\* start(), abort() and execute() keep the variables of a sequence in their
\* types, for any number of actions and any rounds: current_action_index is
\* that of an action, or the number of them.
THEOREM TypeCorrect == RotationsSpec => []TypeOK
<1>1. SequenceInv => TypeOK
  BY DEF SequenceInv
<1> QED
  BY <1>1, InvariantsHold, PTL

\* However often a sequence is aborted and started again, only the action at
\* its index is under way, and none when it is over or aborted.
THEOREM OneActionAtATime == RotationsSpec => []OneAtATime
<1>1. SequenceInv => OneAtATime
  BY DEF SequenceInv
<1> QED
  BY <1>1, InvariantsHold, PTL

\* Every call of a sequence of rotations is a step of its programme, so that
\* the actions are carried out in order and in as many rounds as are left.
THEOREM PromiseKept == RotationsSpec => ImplementsProgramme
<1>1. RotationsInit => P!Init
  BY PromiseInit DEF RotationsInit
<1>2. SequenceInv /\ [RotationsNext]_all => [P!Next]_P!vars
  BY RotationsStep, PromiseStep
<1> QED
  BY <1>1, <1>2, InvariantsHold, PTL DEF RotationsSpec, ImplementsProgramme, P!Spec

\* execute() compares with a goal that is not there only if a servo did not
\* answer a read since the sequence was started.
THEOREM GoalsAreThere == RotationsSpec => []UndefinedOnlyIfMisread
<1>1. JointsInv => UndefinedOnlyIfMisread
  BY DEF JointsInv, UndefinedOnlyIfMisread
<1> QED
  BY <1>1, InvariantsHold, PTL

\* If all servos answer, joints are where the actions say, but for two degrees
\* for each action that was begun.
THEOREM JointsGoAsTold == RotationsSpec => []RotatesAsTold
<1>1. SequenceInv /\ JointsInv => RotatesAsTold
  <2> SUFFICES ASSUME SequenceInv, JointsInv, ~misread, NEW j \in JointSet
               PROVE  /\ begun > 0 => Near(order[j], ideal[j], POS_THRESHOLD * (begun - 1))
                      /\ state = "complete" => Near(position[j], ideal[j], POS_THRESHOLD * begun)
    BY DEF RotatesAsTold
  <2>1. begun > 0 => Near(order[j], ideal[j], POS_THRESHOLD * (begun - 1))
    BY DEF JointsInv, OnTheirWay, Within
  <2>2. ASSUME state = "complete"
        PROVE  Near(position[j], ideal[j], POS_THRESHOLD * begun)
    <3>1. CASE size = 0
      BY <3>1 DEF JointsInv, JointsTypeOK, Near, POS_THRESHOLD
    <3>2. CASE size # 0
      <4>1. size \in Nat /\ Past
        BY <2>2, SizesAssumption
        DEF SizesAssumption, SequenceInv, TypeOK, Past
      <4>2. begun > 0 /\ Near(position[j], order[j], POS_THRESHOLD)
        BY <2>2, <3>2, <4>1 DEF JointsInv, OnTheirWay, RoundOver, Within
      <4> QED
        BY <2>1, <4>2 DEF JointsInv, JointsTypeOK, Near, POS_THRESHOLD
    <3> QED
      BY <3>1, <3>2
  <2> QED
    BY <2>1, <2>2
<1> QED
  BY <1>1, InvariantsHold, PTL

==============================================================================
