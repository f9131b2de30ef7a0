\* A read of the bus may go wrong once.  What is beyond the end of an empty
\* sequence or of a goal ends the behaviour.
CONSTANTS
  Sizes = {0, 2}
  Rounds <- SomeRounds
  Joints <- Wheels
  rotations <- ToAndOn
  MaxMissed = 1
  MaxBegun = 4
SPECIFICATION FairRotationsSpec
INVARIANTS OneAtATime RotatesAsTold UndefinedOnlyIfMisread
PROPERTIES ImplementsProgramme RotatesToTheEnd
CHECK_DEADLOCK FALSE
