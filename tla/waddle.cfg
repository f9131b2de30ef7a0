\* Four rounds in a cycle; a key turns a wheel by two units, Control adds one.
CONSTANTS
  HalfCycle = 2
  DRIVE_ANGLE = 2
  Angles = {0, 4}
  MaxDistance = 2
  MaxAngle = 6
SPECIFICATION Spec
INVARIANTS TypeOK InStep SwingsBetweenTwo
PROPERTIES NoJump
