\* What Robot.hpp says of min_speed, against what the switches allow.
CONSTANTS
  Channels <- DriveChannels
  Values <- DriveValues
SPECIFICATION DriveSpec
INVARIANTS StoppedMotorsStop
