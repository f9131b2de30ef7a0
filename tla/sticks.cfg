CONSTANTS
  Channels <- DriveChannels
  Values <- DriveValues
SPECIFICATION DriveSpec
INVARIANTS DriveTypeOK CentredStickIsStopped CentredSticksStop
PROPERTIES SpeedsOnlyToVelocityMode
