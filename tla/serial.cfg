\* The clients take turns; every thread is scheduled.
CONSTANTS
  Modes = {idle, ski, tail}
  Idle = idle
  Commanders = {c1, c2}
  Threads = {t1, t2}
  NoThread = NoThread
  NoMode = NoMode
SPECIFICATION FairSerialSpec
PROPERTIES CommandCompletes ImplementsModeControl
