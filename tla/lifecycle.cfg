\* Two clients press mode and arrow keys in any order and overlap.
CONSTANTS
  Modes = {idle, ski}
  Idle = idle
  Commanders = {c1, c2}
  Threads = {t1, t2}
  NoThread = NoThread
  NoMode = NoMode
SPECIFICATION Spec
SYMMETRY Symmetry
INVARIANTS TypeOK QuietReconfiguration JoinedOnce ModeReported
\* After undefined behaviour the model stops.
CHECK_DEADLOCK FALSE
