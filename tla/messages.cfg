\* Bytes of four bits, three messages out of six kinds, every way to cut them.
CONSTANTS
  Sign = 4
  BufferSize = 17
  Mask <- MCMask
  Commands = {4}
  Selections = {2}
  Messages <- MCMessages
  MaxMessages = 3
SPECIFICATION Spec
INVARIANTS TypeOK ActsOnWhatArrived ClosedByPeer
\* A connection ends.
CHECK_DEADLOCK FALSE
