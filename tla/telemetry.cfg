\* Two connections, two descriptors, two items; either connection may reuse a descriptor.
CONSTANTS
  Clients = {a, b}
  Fds = {f, g}
  Items = {count, uptime}
  Count = count
  System = system
  None = none
SPECIFICATION Spec
SYMMETRY Symmetry
INVARIANTS TypeOK StaleIsChanged NoDanglingClient SendsToOwnPeer CountIsRight MadeAvailable
\* After undefined behaviour the model stops.
CHECK_DEADLOCK FALSE
