\* Both switches around their boundaries, two clients that may toggle at once,
\* and the vent of one foot: the other shares nothing with it but the rail.
CONSTANTS
  Channels <- PumpChannels
  Values <- PumpValues
  Clients = {c1, c2}
  Feet = {"left"}
  Pulses = 3
  Travel = 2
  Tasks = {t1, t2}
SPECIFICATION PneumaticsSpec
SYMMETRY Symmetry
INVARIANTS TypeOK PumpFollowsSwitches VentFollowsSwitch VentReaches
