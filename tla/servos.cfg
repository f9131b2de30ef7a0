\* One client thread and one control loop thread.  Every mode and two missed
\* writes without the transmitter; with it, the switch of one side and two
\* modes, of which one configures the joints and one switches them off.
CONSTANTS
  Modes = {"Idle", "Pole", "Segway", "Ski", "Tail", "Waddle", "Unicycle", "Hang", "Caterpillar", "PoleGestures"}
  Idle = "Idle"
  Commanders = {c1}
  Threads = {t1}
  NoThread = NoThread
  NoMode = "none"
  Modifiers <- Advertised
  MaxLost = 2
  Sides = {"left"}
  States = {"low", "high"}
  RadioModes = {"Idle", "Waddle"}
  FoundDrive = "velocity_based"
  RadioLost = 0
SPECIFICATION RobotSpec
INVARIANTS SettledConfiguration PoweredIsConsistent GoalFits IdleUnpowered SwitchesObeyed
