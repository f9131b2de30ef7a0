\* A transmitter that stays within its limits, and no noise.
CONSTANTS
  Packets <- Sticks
  Others = {}
  Noise <- NoiseBytes
  MaxDamaged = 0
  NoPacket = NoPacket
SPECIFICATION FirmwareSpec
INVARIANT ValuesInRange
