CONSTANTS
  Packets <- AllPackets
  Others <- Polls
  Noise <- NoiseBytes
  MaxDamaged = 1
  NoPacket = NoPacket
SPECIFICATION FirmwareSpec
INVARIANTS ChannelsArrive ChannelOneIsCoarse
PROPERTIES WholeFramesOnly
