------------------------------- MODULE Firmware -------------------------------
(***************************************************************************)
(* PRU 0 with one of its two firmwares, as the README of the firmware      *)
(* builds and installs them.  The program loads the one for F.Port.        *)
(***************************************************************************)
EXTENDS FPort

VARIABLES
  TARGET,       \* the firmware that is loaded
  pause, sbus_packet, partial     \* variables of SBus alone

fportOnly == <<at, got, escaped>>
sbusOnly  == <<pause, sbus_packet, partial>>
all       == <<TARGET, vars, sbusOnly>>

S == INSTANCE SBus

FirmwareInit ==
  \/ TARGET = "fport" /\ Init
       /\ pause = FALSE /\ sbus_packet = <<>> /\ partial = FALSE
  \/ TARGET = "sbus" /\ S!Init
       /\ at = "waiting" /\ got = <<>> /\ escaped = FALSE

FirmwareNext ==
  \/ TARGET = "fport" /\ Next /\ UNCHANGED <<TARGET, sbusOnly>>
  \/ TARGET = "sbus" /\ S!Next /\ UNCHANGED <<TARGET, fportOnly>>

FirmwareSpec == FirmwareInit /\ [][FirmwareNext]_all

------------------------------------------------------------------------------
(* Properties *)

\* Whatever was on the wire before, a frame that comes through undamaged sets
\* every channel but one to what the transmitter sent: stuffed bytes, noise
\* that looks like a stuffed byte, lost bytes, foreign frames and a start in
\* the middle of a frame leave nothing behind.
ChannelsArrive ==
  received # NoPacket =>
    \A i \in ChannelIds \ {1} : channels[i] = received[i]

\* Channel 1, which both firmwares unpack without its shift, is right in its
\* three high bits: it is never off by more than an eighth of the range.
ChannelOneIsCoarse ==
  received # NoPacket => channels[1] \intersect 8..10 = received[1] \intersect 8..10

\* Bytes of two frames never end up in one packet of S.BUS: a channel changes
\* only when the firmware has read all bytes of the frame on the wire.
WholeFramesOnly ==
  [][TARGET = "sbus" /\ channels' # channels => ~partial]_all

\* The number whose bits are those in a set.
Value(bits) == SumSet({2^k : k \in bits})

\* RCRadio::channel_min_value to RCRadio::channel_max_value.
Limits == 172..1810

\* Robot.hpp on new_value: it lies between the limits of the channels.
ValuesInRange ==
  (received # NoPacket /\ \A i \in ChannelIds : Value(received[i]) \in Limits) =>
    \A i \in 0..10 : Value(channels[i]) \in Limits

==============================================================================
