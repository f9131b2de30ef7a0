---------------------------- MODULE ChannelPacking ----------------------------
(***************************************************************************)
(* Sixteen channels of eleven bits in twenty-two bytes, as receivers of    *)
(* the S.BUS and F.Port protocols send them and as both firmwares of the   *)
(* PRU take them apart.                                                    *)
(***************************************************************************)
EXTENDS Integers

ChannelIds == 0..15

\* A byte, and the eleven bits of a channel, are the sets of their bits that
\* are 1.
Byte == SUBSET (0..7)
Raw  == SUBSET (0..10)

CONSTANTS
  Packets,      \* the channel values that the transmitter may send
  Noise,        \* what a damaged byte may turn into
  MaxDamaged,   \* bound: bytes damaged or lost
  NoPacket      \* no channel values

ASSUME PacketsAssumption == Packets \subseteq [ChannelIds -> Raw] /\ Packets # {}
ASSUME NoPacketAssumption == NoPacket \notin Packets
ASSUME NoiseAssumption   == Noise \subseteq Byte /\ MaxDamaged \in Nat

\* The channels follow each other in the bytes 1 to 22, lowest bits first.
Packed(s) ==
  [b \in 1..22 |-> {k \in 0..7 :
     LET n == 8 * (b - 1) + k IN n % 11 \in s[n \div 11]}]

\* Where channel i begins: its first byte, and the bits of that byte that
\* belong to the channel before it.
First(i) == 1 + (11 * i) \div 8
Skip(i)  == (11 * i) % 8

\* The second byte of channel 1 is shifted by one bit less.
UnpackedShiftLess(p, i) ==
  LET skip == Skip(i)
      left == 8 - skip - IF i = 1 THEN 1 ELSE 0
  IN  {k \in 0..10 :
        \/ (k + IF i = 1 THEN 0 ELSE skip) \in p[First(i)]
        \/ k - left \in p[First(i) + 1]
        \/ k + skip - 16 \in p[First(i) + 2]}

\* The eleven low bits of p[first] >> skip | p[first + 1] << 8 - skip |
\* p[first + 2] << 16 - skip, where p holds the bytes from 0 on.  For channel
\* 1 the first of these shifts is missing from the code.
Unpacked(p, i) ==
  LET skip == Skip(i)
      shifted(k) == k + IF i = 1 THEN 0 ELSE skip
  IN  {k \in 0..10 :
        \/ shifted(k) \in p[First(i)]
        \/ k + skip - 8 \in p[First(i) + 1]
        \/ k + skip - 16 \in p[First(i) + 2]}

==============================================================================
