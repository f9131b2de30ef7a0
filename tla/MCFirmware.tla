------------------------------ MODULE MCFirmware ------------------------------
(***************************************************************************)
(* Firmware with packets at rest, at the limits of the sticks, with all    *)
(* bits, with bytes that must be stuffed, and with different channels.     *)
(***************************************************************************)
EXTENDS Firmware

\* The bits of a number.
Bits(n) == {k \in 0..10 : (n \div 2^k) % 2 = 1}

Same(v) == [i \in ChannelIds |-> Bits(v)]

Sticks == {Same(991), Same(172), Same(1810)}

\* Bytes 1 and 12 are those of the announcing byte and the header.
ToBeStuffed == [i \in ChannelIds |->
  CASE i = 0 -> Bits(125) [] i = 8 -> Bits(126) [] OTHER -> Bits(172)]

AllPackets ==
  {Same(991), Same(2047), ToBeStuffed, [i \in ChannelIds |-> Bits(130 * i)]}

\* The receiver asks for telemetry.
Poll  == <<126, 8, 1, 0, 0, 0, 0, 0, 0, 0, 246, 126>>
Polls == {[k \in DOMAIN Poll |-> Bits(Poll[k])]}

NoiseBytes == {Bits(0), Bits(125), Bits(255)}

==============================================================================
