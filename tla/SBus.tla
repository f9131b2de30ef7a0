--------------------------------- MODULE SBus ---------------------------------
(***************************************************************************)
(* The S.BUS firmware of PRU 0, which the README of the firmware builds    *)
(* next to the one for F.Port: main() waits for the start bit of each of   *)
(* twenty-five bytes, begins again when the wire is silent for too long,   *)
(* and stores the channels when the last byte is that of a footer.         *)
(***************************************************************************)
EXTENDS ChannelPacking, SequencesExt

VARIABLES
  line,         \* what is left of the frame on the wire
  pause,        \* the wire has been silent for twenty bits
  sbus_packet,  \* the bytes read since the firmware began again
  stored,       \* channels of the packet stored so far
  channels,     \* the shared memory
  sent,         \* history: the packet on the wire, if it is undamaged
  received,     \* history: the packet stored last, if it was undamaged
  partial,      \* history: a byte of the frame on the wire was not read
  damaged       \* history: bytes damaged or lost so far

wire    == <<line, pause>>
history == <<sent, received, partial, damaged>>
vars    == <<wire, sbus_packet, stored, channels, history>>

\* Header, channels, flags, footer, which is 0.
Frame == [s \in Packets |-> <<{0, 1, 2, 3}>> \o Packed(s) \o <<{}, {}>>]

\* The program starts the firmware at any moment, and clears the memory.
Init ==
  /\ \E s \in Packets : \E k \in 1 .. Len(Frame[s]) + 1 :
       /\ line = SubSeq(Frame[s], k, Len(Frame[s]))
       /\ partial = (k > 1)
  /\ pause = FALSE /\ sbus_packet = <<>> /\ stored = 0
  /\ channels = [i \in ChannelIds |-> {}]
  /\ sent = NoPacket /\ received = NoPacket
  /\ damaged = 0

Reading == Len(sbus_packet) < 25

------------------------------------------------------------------------------
Begin ==
  /\ pause /\ pause' = FALSE
  /\ \E s \in Packets : line' = Frame[s] /\ sent' = s
  /\ partial' = FALSE
  /\ UNCHANGED <<sbus_packet, stored, channels, received, damaged>>

\* A byte is damaged, or its start bit is not seen.
Damage ==
  /\ Reading /\ line # <<>> /\ damaged < MaxDamaged
  /\ \/ line' = Tail(line) /\ partial' = TRUE
     \/ /\ \E b \in Noise \ {Head(line)} : line' = <<b>> \o Tail(line)
        /\ UNCHANGED partial
  /\ sent' = NoPacket
  /\ damaged' = damaged + 1
  /\ UNCHANGED <<pause, sbus_packet, stored, channels, received>>

ReadByte ==
  /\ Reading /\ line # <<>>
  /\ sbus_packet' = Append(sbus_packet, Head(line))
  /\ line' = Tail(line)
  /\ UNCHANGED <<pause, stored, channels, history>>

\* The bytes read so far are kept.
RestartKeeps ==
  /\ Reading /\ line = <<>> /\ ~pause
  /\ pause' = TRUE
  /\ UNCHANGED <<line, sbus_packet, stored, channels, history>>

\* The firmware waits for a start bit for too long and begins again.  Frames
\* are farther apart than that.
Restart ==
  /\ Reading /\ line = <<>> /\ ~pause
  /\ pause' = TRUE
  /\ sbus_packet' = <<>>
  /\ UNCHANGED <<line, stored, channels, history>>

\* The packet ends with something else than a footer.
Refuse ==
  /\ ~Reading /\ sbus_packet[25] # {}
  /\ sbus_packet' = <<>>
  /\ UNCHANGED <<wire, stored, channels, history>>

\* After the last channel the firmware begins again.
Store ==
  /\ ~Reading /\ sbus_packet[25] = {}
  /\ channels' = [channels EXCEPT
       ![stored] = Unpacked([k \in 0..24 |-> sbus_packet[k + 1]], stored)]
  /\ stored' = (stored + 1) % 16
  /\ sbus_packet' = IF stored = 15 THEN <<>> ELSE sbus_packet
  /\ received' = IF stored = 15 THEN sent ELSE NoPacket
  /\ UNCHANGED <<wire, sent, partial, damaged>>

Next == Begin \/ Damage \/ ReadByte \/ Restart \/ Refuse \/ Store

==============================================================================
