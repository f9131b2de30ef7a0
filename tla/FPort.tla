-------------------------------- MODULE FPort --------------------------------
(***************************************************************************)
(* The F.Port firmware of PRU 0: main() waits until the wire is silent,    *)
(* reads a frame byte by byte at a fixed rate, undoes the byte stuffing    *)
(* and stores the sixteen channels.  It looks at no header, length, type   *)
(* or checksum, so noise on the wire reaches the channels; the question is *)
(* what is left of it when the next frame has come.                        *)
(***************************************************************************)
EXTENDS ChannelPacking, SequencesExt

CONSTANT Others     \* the frames on the wire that are not control frames

ASSUME OthersAssumption == Others \subseteq Seq(Byte)

VARIABLES
  line,         \* what is left of the frame on the wire
  at,           \* where the firmware is
  got,          \* bytes read since the frame began, the packet from 3 on
  escaped,      \* the last byte read announces a stuffed one
  stored,       \* channels of the packet stored so far
  channels,     \* the shared memory
  sent,         \* history: the packet on the wire, if it is undamaged
  received,     \* history: the packet stored last, if it was undamaged
  damaged       \* history: bytes damaged so far

firmware == <<at, got, escaped, stored>>
history  == <<sent, received, damaged>>
vars     == <<line, firmware, channels, history>>

Escape == {0, 2, 3, 4, 5, 6}    \* 0x7D
Header == {1, 2, 3, 4, 5, 6}    \* 0x7E

Flip(b) == (b \ {5}) \union ({5} \ b)     \* b ^ 0x20

\* The receiver stuffs the bytes that have a meaning in the protocol: a byte
\* 0x7D announces them.
Stuffed(b) == IF b \in {Escape, Header} THEN <<Escape, Flip(b)>> ELSE <<b>>

\* Length and type, channels, flags, signal strength, checksum.
Content(s) == <<{0, 3, 4}, {}>> \o Packed(s) \o <<{}, {2, 5, 6}, {}>>

Frame == [s \in Packets |->
  <<Header>> \o FlattenSeq([k \in DOMAIN Content(s) |-> Stuffed(Content(s)[k])])
             \o <<Header>>]

\* The program starts the firmware at any moment, and clears the memory.
Init ==
  /\ \E s \in Packets : \E k \in 1 .. Len(Frame[s]) + 1 :
       line = SubSeq(Frame[s], k, Len(Frame[s]))
  /\ at = "waiting" /\ got = <<>> /\ escaped = FALSE /\ stored = 0
  /\ channels = [i \in ChannelIds |-> {}]
  /\ sent = NoPacket /\ received = NoPacket /\ damaged = 0

------------------------------------------------------------------------------
\* The receiver begins a frame, and the firmware, which has seen the silence
\* before it, begins to read it.  The pause between frames is long enough for
\* all that the firmware reads and stores.
Begin ==
  /\ at = "waiting" /\ line = <<>>
  /\ \/ \E s \in Packets : line' = Frame[s] /\ sent' = s
     \/ line' \in Others /\ sent' = NoPacket
  /\ at' = "reading" /\ got' = <<>>
  /\ UNCHANGED <<escaped, stored, channels, received, damaged>>

\* A byte on its way is damaged.
Damage ==
  /\ at = "reading" /\ line # <<>> /\ damaged < MaxDamaged
  /\ \E b \in Noise \ {Head(line)} : line' = <<b>> \o Tail(line)
  /\ sent' = NoPacket
  /\ damaged' = damaged + 1
  /\ UNCHANGED <<firmware, channels, received>>

\* wait_for_transmission_start lets the rest of a frame go by.
Silence ==
  /\ at = "waiting" /\ line # <<>>
  /\ line' = <<>>
  /\ UNCHANGED <<firmware, channels, history>>

\* The byte after an announcing one is taken as it is.
ReadNotFlipped ==
  /\ at = "reading" /\ Len(got) < 26
  /\ LET b == IF line = <<>> THEN {} ELSE Head(line)
     IN  IF Len(got) >= 2 /\ ~escaped /\ b = Escape
           THEN escaped' = TRUE /\ UNCHANGED got
           ELSE escaped' = FALSE /\ got' = Append(got, b)
  /\ line' = IF line = <<>> THEN <<>> ELSE Tail(line)
  /\ UNCHANGED <<at, stored, channels, history>>

\* read_byte() samples eight bits whether or not a byte is being sent: a
\* silent wire gives zeros.
Read ==
  /\ at = "reading" /\ Len(got) < 26
  /\ LET b == IF line = <<>> THEN {} ELSE Head(line)
     IN  IF Len(got) >= 2 /\ ~escaped /\ b = Escape
           THEN escaped' = TRUE /\ UNCHANGED got
           ELSE escaped' = FALSE
                /\ got' = Append(got, IF escaped THEN Flip(b) ELSE b)
  /\ line' = IF line = <<>> THEN <<>> ELSE Tail(line)
  /\ UNCHANGED <<at, stored, channels, history>>

Complete ==
  /\ at = "reading" /\ Len(got) = 26
  /\ at' = "storing"
  /\ received' = NoPacket
  /\ UNCHANGED <<line, got, escaped, stored, channels, sent, damaged>>

\* The program may look at the channels between two of these.
Store ==
  /\ at = "storing"
  /\ channels' = [channels EXCEPT
       ![stored] = Unpacked([k \in 0..23 |-> got[k + 3]], stored)]
  /\ stored' = (stored + 1) % 16
  /\ at' = IF stored = 15 THEN "waiting" ELSE "storing"
  /\ received' = IF stored = 15 THEN sent ELSE NoPacket
  /\ UNCHANGED <<line, got, escaped, sent, damaged>>

Next == Begin \/ Damage \/ Silence \/ Read \/ Complete \/ Store

==============================================================================
