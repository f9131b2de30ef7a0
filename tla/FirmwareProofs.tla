---------------------------- MODULE FirmwareProofs ----------------------------
(***************************************************************************)
(* Proofs about Firmware, for any packets and any damage on the wire.      *)
(***************************************************************************)
EXTENDS Firmware, StreamLemmas

------------------------------------------------------------------------------
(* Packing and unpacking.                                                   *)

\* Each bit of the channels is a bit of one byte.
LEMMA BitOfByte ==
  ASSUME NEW s \in [ChannelIds -> Raw], NEW i \in ChannelIds, NEW k \in 0..10,
         NEW b \in 1..22, NEW t \in 0..7, 8 * (b - 1) + t = 11 * i + k
  PROVE  t \in Packed(s)[b] <=> k \in s[i]
<1> DEFINE n == 8 * (b - 1) + t
<1>1. n % 11 = k /\ n \div 11 = i
  BY DEF ChannelIds
<1>2. t \in Packed(s)[b] <=> n % 11 \in s[n \div 11]
  BY DEF Packed
<1> QED
  BY <1>1, <1>2

\* Where the bits of a channel are.
LEMMA BitPlace ==
  ASSUME NEW i \in ChannelIds
  PROVE  /\ Skip(i) \in 0..7 /\ First(i) \in 1..21
         /\ 8 * (First(i) - 1) + Skip(i) = 11 * i
         /\ i = 15 => Skip(i) = 5 /\ First(i) = 21
         /\ i # 15 => First(i) <= 20
         /\ i = 1 => Skip(i) = 3
  BY DEF ChannelIds, Skip, First

\* The bytes from 1 to 22 of a packet, as the firmware stores them, hold the
\* channels.
Holds(p, s) ==
  /\ p \in [0..23 -> Byte] \union [0..24 -> Byte]
  /\ \A b \in 1..22 : p[b] = Packed(s)[b]

\* A channel is unpacked as it was packed, but for channel 1, of which the
\* three highest bits are right.
LEMMA Unpacks ==
  ASSUME NEW s \in [ChannelIds -> Raw], NEW i \in ChannelIds, NEW p, Holds(p, s)
  PROVE  /\ Unpacked(p, i) \in Raw
         /\ i # 1 => Unpacked(p, i) = s[i]
         /\ i = 1 => Unpacked(p, i) \intersect 8..10 = s[i] \intersect 8..10
<1> DEFINE skip  == Skip(i)
           first == First(i)
<1>1. /\ skip \in 0..7 /\ first \in 1..21 /\ 8 * (first - 1) + skip = 11 * i
      /\ i = 15 => skip = 5 /\ first = 21
      /\ i # 15 => first <= 20
      /\ i = 1 => skip = 3
  BY BitPlace
<1> DEFINE bit(k) == \/ (k + IF i = 1 THEN 0 ELSE skip) \in p[first]
                     \/ k + skip - 8 \in p[first + 1]
                     \/ k + skip - 16 \in p[first + 2]
<1>2. Unpacked(p, i) = {k \in 0..10 : bit(k)}
  BY DEF Unpacked
<1> HIDE DEF skip, first
<1>3. p[first] \subseteq 0..7 /\ p[first + 1] \subseteq 0..7 /\ p[first + 2] \subseteq 0..7
  <2>1. first \in 0..23 /\ first + 1 \in 0..23 /\ first + 2 \in 0..23
    BY <1>1
  <2>2. \A k \in 0..23 : p[k] \in Byte
    <3>1. CASE p \in [0..23 -> Byte]
      BY <3>1
    <3>2. CASE p \in [0..24 -> Byte]
      BY <3>2
    <3> QED
      BY <3>1, <3>2 DEF Holds
  <2>3. p[first] \in Byte /\ p[first + 1] \in Byte /\ p[first + 2] \in Byte
    BY <2>1, <2>2
  <2> QED
    BY <2>3 DEF Byte
<1>9. ASSUME NEW k \in 0..10, NEW b \in 1..22, NEW t \in 0..7, 8 * (b - 1) + t = 11 * i + k
      PROVE  t \in p[b] <=> k \in s[i]
  <2>1. t \in Packed(s)[b] <=> k \in s[i]
    BY <1>9, BitOfByte
  <2> QED
    BY <2>1 DEF Holds
<1>4. ASSUME NEW k \in 0..10, i # 1 \/ k >= 8
      PROVE  bit(k) <=> k \in s[i]
  <2>1. CASE k + skip < 8
    <3>0. k + skip - 8 \notin 0..7 /\ k + skip - 16 \notin 0..7 /\ i # 1
      BY <1>1, <1>4, <2>1
    <3>1. k + skip - 8 \notin p[first + 1] /\ k + skip - 16 \notin p[first + 2] /\ i # 1
      BY <1>3, <3>0
    <3>2. first \in 1..22 /\ k + skip \in 0..7 /\ 8 * (first - 1) + (k + skip) = 11 * i + k
      BY <1>1, <2>1 DEF ChannelIds
    <3>3. k + skip \in p[first] <=> k \in s[i]
      BY <1>9, <3>2
    <3> QED
      BY <3>1, <3>3
  <2>2. CASE k + skip \in 8..15
    <3>0. (k + IF i = 1 THEN 0 ELSE skip) \notin 0..7 /\ k + skip - 16 \notin 0..7
      BY <1>1, <1>4, <2>2
    <3>1. (k + IF i = 1 THEN 0 ELSE skip) \notin p[first] /\ k + skip - 16 \notin p[first + 2]
      BY <1>3, <3>0
    <3>2. /\ first + 1 \in 1..22 /\ k + skip - 8 \in 0..7
          /\ 8 * ((first + 1) - 1) + (k + skip - 8) = 11 * i + k
      BY <1>1, <2>2 DEF ChannelIds
    <3>3. k + skip - 8 \in p[first + 1] <=> k \in s[i]
      BY <1>9, <3>2
    <3> QED
      BY <3>1, <3>3
  <2>3. CASE k + skip >= 16
    <3>0. (k + IF i = 1 THEN 0 ELSE skip) \notin 0..7 /\ k + skip - 8 \notin 0..7
      BY <1>1, <1>4, <2>3
    <3>1. (k + IF i = 1 THEN 0 ELSE skip) \notin p[first] /\ k + skip - 8 \notin p[first + 1]
      BY <1>3, <3>0
    <3>2. /\ first + 2 \in 1..22 /\ k + skip - 16 \in 0..7
          /\ 8 * ((first + 2) - 1) + (k + skip - 16) = 11 * i + k
      BY <1>1, <2>3 DEF ChannelIds
    <3> DEFINE b == first + 2
               at16 == k + skip - 16
    <3>4. b \in 1..22 /\ at16 \in 0..7 /\ 8 * (b - 1) + at16 = 11 * i + k
      BY <3>2
    <3> HIDE DEF b, at16
    <3>5. at16 \in p[b] <=> k \in s[i]
      BY <1>9, <3>4
    <3>3. k + skip - 16 \in p[first + 2] <=> k \in s[i]
      BY <3>5 DEF b, at16
    <3> QED
      BY <3>1, <3>3
  <2> QED
    BY <1>1, <2>1, <2>2, <2>3
<1> HIDE DEF bit
<1>5. s[i] \subseteq 0..10
  BY DEF Raw
<1>6. Unpacked(p, i) \in Raw
  BY <1>2 DEF Raw
<1>7. CASE i # 1
  BY <1>2, <1>4, <1>5, <1>6, <1>7
<1>8. CASE i = 1
  BY <1>2, <1>4, <1>5, <1>6, <1>8
<1> QED
  BY <1>7, <1>8

\* A packet is twenty-two bytes.
LEMMA PackedLength ==
  ASSUME NEW s
  PROVE  Packed(s) \in Seq(Byte) /\ Len(Packed(s)) = 22
<1>1. Packed(s) \in [1..22 -> Byte]
  BY DEF Packed, Byte
<1> QED
  BY <1>1, FunctionIsSequence

------------------------------------------------------------------------------
(* The frames.                                                              *)

\* The bytes of a frame of S.BUS.
LEMMA FrameOfSBus ==
  ASSUME NEW s \in Packets
  PROVE  /\ S!Frame[s] \in Seq(Byte) /\ Len(S!Frame[s]) = 25
         /\ S!Frame[s][25] = {}
         /\ \A b \in 1..22 : S!Frame[s][b + 1] = Packed(s)[b]
<1>1. S!Packed(s) = Packed(s)
  BY DEF S!Packed, Packed
<1> DEFINE first == <<{0, 1, 2, 3}>>
           last  == <<{}, {}>>
           p     == Packed(s)
<1>2. p \in Seq(Byte) /\ Len(p) = 22
  BY PackedLength
<1>3. /\ first \in Seq(Byte) /\ Len(first) = 1
      /\ last \in Seq(Byte) /\ Len(last) = 2 /\ last[2] = {}
  BY DEF Byte
<1>4. S!Frame[s] = first \o p \o last
  BY <1>1 DEF S!Frame
<1> HIDE DEF first, last, p
<1> DEFINE w == first \o p \o last
<1>5. /\ w \in Seq(Byte)
      /\ Len(w) = Len(first) + Len(p) + Len(last)
      /\ \A i \in 1..Len(p) : w[i + Len(first)] = p[i]
      /\ \A i \in 1..Len(last) : w[i + Len(first) + Len(p)] = last[i]
  <2>1. first \in Seq(Byte) /\ p \in Seq(Byte) /\ last \in Seq(Byte)
    BY <1>2, <1>3
  <2> QED
    BY ONLY <2>1, ThreeParts
<1> HIDE DEF w
<1>6. w[2 + Len(first) + Len(p)] = last[2]
  BY <1>3, <1>5
<1>7. \A b \in 1..22 : w[b + 1] = p[b]
  BY <1>2, <1>3, <1>5
<1>8. S!Frame[s] = w
  BY <1>4 DEF w
<1>9. w \in Seq(Byte) /\ Len(w) = 25 /\ w[25] = {}
  BY <1>2, <1>3, <1>5, <1>6
<1> QED
  BY <1>7, <1>8, <1>9, Zenon DEF p

\* The bytes of a frame of F.Port before they are stuffed.
LEMMA ContentBytes ==
  ASSUME NEW s
  PROVE  /\ Content(s) \in Seq(Byte) /\ Len(Content(s)) = 27
         /\ Content(s)[1] \notin {Escape, Header}
         /\ \A b \in 1..22 : Content(s)[b + 2] = Packed(s)[b]
<1> DEFINE first == <<{0, 3, 4}, {}>>
           last  == <<{}, {2, 5, 6}, {}>>
           p     == Packed(s)
<1>2. p \in Seq(Byte) /\ Len(p) = 22
  BY PackedLength
<1>3. /\ first \in Seq(Byte) /\ Len(first) = 2 /\ first[1] = {0, 3, 4}
      /\ last \in Seq(Byte) /\ Len(last) = 3
  BY DEF Byte
<1>4. Content(s) = first \o p \o last
  BY DEF Content
<1> HIDE DEF first, last, p
<1>5. /\ Content(s) \in Seq(Byte)
      /\ Len(Content(s)) = Len(first) + Len(p) + Len(last)
      /\ \A i \in 1..Len(first) : Content(s)[i] = first[i]
      /\ \A i \in 1..Len(p) : Content(s)[i + Len(first)] = p[i]
  <2>1. first \in Seq(Byte) /\ p \in Seq(Byte) /\ last \in Seq(Byte)
    BY <1>2, <1>3
  <2> QED
    BY ONLY <1>4, <2>1, ThreeParts
<1>6. Content(s)[1] = {0, 3, 4}
  BY <1>3, <1>5
<1>7. \A b \in 1..22 : Content(s)[b + 2] = p[b]
  BY <1>2, <1>3, <1>5
<1>8. {0, 3, 4} \notin {Escape, Header}
  <2>1. 2 \in Escape /\ 2 \in Header /\ 2 \notin {0, 3, 4}
    BY DEF Escape, Header
  <2> QED
    BY <2>1
<1>9. Len(Content(s)) = 27
  BY <1>2, <1>3, <1>5
<1> QED
  BY <1>5, <1>6, <1>7, <1>8, <1>9, Zenon DEF p

\* A stuffed byte is another one, and comes back when it is flipped again.
LEMMA Flips ==
  ASSUME NEW b \in Byte
  PROVE  Flip(b) \in Byte /\ Flip(Flip(b)) = b
  BY DEF Flip, Byte

\* What is left of an undamaged frame of F.Port from byte k of its content on.
Pieces(s)  == [k \in DOMAIN Content(s) |-> Stuffed(Content(s)[k])]
Left(s, k) == FlattenSeq(SubSeq(Pieces(s), k, Len(Pieces(s)))) \o <<Header>>

LEMMA PiecesOfFrame ==
  ASSUME NEW s
  PROVE  /\ Pieces(s) \in Seq(Seq(Byte)) /\ Len(Pieces(s)) = 27
         /\ \A k \in 1..27 : Pieces(s)[k] = Stuffed(Content(s)[k])
<1>1. Content(s) \in Seq(Byte) /\ Len(Content(s)) = 27 /\ DOMAIN Content(s) = 1..27
  BY ContentBytes, LenProperties
<1>2. Escape \in Byte
  BY DEF Escape, Byte
<1>3. ASSUME NEW b \in Byte PROVE Stuffed(b) \in Seq(Byte)
  BY <1>2, Flips DEF Stuffed
<1>4. Pieces(s) = [k \in 1..27 |-> Stuffed(Content(s)[k])]
  BY <1>1 DEF Pieces
<1>5. \A k \in 1..27 : Stuffed(Content(s)[k]) \in Seq(Byte)
  <2>1. \A k \in 1..27 : Content(s)[k] \in Byte
    BY <1>1, ElementOfSeq
  <2> QED
    BY <1>3, <2>1, Zenon
<1>6. Pieces(s) \in [1..27 -> Seq(Byte)]
  BY <1>4, <1>5
<1> QED
  BY <1>4, <1>6, FunctionIsSequence

\* Byte k of the content, stuffed if it must be, comes before the rest.
LEMMA LeftStartsWith ==
  ASSUME NEW s, NEW k \in 1..27
  PROVE  /\ Left(s, k) \in Seq(Byte)
         /\ Left(s, k + 1) \in Seq(Byte)
         /\ Content(s)[k] \in {Escape, Header} =>
              Left(s, k) = <<Escape>> \o (<<Flip(Content(s)[k])>> \o Left(s, k + 1))
         /\ Content(s)[k] \notin {Escape, Header} =>
              Left(s, k) = <<Content(s)[k]>> \o Left(s, k + 1)
<1> DEFINE q    == Pieces(s)
           rest == FlattenSeq(SubSeq(q, k + 1, Len(q)))
           c    == Content(s)[k]
<1>1. q \in Seq(Seq(Byte)) /\ Len(q) = 27 /\ q[k] = Stuffed(c)
  BY PiecesOfFrame
<1>2. c \in Byte /\ Header \in Byte /\ Escape \in Byte /\ Flip(c) \in Byte
  <2>1. c \in Byte
    BY ContentBytes, ElementOfSeq
  <2>2. Header \in Byte /\ Escape \in Byte
    BY DEF Header, Escape, Byte
  <2> HIDE DEF c
  <2> QED
    BY <2>1, <2>2, Flips
<1> HIDE DEF q, c
<1>3. rest \in Seq(Byte) /\ FlattenSeq(SubSeq(q, k, Len(q))) = Stuffed(c) \o rest
  BY <1>1, FlattenRest
<1>4. Left(s, k) = (Stuffed(c) \o rest) \o <<Header>> /\ Left(s, k + 1) = rest \o <<Header>>
  BY <1>3 DEF Left, q
<1> HIDE DEF rest
<1>5. Stuffed(c) \in Seq(Byte) /\ <<Header>> \in Seq(Byte)
  BY <1>2 DEF Stuffed
<1>6. Left(s, k) = Stuffed(c) \o Left(s, k + 1) /\ Left(s, k + 1) \in Seq(Byte)
  <2> DEFINE first == Stuffed(c)
             last  == <<Header>>
  <2>1. first \in Seq(Byte) /\ last \in Seq(Byte) /\ rest \in Seq(Byte)
    BY <1>3, <1>5
  <2> HIDE DEF first, last
  <2>2. (first \o rest) \o last = first \o (rest \o last) /\ rest \o last \in Seq(Byte)
    BY <2>1, ConcatAssociative, ConcatProperties
  <2> QED
    BY <1>4, <2>2 DEF first, last
<1>7. Left(s, k) \in Seq(Byte)
  BY <1>5, <1>6, ConcatProperties
<1>8. CASE c \in {Escape, Header}
  <2>1. Stuffed(c) = <<Escape>> \o <<Flip(c)>>
    BY <1>2, <1>8 DEF Stuffed
  <2>2. <<Escape>> \in Seq(Byte) /\ <<Flip(c)>> \in Seq(Byte)
    BY <1>2
  <2>3. Left(s, k) = <<Escape>> \o (<<Flip(c)>> \o Left(s, k + 1))
    BY <1>6, <2>1, <2>2, ConcatAssociative
  <2> QED
    BY <1>6, <1>7, <1>8, <2>3 DEF c
<1>9. CASE c \notin {Escape, Header}
  BY <1>6, <1>7, <1>9 DEF c, Stuffed
<1> QED
  BY <1>8, <1>9

\* A frame of F.Port is its header and what is left when that was read.
LEMMA FrameOfFPort ==
  ASSUME NEW s \in Packets
  PROVE  Frame[s] = <<Header>> \o Left(s, 1) /\ Frame[s] \in Seq(Byte)
<1> DEFINE q == Pieces(s)
<1>1. q \in Seq(Seq(Byte))
  BY PiecesOfFrame
<1>2. Frame[s] = (<<Header>> \o FlattenSeq(q)) \o <<Header>>
  BY DEF Frame, Pieces
<1>3. Left(s, 1) = FlattenSeq(q) \o <<Header>>
  BY <1>1, SubSeqFull DEF Left
<1> HIDE DEF q
<1>4. <<Header>> \in Seq(Byte) /\ FlattenSeq(q) \in Seq(Byte)
  BY <1>1, FlattenType DEF Header, Byte
<1>5. Frame[s] = <<Header>> \o Left(s, 1)
  BY <1>2, <1>3, <1>4, ConcatAssociative
<1>6. Left(s, 1) \in Seq(Byte)
  <2>1. 1 \in 1..27
    OBVIOUS
  <2> QED
    BY <2>1, LeftStartsWith
<1> QED
  BY <1>4, <1>5, <1>6, ConcatProperties

------------------------------------------------------------------------------
(* The inductive invariant.                                                 *)

\* Of the channels before n, the values in v are those of s, or for channel 1
\* their three highest bits are.
Stored(v, s, n) == \A i \in ChannelIds : i < n =>
  IF i = 1 THEN v[i] \intersect 8..10 = s[i] \intersect 8..10 ELSE v[i] = s[i]

\* Storing channel n of a packet adds it to the channels that are stored.
LEMMA StoresOne ==
  ASSUME NEW v \in [ChannelIds -> Raw], NEW n \in ChannelIds, NEW s \in Packets,
         NEW p, Holds(p, s), Stored(v, s, n)
  PROVE  /\ Unpacked(p, n) \in Raw
         /\ Stored([v EXCEPT ![n] = Unpacked(p, n)], s, n + 1)
<1>1. s \in [ChannelIds -> Raw]
  BY PacketsAssumption DEF PacketsAssumption
<1>2. /\ Unpacked(p, n) \in Raw
      /\ n # 1 => Unpacked(p, n) = s[n]
      /\ n = 1 => Unpacked(p, n) \intersect 8..10 = s[n] \intersect 8..10
  BY <1>1, Unpacks
<1> DEFINE w == [v EXCEPT ![n] = Unpacked(p, n)]
<1>3. w[n] = Unpacked(p, n) /\ \A i \in ChannelIds \ {n} : w[i] = v[i]
  OBVIOUS
<1> HIDE DEF w
<1>4. ASSUME NEW i \in ChannelIds, i < n + 1
      PROVE  IF i = 1 THEN w[i] \intersect 8..10 = s[i] \intersect 8..10 ELSE w[i] = s[i]
  <2>1. CASE i = n
    BY <1>2, <1>3, <2>1
  <2>2. CASE i # n
    <3>1. i < n /\ w[i] = v[i]
      BY <1>3, <1>4, <2>2 DEF ChannelIds
    <3> QED
      BY <3>1 DEF Stored
  <2> QED
    BY <2>1, <2>2
<1> QED
  BY <1>2, <1>4 DEF Stored, w

\* Both firmwares.
StoreInv ==
  /\ TARGET \in {"fport", "sbus"}
  /\ line \in Seq(Byte)
  /\ stored \in ChannelIds
  /\ channels \in [ChannelIds -> Raw]
  /\ sent \in Packets \union {NoPacket}
  /\ received # NoPacket => received \in Packets /\ Stored(channels, received, 16)

\* The frame after the bytes that have been read: the header, and the content
\* before byte Len(got), of which the announcing byte may be read.
Unread(s) ==
  IF got = <<>> THEN <<Header>> \o Left(s, 1)
  ELSE IF escaped THEN <<Flip(Content(s)[Len(got)])>> \o Left(s, Len(got) + 1)
  ELSE Left(s, Len(got))

\* What the firmware has read of an undamaged frame is what was stuffed, and
\* the rest of it is on the wire.
FPortInv ==
  TARGET = "fport" =>
    /\ at \in {"waiting", "reading", "storing"} /\ escaped \in BOOLEAN
    /\ got \in Seq(Byte) /\ Len(got) <= 26
    /\ escaped => at = "reading" /\ Len(got) \in 2..25
    /\ at # "storing" => stored = 0
    /\ at = "storing" => Len(got) = 26 /\ received = NoPacket
    /\ (at = "reading" /\ sent # NoPacket) => line = Unread(sent)
    /\ (at # "waiting" /\ sent # NoPacket) =>
         \A k \in 2..Len(got) : got[k] = Content(sent)[k - 1]
    /\ (at = "storing" /\ sent # NoPacket) => Stored(channels, sent, stored)

\* An undamaged frame of S.BUS is in the packet as far as it has been read.
SBusInv ==
  TARGET = "sbus" =>
    /\ sbus_packet \in Seq(Byte)
    /\ Len(sbus_packet) + Len(line) <= 25
    /\ pause => line = <<>> /\ sbus_packet = <<>>
    /\ partial => Len(sbus_packet) + Len(line) < 25
    /\ stored # 0 => /\ Len(sbus_packet) = 25 /\ sbus_packet[25] = {}
                     /\ received = NoPacket
    /\ sent # NoPacket => \/ line = <<>> /\ sbus_packet = <<>>
                          \/ sbus_packet \o line = S!Frame[sent]
    /\ (sent # NoPacket /\ sbus_packet # <<>>) => Stored(channels, sent, stored)

FirmwareInv == StoreInv /\ FPortInv /\ SBusInv

------------------------------------------------------------------------------
(* F.Port.                                                                  *)

\* The firmware may start anywhere in a frame.
LEMMA FPortInit == TARGET = "fport" /\ Init => StoreInv /\ FPortInv
<1> SUFFICES ASSUME TARGET = "fport", Init
             PROVE  StoreInv /\ FPortInv
  OBVIOUS
<1>1. line \in Seq(Byte)
  <2>1. PICK s \in Packets : \E k \in 1 .. Len(Frame[s]) + 1 :
               line = SubSeq(Frame[s], k, Len(Frame[s]))
    BY DEF Init
  <2> DEFINE frame == Frame[s]
  <2>2. PICK k \in 1 .. Len(frame) + 1 : line = SubSeq(frame, k, Len(frame))
    BY <2>1
  <2>3. frame \in Seq(Byte)
    BY FrameOfFPort
  <2> HIDE DEF frame
  <2>4. Len(frame) \in Nat /\ k \in Int /\ \A i \in k..Len(frame) : frame[i] \in Byte
    BY <2>3
  <2> QED
    BY <2>2, <2>4, SubSeqProperties
<1>2. channels \in [ChannelIds -> Raw] /\ stored \in ChannelIds
  BY DEF Init, Raw, ChannelIds
<1>3. got \in Seq(Byte) /\ Len(got) = 0
  BY DEF Init
<1>4. sent = NoPacket /\ received = NoPacket /\ at = "waiting" /\ escaped = FALSE /\ stored = 0
  BY DEF Init
<1>5. StoreInv
  BY <1>1, <1>2, <1>4 DEF StoreInv
<1>6. FPortInv
  <2>1. Len(got) <= 26 /\ at # "reading" /\ at # "storing"
    BY <1>3, <1>4
  <2> QED
    BY <1>3, <1>4, <2>1, Zenon DEF FPortInv
<1> QED
  BY <1>5, <1>6

\* A new frame, damaged or not.
LEMMA FPortBegins ==
  ASSUME FirmwareInv, TARGET = "fport", Begin, UNCHANGED <<TARGET, sbusOnly>>
  PROVE  FirmwareInv'
<1> USE DEF FirmwareInv, StoreInv, FPortInv, Begin
<1>1. line' \in Seq(Byte) /\ sent' \in Packets \union {NoPacket}
  <2>1. CASE \E s \in Packets : line' = Frame[s] /\ sent' = s
    BY <2>1, FrameOfFPort
  <2>2. CASE line' \in Others /\ sent' = NoPacket
    BY <2>2, OthersAssumption DEF OthersAssumption
  <2> QED
    BY <2>1, <2>2
<1>2. got' = <<>> /\ got' \in Seq(Byte) /\ Len(got') = 0 /\ escaped' = FALSE
  OBVIOUS
<1>3. ASSUME sent' # NoPacket
      PROVE  line' = Unread(sent)'
  <2>1. sent' \in Packets /\ line' = Frame[sent']
    BY <1>1, <1>3
  <2>2. line' = <<Header>> \o Left(sent', 1)
    BY <2>1, FrameOfFPort
  <2> QED
    BY <1>2, <2>2 DEF Unread
<1>4. StoreInv'
  BY <1>1
<1>5. FPortInv'
  BY <1>2, <1>3
<1>6. SBusInv'
  BY DEF SBusInv
<1> QED
  BY <1>4, <1>5, <1>6

\* A damaged byte.
LEMMA FPortDamages ==
  ASSUME FirmwareInv, TARGET = "fport", Damage, UNCHANGED <<TARGET, sbusOnly>>
  PROVE  FirmwareInv'
<1> USE DEF FirmwareInv, StoreInv, FPortInv, Damage, firmware
<1>1. PICK b \in Noise : line' = <<b>> \o Tail(line)
  OBVIOUS
<1>2. b \in Byte /\ Tail(line) \in Seq(Byte)
  BY NoiseAssumption DEF NoiseAssumption
<1>3. line' \in Seq(Byte)
  BY <1>1, <1>2, FirstRead
<1>4. SBusInv'
  BY DEF SBusInv
<1>5. StoreInv'
  BY <1>3
<1>6. FPortInv'
  OBVIOUS
<1> QED
  BY <1>4, <1>5, <1>6

\* What the next byte of an undamaged frame is, and what reading it leaves.
LEMMA FPortReadsFrame ==
  ASSUME StoreInv, FPortInv, TARGET = "fport", Read, sent # NoPacket, UNCHANGED sent
  PROVE  /\ line' = Unread(sent)'
         /\ \A k \in 2..Len(got') : got'[k] = Content(sent)[k - 1]
<1> DEFINE s == sent
           g == Len(got)
           b == IF line = <<>> THEN {} ELSE Head(line)
<1>0. at = "reading" /\ g < 26 /\ got \in Seq(Byte)
  BY DEF Read, FPortInv
<1>1. /\ g \in 0..25 /\ line = Unread(s) /\ s \in Packets
      /\ got \in Seq(Byte) /\ escaped \in BOOLEAN /\ (escaped => g >= 2)
      /\ \A k \in 2..g : got[k] = Content(s)[k - 1]
  <2>1. g \in 0..25
    <3>1. g \in Nat
      BY <1>0, LenProperties
    <3> HIDE DEF g
    <3> QED
      BY <1>0, <3>1
  <2>2. s \in Packets
    BY DEF StoreInv
  <2>3. escaped \in BOOLEAN /\ (escaped => g >= 2)
    <3>1. escaped \in BOOLEAN /\ (escaped => g \in 2..25)
      BY Zenon DEF FPortInv
    <3> HIDE DEF g
    <3> QED
      BY <3>1
  <2>4. line = Unread(s) /\ \A k \in 2..g : got[k] = Content(s)[k - 1]
    BY <1>0 DEF FPortInv
  <2> QED
    BY <1>0, <2>1, <2>2, <2>3, <2>4
<1>2. IF g >= 2 /\ ~escaped /\ b = Escape
        THEN escaped' = TRUE /\ got' = got
        ELSE escaped' = FALSE /\ got' = Append(got, IF escaped THEN Flip(b) ELSE b)
  BY DEF Read
<1>3. line' = IF line = <<>> THEN <<>> ELSE Tail(line)
  BY DEF Read
<1>4. s' = s
  OBVIOUS
<1>5. ASSUME NEW x \in Byte, NEW rest \in Seq(Byte), line = <<x>> \o rest
      PROVE  b = x /\ line' = rest
  <2>1. line # <<>> /\ Head(line) = x /\ Tail(line) = rest
    BY <1>5, FirstRead
  <2> QED
    BY <1>3, <2>1
<1> HIDE DEF b
<1>7. CASE got = <<>>
  <2>1. g = 0 /\ ~escaped
    BY <1>1, <1>7
  <2>2. Header \in Byte /\ Left(s, 1) \in Seq(Byte)
    <3>1. 1 \in 1..27
      OBVIOUS
    <3>2. Left(s, 1) \in Seq(Byte)
      BY <3>1, LeftStartsWith
    <3> QED
      BY <3>2 DEF Header, Byte
  <2>3. b = Header /\ line' = Left(s, 1)
    BY <1>1, <1>5, <1>7, <2>2 DEF Unread
  <2>4. escaped' = FALSE /\ got' = Append(got, Header)
    BY <1>2, <2>1, <2>3
  <2>5. got' # <<>> /\ Len(got') = 1
    BY <1>1, <2>1, <2>4
  <2> QED
    BY <1>4, <2>3, <2>4, <2>5 DEF Unread
<1>8. ASSUME got # <<>>, escaped' = FALSE, got' = Append(got, Content(s)[g]), line' = Left(s, g + 1)
      PROVE  /\ line' = Unread(sent)'
             /\ \A k \in 2..Len(got') : got'[k] = Content(sent)[k - 1]
  <2>1. Content(s)[g] \in Byte
    <3>1. g \in 1..27
      BY <1>1, <1>8
    <3> QED
      BY <3>1, ContentBytes, ElementOfSeq
  <2>2. /\ Len(got') = g + 1 /\ got' # <<>> /\ got'[g + 1] = Content(s)[g]
        /\ \A k \in 1..g : got'[k] = got[k]
    BY <1>1, <1>8, <2>1, AppendProperties
  <2>3. ASSUME NEW k \in 2..Len(got') PROVE got'[k] = Content(s)[k - 1]
    <3>1. CASE k = g + 1
      BY <1>1, <2>2, <3>1
    <3>2. CASE k # g + 1
      <4>1. k \in 2..g /\ k \in 1..g
        BY <1>1, <2>2, <2>3, <3>2
      <4> QED
        BY <1>1, <2>2, <4>1
    <3> QED
      BY <3>1, <3>2
  <2>4. line' = Unread(sent)'
    BY <1>4, <1>8, <2>2 DEF Unread
  <2> QED
    BY <2>3, <2>4
<1>9. CASE got # <<>> /\ escaped
  <2>1. g \in 1..25 /\ Content(s)[g] \in Byte
    <3>1. g \in 1..25
      BY <1>1, <1>9
    <3>2. g \in 1..27
      BY <3>1
    <3> QED
      BY <3>1, <3>2, ContentBytes, ElementOfSeq
  <2>2. /\ Flip(Content(s)[g]) \in Byte /\ Flip(Flip(Content(s)[g])) = Content(s)[g]
        /\ Left(s, g + 1) \in Seq(Byte)
    <3>1. Flip(Content(s)[g]) \in Byte /\ Flip(Flip(Content(s)[g])) = Content(s)[g]
      BY <2>1, Flips
    <3>2. g \in 1..27
      BY <2>1
    <3>3. Left(s, g + 1) \in Seq(Byte)
      BY <3>2, LeftStartsWith
    <3> QED
      BY <3>1, <3>3
  <2>3. b = Flip(Content(s)[g]) /\ line' = Left(s, g + 1)
    BY <1>1, <1>5, <1>9, <2>2 DEF Unread
  <2> QED
    BY <1>2, <1>8, <1>9, <2>2, <2>3
<1>10. CASE got # <<>> /\ ~escaped
  <2>1. g \in 1..25 /\ Content(s)[g] \in Byte
    <3>1. g \in 1..25
      BY <1>1, <1>10
    <3>2. g \in 1..27
      BY <3>1
    <3> QED
      BY <3>1, <3>2, ContentBytes, ElementOfSeq
  <2>2. line = Left(s, g) /\ Left(s, g + 1) \in Seq(Byte) /\ g \in 1..27
    <3>1. g \in 1..27
      BY <2>1
    <3>2. Left(s, g + 1) \in Seq(Byte)
      BY <3>1, LeftStartsWith
    <3>3. line = Left(s, g)
      BY <1>1, <1>10 DEF Unread
    <3> QED
      BY <3>1, <3>2, <3>3
  <2>3. CASE Content(s)[g] \in {Escape, Header}
    <3>1. Escape \in Byte /\ Flip(Content(s)[g]) \in Byte
      <4>1. Escape \in Byte
        BY DEF Escape, Byte
      <4> QED
        BY <2>1, <4>1, Flips
    <3>2. <<Flip(Content(s)[g])>> \o Left(s, g + 1) \in Seq(Byte)
      BY <2>2, <3>1, FirstRead
    <3>3. line = <<Escape>> \o (<<Flip(Content(s)[g])>> \o Left(s, g + 1))
      BY <2>2, <2>3, LeftStartsWith
    <3>4. b = Escape /\ line' = <<Flip(Content(s)[g])>> \o Left(s, g + 1)
      BY <1>5, <3>1, <3>2, <3>3
    <3>5. g >= 2
      <4>1. g # 1
        BY <2>3, ContentBytes
      <4> HIDE DEF g
      <4> QED
        BY <2>1, <4>1
    <3>6. escaped' = TRUE /\ got' = got
      BY <1>2, <1>10, <3>4, <3>5
    <3> QED
      BY <1>1, <1>4, <1>10, <3>4, <3>6 DEF Unread
  <2>4. CASE Content(s)[g] \notin {Escape, Header}
    <3>1. line = <<Content(s)[g]>> \o Left(s, g + 1)
      BY <2>2, <2>4, LeftStartsWith
    <3>2. b = Content(s)[g] /\ line' = Left(s, g + 1)
      BY <1>5, <2>1, <2>2, <3>1
    <3>3. escaped' = FALSE /\ got' = Append(got, Content(s)[g])
      BY <1>2, <1>10, <2>4, <3>2
    <3> QED
      BY <1>8, <1>10, <3>2, <3>3
  <2> QED
    BY <2>3, <2>4
<1> QED
  BY <1>7, <1>9, <1>10

\* A byte is read.
LEMMA FPortReads ==
  ASSUME FirmwareInv, TARGET = "fport", Read, UNCHANGED <<TARGET, sbusOnly>>
  PROVE  FirmwareInv'
<1> DEFINE g == Len(got)
           b == IF line = <<>> THEN {} ELSE Head(line)
           c == IF escaped THEN Flip(b) ELSE b
<1>1. /\ StoreInv /\ FPortInv /\ at = "reading" /\ g < 26 /\ got \in Seq(Byte)
      /\ line \in Seq(Byte) /\ escaped \in BOOLEAN /\ stored = 0
  BY DEF FirmwareInv, StoreInv, FPortInv, Read
<1>2. UNCHANGED <<at, stored, channels, sent, received, damaged, TARGET>>
  BY DEF Read, history
<1>3. b \in Byte
  BY <1>1 DEF Byte
<1>4. c \in Byte
  BY <1>3, Flips
<1>5. \/ escaped' = TRUE /\ got' = got /\ g >= 2
      \/ escaped' = FALSE /\ got' = Append(got, c)
  BY DEF Read
<1>6. g \in Nat
  BY <1>1, LenProperties
<1> HIDE DEF b, c
<1>7. /\ got' \in Seq(Byte) /\ Len(got') <= 26 /\ escaped' \in BOOLEAN
      /\ escaped' => Len(got') \in 2..25
  <2>1. CASE escaped' = TRUE /\ got' = got /\ g >= 2
    <3>1. Len(got') = g
      BY <2>1
    <3> HIDE DEF g
    <3> QED
      BY <1>1, <1>6, <2>1, <3>1
  <2>2. CASE escaped' = FALSE /\ got' = Append(got, c)
    <3>1. got' \in Seq(Byte) /\ Len(got') = g + 1
      BY <1>1, <1>4, <2>2, AppendProperties
    <3> HIDE DEF g
    <3>2. Len(got') <= 26
      <4>1. g < 26
        BY <1>1
      <4> QED
        BY ONLY <4>1, <1>6, <3>1
    <3> QED
      BY <2>2, <3>1, <3>2, Zenon
  <2> QED
    BY <1>5, <2>1, <2>2
<1>8. line' \in Seq(Byte)
  <2>1. line' = IF line = <<>> THEN <<>> ELSE Tail(line)
    BY DEF Read
  <2> QED
    BY <1>1, <2>1
<1>9. StoreInv'
  BY <1>2, <1>8 DEF FirmwareInv, StoreInv
<1>10. FPortInv'
  <2>1. sent' # NoPacket => /\ line' = Unread(sent)'
                            /\ \A k \in 2..Len(got') : got'[k] = Content(sent')[k - 1]
    BY <1>1, <1>2, FPortReadsFrame
  <2>2. at' = "reading" /\ stored' = 0
    BY <1>1, <1>2
  <2> QED
    BY <1>7, <2>1, <2>2, Zenon DEF FPortInv
<1>11. SBusInv'
  BY <1>2 DEF SBusInv
<1> QED
  BY <1>9, <1>10, <1>11 DEF FirmwareInv

\* The last byte of the packet is there.
LEMMA FPortCompletes ==
  ASSUME FirmwareInv, TARGET = "fport", Complete, UNCHANGED <<TARGET, sbusOnly>>
  PROVE  FirmwareInv'
<1>1. /\ at = "reading" /\ at' = "storing" /\ received' = NoPacket /\ Len(got) = 26
      /\ UNCHANGED <<line, got, escaped, stored, channels, sent, TARGET>>
  BY DEF Complete
<1>2. StoreInv /\ FPortInv /\ stored = 0 /\ ~escaped
  BY <1>1 DEF FirmwareInv, FPortInv
<1>3. StoreInv'
  BY <1>1, <1>2 DEF StoreInv
<1>4. Stored(channels, sent, stored)'
  BY <1>1, <1>2 DEF Stored, ChannelIds
<1>5. FPortInv'
  <2>1. escaped' = FALSE /\ got' \in Seq(Byte) /\ Len(got') <= 26 /\ Len(got') = 26
    BY <1>1, <1>2 DEF FPortInv
  <2>2. sent' # NoPacket => \A k \in 2..Len(got') : got'[k] = Content(sent')[k - 1]
    BY <1>1, <1>2 DEF FPortInv
  <2> QED
    BY <1>1, <1>4, <2>1, <2>2, Zenon DEF FPortInv
<1>6. SBusInv'
  BY <1>1 DEF SBusInv
<1> QED
  BY <1>3, <1>5, <1>6 DEF FirmwareInv

\* A channel is stored.
LEMMA FPortStores ==
  ASSUME FirmwareInv, TARGET = "fport", Store, UNCHANGED <<TARGET, sbusOnly>>
  PROVE  FirmwareInv'
<1> DEFINE p == [k \in 0..23 |-> got[k + 3]]
           w == Unpacked(p, stored)
<1>1. /\ StoreInv /\ FPortInv /\ at = "storing" /\ Len(got) = 26 /\ got \in Seq(Byte)
      /\ received = NoPacket /\ ~escaped
  BY DEF FirmwareInv, FPortInv, Store
<1>2. /\ line \in Seq(Byte) /\ stored \in ChannelIds /\ channels \in [ChannelIds -> Raw]
      /\ sent \in Packets \union {NoPacket}
  BY <1>1 DEF StoreInv
<1>3. /\ channels' = [channels EXCEPT ![stored] = w]
      /\ stored' = (stored + 1) % 16
      /\ at' = IF stored = 15 THEN "waiting" ELSE "storing"
      /\ received' = IF stored = 15 THEN sent ELSE NoPacket
      /\ UNCHANGED <<line, got, escaped, sent, TARGET>>
  BY DEF Store
<1>4. p \in [0..23 -> Byte]
  <2>1. \A k \in 0..23 : k + 3 \in 1..Len(got)
    BY <1>1
  <2>2. \A k \in 0..23 : got[k + 3] \in Byte
    BY <1>1, <2>1, ElementOfSeq
  <2> QED
    BY <2>2
<1>5. w \in Raw
  BY DEF Unpacked, Raw
<1>6. sent # NoPacket => Stored(channels', sent, stored + 1)
  <2> SUFFICES ASSUME sent # NoPacket
               PROVE  Stored(channels', sent, stored + 1)
    OBVIOUS
  <2>1. /\ sent \in Packets /\ Stored(channels, sent, stored)
        /\ \A k \in 2..26 : got[k] = Content(sent)[k - 1]
    BY <1>1, <1>2 DEF FPortInv
  <2>2. \A b \in 1..22 : p[b] = Packed(sent)[b]
    <3>1. \A b \in 1..22 : Content(sent)[b + 2] = Packed(sent)[b]
      BY ContentBytes
    <3>2. \A b \in 1..22 : p[b] = got[b + 3] /\ b + 3 \in 2..26 /\ (b + 3) - 1 = b + 2
      OBVIOUS
    <3> HIDE DEF p
    <3> QED
      BY <2>1, <3>1, <3>2
  <2>3. Holds(p, sent)
    BY <1>4, <2>2 DEF Holds
  <2> HIDE DEF p
  <2> QED
    BY <1>2, <1>3, <2>1, <2>3, StoresOne
<1> HIDE DEF w
<1>7. /\ channels' \in [ChannelIds -> Raw]
      /\ stored' \in ChannelIds
      /\ stored # 15 => stored' = stored + 1
      /\ stored = 15 => stored' = 0 /\ stored + 1 = 16
  <2>1. channels' \in [ChannelIds -> Raw]
    BY <1>2, <1>3, <1>5
  <2>2. /\ stored' \in ChannelIds
        /\ stored # 15 => stored' = stored + 1
        /\ stored = 15 => stored' = 0 /\ stored + 1 = 16
    <3>1. stored \in 0..15
      BY <1>2 DEF ChannelIds
    <3>2. stored' = (stored + 1) % 16
      BY <1>3
    <3> QED
      BY ONLY <3>1, <3>2 DEF ChannelIds
  <2> QED
    BY <2>1, <2>2
<1>8. StoreInv'
  <2>1. received' # NoPacket => received' \in Packets /\ Stored(channels', received', 16)
    BY <1>2, <1>3, <1>6, <1>7
  <2>2. TARGET' \in {"fport", "sbus"} /\ line' \in Seq(Byte) /\ sent' \in Packets \union {NoPacket}
    BY <1>2, <1>3
  <2> QED
    BY <1>7, <2>1, <2>2, Zenon DEF StoreInv
<1>9. FPortInv'
  <2>1. /\ at' \in {"waiting", "storing"} /\ at' # "reading" /\ ~escaped' /\ escaped' \in BOOLEAN
        /\ got' \in Seq(Byte) /\ Len(got') <= 26 /\ Len(got') = 26
    BY <1>1, <1>3 DEF FPortInv
  <2>2. at' # "storing" => stored' = 0
    BY <1>3, <1>7
  <2>3. at' = "storing" => received' = NoPacket /\ stored' = stored + 1
    BY <1>3, <1>7
  <2>4. sent' # NoPacket => \A k \in 2..Len(got') : got'[k] = Content(sent')[k - 1]
    BY <1>1, <1>3 DEF FPortInv
  <2>5. at' = "storing" /\ sent' # NoPacket => Stored(channels', sent', stored')
    BY <1>3, <1>6, <2>3
  <2> QED
    BY <2>1, <2>2, <2>3, <2>4, <2>5, Zenon DEF FPortInv
<1>10. SBusInv'
  BY <1>3 DEF SBusInv
<1> QED
  BY <1>8, <1>9, <1>10 DEF FirmwareInv

\* The rest of a frame goes by.
LEMMA FPortWaits ==
  ASSUME FirmwareInv, TARGET = "fport", Silence, UNCHANGED <<TARGET, sbusOnly>>
  PROVE  FirmwareInv'
<1>1. /\ at = "waiting" /\ line' = <<>> /\ line' \in Seq(Byte)
      /\ UNCHANGED <<at, got, escaped, stored, channels, sent, received, TARGET>>
  BY DEF Silence, firmware, history
<1>2. StoreInv'
  BY <1>1 DEF FirmwareInv, StoreInv
<1>3. FPortInv'
  BY <1>1 DEF FirmwareInv, FPortInv
<1>4. SBusInv'
  BY <1>1 DEF SBusInv
<1> QED
  BY <1>2, <1>3, <1>4 DEF FirmwareInv

------------------------------------------------------------------------------
(* S.BUS.                                                                   *)

\* The firmware may start anywhere in a frame.
LEMMA SBusInit == TARGET = "sbus" /\ S!Init => StoreInv /\ SBusInv
<1> SUFFICES ASSUME TARGET = "sbus", S!Init
             PROVE  StoreInv /\ SBusInv
  OBVIOUS
<1>2. PICK s \in Packets : \E k \in 1 .. Len(S!Frame[s]) + 1 :
        /\ line = SubSeq(S!Frame[s], k, Len(S!Frame[s]))
        /\ partial = (k > 1)
  BY DEF S!Init
<1>5. PICK k \in 1 .. Len(S!Frame[s]) + 1 :
        /\ line = SubSeq(S!Frame[s], k, Len(S!Frame[s]))
        /\ partial = (k > 1)
  BY <1>2
<1>3. S!Frame[s] \in Seq(Byte) /\ Len(S!Frame[s]) = 25
  BY FrameOfSBus
<1>4. line \in Seq(Byte) /\ Len(line) = 26 - k
  <2> DEFINE frame == S!Frame[s]
  <2>1. k \in 1..26 /\ 25 \in 0..Len(frame) /\ line = SubSeq(frame, k, 25)
    BY <1>3, <1>5
  <2>2. frame \in Seq(Byte)
    BY <1>3
  <2> HIDE DEF frame
  <2> QED
    BY <2>1, <2>2, SubSeqProperties
<1>6. /\ sbus_packet = <<>> /\ pause = FALSE /\ sent = NoPacket /\ received = NoPacket
      /\ stored = 0 /\ channels = [i \in ChannelIds |-> {}]
  BY DEF S!Init, S!ChannelIds, ChannelIds
<1>7. sbus_packet \in Seq(Byte) /\ Len(sbus_packet) = 0
  BY <1>6
<1>8. partial => k > 1
  BY <1>5, Zenon
<1>9. k \in 1..26
  BY <1>3, <1>5
<1>10. Len(sbus_packet) + Len(line) <= 25 /\ (partial => Len(sbus_packet) + Len(line) < 25)
  BY <1>4, <1>7, <1>8, <1>9
<1>11. SBusInv
  BY <1>6, <1>7, <1>10, Zenon DEF SBusInv
<1>12. channels \in [ChannelIds -> Raw] /\ stored \in ChannelIds
  BY <1>6 DEF Raw, ChannelIds
<1>13. StoreInv
  BY <1>4, <1>6, <1>12 DEF StoreInv
<1> QED
  BY <1>11, <1>13

\* A new frame.
LEMMA SBusBegins ==
  ASSUME FirmwareInv, TARGET = "sbus", S!Begin, UNCHANGED <<TARGET, fportOnly>>
  PROVE  FirmwareInv'
<1>1. /\ StoreInv /\ SBusInv /\ pause /\ line = <<>> /\ sbus_packet = <<>> /\ stored = 0
  <2>1. StoreInv /\ SBusInv /\ pause /\ line = <<>> /\ sbus_packet = <<>>
    BY DEF FirmwareInv, SBusInv, S!Begin
  <2>2. Len(sbus_packet) = 0
    BY <2>1
  <2> QED
    BY <2>1, <2>2 DEF SBusInv
<1>2. PICK s \in Packets : line' = S!Frame[s] /\ sent' = s
  BY DEF S!Begin
<1>3. /\ ~pause' /\ ~partial'
      /\ UNCHANGED <<sbus_packet, stored, channels, received, TARGET>>
  BY DEF S!Begin
<1>4. line' \in Seq(Byte) /\ Len(line') = 25
  BY <1>2, FrameOfSBus
<1>5. StoreInv'
  BY <1>1, <1>2, <1>3, <1>4 DEF StoreInv
<1>6. SBusInv'
  <2>1. sbus_packet' = <<>> /\ sbus_packet' \in Seq(Byte) /\ Len(sbus_packet') = 0
    BY <1>1, <1>3
  <2>2. sbus_packet' \o line' = S!Frame[sent']
    BY <1>2, <1>4, <2>1, ConcatEmptySeq
  <2>3. Len(sbus_packet') + Len(line') <= 25 /\ stored' = 0
    BY <1>1, <1>3, <1>4, <2>1
  <2> QED
    BY <1>3, <2>1, <2>2, <2>3, Zenon DEF SBusInv
<1>7. FPortInv'
  BY <1>3 DEF FPortInv
<1> QED
  BY <1>5, <1>6, <1>7 DEF FirmwareInv

\* A byte is damaged or lost: it is in no frame any more.
LEMMA SBusDamages ==
  ASSUME FirmwareInv, TARGET = "sbus", S!Damage, UNCHANGED <<TARGET, fportOnly>>
  PROVE  FirmwareInv'
<1>1. /\ StoreInv /\ SBusInv /\ line # <<>> /\ line \in Seq(Byte) /\ sbus_packet \in Seq(Byte)
      /\ Len(sbus_packet) < 25
  BY DEF FirmwareInv, StoreInv, SBusInv, S!Damage, S!Reading
<1>2. /\ sent' = NoPacket
      /\ UNCHANGED <<pause, sbus_packet, stored, channels, received, TARGET>>
  BY DEF S!Damage
<1>3. /\ line' \in Seq(Byte)
      /\ \/ Len(line') = Len(line) - 1 /\ partial'
         \/ Len(line') = Len(line) /\ partial' = partial
  <2>1. CASE line' = Tail(line) /\ partial' = TRUE
    <3>1. Tail(line) \in Seq(Byte) /\ Len(Tail(line)) = Len(line) - 1
      BY <1>1
    <3> QED
      BY <2>1, <3>1, Zenon
  <2>2. CASE /\ \E b \in Noise \ {Head(line)} : line' = <<b>> \o Tail(line)
             /\ UNCHANGED partial
    <3>1. PICK b \in Noise : line' = <<b>> \o Tail(line)
      BY <2>2
    <3>2. <<b>> \in Seq(Byte) /\ Tail(line) \in Seq(Byte) /\ Len(Tail(line)) = Len(line) - 1
      BY <1>1, NoiseAssumption DEF NoiseAssumption
    <3>3. line' \in Seq(Byte) /\ Len(line') = Len(line)
      BY <3>1, <3>2, ConcatProperties
    <3> QED
      BY <2>2, <3>3
  <2> QED
    BY <2>1, <2>2 DEF S!Damage
<1>4. StoreInv'
  BY <1>1, <1>2, <1>3 DEF StoreInv
<1>5. ~pause /\ stored = 0
  <2>1. Len(sbus_packet) # 25
    <3> DEFINE m == Len(sbus_packet)
    <3>1. m < 25
      BY <1>1
    <3> HIDE DEF m
    <3>2. m # 25
      BY ONLY <3>1
    <3> QED
      BY <3>2 DEF m
  <2> QED
    BY <1>1, <2>1, Zenon DEF SBusInv
<1>6. SBusInv'
  <2> DEFINE m == Len(sbus_packet)
             n == Len(line)
  <2>1. m \in Nat /\ n \in Nat /\ m + n <= 25 /\ (partial => m + n < 25)
    BY <1>1 DEF SBusInv
  <2>2. Len(sbus_packet') = m
    BY <1>2
  <2> HIDE DEF m, n
  <2>3. Len(sbus_packet') + Len(line') <= 25 /\ (partial' => Len(sbus_packet') + Len(line') < 25)
    <3>1. \/ Len(line') = n - 1 /\ partial'
          \/ Len(line') = n /\ partial' = partial
      BY <1>3 DEF n
    <3> QED
      BY <2>1, <2>2, <3>1
  <2> QED
    BY <1>1, <1>2, <1>5, <2>3, Zenon DEF SBusInv
<1>7. FPortInv'
  BY <1>2 DEF FPortInv
<1> QED
  BY <1>4, <1>6, <1>7 DEF FirmwareInv

\* The bytes read are those of the frame up to where the wire is now.
LEMMA SBusReads ==
  ASSUME FirmwareInv, TARGET = "sbus", S!ReadByte, UNCHANGED <<TARGET, fportOnly>>
  PROVE  FirmwareInv'
<1>1. /\ StoreInv /\ SBusInv /\ line # <<>> /\ line \in Seq(Byte) /\ sbus_packet \in Seq(Byte)
      /\ Len(sbus_packet) < 25
  BY DEF FirmwareInv, StoreInv, SBusInv, S!ReadByte, S!Reading
<1>2. /\ sbus_packet' = Append(sbus_packet, Head(line)) /\ line' = Tail(line)
      /\ UNCHANGED <<pause, stored, channels, sent, received, partial, TARGET>>
  BY DEF S!ReadByte, S!history
<1>3. ~pause /\ stored = 0
  <2>1. Len(sbus_packet) # 25
    <3> DEFINE m == Len(sbus_packet)
    <3>1. m < 25
      BY <1>1
    <3> HIDE DEF m
    <3>2. m # 25
      BY ONLY <3>1
    <3> QED
      BY <3>2 DEF m
  <2> QED
    BY <1>1, <2>1, Zenon DEF SBusInv
<1>4. /\ sbus_packet' \in Seq(Byte) /\ line' \in Seq(Byte)
      /\ Len(sbus_packet') + Len(line') = Len(sbus_packet) + Len(line)
      /\ sbus_packet' # <<>>
  <2>1. /\ Head(line) \in Byte /\ Tail(line) \in Seq(Byte) /\ Len(Tail(line)) = Len(line) - 1
    BY <1>1
  <2>2. /\ sbus_packet' \in Seq(Byte) /\ Len(sbus_packet') = Len(sbus_packet) + 1
    BY <1>1, <1>2, <2>1, AppendProperties
  <2> QED
    BY <1>1, <1>2, <2>1, <2>2
<1>5. sent # NoPacket => sbus_packet' \o line' = S!Frame[sent]
  <2>1. sbus_packet' \o line' = sbus_packet \o line
    <3> DEFINE x == Head(line)
               r == Tail(line)
    <3>1. x \in Byte /\ r \in Seq(Byte) /\ line = <<x>> \o r
      BY <1>1, HeadTailProperties
    <3> HIDE DEF x, r
    <3>2. Append(sbus_packet, x) = sbus_packet \o <<x>> /\ <<x>> \in Seq(Byte)
      BY <1>1, <3>1, AppendIsConcat
    <3>3. (sbus_packet \o <<x>>) \o r = sbus_packet \o (<<x>> \o r)
      BY <1>1, <3>1, <3>2, ConcatAssociative
    <3> QED
      BY <1>2, <3>1, <3>2, <3>3 DEF x, r
  <2> QED
    BY <1>1, <2>1 DEF SBusInv
<1>6. StoreInv'
  BY <1>1, <1>2, <1>4 DEF StoreInv
<1>7. SBusInv'
  <2>1. Len(sbus_packet') + Len(line') <= 25 /\ (partial' => Len(sbus_packet') + Len(line') < 25)
    BY <1>1, <1>2, <1>4 DEF SBusInv
  <2>2. Stored(channels', sent', stored')
    BY <1>2, <1>3 DEF Stored, ChannelIds
  <2> QED
    BY <1>2, <1>3, <1>4, <1>5, <2>1, <2>2, Zenon DEF SBusInv
<1>8. FPortInv'
  BY <1>2 DEF FPortInv
<1> QED
  BY <1>6, <1>7, <1>8 DEF FirmwareInv

\* The wire is silent for too long: what was read is dropped.
LEMMA SBusRestarts ==
  ASSUME FirmwareInv, TARGET = "sbus", S!Restart, UNCHANGED <<TARGET, fportOnly>>
  PROVE  FirmwareInv'
<1>1. /\ StoreInv /\ SBusInv /\ line = <<>> /\ Len(sbus_packet) < 25
      /\ pause' /\ sbus_packet' = <<>>
      /\ UNCHANGED <<line, stored, channels, sent, received, partial, TARGET>>
  BY DEF FirmwareInv, S!Restart, S!Reading, S!history
<1>2. stored = 0 /\ Len(line) = 0 /\ Len(sbus_packet') = 0 /\ sbus_packet' \in Seq(Byte)
  <2>1. Len(line) = 0 /\ Len(sbus_packet') = 0 /\ sbus_packet' \in Seq(Byte)
    BY <1>1
  <2>2. Len(sbus_packet) # 25
    <3> DEFINE m == Len(sbus_packet)
    <3>1. m < 25
      BY <1>1
    <3> HIDE DEF m
    <3>2. m # 25
      BY ONLY <3>1
    <3> QED
      BY <3>2 DEF m
  <2> QED
    BY <1>1, <2>1, <2>2, Zenon DEF SBusInv
<1>3. StoreInv'
  BY <1>1 DEF StoreInv
<1>4. SBusInv'
  <2>1. Len(sbus_packet') + Len(line') <= 25 /\ Len(sbus_packet') + Len(line') < 25
    BY <1>1, <1>2
  <2> QED
    BY <1>1, <1>2, <2>1, Zenon DEF SBusInv
<1>5. FPortInv'
  BY <1>1 DEF FPortInv
<1> QED
  BY <1>3, <1>4, <1>5 DEF FirmwareInv

\* A whole packet leaves nothing of its frame on the wire, and an undamaged
\* one is the frame.
LEMMA SBusWhole ==
  ASSUME StoreInv, SBusInv, TARGET = "sbus", Len(sbus_packet) >= 25
  PROVE  /\ Len(sbus_packet) = 25 /\ line = <<>> /\ ~pause /\ ~partial
         /\ sent # NoPacket => /\ sent \in Packets /\ sbus_packet = S!Frame[sent]
                               /\ Stored(channels, sent, stored)
<1>1. /\ sbus_packet \in Seq(Byte) /\ line \in Seq(Byte)
      /\ Len(sbus_packet) + Len(line) <= 25
      /\ partial => Len(sbus_packet) + Len(line) < 25
  BY DEF StoreInv, SBusInv
<1>2. Len(sbus_packet) = 25 /\ Len(line) = 0 /\ ~partial
  <2> DEFINE m == Len(sbus_packet)
             n == Len(line)
  <2>1. m \in Nat /\ n \in Nat /\ m >= 25 /\ m + n <= 25 /\ (partial => m + n < 25)
    BY <1>1, LenProperties
  <2> HIDE DEF m, n
  <2>2. m = 25 /\ n = 0 /\ ~partial
    BY ONLY <2>1
  <2> QED
    BY <2>2 DEF m, n
<1>3. line = <<>> /\ sbus_packet # <<>>
  <2>1. line = <<>>
    BY <1>1, <1>2, EmptySeq
  <2>2. sbus_packet # <<>>
    BY <1>2
  <2> QED
    BY <2>1, <2>2
<1>4. sbus_packet \o line = sbus_packet
  BY <1>1, <1>3, ConcatEmptySeq
<1> QED
  BY <1>2, <1>3, <1>4 DEF StoreInv, SBusInv

\* A packet without a footer is dropped; it was damaged.
LEMMA SBusRefuses ==
  ASSUME FirmwareInv, TARGET = "sbus", S!Refuse, UNCHANGED <<TARGET, fportOnly>>
  PROVE  FirmwareInv'
<1>1. /\ StoreInv /\ SBusInv /\ Len(sbus_packet) >= 25 /\ sbus_packet[25] # {}
      /\ sbus_packet' = <<>>
      /\ UNCHANGED <<line, pause, stored, channels, sent, received, partial, TARGET>>
  <2>1. Len(sbus_packet) \in Nat
    BY LenProperties DEF FirmwareInv, SBusInv
  <2>2. ~(Len(sbus_packet) < 25)
    BY DEF S!Refuse, S!Reading
  <2>3. /\ sbus_packet[25] # {} /\ sbus_packet' = <<>>
        /\ UNCHANGED <<line, pause, stored, channels, sent, received, partial, TARGET>>
    BY DEF S!Refuse, S!wire, S!history
  <2>4. Len(sbus_packet) >= 25
    BY ONLY <2>1, <2>2
  <2> QED
    BY <2>3, <2>4 DEF FirmwareInv
<1>2. /\ line = <<>> /\ ~pause /\ ~partial
      /\ sent = NoPacket
  BY <1>1, SBusWhole, FrameOfSBus
<1>3. stored = 0
  BY <1>1 DEF SBusInv
<1>4. sbus_packet' \in Seq(Byte) /\ Len(sbus_packet') = 0 /\ Len(line') = 0
  BY <1>1, <1>2
<1>5. Len(sbus_packet') + Len(line') <= 25
  BY <1>4
<1>6. StoreInv'
  BY <1>1 DEF StoreInv
<1>7. SBusInv'
  BY <1>1, <1>2, <1>3, <1>4, <1>5, Zenon DEF SBusInv
<1>8. FPortInv'
  BY <1>1 DEF FPortInv
<1> QED
  BY <1>6, <1>7, <1>8 DEF FirmwareInv

\* A channel is stored.
LEMMA SBusStores ==
  ASSUME FirmwareInv, TARGET = "sbus", S!Store, UNCHANGED <<TARGET, fportOnly>>
  PROVE  FirmwareInv'
<1> DEFINE p == [k \in 0..24 |-> sbus_packet[k + 1]]
           w == Unpacked(p, stored)
<1>1. /\ StoreInv /\ SBusInv /\ Len(sbus_packet) >= 25 /\ sbus_packet \in Seq(Byte)
      /\ sbus_packet[25] = {}
  <2>1. Len(sbus_packet) \in Nat /\ sbus_packet \in Seq(Byte)
    BY LenProperties DEF FirmwareInv, SBusInv
  <2>2. ~(Len(sbus_packet) < 25) /\ sbus_packet[25] = {}
    BY DEF S!Store, S!Reading
  <2>4. Len(sbus_packet) >= 25
    BY ONLY <2>1, <2>2
  <2> QED
    BY <2>1, <2>2, <2>4 DEF FirmwareInv
<1>2. /\ line \in Seq(Byte) /\ stored \in ChannelIds /\ channels \in [ChannelIds -> Raw]
      /\ sent \in Packets \union {NoPacket}
  BY <1>1 DEF StoreInv
<1>3. /\ channels' = [channels EXCEPT ![stored] = w]
      /\ stored' = (stored + 1) % 16
      /\ sbus_packet' = IF stored = 15 THEN <<>> ELSE sbus_packet
      /\ received' = IF stored = 15 THEN sent ELSE NoPacket
      /\ UNCHANGED <<line, pause, sent, partial, TARGET>>
  <2>1. S!Unpacked(p, stored) = w
    BY DEF S!Unpacked, Unpacked, S!Skip, Skip, S!First, First
  <2> QED
    BY <2>1 DEF S!Store, S!wire
<1>4. /\ Len(sbus_packet) = 25 /\ line = <<>> /\ ~pause /\ ~partial
      /\ sent # NoPacket => /\ sent \in Packets /\ sbus_packet = S!Frame[sent]
                            /\ Stored(channels, sent, stored)
  BY <1>1, SBusWhole
<1>5. w \in Raw
  BY DEF Unpacked, Raw
<1>6. sent # NoPacket => Stored(channels', sent, stored + 1)
  <2> SUFFICES ASSUME sent # NoPacket
               PROVE  Stored(channels', sent, stored + 1)
    OBVIOUS
  <2>1. p \in [0..24 -> Byte]
    <3>1. \A k \in 0..24 : k + 1 \in 1..Len(sbus_packet)
      BY <1>4
    <3>2. \A k \in 0..24 : sbus_packet[k + 1] \in Byte
      BY <1>1, <3>1, ElementOfSeq
    <3> QED
      BY <3>2
  <2>2. \A b \in 1..22 : p[b] = Packed(sent)[b]
    <3>1. \A b \in 1..22 : S!Frame[sent][b + 1] = Packed(sent)[b]
      BY <1>4, FrameOfSBus
    <3>2. \A b \in 1..22 : p[b] = sbus_packet[b + 1]
      OBVIOUS
    <3> HIDE DEF p
    <3> QED
      BY <1>4, <3>1, <3>2
  <2>3. Holds(p, sent)
    BY <2>1, <2>2 DEF Holds
  <2> HIDE DEF p
  <2> QED
    BY <1>2, <1>3, <1>4, <2>3, StoresOne
<1> HIDE DEF w
<1>7. /\ channels' \in [ChannelIds -> Raw]
      /\ stored' \in ChannelIds
      /\ stored # 15 => stored' = stored + 1
      /\ stored = 15 => stored' = 0 /\ stored + 1 = 16
  <2>1. channels' \in [ChannelIds -> Raw]
    BY <1>2, <1>3, <1>5
  <2>2. /\ stored' \in ChannelIds
        /\ stored # 15 => stored' = stored + 1
        /\ stored = 15 => stored' = 0 /\ stored + 1 = 16
    <3>1. stored \in 0..15
      BY <1>2 DEF ChannelIds
    <3>2. stored' = (stored + 1) % 16
      BY <1>3
    <3> QED
      BY ONLY <3>1, <3>2 DEF ChannelIds
  <2> QED
    BY <2>1, <2>2
<1>8. StoreInv'
  <2>1. received' # NoPacket => received' \in Packets /\ Stored(channels', received', 16)
    BY <1>2, <1>3, <1>6, <1>7
  <2>2. TARGET' \in {"fport", "sbus"} /\ line' \in Seq(Byte) /\ sent' \in Packets \union {NoPacket}
    BY <1>2, <1>3
  <2> QED
    BY <1>7, <2>1, <2>2, Zenon DEF StoreInv
<1>9. CASE stored = 15
  <2>1. /\ sbus_packet' = <<>> /\ sbus_packet' \in Seq(Byte) /\ Len(sbus_packet') = 0
        /\ line' = <<>> /\ Len(line') = 0 /\ ~pause' /\ ~partial' /\ stored' = 0
    BY <1>3, <1>4, <1>7, <1>9
  <2>2. Len(sbus_packet') + Len(line') <= 25
    BY <2>1
  <2>3. SBusInv'
    BY <2>1, <2>2, Zenon DEF SBusInv
  <2>4. FPortInv'
    BY <1>3 DEF FPortInv
  <2> QED
    BY <1>8, <2>3, <2>4 DEF FirmwareInv
<1>10. CASE stored # 15
  <2>1. /\ sbus_packet' = sbus_packet /\ received' = NoPacket /\ stored' = stored + 1
        /\ line' = <<>> /\ Len(line') = 0 /\ ~pause' /\ ~partial' /\ sent' = sent
    BY <1>3, <1>4, <1>7, <1>10
  <2>2. Len(sbus_packet') + Len(line') <= 25
    <3>1. Len(sbus_packet') = 25 /\ Len(line') = 0
      BY <1>4, <2>1
    <3> QED
      BY ONLY <3>1
  <2>3. sent' # NoPacket => sbus_packet' \o line' = S!Frame[sent']
    BY <1>1, <1>4, <2>1, ConcatEmptySeq
  <2>4. sent' # NoPacket => Stored(channels', sent', stored')
    BY <1>6, <2>1
  <2>5. SBusInv'
    BY <1>1, <1>4, <2>1, <2>2, <2>3, <2>4, Zenon DEF SBusInv
  <2>6. FPortInv'
    BY <1>3 DEF FPortInv
  <2> QED
    BY <1>8, <2>5, <2>6 DEF FirmwareInv
<1> QED
  BY <1>9, <1>10

------------------------------------------------------------------------------
(* The theorems.                                                            *)

\* The invariant holds when the program starts the firmware.
LEMMA FirmwareInvInit == FirmwareInit => FirmwareInv
<1>1. CASE TARGET = "fport" /\ Init
  BY <1>1, FPortInit DEF FirmwareInv, SBusInv
<1>2. CASE TARGET = "sbus" /\ S!Init
  BY <1>2, SBusInit DEF FirmwareInv, FPortInv
<1> QED
  BY <1>1, <1>2 DEF FirmwareInit

\* Every step of either firmware, and of the wire, keeps it.
LEMMA FirmwareInvStep == FirmwareInv /\ [FirmwareNext]_all => FirmwareInv'
<1> SUFFICES ASSUME FirmwareInv, [FirmwareNext]_all
             PROVE  FirmwareInv'
  OBVIOUS
<1>1. CASE UNCHANGED all
  <2>1. UNCHANGED <<TARGET, line, at, got, escaped, stored, channels, sent, received,
                    damaged, pause, sbus_packet, partial>>
    BY <1>1 DEF all, vars, firmware, history, sbusOnly
  <2> QED
    BY <2>1 DEF FirmwareInv, StoreInv, FPortInv, SBusInv, Unread
<1>2. CASE TARGET = "fport" /\ Next /\ UNCHANGED <<TARGET, sbusOnly>>
  BY <1>2, FPortBegins, FPortDamages, FPortWaits, FPortReads, FPortCompletes, FPortStores DEF Next
<1>3. CASE TARGET = "sbus" /\ S!Next /\ UNCHANGED <<TARGET, fportOnly>>
  BY <1>3, SBusBegins, SBusDamages, SBusReads, SBusRestarts, SBusRefuses, SBusStores DEF S!Next
<1> QED
  BY <1>1, <1>2, <1>3 DEF FirmwareNext

\* A frame that comes through undamaged sets every channel but channel 1 to
\* what was sent, with either firmware, for any packets, foreign frames and
\* damage before it.
THEOREM EveryChannelArrives == FirmwareSpec => []ChannelsArrive
<1>1. FirmwareInv => ChannelsArrive
  <2> SUFFICES ASSUME FirmwareInv, received # NoPacket, NEW i \in ChannelIds \ {1}
               PROVE  channels[i] = received[i]
    BY DEF ChannelsArrive
  <2>1. Stored(channels, received, 16)
    BY DEF FirmwareInv, StoreInv
  <2>2. i < 16 /\ i # 1 /\ i \in ChannelIds
    BY DEF ChannelIds
  <2> QED
    BY <2>1, <2>2 DEF Stored
<1> QED
  BY <1>1, FirmwareInvInit, FirmwareInvStep, PTL DEF FirmwareSpec

\* Channel 1 is right in its three highest bits after such a frame.
THEOREM ChannelOneArrivesCoarsely == FirmwareSpec => []ChannelOneIsCoarse
<1>1. FirmwareInv => ChannelOneIsCoarse
  <2> SUFFICES ASSUME FirmwareInv, received # NoPacket
               PROVE  channels[1] \intersect 8..10 = received[1] \intersect 8..10
    BY DEF ChannelOneIsCoarse
  <2>1. Stored(channels, received, 16)
    BY DEF FirmwareInv, StoreInv
  <2>2. 1 < 16 /\ 1 \in ChannelIds
    BY DEF ChannelIds
  <2> QED
    BY <2>1, <2>2 DEF Stored
<1> QED
  BY <1>1, FirmwareInvInit, FirmwareInvStep, PTL DEF FirmwareSpec

\* Bytes of two frames of S.BUS never make up a packet, whatever bytes are lost
\* or damaged and wherever in a frame the firmware was started.
THEOREM FramesAreWhole == FirmwareSpec => WholeFramesOnly
<1>1. FirmwareInv /\ [FirmwareNext]_all
        => [TARGET = "sbus" /\ channels' # channels => ~partial]_all
  <2> SUFFICES ASSUME FirmwareInv, FirmwareNext, TARGET = "sbus", channels' # channels
               PROVE  ~partial
    OBVIOUS
  <2>1. S!Store
    BY DEF FirmwareNext, S!Next, S!Begin, S!Damage, S!ReadByte, S!Restart, S!Refuse
  <2>2. StoreInv /\ SBusInv /\ Len(sbus_packet) >= 25
    <3>1. Len(sbus_packet) \in Nat
      BY LenProperties DEF FirmwareInv, SBusInv
    <3>2. ~(Len(sbus_packet) < 25)
      BY <2>1 DEF S!Store, S!Reading
    <3>3. Len(sbus_packet) >= 25
      BY ONLY <3>1, <3>2
    <3> QED
      BY <3>3 DEF FirmwareInv
  <2> QED
    BY <2>2, SBusWhole
<1> QED
  BY <1>1, FirmwareInvInit, FirmwareInvStep, PTL DEF FirmwareSpec, WholeFramesOnly

==============================================================================
