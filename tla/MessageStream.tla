----------------------------- MODULE MessageStream -----------------------------
(***************************************************************************)
(* How what a browser sends becomes calls of command handlers.  The peer   *)
(* writes masked WebSocket frames to a TCP connection, which gives them to *)
(* the thread of the client in pieces of any size; the thread collects     *)
(* them in a buffer of fixed size, cuts complete frames off its start,     *)
(* unmasks them in place and hands the payload to MessageHandler.          *)
(*                                                                         *)
(* Messages are those that the user interface sends; their frames fit.     *)
(* Frames that do not fit, and so the form with a length of eight bytes,   *)
(* are left out.                                                           *)
(***************************************************************************)
EXTENDS MessageCodec, FiniteSetsExt

CONSTANTS
  BufferSize,   \* READ_BUFFER_SIZE: 4096
  Mask,         \* the four bytes that the peer masks its frames with
  Messages,     \* what the peer may send
  MaxMessages   \* bound: messages that the peer sends

ASSUME MaskAssumption == Mask \in [1..4 -> Byte]
ASSUME BufferAssumption == BufferSize \in 1 .. 16 * Sign * Sign
ASSUME MessagesAssumption == Messages \subseteq Message

VARIABLES
  wire,         \* bytes sent and not yet read
  sent,         \* history: messages sent
  hungUp,       \* the peer has closed or lost the connection
  buffer,       \* the first size bytes of buffer in handle_client
  reading,      \* the thread is in read()
  open,         \* handle_client is in its loop
  acted         \* history: what MessageHandler has done

vars == <<wire, sent, hungUp, buffer, reading, open, acted>>

------------------------------------------------------------------------------
(* The peer.                                                                *)

OPCODE_BINARY == 2
OPCODE_CLOSE  == 8

\* a ^ b, bit by bit.
Xor[a \in Nat] == [b \in Nat |->
  IF a = 0 THEN b ELSE ((a + b) % 2) + 2 * Xor[a \div 2][b \div 2]]

\* Bytes masked, or unmasked, with the four bytes of k in turn.
Masked(s, k) == [i \in DOMAIN s |-> Xor[s[i]][k[((i - 1) % 4) + 1]]]

\* The first byte comes without the FINAL_FRAME bit, about which the program
\* only writes a line to its log; in the second one the highest bit says that
\* the frame is masked.
Frame == [m \in Messages |->
  LET p == Payload(m)
  IN  <<IF m = Close THEN OPCODE_CLOSE ELSE OPCODE_BINARY>>
        \o (IF Len(p) <= More - 3 THEN <<More + Len(p)>>
            ELSE <<2 * More - 2, Len(p) \div (4 * Sign), Len(p) % (4 * Sign)>>)
        \o Mask \o Masked(p, Mask)]

ASSUME FitAssumption == \A m \in Messages : Len(Frame[m]) <= BufferSize

Send ==
  /\ ~hungUp /\ Len(sent) < MaxMessages
  /\ \E m \in Messages :
       /\ wire' = wire \o Frame[m]
       /\ sent' = Append(sent, m)
  /\ UNCHANGED <<hungUp, buffer, reading, open, acted>>

\* The peer closes the connection, or loses it.
HangUp ==
  /\ ~hungUp
  /\ hungUp' = TRUE
  /\ UNCHANGED <<wire, sent, buffer, reading, open, acted>>

------------------------------------------------------------------------------
(* WebSocketServer::handle_client.                                          *)

data_length(b)   == IF b[2] % More = More - 2 THEN b[3] * 4 * Sign + b[4]
                                              ELSE b[2] % More
header_length(b) == IF b[2] % More = More - 2 THEN 8 ELSE 6
frame_length(b)  == data_length(b) + header_length(b)

\* A close frame needs no more than its first six bytes to be seen.
Closes(b) == Len(b) >= 6 /\ b[1] % 16 = OPCODE_CLOSE

\* A frame must not reach the end of the buffer.
CompleteShort(b) == Len(b) >= 6 /\ ~Closes(b) /\ Len(b) > frame_length(b)

Complete(b) == Len(b) >= 6 /\ ~Closes(b) /\ Len(b) >= frame_length(b)

\* The payload of the frame at the start of b.
Unmasked(b) ==
  LET h == header_length(b)
  IN  Masked(SubSeq(b, h + 1, frame_length(b)), SubSeq(b, h - 3, h))

\* The buffer's free part is taken to be all of it.
RoomWhole == BufferSize

Room == BufferSize - Len(buffer)

Receive ==
  /\ open /\ reading
  /\ \E n \in 1..Len(wire) :
       /\ n <= Room
       /\ buffer' = buffer \o SubSeq(wire, 1, n)
       /\ wire'   = SubSeq(wire, n + 1, Len(wire))
  /\ reading' = FALSE
  /\ UNCHANGED <<sent, hungUp, open, acted>>

\* read() returns 0 or fails: at the end of the stream, which a lost
\* connection cuts short, or if it was given no room.
Disconnect ==
  /\ open /\ reading
  /\ hungUp \/ Room = 0
  /\ open' = FALSE
  /\ UNCHANGED <<wire, sent, hungUp, buffer, reading, acted>>

\* A frame is cut off the start of the buffer and handled, whatever comes of
\* that; then read() is called, although the buffer may hold another frame.
HandleOne ==
  /\ open /\ ~reading /\ Complete(buffer)
  /\ acted'  = acted \o handle(Unmasked(buffer))
  /\ buffer' = SubSeq(buffer, frame_length(buffer) + 1, Len(buffer))
  /\ reading' = TRUE
  /\ UNCHANGED <<wire, sent, hungUp, open>>

\* A frame is cut off the start of the buffer and handled, whatever comes of
\* that.
Handle ==
  /\ open /\ ~reading /\ Complete(buffer)
  /\ acted'  = acted \o handle(Unmasked(buffer))
  /\ buffer' = SubSeq(buffer, frame_length(buffer) + 1, Len(buffer))
  /\ UNCHANGED <<wire, sent, hungUp, reading, open>>

CloseFrame ==
  /\ open /\ ~reading /\ Closes(buffer)
  /\ open' = FALSE
  /\ UNCHANGED <<wire, sent, hungUp, buffer, reading, acted>>

\* The buffer holds no complete frame any more.
ReadOn ==
  /\ open /\ ~reading /\ ~Closes(buffer) /\ ~Complete(buffer)
  /\ reading' = TRUE
  /\ UNCHANGED <<wire, sent, hungUp, buffer, open, acted>>

------------------------------------------------------------------------------

Init ==
  /\ wire = <<>>
  /\ sent = <<>>
  /\ hungUp = FALSE
  /\ buffer = <<>>
  /\ reading = TRUE
  /\ open = TRUE
  /\ acted = <<>>

Next == Send \/ HangUp \/ Receive \/ Disconnect \/ Handle \/ CloseFrame \/ ReadOn

Spec == Init /\ [][Next]_vars

------------------------------------------------------------------------------
(* Properties.                                                              *)

Understood(m) ==
  m = Query \/ (m # Close /\ m.item \in Commands \union Selections)

\* What the user means by a message that the program understands.
Meant(m) ==
  IF m = Query THEN Query
  ELSE IF m.item \in Commands THEN Press(m.item, m.value, Range(m.modifiers))
  ELSE Choose(m.item, m.value)

Effect(m) == IF Understood(m) THEN <<Meant(m)>> ELSE <<>>

TypeOK ==
  /\ wire \in Seq(Byte)
  /\ sent \in Seq(Messages)
  /\ hungUp \in BOOLEAN
  /\ buffer \in Seq(Byte) /\ Len(buffer) <= BufferSize
  /\ reading \in BOOLEAN
  /\ open \in BOOLEAN
  /\ acted \in Seq({Meant(m) : m \in {m \in Messages : Understood(m)}})

\* The bytes of the messages after the first n.
BytesAfter(n) == FlattenSeq(SubSeq([i \in DOMAIN sent |-> Frame[sent[i]]], n + 1, Len(sent)))

\* What the first n messages ask for.
EffectOf(n) == FlattenSeq([i \in 1..n |-> Effect(sent[i])])

\* Messages whose last byte the thread has read.
Arrived == {n \in 0..Len(sent) : Len(wire) <= Len(BytesAfter(n))}

BeforeClose(n) == \A i \in 1..n : sent[i] # Close

\* However TCP cuts the stream, whenever the thread is in read() or has left
\* its loop the handler has done what the messages that have arrived ask for,
\* all of them, once each, in order, with the item, value and modifiers that
\* were meant, and nothing else.  A message that it throws on costs no other.
ActsOnWhatArrived ==
  reading \/ ~open => acted = EffectOf(Max({n \in Arrived : BeforeClose(n)}))

\* The thread ends a connection only if the peer has closed it or said that
\* it will: read() is never given a full buffer, whose 0 would be taken for
\* the end of the stream.
ClosedByPeer ==
  ~open => hungUp \/ \E i \in DOMAIN sent : sent[i] = Close

==============================================================================
