------------------------------- MODULE RCRadio -------------------------------
(***************************************************************************)
(* The radio receiver as the program sees it: the firmware of the PRU      *)
(* writes the channels of the transmitter to shared memory, and the poll   *)
(* thread of RCRadio_PRU::init compares them one by one with its own       *)
(* copies and calls a handler for each one that changed.                   *)
(***************************************************************************)
EXTENDS Integers

CONSTANTS
  Channels,     \* the channels that this instance looks at, of 0..10
  Values        \* the raw values that the firmware stores for each of them

\* A channel is eleven bits wide.
Raw == 0..2047

ASSUME ChannelsAssumption == Channels \subseteq 0..10 /\ Channels # {}
ASSUME ValuesAssumption   == \A i \in Channels : Values[i] \subseteq Raw

VARIABLES
  memory,       \* the shared memory of the PRU
  channels,     \* the poll thread's copies of it
  next          \* the channel that is polled next

radio == <<memory, channels, next>>

channel_min_value == 172
channel_max_value == 1810
range  == channel_max_value - channel_min_value
middle == range \div 2 + channel_min_value

Abs(n) == IF n < 0 THEN -n ELSE n

\* RCChannelState of a raw value: new_value < middle - range / 4, and so on,
\* without the fractions.
State(v) ==
  IF 4 * (v - middle) < -range THEN "low"
  ELSE IF 4 * (v - middle) > range THEN "high" ELSE "middle"

\* The threshold is larger than the dead zone.
ChangedCoarse(old, new) == Abs(old - new) >= 10

\* A change of one or two units is ignored.
Changed(old, new) == Abs(old - new) >= 3

RadioTypeOK ==
  /\ memory \in [Channels -> Raw]
  /\ channels \in [Channels -> Raw]
  /\ next \in Channels

\* The poll thread clears the shared memory before it polls.
RadioInit ==
  /\ memory = [i \in Channels |-> 0]
  /\ channels = [i \in Channels |-> 0]
  /\ next = CHOOSE i \in Channels : \A k \in Channels : i <= k

\* The firmware of the PRU stores a channel of a packet that it has received.
Firmware ==
  \E i \in Channels : \E v \in Values[i] \ {memory[i]} :
    /\ memory' = [memory EXCEPT ![i] = v]
    /\ UNCHANGED <<channels, next>>

\* The loop runs past the last channel.
AfterLast(i) == i + 1

\* The channel after i, round and round.
After(i) ==
  LET above == {k \in Channels : k > i}
      from  == IF above = {} THEN Channels ELSE above
  IN  CHOOSE k \in from : \A n \in from : k <= n

\* One turn of the poll loop calls the handler for a channel that changed,
\* which the module that uses this one conjoins for next and memory[next] ...
PollChanged ==
  /\ Changed(channels[next], memory[next])
  /\ channels' = [channels EXCEPT ![next] = memory[next]]
  /\ next' = After(next)
  /\ UNCHANGED memory

\* ... and goes on to the next channel otherwise.
PollUnchanged ==
  /\ ~Changed(channels[next], memory[next])
  /\ next' = After(next)
  /\ UNCHANGED <<memory, channels>>

\* A channel that has reported once (its copy is not 0 any more).
Heard(i) == i \in Channels /\ channels[i] # 0

==============================================================================
