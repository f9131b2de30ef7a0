--------------------------- MODULE TelemetryProofs ---------------------------
(***************************************************************************)
(* Proofs about TelemetryServer, for any number of connections,            *)
(* descriptors and items.                                                  *)
(*                                                                         *)
(* The invariant says who owns a descriptor at each point of a client      *)
(* thread, whose entries fd_to_client has, and where the news of a stale   *)
(* value is at each point of a drain.                                      *)
(***************************************************************************)
EXTENDS TelemetryServer, FiniteSetTheorems, TLAPS

\* Client threads whose descriptor is open, and those that have one to erase.
Connected == {c \in Clients : at[c] \in {"header", "register"}} \union Served
Entered   == {c \in Clients : at[c] = "erase"} \union Served

\* A thread that executes no update() has none half done, and the listener
\* visits entries that exist.
Orderly ==
  \A t \in Updaters :
    /\ Free(t) => stage[t] = "size"
    /\ stage[t] # "listen" => todo[t] = {}
    /\ ~undefined => todo[t] \subseteq Registered

\* No connection comes before the listener is in place.
Listening == \A c \in Clients : at[c] # "none" => heard = Items

Owned == \A c \in Connected : fd[c] \in Fds /\ socket[fd[c]] = c

\* An entry belongs to the thread that made it, until it has erased it.
Entries ==
  \A f \in Registered : fd_to_client[f] \in Entered /\ fd[fd_to_client[f]] = f

\* Nobody erases the entry of another.
Apart ==
  ~reused =>
    \A c \in Connected, d \in Clients : at[d] = "erase" => fd[c] # fd[d]

\* What a peer has not been sent is on its way, or where the loop that its
\* thread is in, or the next drain, will come across it.
Pending(i, c) ==
  \/ Coming(i, c)
  \/ i \in missed[c]
  \/ at[c] = "definitions" /\ i \in rest[c] \union changed[c]
  \/ at[c] = "read" /\ i \in changed[c]
  \/ at[c] = "drain" /\ i \in rest[c]

Told == ~reused => \A c \in Served : \A i \in Items \ current[c] : Pending(i, c)

\* A drain sends what was in the set, and the set is cleared only afterwards.
Drained == \A c \in Clients : at[c] = "drain" => rest[c] \subseteq changed[c]

\* The size that an update() has read is the present one, and one is under way
\* if the count is not.
Counted ==
  ~contended =>
    /\ \A t \in Updaters :
         item[t] = Count /\ stage[t] = "assign" => size[t] = Cardinality(Registered)
    /\ \/ clientCount = Cardinality(Registered)
       \/ \E t \in Updaters : item[t] = Count /\ stage[t] \in {"size", "assign"}

IInv ==
  /\ TypeOK /\ Orderly /\ Listening
  /\ Owned /\ Entries /\ Apart /\ MadeAvailable
  /\ Told /\ Drained /\ Counted

------------------------------------------------------------------------------
(* Types.                                                                   *)

LEMMA EntriesAreCounted ==
  /\ Cardinality(Fds) \in Nat
  /\ Cardinality(Registered) \in 0..Cardinality(Fds)
<1>1. Registered \subseteq Fds
  BY DEF Registered
<1> QED
  BY <1>1, FdsAssumption, FS_Subset, FS_CardinalityType

LEMMA InitTyped == Init => TypeOK
<1> SUFFICES ASSUME Init
             PROVE  TypeOK
  OBVIOUS
<1>1. clientCount \in 0..Cardinality(Fds) /\ size \in [Updaters -> 0..Cardinality(Fds)]
  BY EntriesAreCounted DEF Init
<1>2. /\ changed \in [Clients -> SUBSET Items]
      /\ rest \in [Clients -> SUBSET Items]
      /\ current \in [Clients -> SUBSET Items]
      /\ missed \in [Clients -> SUBSET Items]
      /\ todo \in [Updaters -> SUBSET Fds]
  BY DEF Init
<1> QED
  BY <1>1, <1>2 DEF Init, TypeOK

LEMMA ListenersTyped ==
  ASSUME TypeOK, NEW i \in Items, AddListener(i)
  PROVE  TypeOK'
BY DEF TypeOK, AddListener, updating, net

\* The listener finds a client in the entry it visits, and has an item.
LEMMA NotifyInserts ==
  ASSUME TypeOK, Orderly, ~undefined, NEW t \in Updaters, Notify(t)
  PROVE  \E f \in todo[t], c \in Clients, i \in Items :
           /\ c = fd_to_client[f] /\ i = item[t]
           /\ Insert(c, i) /\ Visited(t, f)
BY DEF TypeOK, Orderly, Notify, Registered, Free

LEMMA UpdatesTyped ==
  ASSUME TypeOK, Orderly, ~undefined, NEW t \in Updaters, Update(t), UNCHANGED heard
  PROVE  TypeOK'
<1>1. CASE ReadSize(t)
  BY <1>1, EntriesAreCounted DEF TypeOK, ReadSize, net, history
<1>2. CASE AssignCount(t)
  BY <1>2, EntriesAreCounted DEF TypeOK, AssignCount, Returns, Outdate, net, history
<1>3. CASE AssignItem(t)
  BY <1>3 DEF TypeOK, AssignItem, Outdate, net, history
<1>4. CASE Begin(t)
  BY <1>4, EntriesAreCounted DEF TypeOK, Begin, Returns, Registered, net, history
<1>5. CASE Notify(t)
  <2>1. PICK f \in todo[t], c \in Clients, i \in Items : Insert(c, i) /\ Visited(t, f)
    BY <1>5, NotifyInserts
  <2>2. /\ changed' \in [Clients -> SUBSET Items]
        /\ missed' \in [Clients -> SUBSET Items]
        /\ rest' \in [Clients -> SUBSET Items]
    BY <2>1 DEF TypeOK, Insert
  <2>3. /\ item' \in [Updaters -> Items \union {None}]
        /\ stage' \in [Updaters -> {"size", "assign", "begin", "listen"}]
        /\ size' \in [Updaters -> 0..Cardinality(Fds)]
        /\ todo' \in [Updaters -> SUBSET Fds]
    BY <2>1, EntriesAreCounted DEF TypeOK, Visited, Returns
  <2> QED
    BY <1>5, <2>2, <2>3 DEF TypeOK, Notify, net
<1> QED
  BY <1>1, <1>2, <1>3, <1>4, <1>5 DEF Update

LEMMA ConnectionsTyped ==
  ASSUME TypeOK, NEW c \in Clients, Connection(c), UNCHANGED heard
  PROVE  TypeOK'
<1>1. c \in Updaters
  BY DEF Updaters
<1>2. CASE Accept(c)
  BY <1>2 DEF TypeOK, Accept, Goto, updating
<1>3. CASE HeaderFails(c) \/ Handshake(c) \/ Disconnect(c)
  BY <1>3 DEF TypeOK, HeaderFails, Handshake, Disconnect, Goto, net, updating, history
<1>4. CASE Register(c)
  BY <1>1, <1>4, CountAssumption DEF TypeOK, Register, ChangeEntry, Collide, Goto, net
<1>5. CASE SendDefinition(c) \/ SendUpdate(c)
  BY <1>5 DEF TypeOK, SendDefinition, SendUpdate, SendItem, net, updating, history
<1>6. CASE DefinitionsSent(c) \/ Query(c) \/ Clear(c)
  BY <1>6 DEF TypeOK, DefinitionsSent, Query, Clear, Goto, net, updating, history
<1>7. CASE Erase(c)
  BY <1>1, <1>7, CountAssumption DEF TypeOK, Erase, ChangeEntry, Collide, Goto, net
<1>8. CASE Leave(c)
  BY <1>8 DEF TypeOK, Leave, Goto, updating
<1> QED
  BY <1>2, <1>3, <1>4, <1>5, <1>6, <1>7, <1>8 DEF Connection

LEMMA StepsTyped ==
  ASSUME TypeOK, Orderly, [Next]_vars
  PROVE  TypeOK'
<1>1. CASE UNCHANGED vars
  BY <1>1 DEF TypeOK, vars, net, updating, history
<1> QED
  BY <1>1, ListenersTyped, UpdatesTyped, ConnectionsTyped DEF Next

------------------------------------------------------------------------------
(* Threads in update().                                                     *)

LEMMA UpdatesOrderly ==
  ASSUME TypeOK, Orderly, ~undefined, NEW t \in Updaters, Update(t)
  PROVE  Orderly'
<1>1. CASE ReadSize(t)
  BY <1>1, CountAssumption, NoneAssumption
  DEF TypeOK, Orderly, ReadSize, Free, Registered, net, history
<1>2. CASE AssignCount(t)
  BY <1>2, NoneAssumption DEF TypeOK, Orderly, AssignCount, Returns, Free, Registered, net, history
<1>3. CASE AssignItem(t)
  BY <1>3, NoneAssumption DEF TypeOK, Orderly, AssignItem, Free, Registered, net, history
<1>4. CASE Begin(t)
  BY <1>4 DEF TypeOK, Orderly, Begin, Returns, Free, Registered, net, history
<1>5. CASE Notify(t)
  <2>1. PICK f \in todo[t] : Visited(t, f)
    BY <1>5 DEF Notify
  <2> QED
    BY <1>5, <2>1 DEF TypeOK, Orderly, Notify, Visited, Returns, Free, Registered, net
<1> QED
  BY <1>1, <1>2, <1>3, <1>4, <1>5 DEF Update

LEMMA ConnectionsOrderly ==
  ASSUME TypeOK, Orderly, ~undefined, NEW c \in Clients, Connection(c)
  PROVE  Orderly'
<1>1. c \in Updaters
  BY DEF Updaters
<1>2. CASE Register(c) \/ Erase(c)
  <2>1. \A t \in Updaters : undefined' \/ todo[t] = {}
    BY <1>2 DEF Orderly, Register, Erase, ChangeEntry, Collide
  <2> QED
    BY <1>1, <1>2, <2>1, CountAssumption, NoneAssumption
    DEF TypeOK, Orderly, Register, Erase, ChangeEntry, Collide, Goto, Free
<1>3. CASE UNCHANGED <<item, stage, todo, fd_to_client, undefined>>
  BY <1>3 DEF Orderly, Free, Registered
<1> QED
  BY <1>2, <1>3 DEF Connection, Accept, HeaderFails, Handshake, SendDefinition,
     DefinitionsSent, Query, SendUpdate, Clear, Disconnect, Leave, net, updating, history

LEMMA StepsOrderly ==
  ASSUME TypeOK, Orderly, [Next]_vars
  PROVE  Orderly'
<1>1. CASE UNCHANGED vars
  BY <1>1 DEF Orderly, Free, Registered, vars, net, updating, history
<1>2. ASSUME ~undefined, NEW i \in Items, AddListener(i)
      PROVE  Orderly'
  BY <1>2 DEF Orderly, AddListener, Free, Registered, net, updating
<1> QED
  BY <1>1, <1>2, UpdatesOrderly, ConnectionsOrderly DEF Next

LEMMA StepsListening ==
  ASSUME TypeOK, Listening, [Next]_vars
  PROVE  Listening'
<1>1. CASE UNCHANGED vars
  BY <1>1 DEF Listening, vars
<1>2. ASSUME NEW i \in Items, AddListener(i)
      PROVE  Listening'
  BY <1>2 DEF Listening, AddListener, TypeOK
<1>3. ASSUME UNCHANGED heard, NEW t \in Updaters, Update(t)
      PROVE  Listening'
  BY <1>3 DEF Listening, Update, ReadSize, AssignCount, AssignItem, Begin, Notify
<1>4. ASSUME UNCHANGED heard, NEW c \in Clients, Connection(c)
      PROVE  Listening'
  <2>1. heard = Items
    BY <1>4 DEF Listening, Connection, Accept, HeaderFails, Handshake, Register, SendDefinition,
       DefinitionsSent, Query, SendUpdate, Clear, Disconnect, Erase, Leave, Goto
  <2> QED
    BY <1>4, <2>1 DEF Listening
<1> QED
  BY <1>1, <1>2, <1>3, <1>4 DEF Next

------------------------------------------------------------------------------
(* Descriptors and their entries.                                           *)

\* What the properties of descriptors are about.
ownership == <<socket, at, fd, fd_to_client, reused>>

LEMMA UpdatesOwnNothing ==
  ASSUME NEW t \in Updaters, Update(t)
  PROVE  UNCHANGED ownership
BY DEF ownership, Update, ReadSize, AssignCount, AssignItem, Begin, Notify, net, history

LEMMA StepsOwned ==
  ASSUME TypeOK, Owned, [Next]_vars
  PROVE  Owned'
<1>1. CASE UNCHANGED ownership
  BY <1>1 DEF Owned, Connected, Served, ownership
<1>2. ASSUME NEW c \in Clients, Accept(c)
      PROVE  Owned'
  BY <1>2, NoneAssumption DEF TypeOK, Owned, Connected, Served, Accept, Goto
<1>3. ASSUME NEW c \in Clients, HeaderFails(c) \/ Disconnect(c)
      PROVE  Owned'
  BY <1>3 DEF TypeOK, Owned, Connected, Served, HeaderFails, Disconnect, Goto
<1>4. ASSUME NEW c \in Clients, Connection(c), ~Accept(c), ~HeaderFails(c), ~Disconnect(c)
      PROVE  Owned'
  <2>1. socket' = socket /\ (fd' = fd \/ Leave(c))
    BY <1>4 DEF Connection, Handshake, Register, SendDefinition, DefinitionsSent, Query,
       SendUpdate, Clear, Erase, Leave, ChangeEntry, net
  <2>2. Connected' \subseteq Connected
    BY <1>4 DEF TypeOK, Connected, Served, Connection, Handshake, Register, SendDefinition,
       DefinitionsSent, Query, SendUpdate, Clear, Erase, Leave, Goto
  <2>3. CASE Leave(c)
    BY <2>1, <2>2, <2>3 DEF TypeOK, Owned, Connected, Served, Leave, Goto
  <2> QED
    BY <2>1, <2>2, <2>3 DEF Owned
<1> QED
  BY <1>1, <1>2, <1>3, <1>4, UpdatesOwnNothing
  DEF Next, AddListener, ownership, vars, net, history

LEMMA StepsEntries ==
  ASSUME TypeOK, Owned, Entries, [Next]_vars
  PROVE  Entries'
<1>1. CASE UNCHANGED ownership
  BY <1>1 DEF Entries, Entered, Served, Registered, ownership
<1>2. ASSUME NEW c \in Clients, Accept(c)
      PROVE  Entries'
  BY <1>2 DEF TypeOK, Entries, Entered, Served, Registered, Accept, Goto
<1>3. ASSUME NEW c \in Clients, Register(c)
      PROVE  Entries'
  <2>1. fd[c] \in Fds
    BY <1>3 DEF Owned, Connected, Register, Goto
  <2> QED
    BY <1>3, <2>1, NoneAssumption
    DEF TypeOK, Entries, Entered, Served, Registered, Register, ChangeEntry, Goto, net
<1>4. ASSUME NEW c \in Clients, Erase(c)
      PROVE  Entries'
  BY <1>4 DEF TypeOK, Entries, Entered, Served, Registered, Erase, ChangeEntry, Goto, net
<1>5. ASSUME NEW c \in Clients, Leave(c)
      PROVE  Entries'
  BY <1>5 DEF TypeOK, Entries, Entered, Served, Registered, Leave, Goto
<1>6. ASSUME NEW c \in Clients, HeaderFails(c) \/ Handshake(c) \/ SendDefinition(c) \/ DefinitionsSent(c)
                              \/ Query(c) \/ SendUpdate(c) \/ Clear(c) \/ Disconnect(c)
      PROVE  Entries'
  <2>1. UNCHANGED <<fd, fd_to_client>>
    BY <1>6 DEF HeaderFails, Handshake, SendDefinition, DefinitionsSent, Query,
       SendUpdate, Clear, Disconnect, net
  <2>2. Entered \subseteq Entered'
    BY <1>6 DEF TypeOK, Entered, Served, HeaderFails, Handshake, SendDefinition,
       DefinitionsSent, Query, SendUpdate, Clear, Disconnect, Goto
  <2> QED
    BY <2>1, <2>2 DEF Entries, Registered
<1> QED
  BY <1>1, <1>2, <1>3, <1>4, <1>5, <1>6, UpdatesOwnNothing
  DEF Next, Connection, AddListener, ownership, vars, net, history

\* Before a descriptor is given out while somebody has yet to erase its entry,
\* each thread erases its own.
LEMMA StepsApart ==
  ASSUME TypeOK, Owned, Apart, [Next]_vars
  PROVE  Apart'
<1>1. CASE UNCHANGED ownership
  BY <1>1 DEF Apart, Connected, Served, ownership
<1>2. ASSUME NEW c \in Clients, Accept(c)
      PROVE  Apart'
  <2>1. PICK f \in Fds :
          /\ fd' = [fd EXCEPT ![c] = f]
          /\ ~reused' => ~reused /\ \A d \in Clients : at[d] = "erase" => fd[d] # f
    BY <1>2 DEF Accept
  <2>2. \A d \in Clients \ {c} : at'[d] = at[d] /\ fd'[d] = fd[d]
    BY <1>2, <2>1 DEF TypeOK, Accept, Goto
  <2>3. at'[c] = "header" /\ fd'[c] = f
    BY <1>2, <2>1 DEF TypeOK, Accept, Goto
  <2> QED
    BY <2>1, <2>2, <2>3 DEF Apart, Connected, Served
<1>3. ASSUME NEW c \in Clients, Disconnect(c)
      PROVE  Apart'
  BY <1>3 DEF TypeOK, Owned, Apart, Connected, Served, Disconnect, Goto, history
<1>4. ASSUME NEW c \in Clients, Connection(c), ~Accept(c), ~Disconnect(c)
      PROVE  Apart'
  <2>1. Connected' \subseteq Connected /\ \A d \in Clients : at'[d] = "erase" => at[d] = "erase"
    BY <1>4 DEF TypeOK, Connected, Served, Connection, HeaderFails, Handshake, Register,
       SendDefinition, DefinitionsSent, Query, SendUpdate, Clear, Erase, Leave, Goto
  <2>2. reused' = reused /\ (fd' = fd \/ Leave(c))
    BY <1>4 DEF Connection, HeaderFails, Handshake, Register, SendDefinition, DefinitionsSent,
       Query, SendUpdate, Clear, Erase, Leave, ChangeEntry, net, history
  <2>3. CASE Leave(c)
    BY <2>1, <2>2, <2>3 DEF TypeOK, Apart, Connected, Served, Leave, Goto
  <2> QED
    BY <2>1, <2>2, <2>3 DEF Apart
<1> QED
  BY <1>1, <1>2, <1>3, <1>4, UpdatesOwnNothing
  DEF Next, AddListener, ownership, vars, net, history

LEMMA StepsAvailable ==
  ASSUME TypeOK, Owned, Apart, MadeAvailable, [Next]_vars
  PROVE  MadeAvailable'
<1>1. CASE UNCHANGED ownership
  BY <1>1 DEF MadeAvailable, Served, ownership
<1>2. ASSUME NEW c \in Clients, Accept(c)
      PROVE  MadeAvailable'
  BY <1>2 DEF TypeOK, MadeAvailable, Served, Accept, Goto
<1>3. ASSUME NEW c \in Clients, Register(c)
      PROVE  MadeAvailable'
  BY <1>3 DEF TypeOK, Owned, Connected, MadeAvailable, Served, Register, ChangeEntry, Goto, net
<1>4. ASSUME NEW c \in Clients, Erase(c)
      PROVE  MadeAvailable'
  BY <1>4 DEF TypeOK, Apart, Connected, MadeAvailable, Served, Erase, ChangeEntry, Goto, net
<1>5. ASSUME NEW c \in Clients, Connection(c), ~Accept(c), ~Register(c), ~Erase(c)
      PROVE  MadeAvailable'
  <2>1. Served' \subseteq Served
    BY <1>5 DEF TypeOK, Served, Connection, HeaderFails, Handshake,
       SendDefinition, DefinitionsSent, Query, SendUpdate, Clear, Disconnect, Leave, Goto
  <2>2. reused' = reused /\ fd_to_client' = fd_to_client /\ (fd' = fd \/ Leave(c))
    BY <1>5 DEF Connection, HeaderFails, Handshake, SendDefinition, DefinitionsSent,
       Query, SendUpdate, Clear, Disconnect, Leave, net, history
  <2>3. CASE Leave(c)
    BY <2>1, <2>2, <2>3 DEF TypeOK, MadeAvailable, Served, Leave, Goto
  <2> QED
    BY <2>1, <2>2, <2>3 DEF MadeAvailable
<1> QED
  BY <1>1, <1>2, <1>3, <1>4, <1>5, UpdatesOwnNothing
  DEF Next, AddListener, ownership, vars, net, history

------------------------------------------------------------------------------
(* Where the news of a stale value is.                                      *)

LEMMA StepsDrained ==
  ASSUME TypeOK, Orderly, Drained, [Next]_vars
  PROVE  Drained'
<1>1. CASE UNCHANGED <<at, rest, changed>>
  BY <1>1 DEF Drained
<1>2. ASSUME ~undefined, NEW t \in Updaters, Notify(t)
      PROVE  Drained'
  <2>1. PICK c \in Clients, i \in Items : Insert(c, i)
    BY <1>2, NotifyInserts
  <2> QED
    BY <1>2, <2>1 DEF TypeOK, Drained, Insert, Notify
<1>3. ASSUME NEW c \in Clients, Query(c) \/ Clear(c)
      PROVE  Drained'
  BY <1>3 DEF TypeOK, Drained, Query, Clear, Goto
<1>4. ASSUME NEW c \in Clients, SendDefinition(c) \/ SendUpdate(c)
      PROVE  Drained'
  BY <1>4 DEF TypeOK, Drained, SendDefinition, SendUpdate, SendItem
<1>5. ASSUME NEW c \in Clients, Register(c) \/ Leave(c)
      PROVE  Drained'
  BY <1>5 DEF TypeOK, Drained, Register, Leave, ChangeEntry, Goto
<1>6. ASSUME NEW c \in Clients, Accept(c) \/ HeaderFails(c) \/ Handshake(c)
                              \/ DefinitionsSent(c) \/ Disconnect(c) \/ Erase(c)
      PROVE  Drained'
  BY <1>6 DEF TypeOK, Drained, Accept, HeaderFails, Handshake, DefinitionsSent, Disconnect,
     Erase, ChangeEntry, Goto
<1> QED
  BY <1>1, <1>2, <1>3, <1>4, <1>5, <1>6
  DEF Next, Connection, Update, ReadSize, AssignCount, AssignItem, Begin, AddListener, vars

\* An update tells the client, or leaves the news where it was.
LEMMA UpdatesTell ==
  ASSUME TypeOK, Orderly, Listening, Owned, MadeAvailable, Told, ~undefined, ~reused,
         NEW t \in Updaters, Update(t),
         NEW c \in Served, NEW i \in Items \ current'[c]
  PROVE  Pending(i, c)'
<1>1. at' = at /\ fd' = fd
  BY DEF Update, ReadSize, AssignCount, AssignItem, Begin, Notify, net
<1>2. c \in Clients /\ fd[c] \in Fds /\ fd_to_client[fd[c]] = c
  BY DEF Served, Connected, Owned, MadeAvailable
<1>3. i \in Items /\ (i \notin current[c] => Pending(i, c))
  BY DEF Told
<1>4. CASE ReadSize(t)
  BY <1>1, <1>2, <1>3, <1>4 DEF TypeOK, Orderly, Pending, Coming, ReadSize, history
<1>5. CASE AssignCount(t)
  BY <1>1, <1>2, <1>3, <1>5, NoneAssumption
  DEF TypeOK, Orderly, Pending, Coming, AssignCount, Returns, Outdate, history
<1>6. CASE AssignItem(t)
  <2>1. PICK j \in Items \ {Count} : item' = [item EXCEPT ![t] = j] /\ Outdate(j)
    BY <1>6 DEF AssignItem
  <2>2. CASE i = j
    BY <1>6, <2>1, <2>2 DEF TypeOK, Pending, Coming, AssignItem
  <2>3. CASE i # j
    BY <1>1, <1>2, <1>3, <1>6, <2>1, <2>3, NoneAssumption
    DEF TypeOK, Pending, Coming, AssignItem, Outdate, Free, history
  <2> QED
    BY <2>2, <2>3
<1>7. CASE Begin(t)
  <2>1. heard = Items
    BY <1>2 DEF Served, Listening
  <2>2. i \notin current[c]
    BY <1>7 DEF Begin
  <2>3. item[t] = i => fd[c] \in Registered /\ todo' = [todo EXCEPT ![t] = Registered]
    BY <1>2, <1>7, <2>1, NoneAssumption DEF TypeOK, Registered, Begin
  <2> QED
    BY <1>1, <1>2, <1>3, <1>7, <2>2, <2>3
    DEF TypeOK, Orderly, Pending, Coming, Begin, Returns, history
<1>8. CASE Notify(t)
  <2>1. PICK f \in todo[t], d \in Clients, j \in Items :
          /\ d = fd_to_client[f] /\ j = item[t]
          /\ Insert(d, j) /\ Visited(t, f)
    BY <1>8, NotifyInserts
  <2>2. i \notin current[c]
    BY <1>8 DEF Notify
  <2>3. CASE d = c /\ j = i
    BY <1>1, <1>2, <2>1, <2>3 DEF TypeOK, Pending, Served, Insert
  <2>4. CASE d # c \/ j # i
    <3>1. Coming(i, c) => Coming(i, c)'
      BY <1>1, <1>2, <2>1, <2>4 DEF TypeOK, Orderly, Coming, Visited, Returns
    <3>2. /\ i \in missed[c] => i \in missed'[c]
          /\ i \in changed[c] => i \in changed'[c]
          /\ i \in rest[c] => i \in rest'[c]
      BY <1>2, <2>1, <2>4 DEF TypeOK, Insert
    <3> QED
      BY <1>1, <1>2, <1>3, <2>2, <3>1, <3>2 DEF Pending
  <2> QED
    BY <2>3, <2>4
<1> QED
  BY <1>4, <1>5, <1>6, <1>7, <1>8 DEF Update

\* So does a step of a connection.
LEMMA ConnectionsTell ==
  ASSUME TypeOK, Orderly, Drained, Told, ~reused, NEW d \in Clients, Connection(d),
         NEW c \in Served', NEW i \in Items \ current'[c]
  PROVE  Pending(i, c)'
<1>1. c \in Clients /\ d \in Updaters
  BY DEF Served, Updaters
<1>2. CASE Register(d)
  <2>1. CASE d = c
    BY <1>2, <2>1 DEF TypeOK, Pending, Register, Goto
  <2>2. CASE d # c
    BY <1>1, <1>2, <2>2, NoneAssumption DEF TypeOK, Told, Served, Pending, Coming, Register,
       ChangeEntry, Goto, Free, net
  <2> QED
    BY <2>1, <2>2
<1>3. CASE SendDefinition(d) \/ SendUpdate(d)
  BY <1>1, <1>3 DEF TypeOK, Told, Served, Pending, Coming, SendDefinition, SendUpdate, SendItem,
     net, updating, history
<1>4. CASE DefinitionsSent(d)
  BY <1>1, <1>4 DEF TypeOK, Told, Served, Pending, Coming, DefinitionsSent, Goto,
     net, updating, history
<1>5. CASE Query(d)
  BY <1>1, <1>5 DEF TypeOK, Told, Served, Pending, Coming, Query, Goto, net, updating, history
<1>6. CASE Clear(d)
  BY <1>1, <1>6 DEF TypeOK, Told, Served, Pending, Coming, Clear, Goto, net, updating, history
<1>7. CASE Accept(d)
  BY <1>1, <1>7 DEF TypeOK, Told, Served, Pending, Coming, Accept, Goto, updating
<1>8. CASE HeaderFails(d) \/ Handshake(d) \/ Disconnect(d)
  BY <1>1, <1>8 DEF TypeOK, Told, Served, Pending, Coming, HeaderFails, Handshake, Disconnect,
     Goto, net, updating, history
<1>9. CASE Erase(d)
  BY <1>1, <1>9, NoneAssumption DEF TypeOK, Told, Served, Pending, Coming, Erase, ChangeEntry,
     Goto, Free, net
<1>10. CASE Leave(d)
  BY <1>1, <1>10 DEF TypeOK, Told, Served, Pending, Coming, Leave, Goto, updating
<1> QED
  BY <1>2, <1>3, <1>4, <1>5, <1>6, <1>7, <1>8, <1>9, <1>10 DEF Connection

LEMMA StepsTold ==
  ASSUME TypeOK, Orderly, Listening, Owned, MadeAvailable, Drained, Told, [Next]_vars
  PROVE  Told'
<1>1. CASE UNCHANGED vars
  BY <1>1 DEF Told, Served, Pending, Coming, vars, net, updating, history
<1>2. ASSUME NEW i \in Items, AddListener(i)
      PROVE  Told'
  BY <1>2 DEF Told, Served, Pending, Coming, AddListener, net, updating
<1>3. ASSUME ~undefined, NEW t \in Updaters, Update(t)
      PROVE  Told'
  <2>1. Served' = Served /\ reused' = reused
    BY <1>3, UpdatesOwnNothing DEF Served, ownership
  <2> QED
    BY <1>3, <2>1, UpdatesTell DEF Told
<1>4. ASSUME NEW d \in Clients, Connection(d)
      PROVE  Told'
  <2>1. reused => reused'
    BY <1>4 DEF Connection, Accept, HeaderFails, Handshake, Register, SendDefinition,
       DefinitionsSent, Query, SendUpdate, Clear, Disconnect, Erase, Leave, ChangeEntry, history
  <2> QED
    BY <1>4, <2>1, ConnectionsTell DEF Told
<1> QED
  BY <1>1, <1>2, <1>3, <1>4 DEF Next

------------------------------------------------------------------------------
(* The number of clients.                                                   *)

LEMMA StepsCounted ==
  ASSUME TypeOK, Orderly, Counted, [Next]_vars
  PROVE  Counted'
<1>1. CASE UNCHANGED <<fd_to_client, item, stage, size, clientCount, contended>>
  BY <1>1 DEF Counted, Registered
<1>2. ASSUME NEW t \in Updaters, ReadSize(t)
      PROVE  Counted'
  BY <1>2 DEF TypeOK, Counted, Registered, ReadSize, history
<1>3. ASSUME NEW t \in Updaters, AssignCount(t)
      PROVE  Counted'
  BY <1>3, CountAssumption, NoneAssumption
  DEF TypeOK, Counted, Registered, AssignCount, Returns, history
<1>4. ASSUME NEW t \in Updaters, AssignItem(t)
      PROVE  Counted'
  BY <1>4, CountAssumption, NoneAssumption DEF TypeOK, Counted, Registered, AssignItem, Free, history
<1>5. ASSUME NEW t \in Updaters, Begin(t)
      PROVE  Counted'
  BY <1>5, CountAssumption, NoneAssumption DEF TypeOK, Counted, Registered, Begin, Returns, history
<1>6. ASSUME NEW t \in Updaters, Notify(t)
      PROVE  Counted'
  <2>1. PICK f \in todo[t] : Visited(t, f)
    BY <1>6 DEF Notify
  <2> QED
    BY <1>6, <2>1, CountAssumption, NoneAssumption
    DEF TypeOK, Counted, Registered, Notify, Visited, Returns
\* Whoever has read a size already has read another.
<1>7. ASSUME NEW c \in Clients, Register(c) \/ Erase(c)
      PROVE  Counted'
  <2>1. c \in Updaters /\ stage[c] = "size" /\ item' = [item EXCEPT ![c] = Count]
    BY <1>7 DEF Updaters, Orderly, Register, Erase, ChangeEntry, Goto
  <2>2. stage' = stage /\ size' = size
    BY <1>7 DEF Register, Erase, ChangeEntry
  <2>3. item'[c] = Count /\ \A t \in Updaters \ {c} : item'[t] = item[t]
    BY <2>1 DEF TypeOK
  <2>4. ~contended' => \A t \in Updaters : ~(item[t] = Count /\ stage[t] = "assign")
    BY <1>7 DEF Register, Erase, ChangeEntry
  <2> QED
    BY <2>1, <2>2, <2>3, <2>4 DEF Counted
<1> QED
  BY <1>1, <1>2, <1>3, <1>4, <1>5, <1>6, <1>7
  DEF Next, Update, Connection, Accept, HeaderFails, Handshake, SendDefinition, DefinitionsSent,
      Query, SendUpdate, Clear, Disconnect, Leave, AddListener, updating, history, vars

------------------------------------------------------------------------------

LEMMA InvariantAtFirst == Init => IInv
<1> SUFFICES ASSUME Init
             PROVE  IInv
  OBVIOUS
<1>1. TypeOK
  BY InitTyped
<1>2. Registered = {}
  BY DEF Init, Registered
<1>3. Orderly /\ Listening /\ Owned /\ Entries
  BY <1>2 DEF Init, Orderly, Listening, Owned, Entries, Connected, Served
<1>4. Apart /\ MadeAvailable /\ Told /\ Drained
  BY DEF Init, Apart, MadeAvailable, Told, Drained, Connected, Served
<1>5. Counted
  BY <1>2, FS_EmptySet DEF Init, Counted
<1> QED
  BY <1>1, <1>3, <1>4, <1>5 DEF IInv

LEMMA InvariantStep == IInv /\ [Next]_vars => IInv'
BY StepsTyped, StepsOrderly, StepsListening, StepsOwned, StepsEntries, StepsApart,
   StepsAvailable, StepsTold, StepsDrained, StepsCounted
DEF IInv

LEMMA InvariantAlways == Spec => []IInv
BY InvariantAtFirst, InvariantStep, PTL DEF Spec

\* Every variable stays in its type.
THEOREM TypeCorrect == Spec => []TypeOK
<1>1. IInv => TypeOK
  BY DEF IInv
<1> QED
  BY <1>1, InvariantAlways, PTL

\* A client thread in WebSocketServer::handle_client writes to the connection
\* it was started for, however soon the kernel gives its descriptor to another.
THEOREM SendsToItsPeer == Spec => []SendsToOwnPeer
<1>1. IInv => SendsToOwnPeer
  BY DEF IInv, Owned, Connected, SendsToOwnPeer
<1> QED
  BY <1>1, InvariantAlways, PTL

\* The listener of main() never follows a pointer to a Client whose thread has
\* returned from handle_client.
THEOREM NoClientDangles == Spec => []NoDanglingClient
<1>1. IInv => NoDanglingClient
  BY DEF IInv, Entries, Entered, Served, NoDanglingClient
<1> QED
  BY <1>1, InvariantAlways, PTL

\* A registered client stays registered until it disconnects, as long as no
\* descriptor is given out before the entry of its last owner is erased.
THEOREM StaysAvailable == Spec => []MadeAvailable
<1>1. IInv => MadeAvailable
  BY DEF IInv
<1> QED
  BY <1>1, InvariantAlways, PTL

\* A value that a peer has not been sent is in the set of its client, on its
\* way there, or was changed while send_updated_telemetry drained the set.
THEOREM StaleStaysChanged == Spec => []StaleIsChanged
<1>1. IInv => StaleIsChanged
  BY DEF IInv, Told, Drained, Pending, Served, StaleIsChanged
<1> QED
  BY <1>1, InvariantAlways, PTL

\* "Connected clients" is right when no update of it is under way, unless one
\* was overtaken between reading the size and storing it.
THEOREM CountStaysRight == Spec => []CountIsRight
<1>1. IInv => CountIsRight
  BY DEF IInv, Counted, CountIsRight
<1> QED
  BY <1>1, InvariantAlways, PTL

==============================================================================
