---------------------------- MODULE TelemetryServer ----------------------------
(***************************************************************************)
(* The telemetry server: main() tells every telemetry item of its change   *)
(* listener, then WebSocketServer accepts a connection and gives it        *)
(* a thread, the thread registers a Client in fd_to_client, sends the      *)
(* definition of every telemetry item, and then answers messages.  A       *)
(* change of an item is not sent: the thread that makes it runs the change *)
(* listener of main(), which adds the item to a set of each registered     *)
(* client, and the client's thread drains that set when its peer queries.  *)
(*                                                                         *)
(* There is no lock.  Values are left out but for the number of clients:   *)
(* what counts is whether a peer was sent the present value of an item.    *)
(***************************************************************************)
EXTENDS Integers, FiniteSets

CONSTANTS
  Clients,      \* client threads, one per connection that is ever accepted
  Fds,          \* file descriptors that the kernel has to give
  Items,        \* telemetry items
  Count,        \* the item "Connected clients"
  System,       \* the thread of SystemTelemetry
  None          \* no client, no descriptor, no item

ASSUME CountAssumption == Count \in Items /\ System \notin Clients
ASSUME NoneAssumption  == None \notin Clients \union Fds \union Items
ASSUME FdsAssumption   == IsFiniteSet(Fds)

VARIABLES
  heard,            \* items whose changes the listener of main() is told of
  socket,           \* the connection that an open descriptor belongs to
  at,               \* where each client thread is
  fd,               \* the descriptor it was started with
  fd_to_client,     \* WebSocketServer::fd_to_client, None where no entry
  changed,          \* Client::changed_telemetry_item_ids
  rest,             \* items that the loop a client thread is in has yet to send
  clientCount,      \* value of the item Count
  item,             \* the item whose update() a thread executes, or None
  stage,            \* how far that update() is
  size,             \* fd_to_client.size() as it was read for that update()
  todo,             \* descriptors that the change listener has yet to visit
  current,          \* items whose present value the peer was sent last
  missed,           \* history: items that changed while they were drained
  contended,        \* history: a size was outdated before it became the count
  reused,           \* history: a descriptor was given out while registered
  undefined         \* a container was changed while another thread iterates
                    \* over it or changes it

net      == <<socket, fd>>
updating == <<item, stage, size, todo>>
history  == <<missed, contended, reused, undefined>>
vars     == <<heard, net, at, fd_to_client, changed, rest, clientCount, updating,
              current, history>>

Updaters   == Clients \union {System}
Registered == {f \in Fds : fd_to_client[f] # None}

\* The thread executes no update().
Free(t) == item[t] = None

TypeOK ==
  /\ heard \subseteq Items
  /\ socket \in [Fds -> Clients \union {None}]
  /\ at \in [Clients -> {"none", "header", "register", "definitions", "read",
                         "drain", "erase", "leave", "gone"}]
  /\ fd \in [Clients -> Fds \union {None}]
  /\ fd_to_client \in [Fds -> Clients \union {None}]
  /\ changed \in [Clients -> SUBSET Items]
  /\ rest \in [Clients -> SUBSET Items]
  /\ current \in [Clients -> SUBSET Items]
  /\ missed \in [Clients -> SUBSET Items]
  /\ clientCount \in 0..Cardinality(Fds)
  /\ item \in [Updaters -> Items \union {None}]
  /\ stage \in [Updaters -> {"size", "assign", "begin", "listen"}]
  /\ size \in [Updaters -> 0..Cardinality(Fds)]
  /\ todo \in [Updaters -> SUBSET Fds]
  /\ contended \in BOOLEAN /\ reused \in BOOLEAN /\ undefined \in BOOLEAN

\* SystemTelemetry launches its thread before main() adds the listener.
Init ==
  /\ heard = {}
  /\ socket = [f \in Fds |-> None]
  /\ at = [c \in Clients |-> "none"]
  /\ fd = [c \in Clients |-> None]
  /\ fd_to_client = [f \in Fds |-> None]
  /\ changed = [c \in Clients |-> {}]
  /\ rest = [c \in Clients |-> {}]
  /\ clientCount = 0
  /\ item = [t \in Updaters |-> None]
  /\ stage = [t \in Updaters |-> "size"]
  /\ size = [t \in Updaters |-> 0]
  /\ todo = [t \in Updaters |-> {}]
  /\ current = [c \in Clients |-> {}]
  /\ missed = [c \in Clients |-> {}]
  /\ contended = FALSE /\ reused = FALSE /\ undefined = FALSE

\* A client thread that executes no update() goes on.
Goto(c, from, to) ==
  /\ at[c] = from /\ Free(c)
  /\ at' = [at EXCEPT ![c] = to]

------------------------------------------------------------------------------
(* Updates of items, by any thread.                                         *)

\* update() returns.
Returns(t) ==
  /\ item' = [item EXCEPT ![t] = None]
  /\ stage' = [stage EXCEPT ![t] = "size"]
  /\ size' = [size EXCEPT ![t] = 0]
  /\ todo' = [todo EXCEPT ![t] = {}]

\* A new value of an item is in no peer's hands.
Outdate(i) == current' = [c \in Clients |-> current[c] \ {i}]

\* The size is read as one more than it is.
ReadSizeAndOne(t) ==
  /\ item[t] = Count /\ stage[t] = "size"
  /\ size' = [size EXCEPT ![t] = Cardinality(Registered) + 1]
  /\ stage' = [stage EXCEPT ![t] = "assign"]
  /\ UNCHANGED <<net, at, fd_to_client, changed, rest, clientCount, item, todo,
                 current, history>>

\* fd_to_client.size() is read for clientCount->update().
ReadSize(t) ==
  /\ item[t] = Count /\ stage[t] = "size"
  /\ size' = [size EXCEPT ![t] = Cardinality(Registered)]
  /\ stage' = [stage EXCEPT ![t] = "assign"]
  /\ UNCHANGED <<net, at, fd_to_client, changed, rest, clientCount, item, todo,
                 current, history>>

\* update() changes the value of the count, or finds that it is the same.
AssignCount(t) ==
  /\ item[t] = Count /\ stage[t] = "assign"
  /\ clientCount' = size[t]
  /\ IF clientCount = size[t]
       THEN Returns(t) /\ UNCHANGED current
       ELSE /\ Outdate(Count)
            /\ stage' = [stage EXCEPT ![t] = "begin"]
            /\ UNCHANGED <<item, size, todo>>
  /\ UNCHANGED <<net, at, fd_to_client, changed, rest, history>>

\* The system thread, or a client thread that executes a command, changes the
\* value of another item.
AssignItem(t) ==
  /\ Free(t) /\ (t \in Clients => at[t] = "read")
  /\ \E i \in Items \ {Count} :
       /\ item' = [item EXCEPT ![t] = i]
       /\ Outdate(i)
  /\ stage' = [stage EXCEPT ![t] = "begin"]
  /\ UNCHANGED <<net, at, fd_to_client, changed, rest, clientCount, size, todo, history>>

\* The change listener, if the item has it yet, starts to iterate over
\* fd_to_client.
Begin(t) ==
  /\ ~Free(t) /\ stage[t] = "begin"
  /\ IF item[t] \notin heard \/ Registered = {} THEN Returns(t)
     ELSE /\ stage' = [stage EXCEPT ![t] = "listen"]
          /\ todo' = [todo EXCEPT ![t] = Registered]
          /\ UNCHANGED <<item, size>>
  /\ UNCHANGED <<net, at, fd_to_client, changed, rest, clientCount, current, history>>

\* The listener is done with an entry, and perhaps with all.
Visited(t, f) ==
  IF todo[t] = {f} THEN Returns(t)
  ELSE todo' = [todo EXCEPT ![t] = @ \ {f}] /\ UNCHANGED <<item, stage, size>>

\* The item is added to the set of a client.  When that client's thread is
\* iterating over the set, it may or may not come across an added item.
Insert(c, i) ==
  /\ changed' = [changed EXCEPT ![c] = @ \union {i}]
  /\ missed' = [missed EXCEPT ![c] = IF at[c] = "drain" THEN @ \union {i} ELSE @ \ {i}]
  /\ \/ UNCHANGED rest
     \/ /\ at[c] = "drain" /\ i \notin changed[c]
        /\ rest' = [rest EXCEPT ![c] = @ \union {i}]

\* The listener spares the client whose own command made the change.
NotifyOthers(t) ==
  /\ stage[t] = "listen"
  /\ \E f \in todo[t] :
       /\ IF fd_to_client[f] = t THEN UNCHANGED <<changed, missed, rest>>
          ELSE Insert(fd_to_client[f], item[t])
       /\ Visited(t, f)
  /\ UNCHANGED <<net, at, fd_to_client, clientCount, current, contended, reused, undefined>>

\* It adds the item to the set of the next client.
Notify(t) ==
  /\ stage[t] = "listen"
  /\ \E f \in todo[t] : Insert(fd_to_client[f], item[t]) /\ Visited(t, f)
  /\ UNCHANGED <<net, at, fd_to_client, clientCount, current, contended, reused, undefined>>

\* main() adds the listener to one item after the other, and finds a thread
\* about to iterate over the listeners of that item in the middle of it or not.
AddListener(i) ==
  /\ i \notin heard
  /\ heard' = heard \union {i}
  /\ undefined' \in {FALSE, \E t \in Updaters : item[t] = i /\ stage[t] = "begin"}
  /\ UNCHANGED <<net, at, fd_to_client, changed, rest, clientCount, updating,
                 current, missed, contended, reused>>

Update(t) == ReadSize(t) \/ AssignCount(t) \/ AssignItem(t) \/ Begin(t) \/ Notify(t)

------------------------------------------------------------------------------
(* The connections.                                                         *)

\* The main thread, once the listener is in place, accepts a connection and
\* launches its thread.
Accept(c) ==
  /\ heard = Items
  /\ Goto(c, "none", "header")
  /\ \E f \in Fds :
       /\ socket[f] = None
       /\ socket' = [socket EXCEPT ![f] = c]
       /\ fd' = [fd EXCEPT ![c] = f]
       /\ reused' = (reused \/ fd_to_client[f] # None
                            \/ \E d \in Clients : fd[d] = f /\ at[d] \notin {"leave", "gone"})
  /\ UNCHANGED <<fd_to_client, changed, rest, clientCount, updating, current,
                 missed, contended, undefined>>

\* The header is not that of a WebSocket request: handle_client answers and
\* closes the connection, or returns and leaves it open for good.
HeaderFails(c) ==
  /\ Goto(c, "header", "gone")
  /\ socket' \in {socket, [socket EXCEPT ![fd[c]] = None]}
  /\ UNCHANGED <<fd, fd_to_client, changed, rest, clientCount, updating, current, history>>

Handshake(c) ==
  /\ Goto(c, "header", "register")
  /\ UNCHANGED <<net, fd_to_client, changed, rest, clientCount, updating, current, history>>

\* Thread c changes fd_to_client while another thread iterates over it, or
\* finds one about to change it in the middle of that or not.
Collide(c) ==
  LET listening == \E t \in Updaters : stage[t] = "listen"
      changing  == \E d \in Clients \ {c} : at[d] \in {"register", "erase"} /\ Free(d)
  IN  undefined' \in {listening, listening \/ changing}

\* Thread c changes fd_to_client, and then clientCount->update() begins.
ChangeEntry(c, entry) ==
  /\ fd_to_client' = [fd_to_client EXCEPT ![fd[c]] = entry]
  /\ item' = [item EXCEPT ![c] = Count]
  /\ contended' = (contended \/ \E t \in Updaters : item[t] = Count /\ stage[t] = "assign")
  /\ Collide(c)
  /\ UNCHANGED <<net, changed, clientCount, stage, size, todo, current, missed, reused>>

Register(c) ==
  /\ Goto(c, "register", "definitions")
  /\ ChangeEntry(c, c)
  /\ rest' = [rest EXCEPT ![c] = Items]

\* One frame of a client thread's loop: the present value of an item.
SendItem(c) ==
  \E i \in rest[c] :
    /\ current' = [current EXCEPT ![c] = @ \union {i}]
    /\ rest' = [rest EXCEPT ![c] = @ \ {i}]

\* send_telemetry_definitions
SendDefinition(c) ==
  /\ at[c] = "definitions" /\ Free(c)
  /\ SendItem(c)
  /\ UNCHANGED <<net, at, fd_to_client, changed, clientCount, updating, history>>

DefinitionsSent(c) ==
  /\ Goto(c, "definitions", "read")
  /\ rest[c] = {}
  /\ UNCHANGED <<net, fd_to_client, changed, rest, clientCount, updating, current, history>>

\* A query arrives and send_updated_telemetry iterates over the set.
Query(c) ==
  /\ Goto(c, "read", "drain")
  /\ rest' = [rest EXCEPT ![c] = changed[c]]
  /\ UNCHANGED <<net, fd_to_client, changed, clientCount, updating, current, history>>

SendUpdate(c) ==
  /\ at[c] = "drain"
  /\ SendItem(c)
  /\ UNCHANGED <<net, at, fd_to_client, changed, clientCount, updating, history>>

Clear(c) ==
  /\ Goto(c, "drain", "read")
  /\ rest[c] = {}
  /\ changed' = [changed EXCEPT ![c] = {}]
  /\ UNCHANGED <<net, fd_to_client, rest, clientCount, updating, current, history>>

\* The thread goes on reading after it has closed its descriptor.
DisconnectNoBreak(c) ==
  /\ at[c] = "read" /\ Free(c)
  /\ socket' = [socket EXCEPT ![fd[c]] = None]
  /\ UNCHANGED <<at, fd, fd_to_client, changed, rest, clientCount, updating, current, history>>

\* The thread returns without a visit to the end of handle_client.
DisconnectReturn(c) ==
  /\ Goto(c, "read", "gone")
  /\ socket' = [socket EXCEPT ![fd[c]] = None]
  /\ UNCHANGED <<fd, fd_to_client, changed, rest, clientCount, updating, current, history>>

\* read() fails or returns nothing, or a close frame arrives: disconnect()
\* closes the descriptor, which the kernel may give out again at once.
Disconnect(c) ==
  /\ Goto(c, "read", "erase")
  /\ socket' = [socket EXCEPT ![fd[c]] = None]
  /\ UNCHANGED <<fd, fd_to_client, changed, rest, clientCount, updating, current, history>>

\* The count is left at what it was.
EraseUncounted(c) ==
  /\ Goto(c, "erase", "leave")
  /\ fd_to_client' = [fd_to_client EXCEPT ![fd[c]] = None]
  /\ Collide(c)
  /\ UNCHANGED <<net, changed, rest, clientCount, updating, current, missed, contended, reused>>

\* The entry of another client goes as well.
EraseAny(c) ==
  /\ Goto(c, "erase", "leave")
  /\ \E f \in Fds : fd_to_client' =
       [fd_to_client EXCEPT ![fd[c]] = None, ![f] = None]
  /\ item' = [item EXCEPT ![c] = Count]
  /\ Collide(c)
  /\ UNCHANGED <<net, changed, rest, clientCount, stage, size, todo, current,
                 missed, contended, reused>>

\* finish:
Erase(c) ==
  /\ Goto(c, "erase", "leave")
  /\ ChangeEntry(c, None)
  /\ UNCHANGED rest

\* The thread returns, and its Client is gone with its stack.
Leave(c) ==
  /\ Goto(c, "leave", "gone")
  /\ fd' = [fd EXCEPT ![c] = None]
  /\ changed' = [changed EXCEPT ![c] = {}]
  /\ current' = [current EXCEPT ![c] = {}]
  /\ missed' = [missed EXCEPT ![c] = {}]
  /\ UNCHANGED <<socket, fd_to_client, rest, clientCount, updating, contended,
                 reused, undefined>>

Connection(c) ==
  \/ Accept(c) \/ HeaderFails(c) \/ Handshake(c) \/ Register(c)
  \/ SendDefinition(c) \/ DefinitionsSent(c)
  \/ Query(c) \/ SendUpdate(c) \/ Clear(c)
  \/ Disconnect(c) \/ Erase(c) \/ Leave(c)

\* After undefined behaviour nothing is claimed, and nothing is modelled.
Next ==
  /\ ~undefined
  /\ \/ \E i \in Items : AddListener(i)
     \/ /\ (\E t \in Updaters : Update(t)) \/ (\E c \in Clients : Connection(c))
        /\ UNCHANGED heard

Spec == Init /\ [][Next]_vars

------------------------------------------------------------------------------
(* Properties *)

\* The change of item i has yet to reach client c.
Coming(i, c) ==
  \E t \in Updaters :
    item[t] = i /\ (stage[t] = "begin" \/ fd[c] \in todo[t])

Served == {c \in Clients : at[c] \in {"definitions", "read", "drain"}}

\* A client registers before it is sent the definitions, so a change either
\* makes it into a definition or into the set.  What a peer has not been sent
\* is in the set, on its way there, or changed while the set was drained.
StaleIsChanged ==
  ~reused =>
    \A c \in Served : \A i \in Items \ current[c] :
      \/ i \in changed[c] \union missed[c]
      \/ at[c] = "definitions" /\ i \in rest[c]
      \/ Coming(i, c)

\* The listener never finds a client whose thread has returned: even where a
\* descriptor was given out again too early, each thread removes the entry of
\* its descriptor, whosever it is, before its own Client goes.
NoDanglingClient ==
  \A f \in Registered : at[fd_to_client[f]] \notin {"none", "gone"}

\* Client threads send only to their own peer, although descriptors are given
\* out again before the thread that closed them has returned.
SendsToOwnPeer ==
  \A c \in Served : socket[fd[c]] = c

\* The item "Connected clients" is the number of entries of fd_to_client when
\* no update of it is under way, unless one was overtaken by another client.
CountIsRight ==
  (~contended /\ \A t \in Updaters : item[t] = Count => stage[t] \in {"begin", "listen"}) =>
    clientCount = Cardinality(Registered)

\* WebSocket.cpp on the registration: it makes the client available.  It stays
\* so until it disconnects, unless its descriptor was given out too early: then
\* the thread that had it before erases the entry.
MadeAvailable ==
  ~reused => \A c \in Served : fd_to_client[fd[c]] = c

==============================================================================
