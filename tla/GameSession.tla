----------------------------- MODULE GameSession -----------------------------
(***************************************************************************)
(* From a socket to a character in the world (connection.cpp, protocol.h,  *)
(* protocolgame.cpp, outputmessage.cpp, and what they use of player.cpp    *)
(* and game.cpp): the network thread accepts connections, reads packets    *)
(* and notices errors; the dispatcher runs the tasks it posts, in order,   *)
(* with the scheduler's events in front; both touch the Connection, the    *)
(* ProtocolGame behind it and the Player the protocol is attached to.      *)
(*                                                                         *)
(* One character, REPLACE_KICK_ON_LOGIN on, ALLOW_CLONES off.  A task is   *)
(* one step (Dispatcher.tla); a network handler is two, because it holds   *)
(* the connection's lock and a reference to it while the dispatcher runs.  *)
(* A connection and its ProtocolGame are created together and share an     *)
(* identity here.                                                          *)
(***************************************************************************)
EXTENDS Integers, Sequences, FiniteSets

CONSTANTS
  Conns,    \* connections, each with its ProtocolGame
  Objs,     \* Player objects
  None,
  MaxTasks  \* bound on the dispatcher's list for client packets

ASSUME SessionAssumption ==
  /\ IsFiniteSet(Conns)
  /\ None \notin Conns \cup Objs
  /\ MaxTasks \in Nat

VARIABLES
  \* Connection
  connState,     \* "none" before accept, then connectionState
  managed,       \* connections in ConnectionManager::connections
  readPending,   \* connections with an async_read outstanding
  writePending,  \* connections with a message in messageQueue
  sockets,       \* connections whose socket is open: no closeSocket() yet
  receivedFirst, \* Connection::receivedFirst
  \* the network thread
  netIn,         \* the connection whose handler it is in
  netPc,         \* "idle"; "in": has the lock; "out": closed it, not returned
  \* ProtocolGame
  player,        \* ProtocolGame::player
  acceptPackets, \* ProtocolGame::acceptPackets
  released,      \* protocols whose release() has run
  connectEvents, \* pending connect events: [c, o], eventConnect of c is not 0
  \* OutputMessagePool
  buffered,      \* bufferedProtocols
  sendAlls,      \* sendAll events that are scheduled
  \* Player and Game
  client,        \* Player::client
  life,          \* "unused", "loaded", "online", "removed" or "freed"
  refs,          \* Creature::referenceCounter
  checked,       \* players in a checkCreatureLists vector
  toRelease,     \* how often a player is in ToReleaseCreatures
  \* Dispatcher
  tasks          \* its list

connVars == <<connState, managed, readPending, writePending, sockets, receivedFirst>>
netVars == <<netIn, netPc>>
protoVars == <<player, acceptPackets, released, connectEvents>>
poolVars == <<buffered, sendAlls>>
playerVars == <<client, life, refs, checked, toRelease>>
vars == <<connVars, netVars, protoVars, poolVars, playerVars, tasks>>

Task(kind, c, o) == [kind |-> kind, c |-> c, o |-> o]
TaskKinds == {"onConnect", "login", "logout", "release", "connect"}

TypeOK ==
  /\ connState \in [Conns -> {"none", "OPEN", "CLOSED"}]
  /\ \A s \in {managed, readPending, writePending, sockets, receivedFirst,
               acceptPackets, released, buffered} : s \subseteq Conns
  /\ netIn \in Conns \cup {None}
  /\ netPc \in {"idle", "in", "out"}
  /\ player \in [Conns -> Objs \cup {None}]
  /\ connectEvents \subseteq [c : Conns, o : Objs]
  /\ sendAlls \in Nat
  /\ client \in [Objs -> Conns \cup {None}]
  /\ life \in [Objs -> {"unused", "loaded", "online", "removed", "freed"}]
  /\ refs \in [Objs -> Nat]
  /\ checked \subseteq Objs
  /\ toRelease \in [Objs -> Nat]
  /\ tasks \in Seq([kind : TaskKinds, c : Conns, o : Objs \cup {None}])

Init ==
  /\ connState = [c \in Conns |-> "none"]
  /\ managed = {} /\ readPending = {} /\ writePending = {} /\ sockets = {}
  /\ receivedFirst = {}
  /\ netIn = None /\ netPc = "idle"
  /\ player = [c \in Conns |-> None]
  /\ acceptPackets = {} /\ released = {} /\ connectEvents = {}
  /\ buffered = {} /\ sendAlls = 0
  /\ client = [o \in Objs |-> None]
  /\ life = [o \in Objs |-> "unused"]
  /\ refs = [o \in Objs |-> 0]
  /\ checked = {} /\ toRelease = [o \in Objs |-> 0]
  /\ tasks = <<>>

-----------------------------------------------------------------------------
(* Helpers.                                                                *)

Online == {o \in Objs : life[o] = "online"}

(* Nobody holds a shared_ptr to the connection: connection.expired().      *)
Expired(c) == c \notin managed \cup readPending \cup writePending /\ netIn # c

(* Connection::close takes connectionLock, which a handler holds.          *)
Unlocked(c) == ~(netIn = c /\ netPc = "in")

\* Mutant: the connection's state is not set.
ShutStaysOpen(c, rest) ==
  /\ managed' = managed \ {c}
  /\ tasks' = Append(rest, Task("release", c, None))
  /\ UNCHANGED connState

\* Mutant: release() is not posted.
ShutWithoutRelease(c, rest) ==
  /\ managed' = managed \ {c}
  /\ connState' = [connState EXCEPT ![c] = "CLOSED"]
  /\ tasks' = rest

(* Connection::close, but for the socket: out of the manager, CLOSED, and  *)
(* release() posted once.  rest is what else becomes of the list of tasks. *)
Shut(c, rest) ==
  /\ managed' = managed \ {c}
  /\ connState' = [connState EXCEPT ![c] = "CLOSED"]
  /\ tasks' = IF connState[c] = "OPEN" THEN Append(rest, Task("release", c, None))
                                       ELSE rest

(* Connection::close: only a close that is forced, or that finds no message *)
(* queued, closes the socket; else onWriteOperation is left to do it.      *)
Close(c, force, rest) ==
  /\ Shut(c, rest)
  /\ sockets' = IF connState[c] = "OPEN" /\ (force \/ c \notin writePending)
                THEN sockets \ {c} ELSE sockets

(* Connection::send: nothing once the connection is not OPEN.              *)
Send(c) == writePending' = IF connState[c] = "OPEN" THEN writePending \cup {c}
                                                    ELSE writePending

(* ProtocolGame::disconnectClient: its message is queued, so that the      *)
(* socket stays open.                                                      *)
DisconnectClient(c, rest) ==
  Unlocked(c) /\ Send(c) /\ Shut(c, rest) /\ UNCHANGED sockets

\* Mutant: the list is looked at after the protocol was added.
AddToAutosendFirst(c) ==
  /\ buffered' = buffered \cup {c}
  /\ UNCHANGED sendAlls

(* OutputMessagePool::addProtocolToAutosend.                               *)
AddToAutosend(c) ==
  /\ sendAlls' = IF buffered = {} THEN sendAlls + 1 ELSE sendAlls
  /\ buffered' = buffered \cup {c}

(* Creature::decrementReferenceCounter, n times.                           *)
Decremented(o, n) ==
  /\ refs' = [refs EXCEPT ![o] = @ - n]
  /\ life' = [life EXCEPT ![o] = IF refs[o] = n THEN "freed" ELSE @]

(* Game::removeCreature; a creature that is removed already stays so.      *)
Remove(o) ==
  /\ life' = [life EXCEPT ![o] = IF @ = "online" THEN "removed" ELSE @]
  /\ toRelease' = [toRelease EXCEPT ![o] = IF life[o] = "online" THEN @ + 1 ELSE @]

-----------------------------------------------------------------------------
(* The network thread.                                                     *)

(* ServicePort::onAccept and Connection::accept(protocol).                 *)
Accept(c) ==
  /\ netPc = "idle"
  /\ connState[c] = "none"
  /\ connState' = [connState EXCEPT ![c] = "OPEN"]
  /\ managed' = managed \cup {c}
  /\ readPending' = readPending \cup {c}
  /\ sockets' = sockets \cup {c}
  /\ tasks' = Append(tasks, Task("onConnect", c, None))
  /\ UNCHANGED <<writePending, receivedFirst, netVars, protoVars, poolVars,
                 playerVars>>

(* A read completes: parseHeader or parsePacket takes connectionLock.      *)
BeginRead(c) ==
  /\ netPc = "idle"
  /\ c \in readPending
  /\ netIn' = c
  /\ netPc' = "in"
  /\ readPending' = readPending \ {c}
  /\ UNCHANGED <<connState, managed, writePending, sockets, receivedFirst,
                 protoVars, poolVars, playerVars, tasks>>

(* The handler re-arms the read and returns.                               *)
ReturnArmed(c) ==
  /\ readPending' = readPending \cup {c}
  /\ netIn' = None
  /\ netPc' = "idle"

(* onRecvFirstMessage: refused with or without a message, or login posted. *)
ReadFirst ==
  LET c == netIn
  IN  /\ netPc = "in"
      /\ connState[c] = "OPEN"
      /\ c \notin receivedFirst
      /\ receivedFirst' = receivedFirst \cup {c}
      /\ \/ /\ tasks' = Append(tasks, Task("login", c, None))
            /\ UNCHANGED <<connState, managed, writePending, sockets>>
         \/ Send(c) /\ Shut(c, tasks) /\ UNCHANGED sockets
         \/ Close(c, FALSE, tasks) /\ UNCHANGED writePending
      /\ ReturnArmed(c)
      /\ UNCHANGED <<protoVars, poolVars, playerVars>>

(* ProtocolGame::parsePacket: without acceptPackets or a player nothing    *)
(* happens; otherwise the packet becomes a task (logout is the one that    *)
(* matters here), and a client without a player, or whose player is dead   *)
(* (health is not modelled: any may be), may leave at once.  It reads      *)
(* player and the Player behind it.                                        *)
ReadPacket ==
  LET c == netIn
  IN  /\ netPc = "in"
      /\ connState[c] = "OPEN"
      /\ c \in receivedFirst
      /\ \/ UNCHANGED <<connState, managed, sockets, tasks>>
         \/ /\ c \in acceptPackets
            /\ player[c] # None
            /\ Len(tasks) < MaxTasks
            /\ tasks' = Append(tasks, Task("logout", c, None))
            /\ UNCHANGED <<connState, managed, sockets>>
         \/ /\ c \in acceptPackets
            /\ Close(c, FALSE, tasks)
      /\ ReturnArmed(c)
      /\ UNCHANGED <<writePending, receivedFirst, protoVars, poolVars, playerVars>>

(* A read error and a bad header force the close(), too many packets do    *)
(* not.  The handler has yet to return: its shared_ptr is alive until then. *)
ReadError ==
  /\ netPc = "in"
  /\ \E force \in BOOLEAN : Close(netIn, force, tasks)
  /\ netPc' = "out"
  /\ UNCHANGED <<readPending, writePending, receivedFirst, netIn, protoVars,
                 poolVars, playerVars>>

(* Data for a connection that is closed already.                           *)
ReadClosed ==
  /\ netPc = "in"
  /\ connState[netIn] = "CLOSED"
  /\ netPc' = "out"
  /\ UNCHANGED <<connVars, netIn, protoVars, poolVars, playerVars, tasks>>

(* Its shared_ptr may be the last: ~Connection closes the socket.          *)
HandlerReturns ==
  /\ netPc = "out"
  /\ netPc' = "idle"
  /\ netIn' = None
  /\ sockets' = IF netIn \in managed \cup readPending \cup writePending
                THEN sockets ELSE sockets \ {netIn}
  /\ UNCHANGED <<connState, managed, readPending, writePending, receivedFirst,
                 protoVars, poolVars, playerVars, tasks>>

(* onWriteOperation: the queue is empty, or the next message goes out; the *)
(* last one of a closed connection closes its socket.                      *)
WriteDone(c) ==
  /\ netPc = "idle"
  /\ c \in writePending
  /\ writePending' = writePending \ {c}
  /\ sockets' = IF connState[c] = "CLOSED" THEN sockets \ {c} ELSE sockets
  /\ UNCHANGED <<connState, managed, readPending, receivedFirst, netVars,
                 protoVars, poolVars, playerVars, tasks>>

(* onWriteOperation with an error: the queue is cleared, close(FORCE),     *)
(* which does not close the socket of a connection that is CLOSED already. *)
WriteError(c) ==
  /\ netPc = "idle"
  /\ c \in writePending
  /\ writePending' = writePending \ {c}
  /\ Close(c, TRUE, tasks)
  /\ netIn' = c
  /\ netPc' = "out"
  /\ UNCHANGED <<readPending, receivedFirst, protoVars, poolVars, playerVars>>

(* handleTimeout of a read or write timer: close(FORCE) through a weak_ptr *)
(* that it has locked.  For a connection that is CLOSED it does nothing.   *)
IOTimeout(c) ==
  /\ netPc = "idle"
  /\ connState[c] # "none"
  /\ ~Expired(c)
  /\ connState[c] = "OPEN"
  /\ Close(c, TRUE, tasks)
  /\ netIn' = c
  /\ netPc' = "out"
  /\ UNCHANGED <<readPending, writePending, receivedFirst, protoVars, poolVars,
                 playerVars>>

-----------------------------------------------------------------------------
(* The dispatcher's tasks.                                                 *)

Next1(kind) == tasks # <<>> /\ Head(tasks).kind = kind
C == Head(tasks).c
Rest == Tail(tasks)

(* ProtocolGame::onConnect sends the challenge.                            *)
OnConnect ==
  /\ Next1("onConnect")
  /\ Unlocked(C)
  /\ Send(C)
  /\ tasks' = Rest
  /\ UNCHANGED <<connState, managed, readPending, sockets, receivedFirst, netVars,
                 protoVars, poolVars, playerVars>>

(* ProtocolGame::login, the character is not online: a new Player, any one *)
(* that does not exist yet.                                                *)
IsNew(o) == life[o] = "unused" /\ o = CHOOSE x \in Objs : life[x] = "unused"

(* ... some check fails, or it cannot be loaded or placed.                 *)
LoginRefused(o) ==
  /\ Next1("login")
  /\ Online = {}
  /\ IsNew(o)
  /\ player' = [player EXCEPT ![C] = o]
  /\ client' = [client EXCEPT ![o] = C]
  /\ refs' = [refs EXCEPT ![o] = 1]
  /\ life' = [life EXCEPT ![o] = "loaded"]
  /\ DisconnectClient(C, Rest)
  /\ UNCHANGED <<readPending, receivedFirst, netVars, acceptPackets, released,
                 connectEvents, poolVars, checked, toRelease>>

(* ... it is placed: the game and the check list take a reference each.    *)
LoginNew(o) ==
  /\ Next1("login")
  /\ Online = {}
  /\ IsNew(o)
  /\ player' = [player EXCEPT ![C] = o]
  /\ client' = [client EXCEPT ![o] = C]
  /\ refs' = [refs EXCEPT ![o] = 3]
  /\ checked' = checked \cup {o}
  /\ acceptPackets' = acceptPackets \cup {C}
  /\ AddToAutosend(C)
  /\ \/ /\ life' = [life EXCEPT ![o] = "online"]
        /\ tasks' = Rest
        /\ UNCHANGED <<connState, managed, sockets, toRelease>>
     \* Player::onPlacedCreature: the login script refuses, kickPlayer().
     \/ /\ Unlocked(C)
        /\ Close(C, FALSE, Rest)
        /\ life' = [life EXCEPT ![o] = "removed"]
        /\ toRelease' = [toRelease EXCEPT ![o] = 1]
  /\ UNCHANGED <<readPending, writePending, receivedFirst, netVars, released,
                 connectEvents>>

(* ... it is online and has a client: that one is disconnected and         *)
(* connect() is scheduled.                                                 *)
LoginReplace(o) ==
  /\ Next1("login")
  /\ o \in Online
  /\ client[o] # None
  /\ Unlocked(client[o])
  /\ Close(client[o], FALSE, Rest)
  /\ connectEvents' = connectEvents \cup {[c |-> C, o |-> o]}
  /\ AddToAutosend(C)
  /\ UNCHANGED <<readPending, writePending, receivedFirst, netVars, player,
                 acceptPackets, released, client, life, refs, checked, toRelease>>

\* Mutant: incrementReferenceCounter() is missing.
AttachUncounted(c, o) ==
  /\ player' = [player EXCEPT ![c] = o]
  /\ client' = [client EXCEPT ![o] = c]
  /\ acceptPackets' = acceptPackets \cup {c}
  /\ UNCHANGED refs

(* ProtocolGame::connect when it attaches c to the player.                 *)
Attach(c, o) ==
  /\ player' = [player EXCEPT ![c] = o]
  /\ refs' = [refs EXCEPT ![o] = @ + 1]
  /\ client' = [client EXCEPT ![o] = c]
  /\ acceptPackets' = acceptPackets \cup {c}

(* ... it is online without a client: connect() at once, here with the     *)
(* connection alive and with the connection gone.                          *)
LoginReconnect(o) ==
  /\ Next1("login")
  /\ o \in Online
  /\ client[o] = None
  /\ IF Expired(C)
     THEN UNCHANGED <<player, refs, client, acceptPackets>>
     ELSE Attach(C, o)
  /\ AddToAutosend(C)
  /\ tasks' = Rest
  /\ UNCHANGED <<connVars, netVars, released, connectEvents, life, checked,
                 toRelease>>

(* The scheduler hands a connect event over, in front of the list.         *)
FireConnect ==
  \E e \in connectEvents :
    /\ connectEvents' = connectEvents \ {e}
    /\ tasks' = <<Task("connect", e.c, e.o)>> \o tasks
    /\ UNCHANGED <<connVars, netVars, player, acceptPackets, released, poolVars,
                   playerVars>>

(* ProtocolGame::connect as an event of its own.                           *)
ConnectTask ==
  LET o == Head(tasks).o
      found == life[o] = "online" /\ client[o] = None
  IN  /\ Next1("connect")
      /\ \/ /\ ~found
            /\ DisconnectClient(C, Rest)
            /\ UNCHANGED <<player, refs, client, acceptPackets>>
         \/ /\ found
            /\ Expired(C)
            /\ tasks' = Rest
            /\ UNCHANGED <<connState, managed, writePending, sockets, player, refs, client,
                           acceptPackets>>
         \/ /\ found
            /\ ~Expired(C)
            /\ Attach(C, o)
            /\ tasks' = Rest
            /\ UNCHANGED <<connState, managed, writePending, sockets>>
      /\ UNCHANGED <<readPending, receivedFirst, netVars, released,
                     connectEvents, poolVars, life, checked, toRelease>>

(* ProtocolGame::logout(displayEffect, false) of the client's packet; it   *)
(* may be refused (a fight, the tile, a script).                           *)
LogoutTask ==
  LET o == player[C]
  IN  /\ Next1("logout")
      /\ \/ /\ o = None \/ life[o] = "online"
            /\ tasks' = Rest
            /\ UNCHANGED <<connState, managed, sockets, life, toRelease>>
         \/ /\ o # None
            /\ Unlocked(C)
            /\ Close(C, FALSE, Rest)
            /\ Remove(o)
      /\ UNCHANGED <<readPending, writePending, receivedFirst, netVars, protoVars,
                     poolVars, client, refs, checked>>

(* ProtocolGame::release.                                                  *)
Release ==
  LET o == player[C]
      mine == o # None /\ client[o] = C
  IN  /\ Next1("release")
      /\ IF mine
         THEN /\ client' = [client EXCEPT ![o] = None]
              /\ player' = [player EXCEPT ![C] = None]
              /\ Decremented(o, 1)
         ELSE UNCHANGED <<client, player, refs, life>>
      /\ buffered' = buffered \ {C}
      /\ released' = released \cup {C}
      /\ tasks' = Rest
      /\ UNCHANGED <<connVars, netVars, acceptPackets, connectEvents, sendAlls,
                     checked, toRelease>>

(* OutputMessagePool::sendAll; an output buffer may be empty.              *)
SendAll ==
  /\ sendAlls > 0
  /\ \E S \in SUBSET {c \in buffered : connState[c] = "OPEN"} :
       /\ \A c \in S : Unlocked(c)
       /\ writePending' = writePending \cup S
  /\ sendAlls' = IF buffered = {} THEN sendAlls - 1 ELSE sendAlls
  /\ UNCHANGED <<connState, managed, readPending, sockets, receivedFirst, netVars,
                 protoVars, buffered, playerVars, tasks>>

(* The game itself logs a player out: sendPing() after a minute without an *)
(* answer, onThink() after too long without input, setGameState().  The    *)
(* client is disconnected first.                                           *)
Kick(o) ==
  /\ o \in Online
  /\ IF client[o] = None
     THEN UNCHANGED <<connState, managed, sockets, tasks>>
     ELSE Unlocked(client[o]) /\ Close(client[o], FALSE, tasks)
  /\ Remove(o)
  /\ UNCHANGED <<readPending, writePending, receivedFirst, netVars, protoVars,
                 poolVars, client, refs, checked>>

(* Creature::onDeath removes the player; the client stays connected.       *)
Death(o) ==
  /\ o \in Online
  /\ Remove(o)
  /\ UNCHANGED <<connVars, netVars, protoVars, poolVars, client, refs, checked,
                 tasks>>

(* Game::checkCreatures drops those of its list that were removed, and     *)
(* cleanup() gives back the references of ToReleaseCreatures.              *)
CheckCreatures(o) ==
  LET dropped == IF o \in checked /\ life[o] = "removed" THEN 1 ELSE 0
      n == toRelease[o] + dropped
  IN  /\ n > 0
      /\ checked' = IF dropped = 1 THEN checked \ {o} ELSE checked
      /\ toRelease' = [toRelease EXCEPT ![o] = 0]
      /\ Decremented(o, n)
      /\ UNCHANGED <<connVars, netVars, protoVars, poolVars, client,
                     tasks>>

-----------------------------------------------------------------------------
NetworkStep ==
  \/ ReadFirst \/ ReadPacket \/ ReadError \/ ReadClosed \/ HandlerReturns

DispatcherStep ==
  \/ OnConnect \/ ConnectTask \/ LogoutTask \/ Release
  \/ \E o \in Objs :
       LoginRefused(o) \/ LoginNew(o) \/ LoginReplace(o) \/ LoginReconnect(o)

Next ==
  \/ \E c \in Conns :
       \/ Accept(c) \/ BeginRead(c) \/ WriteDone(c) \/ WriteError(c)
       \/ IOTimeout(c)
  \/ NetworkStep
  \/ DispatcherStep
  \/ FireConnect
  \/ SendAll
  \/ \E o \in Objs : Kick(o) \/ Death(o) \/ CheckCreatures(o)

(* Both threads run; the dispatcher gets a connection's lock eventually,   *)
(* since the network thread gives it up whenever it waits for data.  What  *)
(* is pending on a socket that was closed completes, with an error.  A     *)
(* peer owes nothing: on an open socket a read or a write may wait for     *)
(* ever, and the timers end that only while the connection is OPEN.        *)
Fairness ==
  /\ WF_vars(NetworkStep)
  /\ SF_vars(DispatcherStep)
  /\ \A c \in Conns :
       SF_vars(/\ connState[c] = "CLOSED" /\ c \notin sockets
               /\ BeginRead(c) \/ WriteDone(c) \/ WriteError(c))

Spec == Init /\ [][Next]_vars /\ Fairness

-----------------------------------------------------------------------------
(* Safety.                                                                 *)

Holders(o) == {c \in Conns : player[c] = o}

(* Reference counting is exact: a Player has one reference per protocol    *)
(* attached to it, one while it is in the world or waits to be released,   *)
(* and one while it is in a check list.                                    *)
RefsAccounted ==
  \A o \in Objs :
    /\ refs[o] = Cardinality(Holders(o))
                  + (IF life[o] = "online" THEN 1 ELSE 0) + toRelease[o]
                  + (IF o \in checked THEN 1 ELSE 0)
    /\ life[o] = "freed" => refs[o] = 0

(* A player's client points at a protocol attached to that player, and     *)
(* the character is in the world once.                                     *)
ClientAgrees ==
  /\ \A o \in Objs : client[o] # None => player[client[o]] = o
  /\ Cardinality(Online) <= 1

(* While the network thread parses a packet it uses ProtocolGame::player   *)
(* without synchronisation.  The connection's lock and the order in which  *)
(* close() posts release() keep the Player alive that long.                *)
ReaderSafe ==
  (netPc = "in" /\ connState[netIn] = "OPEN") =>
    /\ netIn \notin released
    /\ player[netIn] # None => life[player[netIn]] # "freed"

(* Output of a logged in client is not forgotten: while a protocol is in   *)
(* the autosend list a sendAll event is pending, and a protocol that was   *)
(* released is not in the list.                                            *)
AutosendServed ==
  /\ buffered # {} => sendAlls > 0
  /\ buffered \cap released = {}

(* Liveness: a closed connection is released, however reads, writes and    *)
(* the dispatcher's tasks fall, and its object goes away unless its socket *)
(* is kept open for messages that the peer does not take.                  *)
ClosedConnectionsGo ==
  \A c \in Conns :
    (connState[c] = "CLOSED") ~> (c \in released /\ (Expired(c) \/ c \in sockets))

(* What connect() says of the test of isConnectionExpired(): it is there   *)
(* "to prevent leakage of the Player" by attaching it to a protocol whose  *)
(* release() has been called.                                              *)
NoPlayerLeaked ==
  \A c \in released : player[c] = None

(* References and pointers between players, protocols and lists agree.     *)
ReferencesAgree == TypeOK /\ RefsAccounted /\ ClientAgrees
=============================================================================
