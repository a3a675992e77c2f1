----------------------------- MODULE MeterSlave -----------------------------
(***************************************************************************)
(* The SunSpec slave of fronius-bridge (src/meter_slave.cpp): the meter's  *)
(* thread replaces the register block by a changed copy of it, a listener  *)
(* thread accepts TCP clients, each served by a thread of its own, or      *)
(* serves the one RTU line itself.                                         *)
(*                                                                         *)
(* The register block is whether it carries the device's identity and the  *)
(* number of the value update it carries. Sockets are descriptor numbers:  *)
(* accept() takes the lowest free one, so a number closed by one thread    *)
(* may belong to another client by the time it is closed again. A step     *)
(* that goes round a loop includes the look at the stop flag at its top.   *)
(***************************************************************************)
EXTENDS SignalHandler, Integers

CONSTANTS
  Nobody,      \* no client
  Clients,     \* the TCP clients that may connect, once each, or the
               \* listeners on the RTU line
  Fds,         \* descriptor numbers, an interval of the naturals
  MaxUpdates   \* bound: value updates

VARIABLES
  mode,      \* cfg_: "tcp" or "rtu"
  listener,  \* where worker_ stands
  srv,       \* serverSocket_ or the RTU line: "closed", "open" or "shut"
  client,    \* where each client's thread stands; "away" before accept()
  sock,      \* the socket of each client's thread, 0 without one
  conn,      \* kernel: the client each open descriptor is connected to
  regs,      \* regs_
  copy,      \* the copy an update in progress will store, else Blank
  feed,      \* the update in progress: "none", "device" or "values"
  latched,   \* deviceUpdated_
  served     \* the block each client was last answered from

netVars == <<listener, srv, client, sock, conn, served>>
feedVars == <<regs, copy, feed, latched>>
slaveVars == <<mode, netVars, feedVars>>

Blank == [device |-> FALSE, value |-> 0]

SlaveInit ==
  /\ mode \in {"tcp", "rtu"}
  /\ listener = "new"
  /\ srv = "closed"
  /\ client = [c \in Clients |-> "away"]
  /\ sock = [c \in Clients |-> 0]
  /\ conn = [f \in Fds |-> Nobody]
  /\ regs = Blank
  /\ copy = Blank
  /\ feed = "none"
  /\ latched = FALSE
  /\ served = [c \in Clients |-> Blank]

Blocks == [device : BOOLEAN, value : 0..MaxUpdates]

SlaveTypeOK ==
  /\ mode \in {"tcp", "rtu"}
  /\ listener \in {"new", "poll", "receive", "reply", "join", "done"}
  /\ srv \in {"closed", "open", "shut"}
  /\ client \in [Clients -> {"away", "accepted", "receive", "reply",
                             "modbus_close", "close", "ended"}]
  /\ sock \in [Clients -> Fds \union {0}]
  /\ conn \in [Fds -> Clients \union {Nobody}]
  /\ {regs, copy} \subseteq Blocks
  /\ feed \in {"none", "device", "values"}
  /\ latched \in BOOLEAN
  /\ served \in [Clients -> Blocks]

-----------------------------------------------------------------------------
\* The meter's thread, inside the callbacks main installed.

\* updateDevice() and updateValues() snapshot and copy the block ...
updateDevice ==
  /\ running /\ feed = "none" /\ ~latched
  /\ copy' = regs
  /\ feed' = "device"
  /\ UNCHANGED <<handlerVars, mode, netVars, regs, latched>>

\* Fault: the new block starts from an empty mapping, not from the old one.
UpdateFromBlankBug ==
  /\ running /\ feed = "none" /\ regs.value < MaxUpdates
  /\ copy' = [Blank EXCEPT !.value = regs.value]
  /\ feed' = "values"
  /\ UNCHANGED <<handlerVars, mode, netVars, regs, latched>>

updateValues ==
  /\ running /\ feed = "none" /\ regs.value < MaxUpdates
  /\ copy' = regs
  /\ feed' = "values"
  /\ UNCHANGED <<handlerVars, mode, netVars, regs, latched>>

\* ... fill the copy in and store it; a value that cannot be packed does not
\* end the update, even when the error stops the bridge.
storeRegs ==
  /\ feed # "none"
  /\ regs' = IF feed = "device" THEN [copy EXCEPT !.device = TRUE]
             ELSE [copy EXCEPT !.value = @ + 1]
  /\ latched' = (latched \/ feed = "device")
  /\ feed' = "none"
  /\ copy' = Blank
  /\ shutdown(TRUE) \/ UNCHANGED handlerVars
  /\ UNCHANGED <<mode, netVars>>

\* Without memory for a new block nothing is stored and the bridge stops.
updateFails ==
  /\ running /\ feed = "none"
  /\ shutdown(TRUE)
  /\ UNCHANGED <<mode, netVars, feedVars>>

-----------------------------------------------------------------------------
\* The listener thread.

\* The constructor: the listener is open before the thread starts.
startListener ==
  /\ listener' = IF mode = "tcp" THEN "poll" ELSE "receive"
  /\ srv' = "open"
  /\ UNCHANGED <<handlerVars, mode, client, sock, conn, served, feedVars>>

listenerAt(from, to) ==
  /\ listener = from
  /\ listener' = to
  /\ UNCHANGED <<handlerVars, mode, srv, client, sock, conn, served, feedVars>>

\* handleResult() for an error of the listener: it ends, and with a fatal
\* error the bridge too.
listenerFails(from, to) ==
  /\ listener = from
  /\ listener' = to
  /\ shutdown(TRUE) \/ UNCHANGED handlerVars
  /\ UNCHANGED <<mode, srv, client, sock, conn, served, feedVars>>

\* The top of every loop.
whileRunning(again, leave) == IF running THEN again ELSE leave

\* poll() times out after 500 ms, is interrupted, or accept() fails.
pollAgain == listenerAt("poll", whileRunning("poll", "join"))

\* Fault: accept() fails, and its -1 becomes the socket of a client's thread.
AcceptUncheckedBug(c) ==
  /\ listener = "poll" /\ client[c] = "away"
  /\ sock' = [sock EXCEPT ![c] = -1]
  /\ client' = [client EXCEPT ![c] = "accepted"]
  /\ listener' = whileRunning("poll", "join")
  /\ UNCHANGED <<handlerVars, mode, srv, conn, served, feedVars>>

accept(c) ==
  /\ listener = "poll" /\ client[c] = "away"
  /\ \E f \in Fds :
       /\ conn[f] = Nobody
       /\ \A g \in Fds : g < f => conn[g] # Nobody
       /\ sock' = [sock EXCEPT ![c] = f]
       /\ conn' = [conn EXCEPT ![f] = c]
  /\ client' = [client EXCEPT ![c] = "accepted"]
  /\ listener' = whileRunning("poll", "join")
  /\ UNCHANGED <<handlerVars, mode, srv, served, feedVars>>

Ended(c) == client[c] \in {"away", "ended"}

\* Fault: the client threads are left to themselves.
NoJoinBug ==
  /\ listener = "join"
  /\ srv' = "shut"
  /\ listener' = "done"
  /\ UNCHANGED <<handlerVars, mode, client, sock, conn, served, feedVars>>

\* The listening socket is shut down, then every client thread is joined.
joinClients ==
  /\ listener = "join"
  /\ srv' = "shut"
  /\ IF \A c \in Clients : Ended(c) THEN listener' = "done"
     ELSE srv = "open" /\ UNCHANGED listener
  /\ UNCHANGED <<handlerVars, mode, client, sock, conn, served, feedVars>>

tcpClientHandler ==
  pollAgain \/ listenerFails("poll", "join") \/ joinClients

\* Whoever listens on the RTU line hears the answer; a failed one is ignored.
rtuReply ==
  /\ listener = "reply"
  /\ listener' = whileRunning("receive", "done")
  /\ served' = [c \in Clients |-> regs]
  /\ UNCHANGED <<handlerVars, mode, srv, client, sock, conn, feedVars>>

\* The RTU loop answers every request of its line; only EBADF and EIO end it.
rtuClientHandler ==
  \/ listenerAt("receive", whileRunning("receive", "done"))
  \/ listenerAt("receive", "reply")
  \/ listenerFails("receive", "done")
  \/ rtuReply

-----------------------------------------------------------------------------
\* tcpClientWorker().

clientAt(c, from, to) ==
  /\ client[c] = from
  /\ client' = [client EXCEPT ![c] = to]
  /\ UNCHANGED <<handlerVars, mode, listener, srv, sock, conn, served, feedVars>>

\* Closing a number that is not open has no effect.
closeSocket(c, from, to) ==
  /\ client[c] = from
  /\ client' = [client EXCEPT ![c] = to]
  /\ conn' = [conn EXCEPT ![sock[c]] = Nobody]
  /\ sock' = IF to = "ended" THEN [sock EXCEPT ![c] = 0] ELSE sock
  /\ UNCHANGED <<mode, listener, srv, served, feedVars>>

\* Without memory for the context the socket is closed and the bridge stops.
newContext(c) ==
  \/ clientAt(c, "accepted", whileRunning("receive", "modbus_close"))
  \/ closeSocket(c, "accepted", "ended") /\ shutdown(TRUE)

\* modbus_receive() ends with its indication timeout; whoever the descriptor
\* is connected to is heard. On a closed one it fails.
receive(c) ==
  \/ clientAt(c, "receive", "reply") /\ conn[sock[c]] # Nobody
  \/ /\ clientAt(c, "receive", whileRunning("receive", "modbus_close"))
     /\ conn[sock[c]] # Nobody
  \/ clientAt(c, "receive", "modbus_close")

\* The reply is answered from the block loaded now, and may fail.
reply(c) ==
  /\ client[c] = "reply"
  /\ served' = [served EXCEPT ![c] = regs]
  /\ \E next \in {whileRunning("receive", "modbus_close"), "modbus_close"} :
       client' = [client EXCEPT ![c] = next]
  /\ UNCHANGED <<handlerVars, mode, listener, srv, sock, conn, feedVars>>

\* modbus_close() closes the socket, close() the number once more.
hangUp(c) ==
  \/ closeSocket(c, "modbus_close", "close") /\ UNCHANGED handlerVars
  \/ closeSocket(c, "close", "ended") /\ UNCHANGED handlerVars

tcpClientWorker(c) == newContext(c) \/ receive(c) \/ reply(c) \/ hangUp(c)

-----------------------------------------------------------------------------

\* The destructor joins the listener thread and closes the listener.
destroySlave ==
  /\ listener \in {"new", "done"}
  /\ srv' = "closed"
  /\ UNCHANGED <<handlerVars, mode, listener, client, sock, conn, served,
                 feedVars>>

updates == updateDevice \/ updateValues \/ storeRegs \/ updateFails

Listening ==
  \/ mode = "rtu" /\ rtuClientHandler
  \/ mode = "tcp" /\ (tcpClientHandler \/ \E c \in Clients : accept(c))
=============================================================================
