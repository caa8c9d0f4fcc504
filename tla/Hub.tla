-------------------------------- MODULE Hub --------------------------------
(***************************************************************************)
(* pkg/websocket: the goroutine of Hub.Run, the two pumps of every client  *)
(* and the callers of SendToUser, SendToUserFrom and Broadcast.            *)
(*                                                                         *)
(* The four channels of the hub are unbuffered: a send is one step with    *)
(* the receive in the select of Run.  A client's send channel is a buffer  *)
(* of BufSize messages.                                                    *)
(***************************************************************************)
EXTENDS Integers, Sequences

CONSTANTS Clients, Users, UserOf, NoUser, \* NoUser: client.userID = 0
          BufSize,                        \* bufSize
          MaxMsgs                         \* bound on messages sent

ASSUME ClientsAssumption == /\ UserOf \in [Clients -> Users \cup {NoUser}]
                            /\ NoUser \notin Users
ASSUME SizesAssumption   == BufSize \in Nat \ {0} /\ MaxMsgs \in Nat

VARIABLES
  clients, userClients,  \* the maps of the hub
  blocked,               \* Run is stopped at h.unregister <- client
  todo, message,         \* the clients the loop of a delivery has still to
                         \* serve, and the message
  send, closed,          \* per client: its channel, and whether it is closed
  conn, gone,            \* the connection is open; the peer has left
  serve, rd, wr,         \* places of ServeWs, readPump and writePump
  reading, batch,        \* what readPump has read, what writePump has taken
  msgs, owed             \* history: messages sent; messages the hub set out
                         \* to send to a client whose write pump runs and
                         \* that are not yet on its connection

hubVars  == <<clients, userClients, blocked, todo, message>>
chanVars == <<send, closed, conn, gone>>
pumpVars == <<serve, rd, wr, reading, batch>>
vars     == <<hubVars, chanVars, pumpVars, msgs, owed>>

Messages == 1..MaxMsgs

\* Run is in its select.
Selecting == ~blocked /\ todo = {}

Init ==
  /\ clients = {} /\ userClients = [u \in Users |-> {}]
  /\ blocked = FALSE /\ todo = {} /\ message = 0
  /\ send = [c \in Clients |-> << >>] /\ closed = [c \in Clients |-> FALSE]
  /\ conn = [c \in Clients |-> TRUE] /\ gone = [c \in Clients |-> FALSE]
  /\ serve = [c \in Clients |-> "new"]
  /\ rd = [c \in Clients |-> "off"] /\ wr = [c \in Clients |-> "off"]
  /\ reading = [c \in Clients |-> 0] /\ batch = [c \in Clients |-> << >>]
  /\ msgs = 0
  /\ owed = [c \in Clients |-> << >>]

-----------------------------------------------------------------------------
\* ServeWs, ServeWsWithAuth: upgrade, then register <- client.
ServeWs(c) ==
  /\ serve[c] = "new"
  /\ serve' = [serve EXCEPT ![c] = "register"]
  /\ UNCHANGED <<hubVars, chanVars, rd, wr, reading, batch, msgs, owed>>

\* registerClient; ServeWs goes on to start the pumps.
RegisterClient(c) ==
  /\ Selecting /\ serve[c] = "register"
  /\ clients' = clients \cup {c}
  /\ userClients' = [u \in Users |-> IF UserOf[c] = u
                                       THEN userClients[u] \cup {c}
                                       ELSE userClients[u]]
  /\ serve' = [serve EXCEPT ![c] = "served"]
  /\ rd' = [rd EXCEPT ![c] = "read"] /\ wr' = [wr EXCEPT ![c] = "select"]
  /\ UNCHANGED <<blocked, todo, message, chanVars, reading, batch, msgs, owed>>

PeerLeaves(c) ==
  /\ ~gone[c] /\ serve[c] = "served"
  /\ gone' = [gone EXCEPT ![c] = TRUE]
  /\ UNCHANGED <<hubVars, send, closed, conn, pumpVars, msgs, owed>>

-----------------------------------------------------------------------------
\* broadcastMessage and sendDirectMessage: the clients are collected, the
\* delivery loop starts.
Deliver(m, to) ==
  /\ todo' = to /\ message' = m
  /\ owed' = [c \in Clients |-> IF c \in to /\ wr[c] # "done"
                                   THEN Append(owed[c], m) ELSE owed[c]]
  /\ UNCHANGED <<clients, userClients, blocked>>

\* readPump has read a message and stands at hub.broadcast <- message.
ReadMessage(c) ==
  /\ rd[c] = "read" /\ conn[c] /\ ~gone[c] /\ msgs < MaxMsgs
  /\ msgs' = msgs + 1
  /\ reading' = [reading EXCEPT ![c] = msgs + 1]
  /\ rd' = [rd EXCEPT ![c] = "broadcast"]
  /\ UNCHANGED <<hubVars, chanVars, serve, wr, batch, owed>>

PumpBroadcast(c) ==
  /\ Selecting /\ rd[c] = "broadcast"
  /\ Deliver(reading[c], clients)
  /\ rd' = [rd EXCEPT ![c] = "read"]
  /\ reading' = [reading EXCEPT ![c] = 0]
  /\ UNCHANGED <<chanVars, serve, wr, batch, msgs>>

\* Broadcast, SendToUser and SendToUserFrom drop the message unless Run is
\* waiting in its select: it may be there and about to serve another case.
Broadcast ==
  /\ msgs < MaxMsgs
  /\ msgs' = msgs + 1
  /\ \/ Selecting /\ Deliver(msgs + 1, clients)
     \/ UNCHANGED <<hubVars, owed>>
  /\ UNCHANGED <<chanVars, pumpVars>>

SendToUser(u) ==
  /\ msgs < MaxMsgs
  /\ msgs' = msgs + 1
  /\ \/ Selecting /\ Deliver(msgs + 1, userClients[u])
     \/ UNCHANGED <<hubVars, owed>>
  /\ UNCHANGED <<chanVars, pumpVars>>

\* One turn of the delivery loop: the message goes into the channel, or the
\* channel is full and Run sends to the channel only Run receives from.
SendTo(c) ==
  /\ ~blocked /\ c \in todo
  /\ IF Len(send[c]) < BufSize
       THEN /\ send' = [send EXCEPT ![c] = Append(@, message)]
            /\ todo' = todo \ {c}
            /\ UNCHANGED blocked
       ELSE /\ blocked' = TRUE
            /\ UNCHANGED <<send, todo>>
  /\ UNCHANGED <<clients, userClients, message, closed, conn, gone, pumpVars,
                 msgs, owed>>

-----------------------------------------------------------------------------
\* Mutant: readPump returns without its deferred unregister.
ReadFailsSilently(c) ==
  /\ rd[c] = "read" /\ (gone[c] \/ ~conn[c])
  /\ rd' = [rd EXCEPT ![c] = "close"]
  /\ UNCHANGED <<hubVars, chanVars, serve, wr, reading, batch, msgs, owed>>

\* Mutant: readPump closes the channel of its client itself.
ReadFailsClosing(c) ==
  /\ rd[c] = "read" /\ (gone[c] \/ ~conn[c])
  /\ closed' = [closed EXCEPT ![c] = TRUE]
  /\ rd' = [rd EXCEPT ![c] = "unregister"]
  /\ UNCHANGED <<hubVars, send, conn, gone, serve, wr, reading, batch, msgs, owed>>

\* ReadMessage fails: the deferred function stands at hub.unregister <- c.
ReadFails(c) ==
  /\ rd[c] = "read" /\ (gone[c] \/ ~conn[c])
  /\ rd' = [rd EXCEPT ![c] = "unregister"]
  /\ UNCHANGED <<hubVars, chanVars, serve, wr, reading, batch, msgs, owed>>

\* unregisterClient.
UnregisterClient(c) ==
  /\ Selecting /\ rd[c] = "unregister"
  /\ IF c \in clients
       THEN /\ clients' = clients \ {c}
            /\ closed' = [closed EXCEPT ![c] = TRUE]
            /\ userClients' = [u \in Users |-> IF UserOf[c] = u
                                                 THEN userClients[u] \ {c}
                                                 ELSE userClients[u]]
       ELSE UNCHANGED <<clients, closed, userClients>>
  /\ rd' = [rd EXCEPT ![c] = "close"]
  /\ UNCHANGED <<blocked, todo, message, send, conn, gone, serve, wr, reading,
                 batch, msgs, owed>>

ReadPumpCloses(c) ==
  /\ rd[c] = "close"
  /\ conn' = [conn EXCEPT ![c] = FALSE] /\ rd' = [rd EXCEPT ![c] = "done"]
  /\ UNCHANGED <<hubVars, send, closed, gone, serve, wr, reading, batch, msgs,
                 owed>>

-----------------------------------------------------------------------------
\* writePump receives a message from c.send.
TakeMessage(c) ==
  /\ wr[c] = "select" /\ send[c] # << >>
  /\ batch' = [batch EXCEPT ![c] = <<Head(send[c])>>]
  /\ send' = [send EXCEPT ![c] = Tail(@)]
  /\ wr' = [wr EXCEPT ![c] = "write"]
  /\ UNCHANGED <<hubVars, closed, conn, gone, serve, rd, reading, msgs, owed>>

\* Mutant: the queued messages replace the first one.
WriteQueuedOnly(c) ==
  /\ wr[c] = "write"
  /\ batch' = [batch EXCEPT ![c] = IF send[c] = << >> THEN @ ELSE send[c]]
  /\ send' = [send EXCEPT ![c] = << >>]
  /\ wr' = [wr EXCEPT ![c] = "flush"]
  /\ UNCHANGED <<hubVars, closed, conn, gone, serve, rd, reading, msgs, owed>>

\* NextWriter, and the queued messages added to the frame.
WriteQueued(c) ==
  /\ wr[c] = "write"
  /\ batch' = [batch EXCEPT ![c] = @ \o send[c]]
  /\ send' = [send EXCEPT ![c] = << >>]
  /\ wr' = [wr EXCEPT ![c] = "flush"]
  /\ UNCHANGED <<hubVars, closed, conn, gone, serve, rd, reading, msgs, owed>>

\* w.Close sends the frame.
CloseWriter(c) ==
  /\ wr[c] = "flush" /\ conn[c]
  /\ owed' = [owed EXCEPT ![c] = SubSeq(@, Len(batch[c]) + 1, Len(@))]
  /\ batch' = [batch EXCEPT ![c] = << >>]
  /\ wr' = [wr EXCEPT ![c] = "select"]
  /\ UNCHANGED <<hubVars, chanVars, serve, rd, reading, msgs>>

\* NextWriter, w.Close or the ping fails, for an error or a write deadline,
\* or the hub closed the channel: writePump returns and closes the connection.
WritePumpReturns(c) ==
  /\ \/ wr[c] \in {"write", "flush"}
     \/ wr[c] = "select" /\ (gone[c] \/ ~conn[c])
     \/ wr[c] = "select" /\ closed[c] /\ send[c] = << >>
  /\ wr' = [wr EXCEPT ![c] = "done"]
  /\ conn' = [conn EXCEPT ![c] = FALSE]
  /\ batch' = [batch EXCEPT ![c] = << >>]
  /\ owed' = [owed EXCEPT ![c] = << >>]
  /\ UNCHANGED <<hubVars, send, closed, gone, serve, rd, reading, msgs>>

-----------------------------------------------------------------------------
Next ==
  \/ Broadcast
  \/ \E u \in Users : SendToUser(u)
  \/ \E c \in Clients :
       \/ ServeWs(c) \/ RegisterClient(c) \/ PeerLeaves(c)
       \/ ReadMessage(c) \/ PumpBroadcast(c) \/ SendTo(c)
       \/ ReadFails(c) \/ UnregisterClient(c) \/ ReadPumpCloses(c)
       \/ TakeMessage(c) \/ WriteQueued(c) \/ CloseWriter(c)
       \/ WritePumpReturns(c)

Spec == Init /\ [][Next]_vars

\* The channel operations of a client's goroutines with Run, and the steps of
\* its two pumps that need no message from the peer.
HubStep(c)   == RegisterClient(c) \/ PumpBroadcast(c) \/ UnregisterClient(c)
ReadPump(c)  == ReadFails(c) \/ ReadPumpCloses(c)
WritePump(c) == TakeMessage(c) \/ WriteQueued(c) \/ CloseWriter(c) \/ WritePumpReturns(c)

\* Goroutines that can run do run.  The select of Run chooses at random among
\* the ready cases, so that none is passed over for ever.
FairSpec ==
  /\ Spec
  /\ WF_vars(\E c \in Clients : SendTo(c))
  /\ \A c \in Clients :
       SF_vars(HubStep(c)) /\ WF_vars(ReadPump(c)) /\ WF_vars(WritePump(c))

-----------------------------------------------------------------------------
\* The maps of Run, the channels and the pumps of every client keep their types,
\* and no channel outgrows bufSize.
TypeOK ==
  /\ clients \subseteq Clients /\ userClients \in [Users -> SUBSET Clients]
  /\ blocked \in BOOLEAN /\ todo \subseteq Clients
  /\ message \in Messages \cup {0}
  /\ send \in [Clients -> Seq(Messages)]
  /\ \A c \in Clients : Len(send[c]) <= BufSize
  /\ closed \in [Clients -> BOOLEAN]
  /\ conn \in [Clients -> BOOLEAN] /\ gone \in [Clients -> BOOLEAN]
  /\ serve \in [Clients -> {"new", "register", "served"}]
  /\ rd \in [Clients -> {"off", "read", "broadcast", "unregister", "close",
                         "done"}]
  /\ wr \in [Clients -> {"off", "select", "write", "flush", "done"}]
  /\ reading \in [Clients -> Messages \cup {0}]
  /\ batch \in [Clients -> Seq(Messages)]
  /\ msgs \in 0..MaxMsgs
  /\ owed \in [Clients -> Seq(Messages)]

\* The map of users holds exactly the registered clients of each user, so a
\* direct message goes to all of them and to no client that has left
\* (registerClient, unregisterClient).
MapsAgree ==
  \A u \in Users : userClients[u] = {c \in clients : UserOf[c] = u}

\* Run never sends on a closed channel and never closes one twice, either of
\* which panics: the clients it is delivering to, and all registered ones, have
\* an open channel (unregisterClient, broadcastMessage, sendDirectMessage).
NoClosedSend ==
  /\ todo \subseteq clients
  /\ \A c \in clients : ~closed[c]

\* As long as its write pump runs, a client loses, repeats and reorders nothing
\* of what the hub set out to send it: what is in the frame and in the channel
\* is all that is still owed, up to the message in delivery (writePump).
InOrder ==
  \A c \in Clients : wr[c] # "done" =>
    batch[c] \o send[c] =
      IF c \in todo THEN SubSeq(owed[c], 1, Len(owed[c]) - 1) ELSE owed[c]

\* A client whose peer has left is unregistered and its goroutines end, unless
\* Run has stopped (readPump, writePump).
GoneClientLeaves ==
  \A c \in Clients :
    gone[c] ~> blocked \/ (c \notin clients /\ rd[c] = "done" /\ wr[c] = "done")

=============================================================================
