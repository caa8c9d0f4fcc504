--------------------------- MODULE ChannelProofs ----------------------------
(***************************************************************************)
(* The parts that live by Go channels, one section each: the hub, whose    *)
(* Run uses no closed channel and loses, repeats or reorders no message of *)
(* a live connection; the automatic rebalancing, whose stop channel        *)
(* reaches every loop; and the registry, whose event channel keeps the     *)
(* mirror of the client manager right.  The theorems hold for any number   *)
(* of clients, users, messages, starts and stores and any capacity of the  *)
(* channels.                                                               *)
(***************************************************************************)
EXTENDS Hub, AutoRebalance, Registry, TLAPS

\* What is on its way to Run, or being delivered by it, is a message.
CarriedInv ==
  /\ \A c \in Clients : rd[c] = "broadcast" => reading[c] \in Messages
  /\ todo # {} => message \in Messages

\* A client that is registered, or whose channel is closed, has been served:
\* nobody registers twice, so a closed channel never comes back.
ServedInv ==
  \A c \in Clients : c \in clients \/ closed[c] => serve[c] = "served"

MapsInv == MapsAgree /\ NoClosedSend /\ ServedInv

\* The frame under construction, the channel and the message in delivery are,
\* in this order, what is owed to a client whose write pump runs.
InDelivery(c) == IF c \in todo THEN <<message>> ELSE << >>

Queue(c) ==
  /\ wr[c] \in {"off", "select"} => batch[c] = << >>
  /\ serve[c] # "served" => wr[c] = "off"
  /\ wr[c] # "done" => owed[c] = (batch[c] \o send[c]) \o InDelivery(c)

QueueInv == \A c \in Clients : Queue(c)

-----------------------------------------------------------------------------
(***************************************************************************)
(* Facts about sequences.                                                  *)
(***************************************************************************)

LEMMA SeqLength ==
  ASSUME NEW S, NEW s \in Seq(S)
  PROVE  Len(s) \in Nat /\ DOMAIN s = 1..Len(s)
OBVIOUS

LEMMA SeqElement ==
  ASSUME NEW S, NEW s \in Seq(S), NEW i \in 1..Len(s)
  PROVE  s[i] \in S
OBVIOUS

LEMMA SeqAppend ==
  ASSUME NEW S, NEW s \in Seq(S), NEW e \in S
  PROVE  Append(s, e) \in Seq(S) /\ Len(Append(s, e)) = Len(s) + 1
OBVIOUS

LEMMA SeqConcat ==
  ASSUME NEW S, NEW s \in Seq(S), NEW t \in Seq(S)
  PROVE  s \o t \in Seq(S) /\ Len(s \o t) = Len(s) + Len(t)
OBVIOUS

LEMMA SeqConcatEmpty ==
  ASSUME NEW S, NEW s \in Seq(S)
  PROVE  s \o << >> = s /\ << >> \o s = s
OBVIOUS

LEMMA SeqAssociative ==
  ASSUME NEW S, NEW s \in Seq(S), NEW t \in Seq(S), NEW u \in Seq(S)
  PROVE  (s \o t) \o u = s \o (t \o u)
OBVIOUS

LEMMA SeqHeadTail ==
  ASSUME NEW S, NEW s \in Seq(S), s # << >>
  PROVE  /\ Head(s) \in S /\ Tail(s) \in Seq(S) /\ Len(Tail(s)) = Len(s) - 1
         /\ <<Head(s)>> \o Tail(s) = s
OBVIOUS

LEMMA SeqPart ==
  ASSUME NEW S, NEW s \in Seq(S), NEW m \in 1..Len(s) + 1, NEW n \in m - 1 .. Len(s)
  PROVE  SubSeq(s, m, n) \in Seq(S) /\ Len(SubSeq(s, m, n)) = n - m + 1
OBVIOUS

\* A frame with the rest of the channel behind it: the flushed part goes, the
\* rest stays (CloseWriter).
LEMMA DropFront ==
  ASSUME NEW S, NEW b \in Seq(S), NEW s \in Seq(S)
  PROVE  SubSeq(b \o s, Len(b) + 1, Len(b \o s)) = s
OBVIOUS

\* Without the last message, the rest (InOrder).
LEMMA DropLast ==
  ASSUME NEW S, NEW s \in Seq(S), NEW m \in S
  PROVE  SubSeq(s \o <<m>>, 1, Len(s \o <<m>>) - 1) = s
OBVIOUS

\* Append and concatenation, as SendTo and Deliver use them.
LEMMA AppendConcat ==
  ASSUME NEW S, NEW b \in Seq(S), NEW s \in Seq(S), NEW m \in S
  PROVE  /\ Append(b \o s, m) = (b \o s) \o <<m>>
         /\ b \o Append(s, m) = (b \o s) \o <<m>>
OBVIOUS

-----------------------------------------------------------------------------
(***************************************************************************)
(* Types.                                                                  *)
(***************************************************************************)
LEMMA InitType == Init => TypeOK /\ CarriedInv
<1> SUFFICES ASSUME Init PROVE TypeOK /\ CarriedInv
  OBVIOUS
<1>1. /\ blocked \in BOOLEAN /\ closed \in [Clients -> BOOLEAN]
      /\ conn \in [Clients -> BOOLEAN] /\ gone \in [Clients -> BOOLEAN]
  BY Zenon DEF Init
<1>2. << >> \in Seq(Messages) /\ Len(<< >>) <= BufSize
  BY SizesAssumption
<1>3. /\ send \in [Clients -> Seq(Messages)] /\ batch \in [Clients -> Seq(Messages)]
      /\ owed \in [Clients -> Seq(Messages)]
      /\ \A c \in Clients : Len(send[c]) <= BufSize
  BY <1>2 DEF Init
<1>4. /\ clients \subseteq Clients /\ userClients \in [Users -> SUBSET Clients]
      /\ todo \subseteq Clients /\ message \in Messages \cup {0} /\ msgs \in 0..MaxMsgs
      /\ reading \in [Clients -> Messages \cup {0}]
  BY SizesAssumption DEF Init
<1>5. /\ serve \in [Clients -> {"new", "register", "served"}]
      /\ rd \in [Clients -> {"off", "read", "broadcast", "unregister", "close", "done"}]
      /\ wr \in [Clients -> {"off", "select", "write", "flush", "done"}]
  BY DEF Init
<1>6. CarriedInv
  BY DEF Init, CarriedInv
<1> QED BY <1>1, <1>3, <1>4, <1>5, <1>6 DEF TypeOK

\* Deliver starts the loop with a message for clients the hub knows.
LEMMA DeliverType ==
  ASSUME TypeOK, NEW m \in Messages, NEW to \in SUBSET Clients, Deliver(m, to)
  PROVE  /\ todo' \subseteq Clients /\ message' \in Messages
         /\ owed' \in [Clients -> Seq(Messages)]
         /\ clients' = clients /\ userClients' = userClients /\ blocked' = blocked
<1>1. \A c \in Clients : owed[c] \in Seq(Messages) /\ Append(owed[c], m) \in Seq(Messages)
  <2>1. \A c \in Clients : owed[c] \in Seq(Messages)
    BY DEF TypeOK
  <2> QED BY <2>1, SeqAppend
<1>2. owed' \in [Clients -> Seq(Messages)]
  <2>1. owed' = [c \in Clients |-> IF c \in to /\ wr[c] # "done"
                                     THEN Append(owed[c], m) ELSE owed[c]]
    BY DEF Deliver
  <2> QED BY <1>1, <2>1
<1>3. /\ todo' \subseteq Clients /\ message' \in Messages
      /\ clients' = clients /\ userClients' = userClients /\ blocked' = blocked
  BY Zenon DEF Deliver
<1> QED BY <1>2, <1>3

LEMMA NextType == TypeOK /\ CarriedInv /\ [Next]_vars => TypeOK' /\ CarriedInv'
<1> SUFFICES ASSUME TypeOK, CarriedInv, [Next]_vars PROVE TypeOK' /\ CarriedInv'
  OBVIOUS
<1> USE SizesAssumption
<1>0. TRUE \in BOOLEAN /\ FALSE \in BOOLEAN
  BY Zenon
<1>1. CASE Broadcast
  <2>1. msgs' \in 0..MaxMsgs /\ msgs + 1 \in Messages /\ UNCHANGED <<chanVars, pumpVars>>
    BY <1>1 DEF Broadcast, TypeOK, Messages
  <2>2. CASE Deliver(msgs + 1, clients)
    BY <2>1, <2>2, DeliverType DEF TypeOK, CarriedInv, chanVars, pumpVars
  <2>3. CASE UNCHANGED <<hubVars, owed>>
    BY <2>1, <2>3 DEF TypeOK, CarriedInv, hubVars, chanVars, pumpVars
  <2> QED BY <1>1, <2>2, <2>3 DEF Broadcast
<1>2. ASSUME NEW u \in Users, SendToUser(u) PROVE TypeOK' /\ CarriedInv'
  <2>1. msgs' \in 0..MaxMsgs /\ msgs + 1 \in Messages /\ UNCHANGED <<chanVars, pumpVars>>
    BY <1>2 DEF SendToUser, TypeOK, Messages
  <2>2. CASE Deliver(msgs + 1, userClients[u])
    <3>1. userClients[u] \in SUBSET Clients
      BY DEF TypeOK
    <3> QED BY <2>1, <2>2, <3>1, DeliverType DEF TypeOK, CarriedInv, chanVars, pumpVars
  <2>3. CASE UNCHANGED <<hubVars, owed>>
    BY <2>1, <2>3 DEF TypeOK, CarriedInv, hubVars, chanVars, pumpVars
  <2> QED BY <1>2, <2>2, <2>3 DEF SendToUser
<1>3. ASSUME NEW c \in Clients, ServeWs(c) PROVE TypeOK' /\ CarriedInv'
  BY <1>3 DEF ServeWs, TypeOK, CarriedInv, hubVars, chanVars
<1>4. ASSUME NEW c \in Clients, RegisterClient(c) PROVE TypeOK' /\ CarriedInv'
  BY <1>4 DEF RegisterClient, TypeOK, CarriedInv, chanVars
<1>5. ASSUME NEW c \in Clients, PeerLeaves(c) PROVE TypeOK' /\ CarriedInv'
  <2>1. gone' \in [Clients -> BOOLEAN]
    BY <1>0, <1>5 DEF PeerLeaves, TypeOK
  <2> QED BY <1>5, <2>1 DEF PeerLeaves, TypeOK, CarriedInv, hubVars, pumpVars
<1>6. ASSUME NEW c \in Clients, ReadMessage(c) PROVE TypeOK' /\ CarriedInv'
  <2>1. msgs' \in 0..MaxMsgs /\ msgs + 1 \in Messages
    BY <1>6 DEF ReadMessage, TypeOK, Messages
  <2> QED BY <1>6, <2>1 DEF ReadMessage, TypeOK, CarriedInv, hubVars, chanVars
<1>7. ASSUME NEW c \in Clients, PumpBroadcast(c) PROVE TypeOK' /\ CarriedInv'
  <2>1. reading[c] \in Messages
    BY <1>7 DEF PumpBroadcast, CarriedInv
  <2>2. /\ todo' \subseteq Clients /\ message' \in Messages
        /\ owed' \in [Clients -> Seq(Messages)]
        /\ clients' = clients /\ userClients' = userClients /\ blocked' = blocked
    BY <1>7, <2>1, DeliverType DEF PumpBroadcast, TypeOK
  <2> QED BY Zenon, <1>7, <2>2 DEF PumpBroadcast, TypeOK, CarriedInv, chanVars
<1>8. ASSUME NEW c \in Clients, SendTo(c) PROVE TypeOK' /\ CarriedInv'
  <2>1. CASE Len(send[c]) < BufSize
    <3>1. /\ send' = [send EXCEPT ![c] = Append(send[c], message)]
          /\ todo' = todo \ {c} /\ blocked' = blocked /\ message \in Messages
      BY <1>8, <2>1 DEF SendTo, CarriedInv
    <3>2. /\ Append(send[c], message) \in Seq(Messages)
          /\ Len(Append(send[c], message)) = Len(send[c]) + 1
          /\ Len(send[c]) \in Nat
      BY <3>1 DEF TypeOK
    <3>3. /\ send' \in [Clients -> Seq(Messages)]
          /\ \A d \in Clients : Len(send'[d]) <= BufSize
      BY <2>1, <3>1, <3>2 DEF TypeOK
    <3>4. /\ todo' \subseteq Clients /\ UNCHANGED <<pumpVars, closed, conn, gone, msgs, owed>>
          /\ UNCHANGED <<clients, userClients, blocked, message>>
      BY <1>8, <3>1 DEF SendTo, TypeOK
    <3>5. CarriedInv'
      BY <3>1, <3>4 DEF CarriedInv, pumpVars
    <3> QED BY <3>3, <3>4, <3>5 DEF TypeOK, pumpVars
  <2>2. CASE ~(Len(send[c]) < BufSize)
    <3>1. blocked' \in BOOLEAN /\ UNCHANGED <<send, todo>>
      BY <1>0, <1>8, <2>2 DEF SendTo
    <3> QED BY <1>8, <3>1 DEF SendTo, TypeOK, CarriedInv, pumpVars
  <2> QED BY <2>1, <2>2
<1>9. ASSUME NEW c \in Clients, ReadFails(c) PROVE TypeOK' /\ CarriedInv'
  BY <1>9 DEF ReadFails, TypeOK, CarriedInv, hubVars, chanVars
<1>10. ASSUME NEW c \in Clients, UnregisterClient(c) PROVE TypeOK' /\ CarriedInv'
  <2>1. closed' \in [Clients -> BOOLEAN]
    <3>1. closed' = closed \/ closed' = [closed EXCEPT ![c] = TRUE]
      BY <1>10, Zenon DEF UnregisterClient
    <3> QED BY Zenon, <1>0, <3>1 DEF TypeOK
  <2>2. clients' \subseteq Clients /\ userClients' \in [Users -> SUBSET Clients]
    <3>1. CASE c \in clients
      <4>1. /\ clients' = clients \ {c}
            /\ userClients' = [u \in Users |-> IF UserOf[c] = u THEN userClients[u] \ {c}
                                                             ELSE userClients[u]]
        BY <1>10, <3>1, Zenon DEF UnregisterClient
      <4> QED BY <4>1 DEF TypeOK
    <3>2. CASE c \notin clients
      BY <1>10, <3>2 DEF UnregisterClient, TypeOK
    <3> QED BY <3>1, <3>2
  <2> QED BY Zenon, <1>10, <2>1, <2>2 DEF UnregisterClient, TypeOK, CarriedInv
<1>11. ASSUME NEW c \in Clients, ReadPumpCloses(c) PROVE TypeOK' /\ CarriedInv'
  <2>1. conn' \in [Clients -> BOOLEAN]
    BY <1>0, <1>11 DEF ReadPumpCloses, TypeOK
  <2> QED BY <1>11, <2>1 DEF ReadPumpCloses, TypeOK, CarriedInv, hubVars
<1>12. ASSUME NEW c \in Clients, TakeMessage(c) PROVE TypeOK' /\ CarriedInv'
  <2>1. /\ <<Head(send[c])>> \in Seq(Messages) /\ Tail(send[c]) \in Seq(Messages)
        /\ Len(Tail(send[c])) <= BufSize
    BY <1>12, SeqHeadTail, SeqLength DEF TakeMessage, TypeOK
  <2>2. /\ send' \in [Clients -> Seq(Messages)] /\ batch' \in [Clients -> Seq(Messages)]
        /\ \A d \in Clients : Len(send'[d]) <= BufSize
    BY <1>12, <2>1 DEF TakeMessage, TypeOK
  <2> QED BY <1>12, <2>2 DEF TakeMessage, TypeOK, CarriedInv, hubVars
<1>13. ASSUME NEW c \in Clients, WriteQueued(c) PROVE TypeOK' /\ CarriedInv'
  <2>1. /\ batch[c] \o send[c] \in Seq(Messages) /\ << >> \in Seq(Messages)
        /\ Len(<< >>) <= BufSize
    BY SeqConcat, SMTT(40) DEF TypeOK
  <2>2. /\ send' \in [Clients -> Seq(Messages)] /\ batch' \in [Clients -> Seq(Messages)]
        /\ \A d \in Clients : Len(send'[d]) <= BufSize
    BY <1>13, <2>1 DEF WriteQueued, TypeOK
  <2> QED BY <1>13, <2>2 DEF WriteQueued, TypeOK, CarriedInv, hubVars
<1>14. ASSUME NEW c \in Clients, CloseWriter(c) PROVE TypeOK' /\ CarriedInv'
  <2>1. SubSeq(owed[c], Len(batch[c]) + 1, Len(owed[c])) \in Seq(Messages)
    <3>1. /\ owed[c] \in Seq(Messages) /\ Len(owed[c]) \in Nat /\ Len(batch[c]) \in Nat
      BY SeqLength DEF TypeOK
    <3>2. \A i \in Len(batch[c]) + 1 .. Len(owed[c]) : owed[c][i] \in Messages
      BY <3>1, SeqElement
    <3> QED BY <3>1, <3>2, SeqPart
  <2>2. << >> \in Seq(Messages)
    OBVIOUS
  <2>3. owed' \in [Clients -> Seq(Messages)] /\ batch' \in [Clients -> Seq(Messages)]
    BY <1>14, <2>1, <2>2 DEF CloseWriter, TypeOK
  <2> QED BY <1>14, <2>3 DEF CloseWriter, TypeOK, CarriedInv, hubVars, chanVars
<1>15. ASSUME NEW c \in Clients, WritePumpReturns(c) PROVE TypeOK' /\ CarriedInv'
  <2>1. conn' \in [Clients -> BOOLEAN]
    BY <1>0, <1>15 DEF WritePumpReturns, TypeOK
  <2>2. owed' \in [Clients -> Seq(Messages)] /\ batch' \in [Clients -> Seq(Messages)]
    BY <1>15 DEF WritePumpReturns, TypeOK
  <2> QED BY <1>15, <2>1, <2>2 DEF WritePumpReturns, TypeOK, CarriedInv, hubVars
<1>16. CASE UNCHANGED vars
  BY <1>16 DEF vars, hubVars, chanVars, pumpVars, TypeOK, CarriedInv
<1> QED BY <1>1, <1>2, <1>3, <1>4, <1>5, <1>6, <1>7, <1>8, <1>9, <1>10, <1>11, <1>12,
           <1>13, <1>14, <1>15, <1>16 DEF Next

-----------------------------------------------------------------------------
(***************************************************************************)
(* The maps of Run and the channels.                                       *)
(***************************************************************************)
LEMMA InitMaps == Init => MapsInv
BY DEF Init, MapsInv, MapsAgree, NoClosedSend, ServedInv

\* Only registerClient, unregisterClient and the delivery loop touch what
\* MapsInv is about; the loop starts from clients of the map.
LEMMA NextMaps == TypeOK /\ MapsInv /\ [Next]_vars => MapsInv'
<1> SUFFICES ASSUME TypeOK, MapsInv, [Next]_vars PROVE MapsInv'
  OBVIOUS
<1>0. ASSUME NEW m, NEW to, to \subseteq clients, Deliver(m, to),
             UNCHANGED <<closed, serve>>
      PROVE  MapsInv'
  BY <1>0 DEF Deliver, MapsInv, MapsAgree, NoClosedSend, ServedInv
<1>00. ASSUME UNCHANGED <<clients, userClients, closed>>, todo' \subseteq todo,
              \A c \in Clients : serve[c] = "served" => serve'[c] = "served"
       PROVE  MapsInv'
  BY <1>00 DEF MapsInv, MapsAgree, NoClosedSend, ServedInv
<1>1. CASE Broadcast
  BY <1>0, <1>00, <1>1 DEF Broadcast, hubVars, chanVars, pumpVars
<1>2. ASSUME NEW u \in Users, SendToUser(u) PROVE MapsInv'
  <2>1. userClients[u] \subseteq clients
    BY DEF MapsInv, MapsAgree
  <2> QED BY <1>0, <1>00, <1>2, <2>1 DEF SendToUser, hubVars, chanVars, pumpVars
<1>3. ASSUME NEW c \in Clients, ServeWs(c) PROVE MapsInv'
  BY <1>00, <1>3 DEF ServeWs, TypeOK, hubVars, chanVars
<1>4. ASSUME NEW c \in Clients, RegisterClient(c) PROVE MapsInv'
  <2>1. ~closed[c] /\ todo = {}
    BY <1>4 DEF RegisterClient, Selecting, MapsInv, ServedInv
  <2>2. MapsAgree'
    BY <1>4 DEF RegisterClient, MapsInv, MapsAgree
  <2>3. NoClosedSend'
    BY <1>4, <2>1 DEF RegisterClient, MapsInv, NoClosedSend, chanVars
  <2>4. ServedInv'
    BY <1>4 DEF RegisterClient, MapsInv, ServedInv, TypeOK, chanVars
  <2> QED BY <2>2, <2>3, <2>4 DEF MapsInv
<1>5. ASSUME NEW c \in Clients, PeerLeaves(c) PROVE MapsInv'
  BY <1>00, <1>5 DEF PeerLeaves, hubVars, pumpVars
<1>6. ASSUME NEW c \in Clients, ReadMessage(c) PROVE MapsInv'
  BY <1>00, <1>6 DEF ReadMessage, hubVars, chanVars
<1>7. ASSUME NEW c \in Clients, PumpBroadcast(c) PROVE MapsInv'
  BY <1>0, <1>7 DEF PumpBroadcast, chanVars
<1>8. ASSUME NEW c \in Clients, SendTo(c) PROVE MapsInv'
  BY <1>00, <1>8 DEF SendTo, pumpVars
<1>9. ASSUME NEW c \in Clients, ReadFails(c) PROVE MapsInv'
  BY <1>00, <1>9 DEF ReadFails, hubVars, chanVars
<1>10. ASSUME NEW c \in Clients, UnregisterClient(c) PROVE MapsInv'
  <2>1. CASE c \in clients
    <3>1. /\ clients' = clients \ {c} /\ todo' = {} /\ serve' = serve
          /\ closed' = [closed EXCEPT ![c] = TRUE]
          /\ userClients' = [u \in Users |-> IF UserOf[c] = u THEN userClients[u] \ {c}
                                                           ELSE userClients[u]]
      BY <1>10, <2>1, Zenon DEF UnregisterClient, Selecting
    <3>2. MapsAgree'
      BY <3>1 DEF MapsInv, MapsAgree
    <3>3. NoClosedSend'
      BY <3>1 DEF MapsInv, NoClosedSend, TypeOK
    <3>4. ServedInv'
      BY <2>1, <3>1 DEF MapsInv, ServedInv, TypeOK
    <3> QED BY <3>2, <3>3, <3>4 DEF MapsInv
  <2>2. CASE c \notin clients
    BY <1>00, <1>10, <2>2 DEF UnregisterClient
  <2> QED BY <2>1, <2>2
<1>11. ASSUME NEW c \in Clients, ReadPumpCloses(c) PROVE MapsInv'
  BY <1>00, <1>11 DEF ReadPumpCloses, hubVars
<1>12. ASSUME NEW c \in Clients, TakeMessage(c) PROVE MapsInv'
  BY <1>00, <1>12 DEF TakeMessage, hubVars
<1>13. ASSUME NEW c \in Clients, WriteQueued(c) PROVE MapsInv'
  BY <1>00, <1>13 DEF WriteQueued, hubVars
<1>14. ASSUME NEW c \in Clients, CloseWriter(c) PROVE MapsInv'
  BY <1>00, <1>14 DEF CloseWriter, hubVars, chanVars
<1>15. ASSUME NEW c \in Clients, WritePumpReturns(c) PROVE MapsInv'
  BY <1>00, <1>15 DEF WritePumpReturns, hubVars
<1>16. CASE UNCHANGED vars
  BY <1>00, <1>16 DEF vars, hubVars, chanVars, pumpVars
<1> QED BY <1>1, <1>2, <1>3, <1>4, <1>5, <1>6, <1>7, <1>8, <1>9, <1>10, <1>11, <1>12,
           <1>13, <1>14, <1>15, <1>16 DEF Next

-----------------------------------------------------------------------------
(***************************************************************************)
(* The way of a message from the hub to the connection.                    *)
(***************************************************************************)
LEMMA InitQueue == Init => QueueInv
<1>1. (<< >> \o << >>) \o << >> = << >>
  OBVIOUS
<1> QED BY <1>1 DEF Init, QueueInv, Queue, InDelivery

LEMMA NextQueue == TypeOK /\ CarriedInv /\ QueueInv /\ [Next]_vars => QueueInv'
<1> SUFFICES ASSUME TypeOK, CarriedInv, QueueInv, [Next]_vars PROVE QueueInv'
  OBVIOUS
<1>0. \A d \in Clients :
        /\ batch[d] \in Seq(Messages) /\ send[d] \in Seq(Messages)
        /\ batch[d] \o send[d] \in Seq(Messages) /\ owed[d] \in Seq(Messages)
  BY SeqConcat DEF TypeOK
<1>append. \A b, s \in Seq(Messages), m \in Messages :
             /\ Append(b \o s, m) = (b \o s) \o <<m>>
             /\ b \o Append(s, m) = (b \o s) \o <<m>>
             /\ b \o Append(s, m) \in Seq(Messages)
  BY AppendConcat, SeqAppend, SeqConcat, SMTT(40)
<1>same. ASSUME NEW d \in Clients, batch'[d] = batch[d], send'[d] = send[d],
                owed'[d] = owed[d], wr'[d] = wr[d],
                serve[d] = "served" => serve'[d] = "served",
                (d \in todo' <=> d \in todo), message' = message
         PROVE  Queue(d)'
  BY Zenon, <1>same DEF QueueInv, Queue, InDelivery
<1>deliver. ASSUME NEW m \in Messages, NEW to, Selecting, Deliver(m, to),
                   UNCHANGED <<batch, send, wr, serve>>
            PROVE  QueueInv'
  <2> SUFFICES ASSUME NEW d \in Clients PROVE Queue(d)'
    BY DEF QueueInv
  <2>1. /\ todo = {} /\ todo' = to /\ message' = m
        /\ owed'[d] = IF d \in to /\ wr[d] # "done" THEN Append(owed[d], m) ELSE owed[d]
    BY <1>deliver DEF Deliver, Selecting
  <2>2. wr[d] # "done" => owed[d] = batch[d] \o send[d]
    BY Zenon, <1>0, <2>1, SeqConcatEmpty DEF QueueInv, Queue, InDelivery
  <2>3. Append(batch[d] \o send[d], m) = (batch[d] \o send[d]) \o <<m>>
    BY Zenon, <1>0, <1>append, <1>deliver
  <2>4. (batch[d] \o send[d]) \o << >> = batch[d] \o send[d]
    BY <1>0, SeqConcatEmpty
  <2>5. wr[d] # "done" => owed'[d] = (batch[d] \o send[d]) \o InDelivery(d)'
    BY Zenon, <2>1, <2>2, <2>3, <2>4 DEF InDelivery
  <2> QED BY Zenon, <1>deliver, <2>5 DEF QueueInv, Queue
<1>1. CASE Broadcast
  <2>1. msgs + 1 \in Messages
    BY <1>1, SizesAssumption DEF Broadcast, TypeOK, Messages
  <2>2. CASE Selecting /\ Deliver(msgs + 1, clients)
    BY <1>deliver, <1>1, <2>1, <2>2 DEF Broadcast, chanVars, pumpVars
  <2>3. CASE UNCHANGED <<hubVars, owed>>
    BY <1>same, <1>1, <2>3 DEF Broadcast, QueueInv, hubVars, chanVars, pumpVars
  <2> QED BY <1>1, <2>2, <2>3 DEF Broadcast
<1>2. ASSUME NEW u \in Users, SendToUser(u) PROVE QueueInv'
  <2>1. msgs + 1 \in Messages
    BY <1>2, SizesAssumption DEF SendToUser, TypeOK, Messages
  <2>2. CASE Selecting /\ Deliver(msgs + 1, userClients[u])
    BY <1>deliver, <1>2, <2>1, <2>2 DEF SendToUser, chanVars, pumpVars
  <2>3. CASE UNCHANGED <<hubVars, owed>>
    BY <1>same, <1>2, <2>3 DEF SendToUser, QueueInv, hubVars, chanVars, pumpVars
  <2> QED BY <1>2, <2>2, <2>3 DEF SendToUser
<1>3. ASSUME NEW c \in Clients, ServeWs(c) PROVE QueueInv'
  BY <1>same, <1>3 DEF ServeWs, TypeOK, QueueInv, hubVars, chanVars
<1>4. ASSUME NEW c \in Clients, RegisterClient(c) PROVE QueueInv'
  <2> SUFFICES ASSUME NEW d \in Clients PROVE Queue(d)'
    BY DEF QueueInv
  <2>1. /\ UNCHANGED <<batch, send, owed, todo, message>>
        /\ serve'[d] = IF d = c THEN "served" ELSE serve[d]
        /\ wr'[d] = IF d = c THEN "select" ELSE wr[d]
        /\ serve[c] = "register"
    BY <1>4 DEF RegisterClient, TypeOK, chanVars
  <2> QED BY Zenon, <2>1 DEF QueueInv, Queue, InDelivery
<1>5. ASSUME NEW c \in Clients, PeerLeaves(c) PROVE QueueInv'
  BY <1>same, <1>5 DEF PeerLeaves, QueueInv, hubVars, pumpVars
<1>6. ASSUME NEW c \in Clients, ReadMessage(c) PROVE QueueInv'
  BY <1>same, <1>6 DEF ReadMessage, QueueInv, hubVars, chanVars
<1>7. ASSUME NEW c \in Clients, PumpBroadcast(c) PROVE QueueInv'
  <2>1. reading[c] \in Messages
    BY <1>7 DEF PumpBroadcast, CarriedInv
  <2> QED BY <1>deliver, <1>7, <2>1 DEF PumpBroadcast, chanVars
<1>8. ASSUME NEW c \in Clients, SendTo(c) PROVE QueueInv'
  <2>1. CASE Len(send[c]) < BufSize
    <3>1. /\ send' = [send EXCEPT ![c] = Append(send[c], message)]
          /\ todo' = todo \ {c} /\ c \in todo /\ message \in Messages
          /\ UNCHANGED <<batch, owed, wr, serve, message>>
      BY <1>8, <2>1 DEF SendTo, CarriedInv, pumpVars
    <3>2. Queue(c)'
      <4>1. send'[c] = Append(send[c], message) /\ c \notin todo'
        BY <3>1 DEF TypeOK
      <4>2. /\ batch[c] \o Append(send[c], message) = (batch[c] \o send[c]) \o <<message>>
            /\ batch[c] \o Append(send[c], message) \in Seq(Messages)
        BY Zenon, <1>0, <1>append, <3>1
      <4>3. (batch[c] \o send'[c]) \o << >> = (batch[c] \o send[c]) \o <<message>>
        BY <4>1, <4>2, SeqConcatEmpty
      <4> QED BY Zenon, <3>1, <4>1, <4>3 DEF QueueInv, Queue, InDelivery
    <3>3. \A d \in Clients \ {c} : Queue(d)'
      BY Zenon, <1>same, <3>1 DEF TypeOK
    <3> QED BY <3>2, <3>3 DEF QueueInv
  <2>2. CASE ~(Len(send[c]) < BufSize)
    BY <1>same, <1>8, <2>2 DEF SendTo, QueueInv, pumpVars
  <2> QED BY <2>1, <2>2
<1>9. ASSUME NEW c \in Clients, ReadFails(c) PROVE QueueInv'
  BY <1>same, <1>9 DEF ReadFails, QueueInv, hubVars, chanVars
<1>10. ASSUME NEW c \in Clients, UnregisterClient(c) PROVE QueueInv'
  BY <1>same, <1>10 DEF UnregisterClient, QueueInv
<1>11. ASSUME NEW c \in Clients, ReadPumpCloses(c) PROVE QueueInv'
  BY <1>same, <1>11 DEF ReadPumpCloses, QueueInv, hubVars
<1>12. ASSUME NEW c \in Clients, TakeMessage(c) PROVE QueueInv'
  <2>1. /\ wr[c] = "select" /\ send[c] # << >> /\ UNCHANGED <<todo, message, serve, owed>>
        /\ batch' = [batch EXCEPT ![c] = <<Head(send[c])>>]
        /\ send' = [send EXCEPT ![c] = Tail(send[c])]
        /\ wr' = [wr EXCEPT ![c] = "write"]
    BY <1>12 DEF TakeMessage, hubVars
  <2>2. Queue(c)'
    <3>1. batch[c] = << >> /\ batch[c] \o send[c] = send[c]
      BY Zenon, <1>0, <2>1, SeqConcatEmpty DEF QueueInv, Queue
    <3>2. batch'[c] \o send'[c] = send[c]
      BY <1>0, <2>1, SeqHeadTail DEF TypeOK
    <3>3. wr'[c] = "write" /\ InDelivery(c)' = InDelivery(c)
      BY <2>1 DEF TypeOK, InDelivery
    <3> QED BY Zenon, <2>1, <3>1, <3>2, <3>3 DEF QueueInv, Queue
  <2>3. \A d \in Clients \ {c} : Queue(d)'
    BY <1>same, <2>1 DEF TypeOK
  <2> QED BY <2>2, <2>3 DEF QueueInv
<1>13. ASSUME NEW c \in Clients, WriteQueued(c) PROVE QueueInv'
  <2>1. /\ wr[c] = "write" /\ UNCHANGED <<todo, message, serve, owed>>
        /\ batch' = [batch EXCEPT ![c] = batch[c] \o send[c]]
        /\ send' = [send EXCEPT ![c] = << >>]
        /\ wr' = [wr EXCEPT ![c] = "flush"]
    BY <1>13 DEF WriteQueued, hubVars
  <2>2. Queue(c)'
    <3>1. batch'[c] \o send'[c] = batch[c] \o send[c]
      BY <1>0, <2>1, SeqConcatEmpty DEF TypeOK
    <3>2. wr'[c] = "flush" /\ InDelivery(c)' = InDelivery(c)
      BY <2>1 DEF TypeOK, InDelivery
    <3> QED BY Zenon, <2>1, <3>1, <3>2 DEF QueueInv, Queue
  <2>3. \A d \in Clients \ {c} : Queue(d)'
    BY <1>same, <2>1 DEF TypeOK
  <2> QED BY <2>2, <2>3 DEF QueueInv
<1>14. ASSUME NEW c \in Clients, CloseWriter(c) PROVE QueueInv'
  <2>1. /\ wr[c] = "flush" /\ UNCHANGED <<todo, message, serve, send>>
        /\ owed' = [owed EXCEPT ![c] = SubSeq(owed[c], Len(batch[c]) + 1, Len(owed[c]))]
        /\ batch' = [batch EXCEPT ![c] = << >>]
        /\ wr' = [wr EXCEPT ![c] = "select"]
    BY <1>14 DEF CloseWriter, hubVars, chanVars
  <2>2. Queue(c)'
    <3>1. InDelivery(c) \in Seq(Messages)
      BY DEF InDelivery, CarriedInv
    <3>2. /\ owed[c] = batch[c] \o (send[c] \o InDelivery(c))
          /\ send[c] \o InDelivery(c) \in Seq(Messages)
      <4>1. owed[c] = (batch[c] \o send[c]) \o InDelivery(c)
        BY Zenon, <2>1 DEF QueueInv, Queue
      <4>2. \A b, s, u \in Seq(Messages) :
              (b \o s) \o u = b \o (s \o u) /\ s \o u \in Seq(Messages)
        BY SeqAssociative, SeqConcat
      <4>3. batch[c] \in Seq(Messages) /\ send[c] \in Seq(Messages)
        BY <1>0
      <4> QED BY <3>1, <4>1, <4>2, <4>3, Zenon
    <3>3. owed'[c] = send[c] \o InDelivery(c)
      <4>1. owed'[c] = SubSeq(owed[c], Len(batch[c]) + 1, Len(owed[c]))
        BY <2>1 DEF TypeOK
      <4>2. \A b, s \in Seq(Messages) : SubSeq(b \o s, Len(b) + 1, Len(b \o s)) = s
        BY DropFront
      <4> QED BY Zenon, <1>0, <3>2, <4>1, <4>2
    <3>4. batch'[c] = << >> /\ wr'[c] = "select" /\ InDelivery(c)' = InDelivery(c)
      BY <2>1 DEF TypeOK, InDelivery
    <3>5. batch'[c] \o send'[c] = send[c]
      BY Zenon, <1>0, <2>1, <3>4, SeqConcatEmpty
    <3> QED BY Zenon, <2>1, <3>3, <3>4, <3>5 DEF QueueInv, Queue
  <2>3. \A d \in Clients \ {c} : Queue(d)'
    BY <1>same, <2>1 DEF TypeOK
  <2> QED BY <2>2, <2>3 DEF QueueInv
<1>15. ASSUME NEW c \in Clients, WritePumpReturns(c) PROVE QueueInv'
  <2>1. /\ wr[c] \in {"select", "write", "flush"} /\ UNCHANGED <<todo, message, serve, send>>
        /\ wr' = [wr EXCEPT ![c] = "done"] /\ owed' = [owed EXCEPT ![c] = << >>]
        /\ batch' = [batch EXCEPT ![c] = << >>]
    BY <1>15 DEF WritePumpReturns, hubVars
  <2>2. Queue(c)'
    BY <2>1 DEF TypeOK, QueueInv, Queue
  <2>3. \A d \in Clients \ {c} : Queue(d)'
    BY <1>same, <2>1 DEF TypeOK
  <2> QED BY <2>2, <2>3 DEF QueueInv
<1>16. CASE UNCHANGED vars
  BY <1>same, <1>16 DEF vars, hubVars, chanVars, pumpVars, QueueInv
<1> QED BY <1>1, <1>2, <1>3, <1>4, <1>5, <1>6, <1>7, <1>8, <1>9, <1>10, <1>11, <1>12,
           <1>13, <1>14, <1>15, <1>16 DEF Next

-----------------------------------------------------------------------------
HubInv == TypeOK /\ CarriedInv /\ MapsInv /\ QueueInv

\* The three parts together are inductive.
LEMMA Inductive == Spec => []HubInv
<1>1. Init => HubInv
  BY InitType, InitMaps, InitQueue DEF HubInv
<1>2. HubInv /\ [Next]_vars => HubInv'
  BY NextType, NextMaps, NextQueue DEF HubInv
<1> QED BY <1>1, <1>2, PTL DEF Spec

\* The variables of the hub and of the pumps keep their types, and no channel
\* holds more than bufSize messages.
THEOREM TypeCorrect == Spec => []TypeOK
<1>1. HubInv => TypeOK
  BY DEF HubInv
<1> QED BY <1>1, Inductive, PTL

\* A direct message goes to exactly the registered clients of its user
\* (registerClient, unregisterClient).
THEOREM UserMapExact == Spec => []MapsAgree
<1>1. HubInv => MapsAgree
  BY DEF HubInv, MapsInv
<1> QED BY <1>1, Inductive, PTL

\* Run neither sends on a closed channel nor closes one twice
\* (unregisterClient, broadcastMessage, sendDirectMessage).
THEOREM ClosedNeverUsed == Spec => []NoClosedSend
<1>1. HubInv => NoClosedSend
  BY DEF HubInv, MapsInv
<1> QED BY <1>1, Inductive, PTL

\* Nothing the hub set out to send to a live connection is lost, repeated or
\* reordered (writePump).
THEOREM DeliveryInOrder == Spec => []InOrder
<1>1. HubInv => InOrder
  <2> SUFFICES ASSUME HubInv, NEW c \in Clients, wr[c] # "done"
               PROVE  batch[c] \o send[c] =
                        IF c \in todo THEN SubSeq(owed[c], 1, Len(owed[c]) - 1) ELSE owed[c]
    BY Zenon DEF InOrder
  <2>1. batch[c] \o send[c] \in Seq(Messages)
    BY SeqConcat DEF HubInv, TypeOK
  <2>2. owed[c] = (batch[c] \o send[c]) \o InDelivery(c)
    BY Zenon DEF HubInv, QueueInv, Queue
  <2>3. CASE c \in todo
    <3>1. message \in Messages /\ InDelivery(c) = <<message>>
      BY <2>3 DEF HubInv, CarriedInv, InDelivery
    <3>2. \A s \in Seq(Messages), m \in Messages :
            SubSeq(s \o <<m>>, 1, Len(s \o <<m>>) - 1) = s
      BY DropLast
    <3> QED BY Zenon, <2>1, <2>2, <2>3, <3>1, <3>2
  <2>4. CASE c \notin todo
    <3>1. InDelivery(c) = << >>
      BY <2>4 DEF InDelivery
    <3> QED BY Zenon, <2>1, <2>2, <2>4, <3>1, SeqConcatEmpty
  <2> QED BY Zenon, <2>3, <2>4
<1> QED BY <1>1, Inductive, PTL

-----------------------------------------------------------------------------
(***************************************************************************)
(* The automatic rebalancing.                                              *)
(***************************************************************************)
\* The channels of all earlier starts are closed, that of the last one unless
\* the rebalancing is on; a loop waits on the channel of its own start or of a
\* later one; the last loop only ends with its channel or its context.
RebalanceInv ==
  /\ autoRebalanceRunning \in BOOLEAN
  /\ autoRebalanceStop \in 0..MaxStarts
  /\ closedStops = IF autoRebalanceRunning THEN 1..(autoRebalanceStop - 1)
                   ELSE 1..autoRebalanceStop
  /\ autoRebalanceRunning => autoRebalanceStop > 0
  /\ loopAt \in [Loops -> {"none", "top", "select", "busy", "done"}]
  /\ waitsOn \in [Loops -> 0..autoRebalanceStop]
  /\ \A n \in Loops : loopAt[n] = "none" <=> n > autoRebalanceStop
  /\ \A n \in Loops : loopAt[n] \in {"select", "done"} => waitsOn[n] >= n
  /\ \A n \in Loops : loopAt[n] = "done" => waitsOn[n] \in closedStops \/ n \in ctxDone

LEMMA RebalanceInitInv == RebalanceInit => RebalanceInv
<1> SUFFICES ASSUME RebalanceInit PROVE RebalanceInv
  OBVIOUS
<1>1. /\ autoRebalanceRunning = FALSE /\ autoRebalanceStop = 0 /\ closedStops = {}
      /\ \A n \in Loops : loopAt[n] = "none" /\ n > 0
      /\ loopAt \in [Loops -> {"none", "top", "select", "busy", "done"}]
      /\ waitsOn \in [Loops -> 0..0]
  BY DEF RebalanceInit, Loops
<1>2. 0 \in 0..MaxStarts /\ {} = 1..0
  BY RebalanceAssumption
<1> QED BY Zenon, <1>1, <1>2 DEF RebalanceInv

LEMMA RebalanceStart ==
  ASSUME RebalanceInv, StartAutoRebalance
  PROVE  RebalanceInv'
<1> DEFINE m == autoRebalanceStop + 1
<1>1. /\ ~autoRebalanceRunning /\ autoRebalanceStop < MaxStarts
      /\ autoRebalanceStop' = m /\ autoRebalanceRunning' = TRUE
      /\ loopAt' = [loopAt EXCEPT ![m] = "top"]
      /\ UNCHANGED <<closedStops, waitsOn, ctxDone>>
  BY DEF StartAutoRebalance, MakeLoop, LoopGoes, Started
<1>2. autoRebalanceStop \in Nat /\ m \in Loops /\ m \in 0..MaxStarts /\ m > 0
  BY <1>1, RebalanceAssumption DEF RebalanceInv, Loops
<1>3. closedStops' = 1..(m - 1)
  BY <1>1, <1>2 DEF RebalanceInv
<1>4. /\ loopAt' \in [Loops -> {"none", "top", "select", "busy", "done"}]
      /\ waitsOn' \in [Loops -> 0..m]
  BY <1>1, <1>2 DEF RebalanceInv
<1>5. ASSUME NEW n \in Loops
      PROVE  /\ loopAt'[n] = "none" <=> n > m
             /\ loopAt'[n] \in {"select", "done"} => waitsOn'[n] >= n
             /\ loopAt'[n] = "done" => waitsOn'[n] \in closedStops' \/ n \in ctxDone'
  BY <1>1, <1>2 DEF RebalanceInv, Loops
<1> QED BY <1>1, <1>2, <1>3, <1>4, <1>5 DEF RebalanceInv

LEMMA RebalanceStops ==
  ASSUME RebalanceInv, StopAutoRebalance
  PROVE  RebalanceInv'
<1>1. /\ autoRebalanceRunning /\ autoRebalanceRunning' = FALSE
      /\ closedStops' = closedStops \cup {autoRebalanceStop}
      /\ UNCHANGED <<autoRebalanceStop, loopAt, waitsOn, ctxDone>>
  BY DEF StopAutoRebalance, CloseStop
<1>2. closedStops' = 1..autoRebalanceStop
  BY <1>1 DEF RebalanceInv
<1> QED BY Zenon, <1>1, <1>2 DEF RebalanceInv

\* A step of loop n to another place, with a channel it may have read anew.
LEMMA RebalanceLoop ==
  ASSUME RebalanceInv, NEW n \in Loops, loopAt[n] # "none",
         NEW to \in {"top", "select", "busy", "done"}, LoopGoes(n, to),
         NEW c \in 0..autoRebalanceStop, waitsOn' = [waitsOn EXCEPT ![n] = c],
         to \in {"select", "done"} => c >= n,
         to = "done" => c \in closedStops \/ n \in ctxDone,
         UNCHANGED <<autoRebalanceRunning, autoRebalanceStop, closedStops, ctxDone>>
  PROVE  RebalanceInv'
<1>1. /\ loopAt' \in [Loops -> {"none", "top", "select", "busy", "done"}]
      /\ waitsOn' \in [Loops -> 0..autoRebalanceStop]
  BY DEF RebalanceInv, LoopGoes
<1>2. ASSUME NEW m \in Loops
      PROVE  /\ loopAt'[m] = "none" <=> m > autoRebalanceStop
             /\ loopAt'[m] \in {"select", "done"} => waitsOn'[m] >= m
             /\ loopAt'[m] = "done" => waitsOn'[m] \in closedStops \/ m \in ctxDone
  <2>1. CASE m = n
    <3>1. loopAt'[m] = to /\ waitsOn'[m] = c
      BY <2>1 DEF RebalanceInv, LoopGoes
    <3> QED BY <3>1, <2>1 DEF RebalanceInv
  <2>2. CASE m # n
    <3>1. loopAt'[m] = loopAt[m] /\ waitsOn'[m] = waitsOn[m]
      BY <2>2 DEF RebalanceInv, LoopGoes
    <3> QED BY <3>1 DEF RebalanceInv
  <2> QED BY <2>1, <2>2
<1> QED BY <1>1, <1>2 DEF RebalanceInv

LEMMA SameChannel ==
  ASSUME RebalanceInv, NEW n \in Loops, UNCHANGED waitsOn
  PROVE  waitsOn[n] \in 0..autoRebalanceStop /\ waitsOn' = [waitsOn EXCEPT ![n] = waitsOn[n]]
BY DEF RebalanceInv

LEMMA RebalanceNextInv == RebalanceInv /\ [RebalanceNext]_rebalanceVars => RebalanceInv'
<1> SUFFICES ASSUME RebalanceInv, [RebalanceNext]_rebalanceVars PROVE RebalanceInv'
  OBVIOUS
<1>1. CASE StartAutoRebalance
  BY <1>1, RebalanceStart
<1>2. CASE StopAutoRebalance
  BY <1>2, RebalanceStops
<1>3. ASSUME NEW n \in Loops, ReadStop(n) PROVE RebalanceInv'
  <2>1. PICK c \in waitsOn[n]..autoRebalanceStop :
          c >= n /\ waitsOn' = [waitsOn EXCEPT ![n] = c]
    BY Zenon, <1>3 DEF ReadStop
  <2>2. c \in 0..autoRebalanceStop
    BY <2>1 DEF RebalanceInv
  <2> QED BY Zenon, <1>3, <2>1, <2>2, RebalanceLoop DEF ReadStop
<1>4. ASSUME NEW n \in Loops, TickerFires(n) \/ performAutoRebalance(n)
      PROVE  RebalanceInv'
  BY <1>4, RebalanceLoop, SameChannel DEF TickerFires, performAutoRebalance
<1>5. ASSUME NEW n \in Loops, LoopEnds(n) PROVE RebalanceInv'
  <2>1. waitsOn[n] >= n
    BY <1>5 DEF LoopEnds, RebalanceInv
  <2> QED BY <1>5, <2>1, RebalanceLoop, SameChannel DEF LoopEnds
<1>6. ASSUME NEW n \in Loops, ContextEnds(n) PROVE RebalanceInv'
  BY <1>6 DEF ContextEnds, RebalanceInv
<1>7. CASE UNCHANGED rebalanceVars
  BY <1>7 DEF rebalanceVars, RebalanceInv
<1> QED BY <1>1, <1>2, <1>3, <1>4, <1>5, <1>6, <1>7 DEF RebalanceNext

\* StopAutoRebalance reaches every rebalancing loop, however often it was
\* started and stopped and whatever each loop was doing meanwhile.
THEOREM StopReachesLoops == RebalanceSpec => []StopReachesEveryLoop
<1>1. RebalanceInv => StopReachesEveryLoop
  <2> SUFFICES ASSUME RebalanceInv PROVE StopReachesEveryLoop
    OBVIOUS
  <2>1. ASSUME NEW n \in Loops, loopAt[n] = "select"
        PROVE  waitsOn[n] \in closedStops \cup {autoRebalanceStop}
    BY <2>1 DEF RebalanceInv, Loops
  <2>2. ASSUME autoRebalanceRunning
        PROVE  Live(autoRebalanceStop) \/ autoRebalanceStop \in ctxDone
    BY <2>2, RebalanceAssumption DEF RebalanceInv, Loops, Live
  <2> QED BY <2>1, <2>2 DEF StopReachesEveryLoop
<1> QED BY <1>1, RebalanceInitInv, RebalanceNextInv, PTL DEF RebalanceSpec

-----------------------------------------------------------------------------
(***************************************************************************)
(* The registry and the client manager that mirrors it.                    *)
(***************************************************************************)
Events == [type : {"register", "unregister", "heartbeat", "unhealthy"}, store : Infos]

\* An event in the channel says whether a store is in the registry.
Moves(s, i) == events[i].store = s /\ events[i].type \in {"register", "unregister"}

LastMove(s, i) ==
  i \in DOMAIN events /\ Moves(s, i) /\ \A j \in DOMAIN events : j > i => ~Moves(s, j)

\* The last such event of a store is right, and where there is none the mirror is.
MirrorInv ==
  manager # "off" /\ ~dropped =>
    \A s \in Infos :
      /\ \A i \in DOMAIN events : LastMove(s, i) =>
           (events[i].type = "register" <=> s \in registered)
      /\ manager = "running" /\ (\A i \in DOMAIN events : ~Moves(s, i)) =>
           (s \in mirror <=> s \in registered)

RegistryTypes ==
  /\ registered \subseteq Infos /\ mirror \subseteq Infos
  /\ events \in Seq(Events)
  /\ manager \in {"off", "watching", "running"} /\ dropped \in BOOLEAN
  /\ manager = "off" => events = <<>>
  /\ status \in [Infos -> {"none", "active", "unhealthy"}]
  /\ fresh \in [Infos -> BOOLEAN]
  /\ client \in [Infos -> {"off", "on", "stopping"}]

RegistryInv ==
  /\ RegistryTypes /\ MirrorInv
  /\ \A s \in Infos : client[s] = "off" /\ s \in registered => s \in revived
  /\ \A s \in registered : fresh[s] /\ s \notin stale => status[s] = "active"

\* A sequence with one more element.
Longer(t, s, e) ==
  \E n : /\ n \notin DOMAIN s /\ DOMAIN t = DOMAIN s \cup {n} /\ t[n] = e
         /\ \A i \in DOMAIN s : n > i /\ t[i] = s[i]

LEMMA OneMore ==
  ASSUME NEW S, NEW s \in Seq(S), NEW e \in S
  PROVE  Longer(Append(s, e), s, e)
<1> SUFFICES \E n : /\ n \notin DOMAIN s /\ DOMAIN Append(s, e) = DOMAIN s \cup {n}
                    /\ Append(s, e)[n] = e
                    /\ \A i \in DOMAIN s : n > i /\ Append(s, e)[i] = s[i]
  BY Zenon DEF Longer
<1> WITNESS Len(s) + 1
<1> QED OBVIOUS

\* A sequence without its first element.
LEMMA OneLess ==
  ASSUME NEW S, NEW s \in Seq(S), s # <<>>
  PROVE  /\ Tail(s) \in Seq(S) /\ Head(s) \in S
         /\ Head(s) = s[1] /\ 1 \in DOMAIN s
         /\ \A i \in DOMAIN Tail(s) : i + 1 \in DOMAIN s /\ Tail(s)[i] = s[i + 1]
         /\ \A j \in DOMAIN s : j = 1 \/ \E i \in DOMAIN Tail(s) : j = i + 1
         /\ \A i \in DOMAIN Tail(s), j \in DOMAIN s :
              j > i + 1 => \E k \in DOMAIN Tail(s) : j = k + 1 /\ k > i
<1>1. /\ Len(s) \in Nat /\ Len(s) > 0 /\ DOMAIN s = 1..Len(s)
      /\ DOMAIN Tail(s) = 1..(Len(s) - 1)
      /\ Tail(s) \in Seq(S) /\ Head(s) \in S /\ Head(s) = s[1]
      /\ \A i \in 1..(Len(s) - 1) : Tail(s)[i] = s[i + 1]
  OBVIOUS
<1>2. PICK n \in Nat : /\ n = Len(s) /\ n > 0
                      /\ DOMAIN s = 1..n /\ DOMAIN Tail(s) = 1..(n - 1)
  BY <1>1
<1>3. \A i \in 1..(n - 1) : i + 1 \in 1..n
  BY <1>2
<1>4. \A j \in 1..n : j = 1 \/ (j - 1 \in 1..(n - 1) /\ j = (j - 1) + 1)
  BY <1>2
<1>5. \A i \in 1..(n - 1), j \in 1..n :
        j > i + 1 => j - 1 \in 1..(n - 1) /\ j = (j - 1) + 1 /\ j - 1 > i
  BY <1>2
<1>6. /\ \A i \in 1..(n - 1) : Tail(s)[i] = s[i + 1]
      /\ 1 \in DOMAIN s
  BY <1>1, <1>2
<1>7. \A i \in DOMAIN Tail(s) : i + 1 \in DOMAIN s /\ Tail(s)[i] = s[i + 1]
  BY Zenon, <1>2, <1>3, <1>6
<1>8. \A j \in DOMAIN s : j = 1 \/ \E i \in DOMAIN Tail(s) : j = i + 1
  BY Zenon, <1>2, <1>4
<1>9. \A i \in DOMAIN Tail(s), j \in DOMAIN s :
        j > i + 1 => \E k \in DOMAIN Tail(s) : j = k + 1 /\ k > i
  <2> SUFFICES ASSUME NEW i \in 1..(n - 1), NEW j \in 1..n, j > i + 1
               PROVE  \E k \in 1..(n - 1) : j = k + 1 /\ k > i
    BY Zenon, <1>2
  <2> QED BY Zenon, <1>5
<1> QED BY Zenon, <1>1, <1>6, <1>7, <1>8, <1>9

\* What an event does to the record of who is in the registry.
LEMMA NotifyMirror ==
  ASSUME RegistryInv, NEW e \in Events, Notify(e),
         UNCHANGED <<manager, mirror>>, registered' \subseteq Infos,
         \A s \in Infos : s # e.store => (s \in registered' <=> s \in registered),
         e.type = "register" => e.store \in registered',
         e.type = "unregister" => e.store \notin registered',
         e.type \in {"heartbeat", "unhealthy"} => registered' = registered
  PROVE  MirrorInv'
<1> SUFFICES ASSUME manager # "off", ~dropped', NEW s \in Infos
             PROVE  /\ \A i \in DOMAIN events' : LastMove(s, i)' =>
                         (events'[i].type = "register" <=> s \in registered')
                    /\ manager = "running" /\ (\A i \in DOMAIN events' : ~Moves(s, i)') =>
                         (s \in mirror <=> s \in registered')
  BY DEF MirrorInv
<1>1. events' = Append(events, e) /\ ~dropped
  BY DEF Notify
<1>2. events \in Seq(Events)
  BY DEF RegistryInv, RegistryTypes
<1>3. PICK n : /\ n \notin DOMAIN events /\ DOMAIN events' = DOMAIN events \cup {n}
               /\ events'[n] = e
               /\ \A i \in DOMAIN events : n > i /\ events'[i] = events[i]
  <2> HIDE DEF Events
  <2>1. Longer(Append(events, e), events, e)
    BY Zenon, <1>2, OneMore
  <2>2. Longer(events', events, e)
    BY Zenon, <1>1, <2>1
  <2> QED BY Zenon, <2>2 DEF Longer
<1>4. /\ \A i \in DOMAIN events : LastMove(s, i) =>
           (events[i].type = "register" <=> s \in registered)
      /\ manager = "running" /\ (\A i \in DOMAIN events : ~Moves(s, i)) =>
           (s \in mirror <=> s \in registered)
  BY <1>1 DEF RegistryInv, MirrorInv
<1>5. \A i \in DOMAIN events : Moves(s, i)' <=> Moves(s, i)
  BY Zenon, <1>3 DEF Moves
<1>6. CASE e.store = s /\ e.type \in {"register", "unregister"}
  <2>1. Moves(s, n)'
    BY Zenon, <1>3, <1>6 DEF Moves
  <2>2. \A i \in DOMAIN events' : LastMove(s, i)' => i = n
    BY Zenon, <2>1, <1>3 DEF LastMove
  <2>3. e.type = "register" <=> s \in registered'
    BY <1>6
  <2> QED BY Zenon, <2>1, <2>2, <2>3, <1>3
<1>7. CASE ~(e.store = s /\ e.type \in {"register", "unregister"})
  <2>1. ~Moves(s, n)'
    BY Zenon, <1>3, <1>7 DEF Moves
  <2>2. s \in registered' <=> s \in registered
    BY <1>7 DEF Events
  <2>3. ASSUME NEW i \in DOMAIN events', LastMove(s, i)'
        PROVE  i \in DOMAIN events /\ LastMove(s, i) /\ events'[i] = events[i]
    BY Zenon, <2>1, <2>3, <1>3, <1>5 DEF LastMove
  <2>4. ASSUME \A i \in DOMAIN events' : ~Moves(s, i)'
        PROVE  \A i \in DOMAIN events : ~Moves(s, i)
    BY Zenon, <2>4, <1>3, <1>5
  <2> QED BY Zenon, <2>2, <2>3, <2>4, <1>4
<1> QED BY Zenon, <1>6, <1>7

\* The same when there is no event.
LEMMA SameMirror ==
  ASSUME MirrorInv, UNCHANGED <<registered, manager, events, mirror, dropped>>
  PROVE  MirrorInv'
BY DEF MirrorInv, LastMove, Moves

LEMMA NotifyTypes ==
  ASSUME RegistryInv, NEW e \in Events, Notify(e), UNCHANGED manager
  PROVE  /\ events' \in Seq(Events) /\ dropped' \in BOOLEAN
         /\ manager' = "off" => events' = <<>>
<1>1. events' = events \/ events' = Append(events, e)
  BY Zenon DEF Notify
<1>2. events' \in Seq(Events)
  BY <1>1 DEF RegistryInv, RegistryTypes
<1>3. dropped' = dropped \/ dropped' = TRUE
  BY Zenon DEF Notify
<1>4. dropped' \in BOOLEAN
  BY Zenon, <1>3 DEF RegistryInv, RegistryTypes
<1>5. manager' = "off" => events' = <<>>
  BY Zenon DEF Notify, RegistryInv, RegistryTypes
<1> QED BY <1>2, <1>4, <1>5

\* The rest of RegistryInv, of one store.
StoreInv(s) ==
  /\ client[s] = "off" /\ s \in registered => s \in revived
  /\ s \in registered /\ fresh[s] /\ s \notin stale => status[s] = "active"

StoreTypes ==
  /\ registered \subseteq Infos /\ mirror \subseteq Infos
  /\ manager \in {"off", "watching", "running"}
  /\ status \in [Infos -> {"none", "active", "unhealthy"}]
  /\ fresh \in [Infos -> BOOLEAN]
  /\ client \in [Infos -> {"off", "on", "stopping"}]

LEMMA FromParts ==
  ASSUME StoreTypes, events \in Seq(Events), dropped \in BOOLEAN,
         manager = "off" => events = <<>>, MirrorInv, \A s \in Infos : StoreInv(s)
  PROVE  RegistryInv
BY Zenon DEF StoreTypes, StoreInv, RegistryInv, RegistryTypes

LEMMA ToParts ==
  ASSUME RegistryInv
  PROVE  /\ StoreTypes /\ events \in Seq(Events) /\ dropped \in BOOLEAN
         /\ manager = "off" => events = <<>>
         /\ MirrorInv /\ \A s \in Infos : StoreInv(s)
BY Zenon DEF StoreTypes, StoreInv, RegistryInv, RegistryTypes

LEMMA RegistryInitInv == RegistryInit => RegistryInv
<1> SUFFICES ASSUME RegistryInit PROVE RegistryInv
  OBVIOUS
<1>1. StoreTypes
  BY DEF RegistryInit, StoreTypes
<1>2. events = <<>> /\ dropped = FALSE /\ manager = "off" /\ registered = {}
  BY DEF RegistryInit
<1>3. MirrorInv /\ \A s \in Infos : StoreInv(s)
  BY <1>2, Zenon DEF MirrorInv, StoreInv
<1>4. events \in Seq(Events)
  BY <1>2
<1> QED BY <1>1, <1>2, <1>3, <1>4, FromParts, Zenon

\* Register, Unregister, UpdateHeartbeat of a registered store and the health
\* check write one StoreInfo and send one event.
LEMMA EventStep ==
  ASSUME RegistryInv, NEW s \in Infos, NEW e \in Events, e.store = s, Notify(e),
         UNCHANGED <<manager, mirror>>, StoreTypes', StoreInv(s)',
         \A r \in Infos \ {s} :
           /\ client'[r] = client[r] /\ fresh'[r] = fresh[r] /\ status'[r] = status[r]
           /\ r \in registered' <=> r \in registered
           /\ r \in stale' <=> r \in stale
           /\ r \in revived' <=> r \in revived,
         e.type = "register" => s \in registered',
         e.type = "unregister" => s \notin registered',
         e.type \in {"heartbeat", "unhealthy"} => registered' = registered
  PROVE  RegistryInv'
<1>1. MirrorInv'
  BY NotifyMirror DEF StoreTypes
<1>2. ASSUME NEW r \in Infos PROVE StoreInv(r)'
  <2>1. CASE r = s
    BY <2>1
  <2>2. CASE r # s
    BY <2>2, ToParts DEF StoreInv
  <2> QED BY <2>1, <2>2
<1>3. /\ events' \in Seq(Events) /\ dropped' \in BOOLEAN
      /\ manager' = "off" => events' = <<>>
  BY NotifyTypes
<1> QED BY Zenon, <1>1, <1>2, <1>3 DEF StoreTypes, StoreInv, RegistryInv, RegistryTypes

LEMMA RegisterInv ==
  ASSUME RegistryInv, NEW s \in Infos, StartClient(s) \/ UpdateMetadata(s)
  PROVE  RegistryInv'
<1> DEFINE e == [type |-> "register", store |-> s]
<1>1. /\ registered' = registered \cup {s}
      /\ \/ client' = [client EXCEPT ![s] = "on"] /\ revived' = revived
         \/ client' = client /\ client[s] # "off" /\ revived' = revived
         \/ client' = client /\ revived' = revived \cup {s}
      /\ status' = [status EXCEPT ![s] = "active"]
      /\ fresh' = [fresh EXCEPT ![s] = TRUE] /\ stale' = stale \ {s}
      /\ Notify(e) /\ UNCHANGED <<manager, mirror>>
  BY DEF StartClient, UpdateMetadata, Register
<1>2. e \in Events /\ e.store = s /\ e.type = "register"
  BY DEF Events
<1> HIDE DEF e
<1>3. StoreTypes'
  BY <1>1, ToParts DEF StoreTypes
<1>4. StoreInv(s)'
  BY <1>1, ToParts DEF StoreInv, StoreTypes
<1> QED BY Zenon, <1>1, <1>2, <1>3, <1>4, ToParts, EventStep DEF StoreTypes

LEMMA UnregisterInv ==
  ASSUME RegistryInv, NEW s \in Infos, Unregister(s)
  PROVE  RegistryInv'
<1> DEFINE e == [type |-> "unregister", store |-> s]
<1>1. /\ client' = [client EXCEPT ![s] = "off"] /\ registered' = registered \ {s}
      /\ revived' = revived \ {s}
      /\ Notify(e) /\ UNCHANGED <<status, fresh, stale, manager, mirror>>
  BY DEF Unregister
<1>2. e \in Events /\ e.store = s /\ e.type = "unregister"
  BY DEF Events
<1> HIDE DEF e
<1>3. StoreTypes'
  BY <1>1, ToParts DEF StoreTypes
<1>4. StoreInv(s)'
  BY <1>1, ToParts DEF StoreInv, StoreTypes
<1> QED BY <1>1, <1>2, <1>3, <1>4, ToParts, EventStep DEF StoreTypes

LEMMA HeartbeatInv ==
  ASSUME RegistryInv, NEW s \in Infos, UpdateHeartbeat(s), s \in registered
  PROVE  RegistryInv'
<1> DEFINE e == [type |-> "heartbeat", store |-> s]
<1>1. /\ status' = [status EXCEPT ![s] = "active"]
      /\ fresh' = [fresh EXCEPT ![s] = TRUE] /\ stale' = stale \ {s}
      /\ Notify(e) /\ UNCHANGED <<registered, client, manager, mirror, revived>>
  BY DEF UpdateHeartbeat
<1>2. e \in Events /\ e.store = s /\ e.type = "heartbeat"
  BY DEF Events
<1> HIDE DEF e
<1>3. StoreTypes'
  BY <1>1, ToParts DEF StoreTypes
<1>4. StoreInv(s)'
  BY <1>1, ToParts DEF StoreInv, StoreTypes
<1> QED BY Zenon, <1>1, <1>2, <1>3, <1>4, ToParts, EventStep DEF StoreTypes

LEMMA UnhealthyInv ==
  ASSUME RegistryInv, NEW s \in Infos, CheckUnhealthy(s)
  PROVE  RegistryInv'
<1> DEFINE e == [type |-> "unhealthy", store |-> s]
<1>1. /\ status' = [status EXCEPT ![s] = "unhealthy"] /\ ~fresh[s]
      /\ Notify(e)
      /\ UNCHANGED <<registered, fresh, client, manager, mirror, stale, revived>>
  BY DEF CheckUnhealthy
<1>2. e \in Events /\ e.store = s /\ e.type = "unhealthy"
  BY DEF Events
<1> HIDE DEF e
<1>3. StoreTypes'
  BY <1>1, ToParts DEF StoreTypes
<1>4. StoreInv(s)'
  BY <1>1, ToParts DEF StoreInv, StoreTypes
<1> QED BY <1>1, <1>2, <1>3, <1>4, ToParts, EventStep DEF StoreTypes

\* The steps that send no event and take none.
LEMMA SilentInv ==
  ASSUME RegistryInv, NEW s \in Infos,
         \/ StopClient(s) \/ TakeTick(s) \/ Ages(s)
         \/ UpdateHeartbeat(s) /\ s \notin registered
  PROVE  RegistryInv'
<1>1. /\ UNCHANGED <<registered, status, manager, events, mirror, dropped, stale,
                   revived>>
      /\ fresh' = fresh \/ fresh' = [fresh EXCEPT ![s] = FALSE]
      /\ \/ client' = client
         \/ client[s] = "on" /\ client' = [client EXCEPT ![s] = "stopping"]
  BY DEF StopClient, TakeTick, Ages, UpdateHeartbeat
<1>2. MirrorInv'
  BY <1>1, ToParts, SameMirror
<1>3. StoreTypes'
  BY Zenon, <1>1, ToParts DEF StoreTypes
<1>4. ASSUME NEW r \in Infos PROVE StoreInv(r)'
  BY <1>1, ToParts DEF StoreInv, StoreTypes
<1>5. /\ events' \in Seq(Events) /\ dropped' \in BOOLEAN
      /\ manager' = "off" => events' = <<>>
  BY <1>1, ToParts
<1> QED BY Zenon, <1>2, <1>3, <1>4, <1>5 DEF StoreTypes, StoreInv, RegistryInv, RegistryTypes

\* The two halves of StoreManager.Start.
LEMMA StartInv ==
  ASSUME RegistryInv, StartWatch \/ LoadStores
  PROVE  RegistryInv'
<1>1. /\ UNCHANGED <<registered, status, fresh, client, events, dropped, stale,
                   revived>>
      /\ \/ manager = "off" /\ manager' = "watching" /\ mirror' = mirror
         \/ manager = "watching" /\ manager' = "running" /\ mirror' = registered
  BY DEF StartWatch, LoadStores
<1>2. \A s, i : /\ Moves(s, i)' <=> Moves(s, i)
                /\ LastMove(s, i)' <=> LastMove(s, i)
  BY <1>1 DEF Moves, LastMove
<1>3. MirrorInv'
  <2>1. CASE manager = "off"
    <3>1. events = <<>>
      BY <2>1, ToParts
    <3> QED BY <3>1, <2>1, <1>1 DEF MirrorInv
  <2>2. CASE manager = "watching"
    BY <2>2, <1>1, <1>2, ToParts DEF MirrorInv
  <2> QED BY <2>1, <2>2, <1>1
<1>4. StoreTypes'
  BY <1>1, ToParts DEF StoreTypes
<1>5. ASSUME NEW r \in Infos PROVE StoreInv(r)'
  BY <1>1, ToParts DEF StoreInv
<1>6. /\ events' \in Seq(Events) /\ dropped' \in BOOLEAN
      /\ manager' = "off" => events' = <<>>
  BY <1>1, ToParts
<1> QED BY Zenon, <1>3, <1>4, <1>5, <1>6 DEF StoreTypes, StoreInv, RegistryInv, RegistryTypes

\* The manager takes the first event; the others move up.
LEMMA HandleMirror ==
  ASSUME RegistryInv, HandleEvent
  PROVE  MirrorInv' /\ events' \in Seq(Events) /\ mirror' \subseteq Infos
<1> DEFINE e == Head(events)
<1>1. /\ manager = "running" /\ events # <<>> /\ events' = Tail(events)
      /\ mirror' = CASE e.type = "register"   -> mirror \cup {e.store}
                     [] e.type = "unregister" -> mirror \ {e.store}
                     [] OTHER                 -> mirror
      /\ UNCHANGED <<registered, manager, dropped>>
  BY Zenon DEF HandleEvent
<1>2. events \in Seq(Events) /\ mirror \subseteq Infos /\ MirrorInv
  BY ToParts DEF StoreTypes
<1>3. /\ events' \in Seq(Events) /\ e \in Events
      /\ e = events[1] /\ 1 \in DOMAIN events
      /\ \A i \in DOMAIN events' : i + 1 \in DOMAIN events /\ events'[i] = events[i + 1]
      /\ \A j \in DOMAIN events : j = 1 \/ \E i \in DOMAIN events' : j = i + 1
      /\ \A i \in DOMAIN events', j \in DOMAIN events :
           j > i + 1 => \E k \in DOMAIN events' : j = k + 1 /\ k > i
  <2> HIDE DEF Events
  <2> QED BY <1>1, <1>2, OneLess
<1>4. e.type \in {"register", "unregister", "heartbeat", "unhealthy"} /\ e.store \in Infos
  BY <1>3 DEF Events
<1>5. mirror' = IF e.type = "register" THEN mirror \cup {e.store}
                ELSE IF e.type = "unregister" THEN mirror \ {e.store} ELSE mirror
  BY <1>1
<1> HIDE DEF e
<1>6. ASSUME ~dropped, NEW s \in Infos
      PROVE  /\ \A i \in DOMAIN events' : LastMove(s, i)' =>
                  (events'[i].type = "register" <=> s \in registered)
             /\ (\A i \in DOMAIN events' : ~Moves(s, i)') =>
                  (s \in mirror' <=> s \in registered)
  <2>1. /\ \A i \in DOMAIN events : LastMove(s, i) =>
             (events[i].type = "register" <=> s \in registered)
        /\ (\A i \in DOMAIN events : ~Moves(s, i)) => (s \in mirror <=> s \in registered)
    BY <1>1, <1>2, <1>6 DEF MirrorInv
  <2>2. \A i \in DOMAIN events' : Moves(s, i)' <=> Moves(s, i + 1)
    BY Zenon, <1>3 DEF Moves
  <2>3. ASSUME NEW i \in DOMAIN events', LastMove(s, i)'
        PROVE  events'[i].type = "register" <=> s \in registered
    <3>1. /\ i + 1 \in DOMAIN events /\ events'[i] = events[i + 1]
          /\ Moves(s, i + 1) <=> Moves(s, i)'
      BY Zenon, <2>2, <2>3, <1>3
    <3>2. ASSUME NEW j \in DOMAIN events, j > i + 1 PROVE ~Moves(s, j)
      <4>1. PICK k \in DOMAIN events' : j = k + 1 /\ k > i
        BY Zenon, <3>2, <2>3, <1>3
      <4>2. ~Moves(s, k)'
        BY Zenon, <4>1, <2>3 DEF LastMove
      <4> QED BY Zenon, <4>1, <4>2, <2>2
    <3>3. Moves(s, i)'
      BY Zenon, <2>3 DEF LastMove
    <3>4. LastMove(s, i + 1)
      BY Zenon, <3>1, <3>2, <3>3 DEF LastMove
    <3> QED BY Zenon, <3>1, <3>4, <2>1
  <2>4. ASSUME \A i \in DOMAIN events' : ~Moves(s, i)'
        PROVE  s \in mirror' <=> s \in registered
    <3>1. \A j \in DOMAIN events : j # 1 => ~Moves(s, j)
      BY Zenon, <2>2, <2>4, <1>3
    <3>2. CASE Moves(s, 1)
      <4>1. LastMove(s, 1)
        <5>1. \A j : j > 1 => j # 1
          OBVIOUS
        <5> QED BY Zenon, <5>1, <3>1, <3>2, <1>3 DEF LastMove
      <4>2. e.store = s /\ e.type \in {"register", "unregister"}
        BY Zenon, <3>2, <1>3 DEF Moves
      <4>3. e.type = "register" <=> s \in registered
        BY Zenon, <4>1, <2>1, <1>3
      <4> QED BY <4>2, <4>3, <1>5
    <3>3. CASE ~Moves(s, 1)
      <4>1. \A j \in DOMAIN events : ~Moves(s, j)
        BY Zenon, <3>1, <3>3
      <4>2. ~(e.store = s /\ e.type \in {"register", "unregister"})
        BY Zenon, <3>3, <1>3 DEF Moves
      <4>3. s \in mirror' <=> s \in mirror
        BY <4>2, <1>5
      <4> QED BY Zenon, <4>1, <4>3, <2>1
    <3> QED BY Zenon, <3>2, <3>3
  <2> QED BY Zenon, <2>3, <2>4
<1>7. MirrorInv'
  BY <1>1, <1>6 DEF MirrorInv
<1>8. mirror' \subseteq Infos
  BY <1>2, <1>4, <1>5
<1> QED BY <1>3, <1>7, <1>8

LEMMA HandleInv ==
  ASSUME RegistryInv, HandleEvent
  PROVE  RegistryInv'
<1> DEFINE s == Head(events).store
<1>1. /\ manager = "running"
      /\ UNCHANGED <<registered, fresh, client, manager, dropped, revived>>
      /\ \/ UNCHANGED <<status, stale>>
         \/ /\ s \in mirror /\ status' = [status EXCEPT ![s] = "unhealthy"]
            /\ stale' = IF status[s] = "active" THEN stale \cup {s} ELSE stale
  BY Zenon DEF HandleEvent
<1>2. MirrorInv' /\ events' \in Seq(Events) /\ mirror' \subseteq Infos
  BY HandleMirror
<1> HIDE DEF s
<1>3. StoreTypes'
  BY <1>1, <1>2, ToParts DEF StoreTypes
<1>4. ASSUME NEW r \in Infos PROVE StoreInv(r)'
  <2>1. StoreInv(r) /\ status[r] \in {"none", "active", "unhealthy"}
    BY ToParts DEF StoreTypes
  <2>2. CASE UNCHANGED <<status, stale>>
    BY <2>1, <2>2, <1>1 DEF StoreInv
  <2>3. CASE r # s /\ ~UNCHANGED <<status, stale>>
    <3>1. status'[r] = status[r] /\ (r \in stale' <=> r \in stale)
      BY <2>3, <1>1, ToParts DEF StoreTypes
    <3> QED BY <3>1, <2>1, <1>1 DEF StoreInv
  <2>4. CASE r = s /\ ~UNCHANGED <<status, stale>>
    <3>1. status[r] = "active" => r \in stale'
      BY <2>4, <1>1
    <3>2. r \in stale => r \in stale'
      BY <2>4, <1>1
    <3> QED BY <3>1, <3>2, <2>1, <1>1 DEF StoreInv
  <2> QED BY <2>2, <2>3, <2>4
<1>5. dropped' \in BOOLEAN /\ (manager' = "off" => events' = <<>>)
  BY <1>1, ToParts
<1> QED BY Zenon, <1>2, <1>3, <1>4, <1>5 DEF StoreTypes, StoreInv, RegistryInv, RegistryTypes

LEMMA RegistryNextInv == RegistryInv /\ [RegistryNext]_registryVars => RegistryInv'
<1> SUFFICES ASSUME RegistryInv, [RegistryNext]_registryVars PROVE RegistryInv'
  OBVIOUS
<1>1. CASE StartWatch \/ LoadStores
  BY <1>1, StartInv
<1>2. CASE HandleEvent
  BY <1>2, HandleInv
<1>3. ASSUME NEW s \in Infos,
             \/ StartClient(s) \/ UpdateMetadata(s) \/ StopClient(s)
             \/ Unregister(s) \/ TakeTick(s)
             \/ UpdateHeartbeat(s) \/ Ages(s) \/ CheckUnhealthy(s)
      PROVE  RegistryInv'
  BY Zenon, <1>3, RegisterInv, UnregisterInv, HeartbeatInv, UnhealthyInv, SilentInv
<1>4. CASE UNCHANGED registryVars
  <2>1. UNCHANGED <<registered, status, fresh, client, manager, events, mirror,
                    dropped, stale, revived>>
    BY <1>4 DEF registryVars
  <2>2. MirrorInv'
    BY <2>1, ToParts, SameMirror
  <2> QED BY <2>1, <2>2 DEF RegistryInv, RegistryTypes
<1> QED BY <1>1, <1>2, <1>3, <1>4 DEF RegistryNext

\* What the registry and its mirror say of a store is so, for any number of
\* stores, any capacity of the event channel and any number of events.
THEOREM RegistryIsRight == RegistrySpec => []RegistryAgrees
<1>1. RegistryInv => RegistryAgrees
  <2> SUFFICES ASSUME RegistryInv PROVE RegistryAgrees
    OBVIOUS
  <2>1. ASSUME manager = "running", events = <<>>, ~dropped PROVE mirror = registered
    <3>1. \A s \in Infos : s \in mirror <=> s \in registered
      <4>1. DOMAIN events = {}
        BY <2>1
      <4> QED BY Zenon, <4>1, <2>1 DEF RegistryInv, MirrorInv
    <3> QED BY Zenon, <3>1 DEF RegistryInv, RegistryTypes
  <2> QED BY <2>1 DEF RegistryInv, RegistryAgrees
<1> QED BY <1>1, RegistryInitInv, RegistryNextInv, PTL DEF RegistrySpec

=============================================================================
