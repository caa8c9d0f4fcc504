------------------------- MODULE ChatMessagesProofs -------------------------
(***************************************************************************)
(* Theorems about ChatMessages, for any users, calls and client message    *)
(* ids: the answers of SendMessage agree, every listed member is notified  *)
(* once, only a race moves a read mark back, and the unread counts are     *)
(* exact at rest.                                                          *)
(***************************************************************************)
EXTENDS ChatMessages, TLAPS

\* The places of a call whose message is stored, and those of each handler.
Carries == {"setLast", "list", "push", "write"}
Sends   == {"lookup", "create"} \cup Carries
Reads   == {"readCheck", "readWrite"}
Others  == {"recallLoad", "recallWrite", "settingsWrite"}

Columns == {"stored", "active", "lastRead", "unread", "pinned", "counted"}

\* A request at a place of its handler has its fields.
RequestAt(p, r) ==
  /\ p \in {"idle"} \cup Sends \cup Reads \cup Others
  /\ p = "idle" => r = NoRequest
  /\ p \in Sends => /\ DOMAIN r = {"op", "user", "client", "id"}
                    /\ r.op = "send" /\ r.client \in ClientIds
  /\ p \in Reads => DOMAIN r = {"op", "user", "id"} /\ r.op = "read"
  /\ p \in Others => /\ DOMAIN r = {"op", "user", "id"}
                     /\ r.op \in {"recall", "settings"}
  /\ p # "idle" => r.user \in Users /\ r.id \in Nat

RequestOK(c) == RequestAt(pc[c], req[c])

CallTypes ==
  /\ DOMAIN pc = Calls /\ DOMAIN req = Calls /\ DOMAIN cnt = Calls
  /\ seen \in [Calls -> [Users -> Nat]] /\ todo \in [Calls -> SUBSET Users]
  /\ \A c \in Calls : RequestOK(c)

RowTypes ==
  /\ DOMAIN members = Users
  /\ \A u \in Users : DOMAIN members[u] = Columns /\ members[u].lastRead \in Nat

MessageTypes ==
  /\ nextId \in Nat
  /\ \A i \in DOMAIN messages :
       /\ i \in Nat /\ i < nextId
       /\ DOMAIN messages[i] = {"sender", "client", "revoked"}

PushTypes ==
  /\ listed \in [Ids -> SUBSET Users] /\ pushed \in [Users -> [Ids -> Nat]]

Types == CallTypes /\ RowTypes /\ MessageTypes /\ PushTypes

\* Message i is the one user u sent under client message id k.
IsMessage(i, u, k) ==
  i \in DOMAIN messages /\ messages[i].sender = u /\ messages[i].client = k

\* The unique key, and what was answered under it.
KeysInv ==
  /\ \A i, j \in DOMAIN messages :
       (/\ messages[i].sender = messages[j].sender
        /\ messages[i].client = messages[j].client) => i = j
  /\ \A a \in answers : IsMessage(a.id, a.user, a.client)
  /\ \A c \in Calls : pc[c] = "setLast" =>
       IsMessage(req[c].id, req[c].user, req[c].client)

\* A stored message has at most one call that carries it, which has sent it to
\* nobody it has still to send it to.
Unsent(i, u) == i \in Ids => pushed[u][i] = 0

Awaits(c, u) ==
  \/ pc[c] \in {"setLast", "list"}
  \/ pc[c] \in {"push", "write"} /\ u \in todo[c]

CarryInv ==
  /\ \A c \in Calls : pc[c] \in Carries => req[c].id < nextId
  /\ \A c, d \in Calls :
       pc[c] \in Carries /\ pc[d] \in Carries /\ req[c].id = req[d].id => c = d
  /\ \A i \in Nat, u \in Users : i >= nextId => Unsent(i, u)
  /\ \A c \in Calls, u \in Users : Awaits(c, u) => Unsent(req[c].id, u)

\* A call of ReadMessages that goes on to write moves the mark it has seen.
ReadInv ==
  \A c \in Calls : pc[c] = "readWrite" => req[c].id > seen[c][req[c].user]

-----------------------------------------------------------------------------
(***************************************************************************)
(* The counts.                                                             *)
(***************************************************************************)
Exact(u) ==
  members[u].active /\ members[u].counted =>
    members[u].unread = Cardinality(Unread(u))
AllExact == \A u \in Users : Exact(u)
LastExact == \A i \in DOMAIN messages : i <= lastMessageID

Busy(c) == pc[c] \in Sends \cup Reads

\* What is exact while call c runs and no other does.
Progress(c) ==
  /\ pc[c] \in {"lookup", "create"} \cup Reads => AllExact
  /\ pc[c] # "setLast" => LastExact
  /\ pc[c] = "setLast" => \A i \in DOMAIN messages : i <= req[c].id
  /\ pc[c] \in {"push", "write"} =>
       \A u \in Users : \/ u \in todo[c] \/ Exact(u)
                        \/ pc[c] = "write" /\ u = req[c].user
  /\ pc[c] \in {"push", "write"} =>
       \A u \in todo[c] : seen[c][u] = members[u].lastRead
  /\ pc[c] = "write" => /\ cnt[c] = Cardinality(Unread(req[c].user))
                        /\ req[c].user \notin todo[c]
  /\ pc[c] = "readWrite" => cnt[c] = UnreadAfter(req[c].user, req[c].id)

CountInv ==
  ~disturbed =>
    /\ \A c, d \in Calls : Busy(c) /\ Busy(d) => c = d
    /\ (\A c \in Calls : ~Busy(c)) => AllExact /\ LastExact
    /\ \A c \in Calls : Busy(c) => Progress(c)

Inv == Types /\ KeysInv /\ CarryInv /\ ListedNotifiedOnce /\ ReadInv /\ CountInv

-----------------------------------------------------------------------------
(***************************************************************************)
(* Steps that leave what is counted alone.                                 *)
(***************************************************************************)
SameMessages ==
  /\ DOMAIN messages' = DOMAIN messages
  /\ \A i \in DOMAIN messages :
       /\ DOMAIN messages'[i] = DOMAIN messages[i]
       /\ messages'[i].sender = messages[i].sender
       /\ messages'[i].client = messages[i].client

SameRows ==
  /\ DOMAIN members' = DOMAIN members
  /\ \A u \in Users :
       /\ DOMAIN members'[u] = DOMAIN members[u]
       /\ members'[u].active /\ members'[u].counted =>
            members[u].active /\ members[u].counted
       /\ members'[u].lastRead = members[u].lastRead
       /\ members'[u].unread = members[u].unread

Quiet == SameMessages /\ SameRows /\ lastMessageID' = lastMessageID

LEMMA QuietTypes ==
  ASSUME Types, Quiet, nextId' \in Nat, nextId' >= nextId
  PROVE  RowTypes' /\ MessageTypes'
<1>1. RowTypes'
  BY DEF Types, RowTypes, Quiet, SameRows
<1>2. MessageTypes'
  <2> SUFFICES ASSUME NEW i \in DOMAIN messages
               PROVE  /\ i \in Nat /\ i < nextId'
                      /\ DOMAIN messages'[i] = {"sender", "client", "revoked"}
    BY DEF MessageTypes, Quiet, SameMessages
  <2>1. nextId \in Nat /\ i \in Nat /\ i < nextId
    BY DEF Types, MessageTypes
  <2>2. DOMAIN messages'[i] = {"sender", "client", "revoked"}
    BY Zenon DEF Types, MessageTypes, Quiet, SameMessages
  <2> QED BY <2>1, <2>2
<1> QED BY <1>1, <1>2

LEMMA QuietCounts ==
  ASSUME Quiet
  PROVE  /\ \A i, u, k : IsMessage(i, u, k)' <=> IsMessage(i, u, k)
         /\ \A u, l : UnreadAfter(u, l)' = UnreadAfter(u, l)
         /\ \A u \in Users : Unread(u)' = Unread(u) /\ (Exact(u) => Exact(u)')
         /\ AllExact => AllExact'
         /\ LastExact => LastExact'
<1>1. \A i, u, k : IsMessage(i, u, k)' <=> IsMessage(i, u, k)
  BY Zenon DEF IsMessage, Quiet, SameMessages
<1>2. \A u, l : UnreadAfter(u, l)' = UnreadAfter(u, l)
  <2> TAKE u, l
  <2>1. {i \in DOMAIN messages' : i > l /\ messages'[i].sender # u}
          = {i \in DOMAIN messages : i > l /\ messages[i].sender # u}
    BY Zenon DEF Quiet, SameMessages
  <2> QED BY Zenon, <2>1 DEF UnreadAfter
<1>3. ASSUME NEW u \in Users PROVE Unread(u)' = Unread(u)
  BY Zenon DEF Quiet, SameMessages, SameRows, Unread
<1>4. ASSUME NEW u \in Users, Exact(u) PROVE Exact(u)'
  <2>1. /\ members'[u].active /\ members'[u].counted =>
             members[u].active /\ members[u].counted
        /\ members'[u].unread = members[u].unread
    BY Zenon DEF Quiet, SameRows
  <2> QED BY Zenon, <2>1, <1>3, <1>4 DEF Exact
<1>5. LastExact => LastExact'
  BY Zenon DEF LastExact, Quiet, SameMessages
<1> QED BY Zenon, <1>1, <1>2, <1>3, <1>4, <1>5 DEF AllExact

\* Call c steps and the others stay where they are.
CallStep(c) ==
  /\ DOMAIN pc' = Calls /\ DOMAIN req' = Calls /\ DOMAIN cnt' = Calls
  /\ \A d \in Calls : d # c =>
       /\ pc'[d] = pc[d] /\ req'[d] = req[d] /\ seen'[d] = seen[d]
       /\ cnt'[d] = cnt[d] /\ todo'[d] = todo[d]

LEMMA SameNext ==
  ASSUME Inv, nextId' = nextId
  PROVE  nextId' \in Nat /\ nextId' >= nextId
BY DEF Inv, Types, MessageTypes

LEMMA StepTypes ==
  ASSUME CallTypes, NEW c \in Calls, CallStep(c), RequestOK(c)',
         seen' \in [Calls -> [Users -> Nat]], todo' \in [Calls -> SUBSET Users]
  PROVE  CallTypes'
<1>1. ASSUME NEW d \in Calls, d # c PROVE RequestOK(d)'
  BY Zenon, <1>1 DEF CallTypes, CallStep, RequestOK
<1> QED BY Zenon, <1>1 DEF CallTypes, CallStep

\* Nothing is stored or answered under another key.
LEMMA KeysKept ==
  ASSUME KeysInv, SameMessages,
         \A a \in answers' : a \in answers \/ IsMessage(a.id, a.user, a.client),
         \A d \in Calls : pc'[d] = "setLast" => pc[d] = "setLast" /\ req'[d] = req[d]
  PROVE  KeysInv'
<1>1. \A i, u, k : IsMessage(i, u, k)' <=> IsMessage(i, u, k)
  BY Zenon DEF IsMessage, SameMessages
<1>2. \A i, j \in DOMAIN messages' :
        messages'[i].sender = messages'[j].sender
        /\ messages'[i].client = messages'[j].client => i = j
  BY Zenon DEF KeysInv, SameMessages
<1>3. \A a \in answers' : IsMessage(a.id, a.user, a.client)'
  BY Zenon, <1>1 DEF KeysInv
<1>4. ASSUME NEW d \in Calls, pc'[d] = "setLast"
      PROVE  IsMessage(req[d].id, req[d].user, req[d].client)'
  <2>1. IsMessage(req[d].id, req[d].user, req[d].client) /\ req'[d] = req[d]
    BY Zenon, <1>4 DEF KeysInv
  <2>2. PICK i, u, k : i = req[d].id /\ u = req[d].user /\ k = req[d].client
    OBVIOUS
  <2>3. IsMessage(i, u, k)' /\ i = req'[d].id /\ u = req'[d].user /\ k = req'[d].client
    BY Zenon, <1>1, <2>1, <2>2
  <2> QED BY Zenon, <2>3 DEF IsMessage
<1> QED BY Zenon, <1>2, <1>3, <1>4 DEF KeysInv

\* Every call that carries a message carried it before.
LEMMA CarryKept ==
  ASSUME Types, CarryInv, nextId' \in Nat, nextId' >= nextId, pushed' = pushed,
         \A d \in Calls : pc'[d] \in Carries =>
           /\ pc[d] \in Carries /\ req'[d].id = req[d].id
           /\ \A u \in Users : Awaits(d, u)' => Awaits(d, u)
  PROVE  CarryInv'
<1>1. \A i, u : Unsent(i, u)' <=> Unsent(i, u)
  BY Zenon DEF Unsent
<1>2. ASSUME NEW d \in Calls, pc'[d] \in Carries PROVE req'[d].id < nextId'
  <2>1. req[d].id \in Nat /\ nextId \in Nat /\ req[d].id < nextId
    BY <1>2 DEF CarryInv, Types, CallTypes, MessageTypes, RequestOK, RequestAt, Carries
  <2> QED BY <1>2, <2>1
<1>3. \A c, d \in Calls :
        pc'[c] \in Carries /\ pc'[d] \in Carries /\ req'[c].id = req'[d].id => c = d
  BY Zenon DEF CarryInv
<1>4. ASSUME NEW i \in Nat, NEW u \in Users, i >= nextId' PROVE Unsent(i, u)'
  <2>1. nextId \in Nat
    BY DEF Types, MessageTypes
  <2>2. i >= nextId
    BY <1>4, <2>1
  <2> QED BY Zenon, <1>1, <2>2 DEF CarryInv
<1>5. ASSUME NEW d \in Calls, NEW u \in Users, Awaits(d, u)'
      PROVE  Unsent(req[d].id, u)'
  <2>1. pc'[d] \in Carries
    BY <1>5 DEF Awaits, Carries
  <2>2. Unsent(req[d].id, u) /\ req'[d].id = req[d].id
    BY Zenon, <1>5, <2>1 DEF CarryInv
  <2> QED BY Zenon, <2>2 DEF Unsent
<1> QED BY Zenon, <1>2, <1>3, <1>4, <1>5 DEF CarryInv

\* Whoever has still to notify somebody goes on.
LEMMA NotifiedKept ==
  ASSUME ListedNotifiedOnce, pushed' = pushed, listed' = listed,
         \A d \in Calls : pc[d] \in {"push", "write"} =>
           \A u \in todo[d] : /\ pc'[d] \in {"push", "write"}
                              /\ req'[d].id = req[d].id /\ u \in todo'[d]
  PROVE  ListedNotifiedOnce'
<1> SUFFICES ASSUME NEW i \in Ids, NEW u \in Users
             PROVE  /\ pushed[u][i] <= 1
                    /\ u \in listed[i] =>
                         \/ pushed[u][i] = 1
                         \/ \E c \in Calls : /\ pc'[c] \in {"push", "write"}
                                             /\ req'[c].id = i /\ u \in todo'[c]
  BY DEF ListedNotifiedOnce, Ids
<1>1. ASSUME NEW c \in Calls, pc[c] \in {"push", "write"}, u \in todo[c]
      PROVE  /\ pc'[c] \in {"push", "write"} /\ req'[c].id = req[c].id
             /\ u \in todo'[c]
  BY Zenon, <1>1
<1>2. /\ pushed[u][i] <= 1
      /\ u \in listed[i] =>
           \/ pushed[u][i] = 1
           \/ \E c \in Calls : /\ pc[c] \in {"push", "write"}
                               /\ req[c].id = i /\ u \in todo[c]
  BY DEF ListedNotifiedOnce
<1>3. CASE \E c \in Calls : /\ pc[c] \in {"push", "write"}
                            /\ req[c].id = i /\ u \in todo[c]
  <2>1. PICK c \in Calls : /\ pc[c] \in {"push", "write"}
                           /\ req[c].id = i /\ u \in todo[c]
    BY Zenon, <1>3
  <2>2. /\ pc'[c] \in {"push", "write"} /\ req'[c].id = i /\ u \in todo'[c]
    BY Zenon, <1>1, <2>1
  <2> QED BY Zenon, <1>2, <2>2
<1> QED BY Zenon, <1>2, <1>3

LEMMA ReadKept ==
  ASSUME ReadInv,
         \A d \in Calls : pc'[d] = "readWrite" =>
           pc[d] = "readWrite" /\ req'[d] = req[d] /\ seen'[d] = seen[d]
  PROVE  ReadInv'
BY Zenon DEF ReadInv

LEMMA ProgressKept ==
  ASSUME Types, Quiet, NEW d \in Calls, Progress(d),
         pc'[d] = pc[d], req'[d] = req[d], seen'[d] = seen[d],
         cnt'[d] = cnt[d], todo'[d] = todo[d]
  PROVE  Progress(d)'
<1> USE QuietCounts
<1>1. pc'[d] \in {"lookup", "create"} \cup Reads => AllExact'
  BY Zenon DEF Progress
<1>2. pc'[d] # "setLast" => LastExact'
  BY Zenon DEF Progress
<1>3. pc'[d] = "setLast" => \A i \in DOMAIN messages' : i <= req'[d].id
  BY Zenon DEF Progress, Quiet, SameMessages
<1>4. ASSUME pc'[d] \in {"push", "write"}, NEW u \in Users
      PROVE  \/ u \in todo'[d] \/ Exact(u)'
             \/ pc'[d] = "write" /\ u = req'[d].user
  BY Zenon, <1>4 DEF Progress
<1>5. ASSUME pc'[d] \in {"push", "write"}, NEW u \in todo'[d]
      PROVE  seen'[d][u] = members'[u].lastRead
  <2>1. u \in Users
    BY <1>5 DEF Types, CallTypes
  <2> QED BY Zenon, <1>5, <2>1 DEF Progress, Quiet, SameRows
<1>6. pc'[d] = "write" => cnt'[d] = Cardinality(Unread(req[d].user)')
  <2> SUFFICES ASSUME pc[d] = "write" PROVE cnt[d] = Cardinality(Unread(req[d].user)')
    BY Zenon
  <2>1. PICK u \in Users : u = req[d].user
    BY DEF Types, CallTypes, RequestOK, RequestAt, Sends, Carries
  <2>2. Unread(u)' = Unread(u) /\ cnt[d] = Cardinality(Unread(u))
    BY Zenon, <2>1 DEF Progress
  <2> QED BY Zenon, <2>1, <2>2
<1>7. pc'[d] = "readWrite" => cnt'[d] = UnreadAfter(req[d].user, req[d].id)'
  BY Zenon DEF Progress
<1>8. pc'[d] = "write" => req'[d].user \notin todo'[d]
  BY Zenon DEF Progress
<1> QED BY Zenon, <1>1, <1>2, <1>3, <1>4, <1>5, <1>6, <1>7, <1>8 DEF Progress

\* The counts after a step of call c: c is still or newly the only one, or it
\* has left everything exact, and what it does to the tables while another call
\* runs is not counted.
LEMMA CountStep ==
  ASSUME Types, CountInv, NEW c \in Calls, CallStep(c),
         ~disturbed' => ~disturbed,
         ~disturbed' /\ Busy(c)' => Busy(c) \/ \A d \in Calls : ~Busy(d),
         ~disturbed' /\ Busy(c)' => Progress(c)',
         ~disturbed' /\ Busy(c) /\ ~Busy(c)' => AllExact' /\ LastExact',
         ~Busy(c) => Quiet
  PROVE  CountInv'
<1> SUFFICES ASSUME ~disturbed'
             PROVE  /\ \A d, e \in Calls : Busy(d)' /\ Busy(e)' => d = e
                    /\ (\A d \in Calls : ~Busy(d)') => AllExact' /\ LastExact'
                    /\ \A d \in Calls : Busy(d)' => Progress(d)'
  BY Zenon DEF CountInv
<1>1. /\ \A d, e \in Calls : Busy(d) /\ Busy(e) => d = e
      /\ (\A d \in Calls : ~Busy(d)) => AllExact /\ LastExact
      /\ \A d \in Calls : Busy(d) => Progress(d)
  BY Zenon DEF CountInv
<1>2. \A d \in Calls : d # c => (Busy(d)' <=> Busy(d))
  BY Zenon DEF CallStep, Busy
<1>3. \A d, e \in Calls : Busy(d)' /\ Busy(e)' => d = e
  BY Zenon, <1>1, <1>2
<1>4. ASSUME \A d \in Calls : ~Busy(d)' PROVE AllExact' /\ LastExact'
  <2>1. CASE Busy(c)
    BY Zenon, <1>4, <2>1
  <2>2. CASE ~Busy(c)
    <3>1. AllExact /\ LastExact
      BY Zenon, <1>1, <1>2, <1>4, <2>2
    <3> QED BY Zenon, <2>2, <3>1, QuietCounts
  <2> QED BY <2>1, <2>2
<1>5. ASSUME NEW d \in Calls, Busy(d)', d # c PROVE Progress(d)'
  <2>1. Busy(d) /\ ~Busy(c) /\ Progress(d) /\ Quiet
    BY Zenon, <1>1, <1>2, <1>5
  <2>2. /\ pc'[d] = pc[d] /\ req'[d] = req[d] /\ seen'[d] = seen[d]
        /\ cnt'[d] = cnt[d] /\ todo'[d] = todo[d]
    BY Zenon, <1>5 DEF CallStep
  <2> QED BY <2>1, <2>2, ProgressKept
<1> QED BY Zenon, <1>3, <1>4, <1>5

-----------------------------------------------------------------------------
(***************************************************************************)
(* Calls that begin and calls that end.                                    *)
(***************************************************************************)
LEMMA FinishFacts ==
  ASSUME Types, NEW c \in Calls, Finish(c)
  PROVE  /\ CallStep(c) /\ CallTypes'
         /\ pc'[c] = "idle" /\ req'[c] = NoRequest /\ todo'[c] = {}
<1>1. /\ DOMAIN pc = Calls /\ DOMAIN req = Calls /\ DOMAIN cnt = Calls
      /\ DOMAIN seen = Calls /\ DOMAIN todo = Calls
  BY DEF Types, CallTypes
<1>2. CallStep(c) /\ pc'[c] = "idle" /\ req'[c] = NoRequest /\ todo'[c] = {}
  BY <1>1 DEF Finish, Goto, CallStep
<1>3. RequestOK(c)'
  BY <1>2 DEF RequestOK, RequestAt, Sends, Carries, Reads, Others
<1>4. seen' \in [Calls -> [Users -> Nat]] /\ todo' \in [Calls -> SUBSET Users]
  <2>1. NothingSeen \in [Users -> Nat]
    BY DEF NothingSeen
  <2> QED BY <2>1 DEF Finish, Types, CallTypes
<1> QED BY Zenon, <1>2, <1>3, <1>4, StepTypes DEF Types

\* A call that ends, with every list it has been through and no count open.
LEMMA EndStep ==
  ASSUME Inv, NEW c \in Calls, Finish(c), Quiet, nextId' \in Nat, nextId' >= nextId,
         pushed' = pushed, listed' = listed,
         \A a \in answers' : a \in answers \/ IsMessage(a.id, a.user, a.client),
         pc[c] \in {"push", "write"} => todo[c] = {},
         ~disturbed' => ~disturbed /\ pc[c] \notin {"setLast", "list", "write"}
  PROVE  Inv'
<1>1. /\ CallStep(c) /\ CallTypes'
      /\ pc'[c] = "idle" /\ req'[c] = NoRequest /\ todo'[c] = {}
  BY FinishFacts DEF Inv
<1>2. \A d \in Calls : d # c =>
        /\ pc'[d] = pc[d] /\ req'[d] = req[d] /\ seen'[d] = seen[d]
        /\ todo'[d] = todo[d]
  BY Zenon, <1>1 DEF CallStep
<1>3. Types'
  <2>1. RowTypes' /\ MessageTypes'
    BY QuietTypes DEF Inv
  <2> QED BY Zenon, <1>1, <2>1 DEF Inv, Types, PushTypes
<1>4. KeysInv'
  <2>1. \A d \in Calls : pc'[d] = "setLast" => pc[d] = "setLast" /\ req'[d] = req[d]
    BY <1>1, <1>2
  <2> QED BY Zenon, <2>1, KeysKept DEF Inv, Quiet
<1>5. CarryInv'
  <2>1. ASSUME NEW d \in Calls, pc'[d] \in Carries
        PROVE  /\ pc[d] \in Carries /\ req'[d].id = req[d].id
               /\ \A u \in Users : Awaits(d, u)' => Awaits(d, u)
    <3>1. d # c
      BY <1>1, <2>1 DEF Carries
    <3> QED BY Zenon, <1>2, <2>1, <3>1 DEF Awaits
  <2> QED BY Zenon, <2>1, CarryKept DEF Inv
<1>6. ListedNotifiedOnce'
  <2>1. ASSUME NEW d \in Calls, pc[d] \in {"push", "write"}, NEW u \in todo[d]
        PROVE  /\ pc'[d] \in {"push", "write"}
               /\ req'[d].id = req[d].id /\ u \in todo'[d]
    BY Zenon, <1>2, <2>1
  <2> QED BY Zenon, <2>1, NotifiedKept DEF Inv
<1>7. ReadInv'
  <2>1. \A d \in Calls : pc'[d] = "readWrite" =>
          pc[d] = "readWrite" /\ req'[d] = req[d] /\ seen'[d] = seen[d]
    BY <1>1, <1>2
  <2> QED BY Zenon, <2>1, ReadKept DEF Inv
<1>8. CountInv'
  <2>1. ~Busy(c)'
    BY <1>1 DEF Busy, Sends, Carries, Reads
  <2>2. ASSUME ~disturbed', Busy(c) PROVE AllExact' /\ LastExact'
    <3>1. Progress(c) /\ pc[c] \in {"lookup", "create", "push"} \cup Reads
      BY <2>2 DEF Inv, CountInv, Busy, Sends, Carries, Reads
    <3>2. LastExact
      BY <3>1 DEF Progress, Reads
    <3>3. AllExact
      BY <3>1 DEF Progress, AllExact
    <3> QED BY Zenon, <3>2, <3>3, QuietCounts
  <2> QED BY Zenon, <1>1, <2>1, <2>2, CountStep DEF Inv
<1> QED BY Zenon, <1>3, <1>4, <1>5, <1>6, <1>7, <1>8 DEF Inv

LEMMA OverlapsBusy ==
  ASSUME Types, \E d \in Calls : Busy(d)
  PROVE  Overlaps
<1>1. PICK d \in Calls : Busy(d)
  OBVIOUS
<1>2. RequestAt(pc[d], req[d])
  BY DEF Types, CallTypes, RequestOK
<1> QED BY <1>1, <1>2 DEF Overlaps, Running, RequestAt, Busy, Sends, Carries, Reads

\* A call that begins, or is refused: only one that finds no other of
\* SendMessage and ReadMessages leaves the counts undisturbed.
LEMMA BeginStep ==
  ASSUME Inv, NEW c \in Calls, NEW r, NEW label, TakeMember(c, r, label),
         label \in {"lookup", "readCheck", "recallLoad", "settingsWrite"},
         RequestAt(label, r),
         ~disturbed' => ~disturbed,
         label \in {"lookup", "readCheck"} /\ ~disturbed' => ~Overlaps
  PROVE  Inv'
<1>1. /\ DOMAIN pc = Calls /\ DOMAIN req = Calls /\ DOMAIN cnt = Calls
      /\ DOMAIN seen = Calls /\ DOMAIN todo = Calls
  BY DEF Inv, Types, CallTypes
<1>2. /\ pc[c] = "idle" /\ cnt' = cnt /\ todo' = todo /\ answers' = answers
      /\ pushed' = pushed /\ listed' = listed /\ nextId' = nextId
      /\ UNCHANGED <<members, messages, lastMessageID>>
  BY DEF TakeMember, dbVars
<1>3. Quiet
  BY Zenon, <1>2 DEF Quiet, SameMessages, SameRows
<1>4. /\ CallStep(c)
      /\ \/ pc'[c] = "idle" /\ req'[c] = req[c]
         \/ pc'[c] = label /\ req'[c] = r
  <2>1. CASE members[r.user].active
    <3>1. PICK n : /\ pc' = [pc EXCEPT ![c] = label] /\ req' = [req EXCEPT ![c] = r]
                   /\ seen' = [seen EXCEPT ![c][r.user] = n]
      BY <2>1 DEF TakeMember, Goto
    <3> QED BY <1>1, <1>2, <3>1 DEF CallStep
  <2>2. CASE ~members[r.user].active
    <3>1. UNCHANGED <<pc, req, seen>>
      BY <2>2 DEF TakeMember
    <3> QED BY <1>1, <1>2, <3>1 DEF CallStep
  <2> QED BY <2>1, <2>2
<1>5. \A d \in Calls : d # c =>
        /\ pc'[d] = pc[d] /\ req'[d] = req[d] /\ seen'[d] = seen[d]
        /\ todo'[d] = todo[d]
  BY Zenon, <1>4 DEF CallStep
<1>6. Types'
  <2>1. RequestOK(c)'
    BY Zenon, <1>2, <1>4 DEF Inv, Types, CallTypes, RequestOK
  <2>2. seen' \in [Calls -> [Users -> Nat]]
    <3>1. r.user \in Users
      BY DEF RequestAt
    <3>2. members[r.user].lastRead \in Nat
      BY <3>1 DEF Inv, Types, RowTypes
    <3>3. seen \in [Calls -> [Users -> Nat]]
      BY DEF Inv, Types, CallTypes
    <3>4. PICK n \in Nat : seen' = seen \/ seen' = [seen EXCEPT ![c][r.user] = n]
      BY <3>2 DEF TakeMember
    <3> QED BY <3>1, <3>3, <3>4
  <2>3. RowTypes' /\ MessageTypes' /\ PushTypes'
    BY Zenon, <1>2 DEF Inv, Types, RowTypes, MessageTypes, PushTypes
  <2>4. CallTypes'
    BY Zenon, <1>2, <1>4, <2>1, <2>2, StepTypes DEF Inv, Types, CallTypes
  <2> QED BY Zenon, <2>3, <2>4 DEF Types
<1>7. KeysInv'
  <2>1. \A d \in Calls : pc'[d] = "setLast" => pc[d] = "setLast" /\ req'[d] = req[d]
    BY <1>4, <1>5
  <2> QED BY Zenon, <1>2, <1>3, <2>1, KeysKept DEF Inv, Quiet
<1>8. CarryInv'
  <2>1. ASSUME NEW d \in Calls, pc'[d] \in Carries
        PROVE  /\ pc[d] \in Carries /\ req'[d].id = req[d].id
               /\ \A u \in Users : Awaits(d, u)' => Awaits(d, u)
    <3>1. d # c
      BY <1>4, <2>1 DEF Carries
    <3> QED BY Zenon, <1>5, <2>1, <3>1 DEF Awaits
  <2>2. nextId' \in Nat /\ nextId' >= nextId
    BY Zenon, <1>2, SameNext
  <2> QED BY Zenon, <1>2, <2>1, <2>2, CarryKept DEF Inv
<1>9. ListedNotifiedOnce'
  <2>1. ASSUME NEW d \in Calls, pc[d] \in {"push", "write"}, NEW u \in todo[d]
        PROVE  /\ pc'[d] \in {"push", "write"}
               /\ req'[d].id = req[d].id /\ u \in todo'[d]
    <3>1. d # c
      BY <1>2, <2>1
    <3> QED BY Zenon, <1>5, <2>1, <3>1
  <2> QED BY Zenon, <1>2, <2>1, NotifiedKept DEF Inv
<1>10. ReadInv'
  <2>1. \A d \in Calls : pc'[d] = "readWrite" =>
          pc[d] = "readWrite" /\ req'[d] = req[d] /\ seen'[d] = seen[d]
    BY <1>4, <1>5
  <2> QED BY Zenon, <2>1, ReadKept DEF Inv
<1>11. CountInv'
  <2>1. ~Busy(c)
    BY <1>2 DEF Busy, Sends, Carries, Reads
  <2>2. ASSUME ~disturbed', Busy(c)'
        PROVE  (\A d \in Calls : ~Busy(d)) /\ Progress(c)'
    <3>1. label \in {"lookup", "readCheck"} /\ pc'[c] = label
      BY <1>4, <2>2 DEF Busy, Sends, Carries, Reads
    <3>2. \A d \in Calls : ~Busy(d)
      BY Zenon, <2>2, <3>1, OverlapsBusy DEF Inv
    <3>3. AllExact' /\ LastExact'
      BY Zenon, <1>3, <2>2, <3>2, QuietCounts DEF Inv, CountInv
    <3> QED BY <3>1, <3>2, <3>3 DEF Progress
  <2> QED BY Zenon, <1>3, <1>4, <2>1, <2>2, CountStep DEF Inv
<1> QED BY Zenon, <1>6, <1>7, <1>8, <1>9, <1>10, <1>11 DEF Inv

LEMMA BeginInv ==
  ASSUME Inv, NEW c \in Calls,
         \/ SendMessage(c) \/ ReadMessages(c) \/ RecallMessage(c)
         \/ UpdateConversationSettings(c)
  PROVE  Inv'
<1>1. CASE SendMessage(c)
  <2>1. PICK u \in Users, k \in ClientIds :
          TakeMember(c, [op |-> "send", user |-> u, client |-> k, id |-> 0], "lookup")
    BY <1>1 DEF SendMessage
  <2>2. RequestAt("lookup", [op |-> "send", user |-> u, client |-> k, id |-> 0])
    BY DEF RequestAt, Sends, Carries, Reads, Others
  <2>3. ~disturbed' => ~disturbed /\ ~Overlaps
    BY Zenon, <1>1 DEF SendMessage
  <2> QED BY <2>1, <2>2, <2>3, BeginStep
<1>2. CASE ReadMessages(c)
  <2>1. PICK u \in Users, i \in {0} \cup Ids :
          TakeMember(c, [op |-> "read", user |-> u, id |-> i], "readCheck")
    BY <1>2 DEF ReadMessages
  <2>2. RequestAt("readCheck", [op |-> "read", user |-> u, id |-> i])
    BY BoundsAssumption DEF RequestAt, Sends, Carries, Reads, Others, Ids
  <2>3. ~disturbed' => ~disturbed /\ ~Overlaps
    BY Zenon, <1>2 DEF ReadMessages
  <2> QED BY <2>1, <2>2, <2>3, BeginStep
<1>3. CASE RecallMessage(c)
  <2>1. PICK u \in Users, i \in Ids :
          TakeMember(c, [op |-> "recall", user |-> u, id |-> i], "recallLoad")
    BY <1>3 DEF RecallMessage
  <2>2. RequestAt("recallLoad", [op |-> "recall", user |-> u, id |-> i])
    BY BoundsAssumption DEF RequestAt, Sends, Carries, Reads, Others, Ids
  <2>3. ~disturbed' => ~disturbed
    BY Zenon, <1>3 DEF RecallMessage
  <2> QED BY <2>1, <2>2, <2>3, BeginStep
<1>4. CASE UpdateConversationSettings(c)
  <2>1. PICK u \in Users :
          TakeMember(c, [op |-> "settings", user |-> u, id |-> 0], "settingsWrite")
    BY <1>4 DEF UpdateConversationSettings
  <2>2. RequestAt("settingsWrite", [op |-> "settings", user |-> u, id |-> 0])
    BY DEF RequestAt, Sends, Carries, Reads, Others
  <2>3. ~disturbed' => ~disturbed
    BY Zenon, <1>4 DEF UpdateConversationSettings
  <2> QED BY <2>1, <2>2, <2>3, BeginStep
<1> QED BY <1>1, <1>2, <1>3, <1>4

LEMMA StillQuiet ==
  ASSUME UNCHANGED <<members, messages, lastMessageID>>
  PROVE  Quiet
BY Zenon DEF Quiet, SameMessages, SameRows

LEMMA EndInv ==
  ASSUME Inv, NEW c \in Calls,
         \/ AnswerExisting(c) \/ BroadcastEnds(c) \/ ReadRefused(c) \/ RecallWrite(c)
         \/ SettingsWrite(c) \/ HandlerReturns(c)
         \/ CreateMessage(c) /\ Duplicate(req[c])
         \/ ListMembers(c) /\ c \in cancelled
         \/ RecallLoad(c) /\ Finish(c)
  PROVE  Inv'
<1>1. nextId \in Nat
  BY DEF Inv, Types, MessageTypes
<1>2. CASE AnswerExisting(c)
  <2>1. PICK i \in SameKey(req[c]) : answers' = answers \cup
          {[user |-> req[c].user, client |-> req[c].client, id |-> i]}
    BY <1>2 DEF AnswerExisting
  <2>2. IsMessage(i, req[c].user, req[c].client)
    BY DEF SameKey, IsMessage
  <2>3. \A a \in answers' : a \in answers \/ IsMessage(a.id, a.user, a.client)
    BY <2>1, <2>2
  <2>4. /\ Finish(c) /\ pc[c] = "lookup" /\ disturbed' = disturbed
        /\ UNCHANGED <<members, messages, nextId, lastMessageID, listed, pushed>>
    BY <1>2 DEF AnswerExisting, dbVars
  <2> QED BY <1>1, <2>3, <2>4, StillQuiet, EndStep
<1>3. CASE BroadcastEnds(c) \/ ReadRefused(c) \/ HandlerReturns(c)
  <2>1. /\ Finish(c) /\ disturbed' = disturbed /\ answers' = answers
        /\ pc[c] \notin {"setLast", "list", "write"} /\ (pc[c] = "push" => todo[c] = {})
        /\ UNCHANGED <<members, messages, nextId, lastMessageID, listed, pushed>>
    BY <1>3 DEF BroadcastEnds, ReadRefused, HandlerReturns, dbVars, histVars
  <2> QED BY <1>1, <2>1, StillQuiet, EndStep
<1>4. CASE RecallLoad(c) /\ Finish(c)
  <2>1. /\ disturbed' = disturbed /\ answers' = answers /\ pc[c] = "recallLoad"
        /\ UNCHANGED <<members, messages, nextId, lastMessageID, listed, pushed>>
    BY <1>4 DEF RecallLoad, dbVars, histVars
  <2> QED BY <1>1, <1>4, <2>1, StillQuiet, EndStep
<1>5. CASE RecallWrite(c)
  <2>1. /\ Finish(c) /\ disturbed' = disturbed /\ answers' = answers
        /\ pc[c] = "recallWrite"
        /\ messages' = [messages EXCEPT ![req[c].id].revoked = TRUE]
        /\ UNCHANGED <<members, nextId, lastMessageID, listed, pushed>>
    BY <1>5 DEF RecallWrite, histVars
  <2>2. \A i \in DOMAIN messages : DOMAIN messages[i] = {"sender", "client", "revoked"}
    BY DEF Inv, Types, MessageTypes
  <2>3. SameMessages
    BY <2>1, <2>2 DEF SameMessages
  <2>4. Quiet
    BY Zenon, <2>1, <2>3 DEF Quiet, SameRows
  <2> QED BY <1>1, <2>1, <2>4, EndStep
<1>6. CASE SettingsWrite(c)
  <2> DEFINE u == req[c].user
  <2>1. /\ Finish(c) /\ disturbed' = disturbed /\ answers' = answers
        /\ pc[c] = "settingsWrite"
        /\ members' = Updated(u, [members[u] EXCEPT !.pinned = TRUE])
        /\ UNCHANGED <<messages, nextId, lastMessageID, listed, pushed>>
    BY <1>6 DEF SettingsWrite, histVars
  <2>2. SameRows
    <3>1. /\ DOMAIN members = Users
          /\ \A v \in Users : DOMAIN members[v] = Columns
      BY DEF Inv, Types, RowTypes
    <3> HIDE DEF u
    <3>2. \/ members' = members
          \/ members' = [members EXCEPT ![u] = [members[u] EXCEPT !.pinned = TRUE]]
      BY <2>1 DEF Updated
    <3> QED BY <3>1, <3>2 DEF SameRows, Columns
  <2>3. Quiet
    BY Zenon, <2>1, <2>2 DEF Quiet, SameMessages
  <2> QED BY <1>1, <2>1, <2>3, EndStep
<1>7. CASE CreateMessage(c) /\ Duplicate(req[c])
  <2>1. /\ Finish(c) /\ disturbed' = disturbed /\ answers' = answers
        /\ pc[c] = "create" /\ nextId' = nextId + 1
        /\ UNCHANGED <<members, messages, lastMessageID, listed, pushed>>
    BY <1>7 DEF CreateMessage, histVars
  <2> QED BY <1>1, <2>1, StillQuiet, EndStep
<1>8. CASE ListMembers(c) /\ c \in cancelled
  <2>1. /\ Finish(c) /\ disturbed' = TRUE /\ answers' = answers /\ pc[c] = "list"
        /\ UNCHANGED <<members, messages, nextId, lastMessageID, listed, pushed>>
    BY <1>8 DEF ListMembers, dbVars
  <2> QED BY <1>1, <2>1, StillQuiet, EndStep
<1> QED BY <1>2, <1>3, <1>4, <1>5, <1>6, <1>7, <1>8

-----------------------------------------------------------------------------
(***************************************************************************)
(* Calls that go on.                                                       *)
(***************************************************************************)
\* Nothing but the context of a call changes, or a member is removed.
LEMMA StayInv ==
  ASSUME Inv, Quiet,
         UNCHANGED <<nextId, pc, req, seen, cnt, todo, answers, listed, pushed, disturbed>>
  PROVE  Inv'
<1>1. Types'
  <2>1. nextId \in Nat
    BY DEF Inv, Types, MessageTypes
  <2>2. RowTypes' /\ MessageTypes'
    BY <2>1, QuietTypes DEF Inv
  <2> QED BY Zenon, <2>2 DEF Inv, Types, CallTypes, PushTypes, RequestOK
<1>2. KeysInv'
  BY Zenon, KeysKept DEF Inv, Quiet
<1>3. CarryInv' /\ ListedNotifiedOnce' /\ ReadInv'
  BY Zenon DEF Inv, CarryInv, ListedNotifiedOnce, ReadInv, Unsent, Awaits
<1>4. CountInv'
  <2>1. \A d \in Calls : Busy(d)' <=> Busy(d)
    BY Zenon DEF Busy
  <2>2. \A d \in Calls : Progress(d) => Progress(d)'
    BY Zenon, ProgressKept DEF Inv
  <2> QED BY Zenon, <2>1, <2>2, QuietCounts DEF Inv, CountInv
<1> QED BY Zenon, <1>1, <1>2, <1>3, <1>4 DEF Inv

\* A step of a handler between two statements that store nothing.
LEMMA MoveStep ==
  ASSUME Inv, NEW c \in Calls, NEW l, pc' = [pc EXCEPT ![c] = l], CallStep(c),
         UNCHANGED <<members, messages, nextId, req, seen, todo, pushed, listed>>,
         \/ pc[c] = "lookup" /\ l = "create"
         \/ pc[c] = "readCheck" /\ l = "readWrite" /\ req[c].id > seen[c][req[c].user]
         \/ pc[c] = "recallLoad" /\ l = "recallWrite"
         \/ pc[c] = "setLast" /\ l = "list",
         \A a \in answers' : a \in answers \/ IsMessage(a.id, a.user, a.client),
         CountInv'
  PROVE  Inv'
<1>1. pc'[c] = l /\ \A d \in Calls : d # c => pc'[d] = pc[d]
  BY DEF Inv, Types, CallTypes
<1>2. Types'
  <2>1. RequestAt(pc[c], req[c])
    BY DEF Inv, Types, CallTypes, RequestOK
  <2>2. RequestAt(l, req[c])
    BY <2>1 DEF RequestAt, Sends, Carries, Reads, Others
  <2>3. RequestOK(c)'
    BY Zenon, <1>1, <2>2 DEF RequestOK
  <2>4. CallTypes'
    BY Zenon, <2>3, StepTypes DEF Inv, Types, CallTypes
  <2> QED BY Zenon, <2>4 DEF Inv, Types, RowTypes, MessageTypes, PushTypes
<1>3. KeysInv'
  <2>1. \A d \in Calls : pc'[d] = "setLast" => pc[d] = "setLast" /\ req'[d] = req[d]
    BY <1>1
  <2>2. SameMessages
    BY Zenon DEF SameMessages
  <2> QED BY Zenon, <2>1, <2>2, KeysKept DEF Inv
<1>4. CarryInv'
  <2>1. ASSUME NEW d \in Calls, pc'[d] \in Carries
        PROVE  /\ pc[d] \in Carries /\ req'[d].id = req[d].id
               /\ \A u \in Users : Awaits(d, u)' => Awaits(d, u)
    BY <1>1, <2>1 DEF Awaits, Carries
  <2>2. nextId' \in Nat /\ nextId' >= nextId
    BY DEF Inv, Types, MessageTypes
  <2> QED BY Zenon, <2>1, <2>2, CarryKept DEF Inv
<1>5. ListedNotifiedOnce'
  <2>1. ASSUME NEW d \in Calls, pc[d] \in {"push", "write"}, NEW u \in todo[d]
        PROVE  /\ pc'[d] \in {"push", "write"}
               /\ req'[d].id = req[d].id /\ u \in todo'[d]
    BY <1>1, <2>1
  <2> QED BY Zenon, <2>1, NotifiedKept DEF Inv
<1>6. ReadInv'
  BY <1>1 DEF Inv, ReadInv
<1> QED BY Zenon, <1>2, <1>3, <1>4, <1>5, <1>6 DEF Inv

LEMMA MoveInv ==
  ASSUME Inv, NEW c \in Calls,
         \/ LookupMisses(c) \/ SetLastMessage(c) \/ SetLastFails(c) \/ ReadAccepted(c)
         \/ RecallLoad(c) /\ ~Finish(c)
  PROVE  Inv'
<1>1. /\ DOMAIN pc = Calls /\ DOMAIN cnt = Calls /\ DOMAIN req = Calls
  BY DEF Inv, Types, CallTypes
<1>2. ASSUME ~disturbed, Busy(c) PROVE Progress(c)
  BY Zenon, <1>2 DEF Inv, CountInv
<1>3. CASE LookupMisses(c) \/ (RecallLoad(c) /\ ~Finish(c))
  <2>1. PICK l : /\ pc' = [pc EXCEPT ![c] = l]
                 /\ \/ pc[c] = "lookup" /\ l = "create"
                    \/ pc[c] = "recallLoad" /\ l = "recallWrite"
    BY <1>3 DEF LookupMisses, RecallLoad, Goto
  <2>2. /\ UNCHANGED <<members, messages, nextId, lastMessageID>>
        /\ UNCHANGED <<req, seen, cnt, todo, pushed, listed, answers, disturbed>>
    BY <1>3 DEF LookupMisses, RecallLoad, dbVars, histVars
  <2>3. CallStep(c) /\ pc'[c] = l
    BY <1>1, <2>1, <2>2 DEF CallStep
  <2>4. Quiet
    BY <2>2, StillQuiet
  <2>5. CountInv'
    <3>1. Busy(c)' <=> Busy(c)
      BY <2>1, <2>3 DEF Busy, Sends, Carries, Reads
    <3>2. ASSUME ~disturbed, Busy(c) PROVE Progress(c)'
      <4>1. pc[c] = "lookup" /\ pc'[c] = "create"
        BY <2>1, <2>3, <3>2 DEF Busy, Sends, Carries, Reads
      <4>2. AllExact /\ LastExact
        BY <1>2, <3>2, <4>1 DEF Progress
      <4>3. AllExact' /\ LastExact'
        BY Zenon, <2>4, <4>2, QuietCounts
      <4> QED BY <4>1, <4>3 DEF Progress
    <3> QED BY Zenon, <2>2, <2>3, <2>4, <3>1, <3>2, CountStep DEF Inv
  <2> QED BY <2>1, <2>2, <2>3, <2>5, MoveStep
<1>4. CASE SetLastMessage(c) \/ SetLastFails(c)
  <2>1. /\ pc[c] = "setLast" /\ pc' = [pc EXCEPT ![c] = "list"]
        /\ UNCHANGED <<members, messages, nextId, req, seen, cnt, todo, pushed, listed>>
        /\ answers' = answers \cup
             {[user |-> req[c].user, client |-> req[c].client, id |-> req[c].id]}
        /\ ~disturbed' => ~disturbed /\ lastMessageID' = req[c].id
    BY <1>4 DEF SetLastMessage, SetLastFails, Goto, dbVars
  <2>2. CallStep(c) /\ pc'[c] = "list"
    BY <1>1, <2>1 DEF CallStep
  <2>3. \A a \in answers' : a \in answers \/ IsMessage(a.id, a.user, a.client)
    <3>1. IsMessage(req[c].id, req[c].user, req[c].client)
      BY <2>1 DEF Inv, KeysInv
    <3> QED BY <2>1, <3>1
  <2>4. Busy(c) /\ Busy(c)'
    BY <2>1, <2>2 DEF Busy, Sends, Carries
  <2>5. ASSUME ~disturbed' PROVE Progress(c)'
    <3>1. \A i \in DOMAIN messages : i <= req[c].id
      BY <1>2, <2>1, <2>4, <2>5 DEF Progress
    <3>2. LastExact'
      BY Zenon, <2>1, <2>5, <3>1 DEF LastExact
    <3> QED BY <2>2, <3>2 DEF Progress, Reads
  <2>6. CountInv'
    BY Zenon, <2>1, <2>2, <2>4, <2>5, CountStep DEF Inv
  <2> QED BY <2>1, <2>2, <2>3, <2>6, MoveStep
<1>5. CASE ReadAccepted(c)
  <2>1. /\ pc[c] = "readCheck" /\ pc' = [pc EXCEPT ![c] = "readWrite"]
        /\ cnt' = [cnt EXCEPT ![c] = UnreadAfter(req[c].user, req[c].id)]
        /\ UNCHANGED <<members, messages, nextId, lastMessageID>>
        /\ UNCHANGED <<req, seen, todo, pushed, listed, answers, disturbed>>
    BY <1>5 DEF ReadAccepted, Goto, dbVars, histVars
  <2>2. req[c].id > seen[c][req[c].user]
    <3>1. req[c].id \in Nat /\ req[c].user \in Users
      BY <2>1 DEF Inv, Types, CallTypes, RequestOK, RequestAt
    <3>2. seen[c][req[c].user] \in Nat
      BY <3>1 DEF Inv, Types, CallTypes
    <3>3. ~(req[c].id <= seen[c][req[c].user])
      BY <1>5 DEF ReadAccepted, ReadIsVoid
    <3> QED BY <3>1, <3>2, <3>3
  <2>3. /\ CallStep(c) /\ pc'[c] = "readWrite"
        /\ cnt'[c] = UnreadAfter(req[c].user, req[c].id)
    BY <1>1, <2>1 DEF CallStep
  <2>4. Quiet
    BY <2>1, StillQuiet
  <2>5. Busy(c) /\ Busy(c)'
    BY <2>1, <2>3 DEF Busy, Reads
  <2>6. ASSUME ~disturbed' PROVE Progress(c)'
    <3>1. AllExact /\ LastExact
      BY <1>2, <2>1, <2>5, <2>6 DEF Progress, Reads
    <3>2. AllExact' /\ LastExact'
      BY Zenon, <2>4, <3>1, QuietCounts
    <3>3. cnt'[c] = UnreadAfter(req[c].user, req[c].id)' /\ req' = req
      BY Zenon, <2>1, <2>3, <2>4, QuietCounts
    <3>4. pc'[c] \notin {"setLast", "push", "write"}
      BY <2>3
    <3> QED BY Zenon, <3>2, <3>3, <3>4 DEF Progress
  <2>7. CountInv'
    BY Zenon, <2>1, <2>3, <2>4, <2>5, <2>6, CountStep DEF Inv
  <2> QED BY <2>1, <2>2, <2>3, <2>7, MoveStep
<1> QED BY Zenon, <1>3, <1>4, <1>5

-----------------------------------------------------------------------------
(***************************************************************************)
(* Create stores the message under a fresh id.                             *)
(***************************************************************************)
LEMMA CreateInv ==
  ASSUME Inv, NEW c \in Calls, CreateMessage(c), ~Duplicate(req[c])
  PROVE  Inv'
<1> DEFINE user == req[c].user
           client == req[c].client
<1>1. /\ pc[c] = "create" /\ nextId' = nextId + 1 /\ pc' = [pc EXCEPT ![c] = "setLast"]
      /\ messages' = [i \in DOMAIN messages \cup {nextId} |->
           IF i = nextId THEN [sender |-> user, client |-> client, revoked |-> FALSE]
                         ELSE messages[i]]
      /\ req' = [req EXCEPT ![c].id = nextId]
      /\ UNCHANGED <<members, lastMessageID, seen, cnt, todo>>
      /\ UNCHANGED <<answers, listed, pushed, disturbed>>
  BY DEF CreateMessage, Goto, histVars
<1>2. \A i \in DOMAIN messages : ~(messages[i].sender = user /\ messages[i].client = client)
  BY Zenon DEF Duplicate
<1>3. /\ nextId \in Nat /\ DOMAIN pc = Calls /\ DOMAIN req = Calls /\ DOMAIN cnt = Calls
      /\ \A i \in DOMAIN messages : i \in Nat /\ i < nextId
      /\ seen \in [Calls -> [Users -> Nat]] /\ todo \in [Calls -> SUBSET Users]
  BY DEF Inv, Types, CallTypes, MessageTypes
<1>4. /\ pc'[c] = "setLast" /\ req'[c] = [req[c] EXCEPT !.id = nextId]
      /\ \A d \in Calls : d # c => pc'[d] = pc[d] /\ req'[d] = req[d]
  BY <1>1, <1>3
<1>5. CallStep(c)
  BY Zenon, <1>1, <1>3, <1>4 DEF CallStep
<1>6. DOMAIN req[c] = {"op", "user", "client", "id"} /\ RequestAt("create", req[c])
  BY <1>1 DEF Inv, Types, CallTypes, RequestOK, RequestAt, Sends
<1>7. req'[c].id = nextId /\ req'[c].user = user /\ req'[c].client = client
  BY <1>4, <1>6
<1>8. RequestAt("setLast", req'[c])
  BY <1>3, <1>4, <1>6 DEF RequestAt, Sends, Carries, Reads, Others
<1>9. /\ DOMAIN messages' = DOMAIN messages \cup {nextId}
      /\ messages'[nextId] = [sender |-> user, client |-> client, revoked |-> FALSE]
      /\ nextId \notin DOMAIN messages
      /\ \A i \in DOMAIN messages : messages'[i] = messages[i]
  <2>1. nextId \notin DOMAIN messages
    BY <1>3
  <2> QED BY <1>1, <2>1
<1> HIDE DEF user, client
<1>10. Types'
  <2>1. CallTypes'
    <3>1. RequestOK(c)'
      BY Zenon, <1>4, <1>8 DEF RequestOK
    <3> QED BY Zenon, <1>1, <1>3, <1>5, <3>1, StepTypes DEF Inv, Types
  <2>2. MessageTypes'
    <3>1. ASSUME NEW i \in DOMAIN messages'
          PROVE  /\ i \in Nat /\ i < nextId'
                 /\ DOMAIN messages'[i] = {"sender", "client", "revoked"}
      <4>1. CASE i = nextId
        <5>1. DOMAIN messages'[i] = {"sender", "client", "revoked"}
          BY <1>9, <4>1
        <5> QED BY <1>1, <1>3, <4>1, <5>1
      <4>2. CASE i # nextId
        <5>1. i \in DOMAIN messages /\ messages'[i] = messages[i]
          BY <1>9, <4>2
        <5>2. DOMAIN messages[i] = {"sender", "client", "revoked"}
          BY <5>1 DEF Inv, Types, MessageTypes
        <5> QED BY <1>1, <1>3, <5>1, <5>2
      <4> QED BY <4>1, <4>2
    <3>2. nextId' \in Nat
      BY <1>1, <1>3
    <3> QED BY Zenon, <3>1, <3>2 DEF MessageTypes
  <2> QED BY Zenon, <1>1, <2>1, <2>2 DEF Inv, Types, RowTypes, PushTypes
<1>11. KeysInv'
  <2>1. messages'[nextId].sender = user /\ messages'[nextId].client = client
    BY <1>9
  <2>2. ASSUME NEW i \in DOMAIN messages', NEW j \in DOMAIN messages',
               messages'[i].sender = messages'[j].sender,
               messages'[i].client = messages'[j].client
        PROVE  i = j
    <3>1. CASE i = nextId \/ j = nextId
      BY Zenon, <1>2, <1>9, <2>1, <2>2, <3>1
    <3>2. CASE i # nextId /\ j # nextId
      BY Zenon, <1>9, <2>2, <3>2 DEF Inv, KeysInv
    <3> QED BY <3>1, <3>2
  <2>3. \A i, u, k : IsMessage(i, u, k) => IsMessage(i, u, k)'
    BY Zenon, <1>9 DEF IsMessage
  <2>4. \A a \in answers' : IsMessage(a.id, a.user, a.client)'
    BY Zenon, <1>1, <2>3 DEF Inv, KeysInv
  <2>5. ASSUME NEW d \in Calls, pc'[d] = "setLast"
        PROVE  IsMessage(req[d].id, req[d].user, req[d].client)'
    <3>1. CASE d = c
      BY Zenon, <1>7, <1>9, <2>1, <3>1 DEF IsMessage
    <3>2. CASE d # c
      <4>1. req'[d] = req[d] /\ IsMessage(req[d].id, req[d].user, req[d].client)
        BY Zenon, <1>4, <2>5, <3>2 DEF Inv, KeysInv
      <4>2. PICK i, u, k : i = req[d].id /\ u = req[d].user /\ k = req[d].client
        OBVIOUS
      <4>3. IsMessage(i, u, k)'
        BY Zenon, <2>3, <4>1, <4>2
      <4> QED BY Zenon, <4>1, <4>2, <4>3 DEF IsMessage
    <3> QED BY <3>1, <3>2
  <2> QED BY Zenon, <2>2, <2>4, <2>5 DEF KeysInv
<1>12. CarryInv'
  <2>1. \A i, u : Unsent(i, u)' <=> Unsent(i, u)
    BY Zenon, <1>1 DEF Unsent
  <2>2. ASSUME NEW d \in Calls, d # c, pc'[d] \in Carries
        PROVE  /\ pc[d] \in Carries /\ req'[d].id = req[d].id
               /\ req[d].id \in Nat /\ req[d].id < nextId
    BY <1>4, <2>2 DEF Inv, CarryInv, Types, CallTypes, RequestOK, RequestAt, Carries
  <2>3. ASSUME NEW d \in Calls, pc'[d] \in Carries PROVE req'[d].id < nextId'
    BY <1>1, <1>3, <1>7, <2>2, <2>3
  <2>4. ASSUME NEW d \in Calls, NEW e \in Calls,
               pc'[d] \in Carries, pc'[e] \in Carries, req'[d].id = req'[e].id
        PROVE  d = e
    <3>1. CASE d # c /\ e # c
      BY Zenon, <2>2, <2>4, <3>1 DEF Inv, CarryInv
    <3>2. CASE d = c \/ e = c
      BY <1>3, <1>7, <2>2, <2>4, <3>2
    <3> QED BY <3>1, <3>2
  <2>5. ASSUME NEW i \in Nat, NEW u \in Users, i >= nextId' PROVE Unsent(i, u)'
    <3>1. i >= nextId
      BY <1>1, <1>3, <2>5
    <3> QED BY Zenon, <2>1, <3>1 DEF Inv, CarryInv
  <2>6. ASSUME NEW d \in Calls, NEW u \in Users, Awaits(d, u)'
        PROVE  Unsent(req[d].id, u)'
    <3>1. PICK i : i = req'[d].id
      OBVIOUS
    <3>2. Unsent(i, u)
      <4>1. CASE d = c
        <5>1. i = nextId /\ i >= nextId
          BY <1>3, <1>7, <3>1, <4>1
        <5> QED BY Zenon, <1>3, <5>1 DEF Inv, CarryInv
      <4>2. CASE d # c
        <5>1. Awaits(d, u) /\ req'[d] = req[d]
          BY Zenon, <1>1, <1>4, <2>6, <4>2 DEF Awaits
        <5> QED BY Zenon, <3>1, <5>1 DEF Inv, CarryInv
      <4> QED BY <4>1, <4>2
    <3>3. Unsent(i, u)'
      BY Zenon, <2>1, <3>2
    <3> QED BY Zenon, <3>1, <3>3 DEF Unsent
  <2> QED BY Zenon, <2>3, <2>4, <2>5, <2>6 DEF CarryInv
<1>13. ListedNotifiedOnce'
  <2>1. ASSUME NEW d \in Calls, pc[d] \in {"push", "write"}, NEW u \in todo[d]
        PROVE  /\ pc'[d] \in {"push", "write"}
               /\ req'[d].id = req[d].id /\ u \in todo'[d]
    BY <1>1, <1>4, <2>1
  <2> QED BY Zenon, <1>1, <2>1, NotifiedKept DEF Inv
<1>14. ReadInv'
  <2>1. \A d \in Calls : pc'[d] = "readWrite" =>
          pc[d] = "readWrite" /\ req'[d] = req[d] /\ seen'[d] = seen[d]
    BY <1>1, <1>4
  <2> QED BY Zenon, <2>1, ReadKept DEF Inv
<1>15. CountInv'
  <2>1. Busy(c) /\ Busy(c)'
    BY <1>1, <1>4 DEF Busy, Sends, Carries
  <2>2. \A i \in DOMAIN messages' : i <= req'[c].id
    BY <1>3, <1>7, <1>9
  <2>3. Progress(c)'
    BY <1>4, <2>2 DEF Progress, Reads
  <2> QED BY Zenon, <1>1, <1>5, <2>1, <2>3, CountStep DEF Inv
<1> QED BY Zenon, <1>10, <1>11, <1>12, <1>13, <1>14, <1>15 DEF Inv

-----------------------------------------------------------------------------
(***************************************************************************)
(* The goroutine of SendMessage.                                           *)
(***************************************************************************)
LEMMA ListInv ==
  ASSUME Inv, NEW c \in Calls, ListMembers(c), c \notin cancelled
  PROVE  Inv'
<1> DEFINE active == {u \in Users : members[u].active}
           id == req[c].id
<1>1. /\ pc[c] = "list" /\ pc' = [pc EXCEPT ![c] = "push"]
      /\ todo' = [todo EXCEPT ![c] = active]
      /\ seen' = [seen EXCEPT ![c] = [u \in Users |-> members[u].lastRead]]
      /\ listed' = [listed EXCEPT ![id] = active]
      /\ UNCHANGED <<members, messages, nextId, lastMessageID>>
      /\ UNCHANGED <<req, cnt, disturbed, answers, pushed>>
  BY DEF ListMembers, Goto, dbVars
<1>2. /\ DOMAIN pc = Calls /\ DOMAIN req = Calls /\ DOMAIN cnt = Calls
      /\ seen \in [Calls -> [Users -> Nat]] /\ todo \in [Calls -> SUBSET Users]
      /\ listed \in [Ids -> SUBSET Users] /\ active \in SUBSET Users
      /\ [u \in Users |-> members[u].lastRead] \in [Users -> Nat]
  BY DEF Inv, Types, CallTypes, RowTypes, PushTypes
<1>3. /\ pc'[c] = "push" /\ todo'[c] = active
      /\ \A u \in Users : seen'[c][u] = members[u].lastRead
      /\ \A d \in Calls : d # c =>
           pc'[d] = pc[d] /\ seen'[d] = seen[d] /\ todo'[d] = todo[d]
  BY <1>1, <1>2
<1>4. CallStep(c)
  BY Zenon, <1>1, <1>2, <1>3 DEF CallStep
<1>5. \A i \in Ids : listed'[i] = (IF i = id THEN active ELSE listed[i])
  BY <1>1, <1>2
<1>6. listed' \in [Ids -> SUBSET Users] /\ seen' \in [Calls -> [Users -> Nat]]
      /\ todo' \in [Calls -> SUBSET Users]
  BY <1>1, <1>2
<1>7. Quiet
  BY <1>1, StillQuiet
<1>8. \A u \in Users : u \notin active => ~members[u].active
  OBVIOUS
<1> HIDE DEF active, id
<1>9. Types'
  <2>1. RequestAt("list", req[c])
    BY Zenon, <1>1 DEF Inv, Types, CallTypes, RequestOK
  <2>2. RequestAt("push", req[c])
    BY <2>1 DEF RequestAt, Sends, Carries, Reads, Others
  <2>3. RequestOK(c)'
    BY Zenon, <1>1, <1>3, <2>2 DEF RequestOK
  <2>4. CallTypes'
    BY Zenon, <1>4, <1>6, <2>3, StepTypes DEF Inv, Types
  <2> QED BY Zenon, <1>1, <1>6, <2>4 DEF Inv, Types, RowTypes, MessageTypes, PushTypes
<1>10. KeysInv'
  <2>1. \A d \in Calls : pc'[d] = "setLast" => pc[d] = "setLast" /\ req'[d] = req[d]
    BY <1>1, <1>3
  <2> QED BY Zenon, <1>1, <1>7, <2>1, KeysKept DEF Inv, Quiet
<1>11. CarryInv'
  <2>1. ASSUME NEW d \in Calls, pc'[d] \in Carries
        PROVE  /\ pc[d] \in Carries /\ req'[d].id = req[d].id
               /\ \A u \in Users : Awaits(d, u)' => Awaits(d, u)
    BY <1>1, <1>3, <2>1 DEF Awaits, Carries
  <2>2. nextId' \in Nat /\ nextId' >= nextId
    BY Zenon, <1>1, SameNext
  <2> QED BY Zenon, <1>1, <2>1, <2>2, CarryKept DEF Inv
<1>12. ListedNotifiedOnce'
  <2>a. pushed' = pushed
    BY Zenon, <1>1
  <2> SUFFICES ASSUME NEW i \in Ids, NEW u \in Users
               PROVE  /\ pushed[u][i] <= 1
                      /\ u \in listed'[i] =>
                           \/ pushed[u][i] = 1
                           \/ \E d \in Calls : /\ pc'[d] \in {"push", "write"}
                                               /\ req'[d].id = i /\ u \in todo'[d]
    BY <2>a DEF ListedNotifiedOnce, Ids
  <2>1. /\ pushed[u][i] <= 1
        /\ u \in listed[i] =>
             \/ pushed[u][i] = 1
             \/ \E d \in Calls : /\ pc[d] \in {"push", "write"}
                                 /\ req[d].id = i /\ u \in todo[d]
    BY DEF Inv, ListedNotifiedOnce
  <2>2. CASE i = id
    <3>1. /\ listed'[i] = active /\ pc'[c] \in {"push", "write"}
          /\ req'[c].id = i /\ todo'[c] = active
      BY <1>1, <1>3, <1>5, <2>2 DEF id
    <3> QED BY Zenon, <2>1, <3>1
  <2>3. CASE i # id
    <3>1. ASSUME NEW d \in Calls, pc[d] \in {"push", "write"}, req[d].id = i, u \in todo[d]
          PROVE  pc'[d] \in {"push", "write"} /\ req'[d].id = i /\ u \in todo'[d]
      BY <1>1, <1>3, <3>1
    <3>2. listed'[i] = listed[i]
      BY <1>5, <2>3
    <3> QED BY Zenon, <2>1, <3>1, <3>2
  <2> QED BY <2>2, <2>3
<1>13. ReadInv'
  <2>1. \A d \in Calls : pc'[d] = "readWrite" =>
          pc[d] = "readWrite" /\ req'[d] = req[d] /\ seen'[d] = seen[d]
    BY <1>1, <1>3
  <2> QED BY Zenon, <2>1, ReadKept DEF Inv
<1>14. CountInv'
  <2>1. Busy(c) /\ Busy(c)'
    BY <1>1, <1>3 DEF Busy, Sends, Carries
  <2>2. ASSUME ~disturbed' PROVE Progress(c)'
    <3>1. Progress(c)
      BY Zenon, <1>1, <2>1, <2>2 DEF Inv, CountInv
    <3>2. LastExact'
      BY <1>1, <1>7, <3>1, QuietCounts DEF Progress
    <3>3. \A u \in Users : u \in todo'[c] \/ Exact(u)'
      BY Zenon, <1>1, <1>3, <1>8 DEF Exact
    <3>4. \A u \in todo'[c] : seen'[c][u] = members'[u].lastRead
      BY <1>1, <1>2, <1>3
    <3> QED BY <1>3, <3>2, <3>3, <3>4 DEF Progress, Reads
  <2> QED BY Zenon, <1>1, <1>4, <2>1, <2>2, CountStep DEF Inv
<1> QED BY Zenon, <1>9, <1>10, <1>11, <1>12, <1>13, <1>14 DEF Inv

LEMMA OneMore ==
  ASSUME NEW S, NEW f \in [S -> Nat], NEW i
  PROVE  /\ [f EXCEPT ![i] = @ + 1] \in [S -> Nat]
         /\ \A j \in S : [f EXCEPT ![i] = @ + 1][j] = IF j = i THEN f[j] + 1 ELSE f[j]
<1> DEFINE g == [f EXCEPT ![i] = @ + 1]
<1>1. DOMAIN g = S /\ \A j \in S : g[j] = IF j = i THEN f[j] + 1 ELSE f[j]
  OBVIOUS
<1>2. \A j \in S : g[j] \in Nat
  BY <1>1
<1>3. g = [j \in S |-> g[j]]
  BY Zenon, <1>1
<1> QED BY Zenon, <1>1, <1>2, <1>3

LEMMA NotifyInv ==
  ASSUME Inv, NEW c \in Calls, NotifyMember(c)
  PROVE  Inv'
<1> DEFINE id == req[c].id
<1>1. PICK u \in todo[c] :
        /\ pushed' = [pushed EXCEPT ![u][id] = @ + 1]
        /\ todo' = [todo EXCEPT ![c] = @ \ {u}]
        /\ IF c \in cancelled
             THEN disturbed' = TRUE /\ UNCHANGED <<pc, req, cnt>>
             ELSE /\ cnt' = [cnt EXCEPT ![c] = UnreadAfter(u, seen[c][u])]
                  /\ req' = [req EXCEPT ![c].user = u]
                  /\ pc' = [pc EXCEPT ![c] = "write"]
                  /\ UNCHANGED disturbed
  BY DEF NotifyMember, Goto
<1>2. /\ pc[c] = "push" /\ UNCHANGED <<members, messages, nextId, lastMessageID>>
      /\ UNCHANGED <<seen, answers, listed>>
  BY DEF NotifyMember, dbVars
<1>3. /\ DOMAIN pc = Calls /\ DOMAIN req = Calls /\ DOMAIN cnt = Calls
      /\ seen \in [Calls -> [Users -> Nat]] /\ todo \in [Calls -> SUBSET Users]
      /\ pushed \in [Users -> [Ids -> Nat]] /\ RequestAt("push", req[c])
      /\ nextId \in Nat
  BY <1>2 DEF Inv, Types, CallTypes, PushTypes, RequestOK, MessageTypes
<1>4. u \in Users /\ id \in Nat /\ DOMAIN req[c] = {"op", "user", "client", "id"}
  BY <1>3 DEF RequestAt, Sends, Carries
<1>5. /\ pc'[c] \in {"push", "write"} /\ req'[c].id = id /\ RequestAt("push", req'[c])
      /\ DOMAIN pc' = Calls /\ DOMAIN req' = Calls /\ DOMAIN cnt' = Calls
      /\ \A d \in Calls : d # c => pc'[d] = pc[d] /\ req'[d] = req[d] /\ cnt'[d] = cnt[d]
  <2>1. CASE c \in cancelled
    BY <1>1, <1>2, <1>3, <2>1
  <2>2. CASE c \notin cancelled
    <3>1. /\ cnt' = [cnt EXCEPT ![c] = UnreadAfter(u, seen[c][u])]
          /\ req' = [req EXCEPT ![c].user = u] /\ pc' = [pc EXCEPT ![c] = "write"]
      BY <1>1, <2>2
    <3>2. RequestAt("push", req'[c]) /\ req'[c].id = id
      BY <1>3, <1>4, <3>1 DEF RequestAt, Sends, Carries, Reads, Others
    <3> QED BY <1>3, <3>1, <3>2
  <2> QED BY <2>1, <2>2
<1>6. /\ todo' \in [Calls -> SUBSET Users] /\ todo'[c] = todo[c] \ {u}
      /\ \A d \in Calls : d # c => todo'[d] = todo[d]
  BY <1>1, <1>3
<1>7. /\ pushed' \in [Users -> [Ids -> Nat]]
      /\ \A i \in Ids, v \in Users :
           pushed'[v][i] = IF v = u /\ i = id THEN pushed[v][i] + 1 ELSE pushed[v][i]
  <2> DEFINE f == [pushed[u] EXCEPT ![id] = @ + 1]
  <2>1. pushed' = [pushed EXCEPT ![u] = f] /\ pushed[u] \in [Ids -> Nat]
    BY <1>1, <1>3, <1>4
  <2>2. /\ f \in [Ids -> Nat]
        /\ \A i \in Ids : f[i] = IF i = id THEN pushed[u][i] + 1 ELSE pushed[u][i]
    BY <2>1, OneMore
  <2> HIDE DEF f
  <2> QED BY <1>3, <1>4, <2>1, <2>2
<1>8. CallStep(c)
  BY Zenon, <1>2, <1>5, <1>6 DEF CallStep
<1>9. Quiet
  BY <1>2, StillQuiet
<1>10. Unsent(id, u)
  BY <1>2, <1>4 DEF Inv, CarryInv, Awaits
<1>11. Types'
  <2>1. RequestAt(pc'[c], req'[c])
    BY <1>5 DEF RequestAt, Sends, Carries, Reads, Others
  <2>2. CallTypes'
    BY Zenon, <1>2, <1>3, <1>6, <1>8, <2>1, StepTypes DEF Inv, Types, RequestOK
  <2> QED BY Zenon, <1>2, <1>7, <2>2 DEF Inv, Types, RowTypes, MessageTypes, PushTypes
<1> HIDE DEF id
<1>12. KeysInv'
  <2>1. \A d \in Calls : pc'[d] = "setLast" => pc[d] = "setLast" /\ req'[d] = req[d]
    BY <1>5
  <2> QED BY Zenon, <1>2, <1>9, <2>1, KeysKept DEF Inv, Quiet
<1>13. CarryInv'
  <2>1. \A d \in Calls : /\ pc'[d] \in Carries <=> pc[d] \in Carries
                         /\ req'[d].id = req[d].id
    BY <1>2, <1>5 DEF Carries, id
  <2>2. id < nextId
    BY <1>2 DEF Inv, CarryInv, Carries, id
  <2>3. /\ \A d \in Calls : pc'[d] \in Carries => req'[d].id < nextId'
        /\ \A d, e \in Calls :
             pc'[d] \in Carries /\ pc'[e] \in Carries /\ req'[d].id = req'[e].id => d = e
    BY Zenon, <1>2, <2>1 DEF Inv, CarryInv
  <2>4. ASSUME NEW i, NEW v \in Users, Unsent(i, v), ~(v = u /\ i = id)
        PROVE  Unsent(i, v)'
    <3> SUFFICES ASSUME i \in Ids PROVE pushed'[v][i] = 0
      BY DEF Unsent, Ids
    <3> QED BY <1>7, <2>4 DEF Unsent
  <2>5. ASSUME NEW i \in Nat, NEW v \in Users, i >= nextId' PROVE Unsent(i, v)'
    <3>1. i >= nextId /\ i # id
      BY <1>2, <1>3, <1>4, <2>2, <2>5
    <3> QED BY Zenon, <2>4, <3>1 DEF Inv, CarryInv
  <2>6. ASSUME NEW d \in Calls, NEW v \in Users, Awaits(d, v)'
        PROVE  Unsent(req[d].id, v)'
    <3>1. Awaits(d, v) /\ ~(d = c /\ v = u)
      BY <1>2, <1>5, <1>6, <2>6 DEF Awaits
    <3>2. PICK i : i = req[d].id
      OBVIOUS
    <3>3. Unsent(i, v)
      BY Zenon, <3>1, <3>2 DEF Inv, CarryInv
    <3>4. ~(v = u /\ i = id)
      <4>1. pc[d] \in Carries /\ pc[c] \in Carries
        BY <1>2, <3>1 DEF Awaits, Carries
      <4> QED BY Zenon, <3>1, <3>2, <4>1 DEF Inv, CarryInv, id
    <3>5. Unsent(i, v)' /\ i = req'[d].id
      BY Zenon, <2>1, <2>4, <3>2, <3>3, <3>4
    <3> QED BY Zenon, <3>5 DEF Unsent
  <2> QED BY Zenon, <2>3, <2>5, <2>6 DEF CarryInv
<1>14. ListedNotifiedOnce'
  <2>a. listed' = listed
    BY Zenon, <1>2
  <2> SUFFICES ASSUME NEW i \in Ids, NEW v \in Users
               PROVE  /\ pushed'[v][i] <= 1
                      /\ v \in listed[i] =>
                           \/ pushed'[v][i] = 1
                           \/ \E d \in Calls : /\ pc'[d] \in {"push", "write"}
                                               /\ req'[d].id = i /\ v \in todo'[d]
    BY <2>a DEF ListedNotifiedOnce, Ids
  <2>1. /\ pushed[v][i] <= 1
        /\ v \in listed[i] =>
             \/ pushed[v][i] = 1
             \/ \E d \in Calls : /\ pc[d] \in {"push", "write"}
                                 /\ req[d].id = i /\ v \in todo[d]
    BY DEF Inv, ListedNotifiedOnce
  <2>2. CASE v = u /\ i = id
    <3>1. pushed[v][i] = 0
      BY <1>10, <2>2 DEF Unsent
    <3>2. pushed'[v][i] = 1
      BY <1>7, <2>2, <3>1
    <3> QED BY <3>2
  <2>3. CASE ~(v = u /\ i = id)
    <3>1. ASSUME NEW d \in Calls, pc[d] \in {"push", "write"}, req[d].id = i, v \in todo[d]
          PROVE  pc'[d] \in {"push", "write"} /\ req'[d].id = i /\ v \in todo'[d]
      BY <1>5, <1>6, <2>3, <3>1 DEF id
    <3>2. pushed'[v][i] = pushed[v][i]
      BY <1>7, <2>3
    <3> QED BY Zenon, <2>1, <3>1, <3>2
  <2> QED BY <2>2, <2>3
<1>15. ReadInv'
  <2>1. \A d \in Calls : pc'[d] = "readWrite" =>
          pc[d] = "readWrite" /\ req'[d] = req[d] /\ seen'[d] = seen[d]
    BY <1>2, <1>5
  <2> QED BY Zenon, <2>1, ReadKept DEF Inv
<1>16. CountInv'
  <2>1. Busy(c) /\ Busy(c)'
    BY <1>2, <1>5 DEF Busy, Sends, Carries
  <2>2. ASSUME ~disturbed' PROVE ~disturbed /\ Progress(c)'
    <3>1. /\ ~disturbed /\ cnt' = [cnt EXCEPT ![c] = UnreadAfter(u, seen[c][u])]
          /\ req' = [req EXCEPT ![c].user = u] /\ pc' = [pc EXCEPT ![c] = "write"]
      BY Zenon, <1>1, <2>2
    <3>2. Progress(c)
      BY Zenon, <2>1, <3>1 DEF Inv, CountInv
    <3>3. /\ LastExact /\ \A v \in Users : v \in todo[c] \/ Exact(v)
          /\ \A v \in todo[c] : seen[c][v] = members[v].lastRead
      BY <1>2, <3>2 DEF Progress
    <3>4. pc'[c] = "write" /\ req'[c].user = u /\ cnt'[c] = UnreadAfter(u, seen[c][u])
      BY <1>3, <1>4, <3>1
    <3>5. cnt'[c] = Cardinality(Unread(u)')
      <4>1. UnreadAfter(u, members[u].lastRead) = Cardinality(Unread(u))
        BY Zenon DEF UnreadAfter, Unread
      <4>2. Unread(u)' = Unread(u)
        BY Zenon, <1>4, <1>9, QuietCounts
      <4>3. seen[c][u] = members[u].lastRead
        BY Zenon, <3>3
      <4> QED BY Zenon, <3>4, <4>1, <4>2, <4>3
    <3>6. LastExact' /\ \A v \in Users : v \in todo'[c] \/ Exact(v)' \/ v = u
      BY Zenon, <1>6, <1>9, <3>3, QuietCounts
    <3>7. \A v \in todo'[c] : seen'[c][v] = members'[v].lastRead
      BY Zenon, <1>2, <1>6, <3>3
    <3>8. u \notin todo'[c]
      BY <1>6
    <3> QED BY <3>1, <3>4, <3>5, <3>6, <3>7, <3>8 DEF Progress, Reads
  <2> QED BY Zenon, <1>8, <2>1, <2>2, CountStep DEF Inv
<1> QED BY Zenon, <1>11, <1>12, <1>13, <1>14, <1>15, <1>16 DEF Inv

\* A row that is written keeps its columns, whoever writes it.
LEMMA UpdatedRow ==
  ASSUME RowTypes, NEW u \in Users, NEW row, DOMAIN row = Columns,
         row.active = members[u].active, row.lastRead \in Nat,
         members' = Updated(u, row)
  PROVE  /\ RowTypes'
         /\ \A v \in Users : v # u => members'[v] = members[v]
         /\ members'[u].active = members[u].active
         /\ members[u].active => members'[u] = row
<1>1. /\ DOMAIN members' = Users
      /\ \A v \in Users : v # u => members'[v] = members[v]
      /\ members'[u] = row \/ members'[u] = members[u]
      /\ members[u].active => members'[u] = row
  <2>1. CASE members[u].active
    <3>1. members' = [members EXCEPT ![u] = row]
      BY <2>1 DEF Updated
    <3> QED BY <3>1 DEF RowTypes
  <2>2. CASE ~members[u].active
    <3>1. members' = members
      BY <2>2 DEF Updated
    <3> QED BY <2>2, <3>1 DEF RowTypes
  <2> QED BY <2>1, <2>2
<1>2. ASSUME NEW v \in Users
      PROVE  DOMAIN members'[v] = Columns /\ members'[v].lastRead \in Nat
  BY <1>1 DEF RowTypes
<1>3. members'[u].active = members[u].active
  BY Zenon, <1>1
<1> QED BY Zenon, <1>1, <1>2, <1>3 DEF RowTypes

LEMMA WriteInv ==
  ASSUME Inv, NEW c \in Calls, WriteUnread(c)
  PROVE  Inv'
<1>1. PICK u : u = req[c].user
  OBVIOUS
<1>2. /\ pc[c] = "write" /\ pc' = [pc EXCEPT ![c] = "push"]
      /\ cnt' = [cnt EXCEPT ![c] = 0] /\ seen' = [seen EXCEPT ![c][u] = 0]
      /\ UNCHANGED <<messages, nextId, lastMessageID, req, todo>>
      /\ UNCHANGED <<answers, listed, pushed>>
      /\ \/ disturbed' = TRUE /\ members' = members
         \/ disturbed' = disturbed
            /\ members' = Updated(u, [members[u] EXCEPT !.unread = cnt[c], !.counted = TRUE])
  BY <1>1 DEF WriteUnread, UnreadColumn, Goto
<1>3. /\ DOMAIN pc = Calls /\ DOMAIN req = Calls /\ DOMAIN cnt = Calls
      /\ seen \in [Calls -> [Users -> Nat]] /\ todo \in [Calls -> SUBSET Users]
      /\ RequestAt("write", req[c]) /\ nextId \in Nat
      /\ RowTypes
  BY <1>2 DEF Inv, Types, CallTypes, RequestOK, MessageTypes
<1>4. u \in Users
  BY <1>1, <1>3 DEF RequestAt
<1>5. seen' \in [Calls -> [Users -> Nat]]
  BY <1>2, <1>3, <1>4
<1>6. /\ pc'[c] = "push"
      /\ \A v \in Users : v # u => seen'[c][v] = seen[c][v]
      /\ \A d \in Calls : d # c => pc'[d] = pc[d] /\ cnt'[d] = cnt[d] /\ seen'[d] = seen[d]
  BY <1>2, <1>3, <1>4
<1>7. CallStep(c)
  BY Zenon, <1>2, <1>3, <1>6 DEF CallStep
<1>8. PICK row : row = [members[u] EXCEPT !.unread = cnt[c], !.counted = TRUE]
  OBVIOUS
<1>9. /\ DOMAIN row = Columns /\ row.active = members[u].active
      /\ row.lastRead = members[u].lastRead /\ row.lastRead \in Nat /\ row.unread = cnt[c]
  <2>1. DOMAIN members[u] = Columns /\ members[u].lastRead \in Nat
    BY <1>3, <1>4 DEF RowTypes
  <2> QED BY <1>8, <2>1 DEF Columns
<1>10. /\ RowTypes'
       /\ \A v \in Users : v # u => members'[v] = members[v]
       /\ members'[u].active = members[u].active /\ members'[u].lastRead = members[u].lastRead
       /\ disturbed' \/ (members[u].active => members'[u] = row)
  <2>1. CASE members' = members /\ disturbed' = TRUE
    BY Zenon, <1>3, <2>1 DEF RowTypes
  <2>2. CASE members' = Updated(u, row)
    <3>1. /\ RowTypes'
          /\ \A v \in Users : v # u => members'[v] = members[v]
          /\ members'[u].active = members[u].active
          /\ members[u].active => members'[u] = row
      BY <1>3, <1>4, <1>9, <2>2, UpdatedRow
    <3>2. ~members[u].active => members' = members
      BY <2>2 DEF Updated
    <3> QED BY Zenon, <1>9, <3>1, <3>2
  <2> QED BY Zenon, <1>2, <1>8, <2>1, <2>2
<1>11. SameMessages
  BY Zenon, <1>2 DEF SameMessages
<1>12. Types'
  <2>1. RequestAt("push", req[c])
    BY <1>3 DEF RequestAt, Sends, Carries, Reads, Others
  <2>2. RequestOK(c)'
    BY Zenon, <1>2, <1>6, <2>1 DEF RequestOK
  <2>3. CallTypes'
    BY Zenon, <1>2, <1>3, <1>5, <1>7, <2>2, StepTypes DEF Inv, Types
  <2> QED BY Zenon, <1>2, <1>10, <2>3 DEF Inv, Types, MessageTypes, PushTypes
<1>13. KeysInv'
  <2>1. \A d \in Calls : pc'[d] = "setLast" => pc[d] = "setLast" /\ req'[d] = req[d]
    BY <1>2, <1>6
  <2> QED BY Zenon, <1>2, <1>11, <2>1, KeysKept DEF Inv
<1>14. CarryInv'
  <2>1. ASSUME NEW d \in Calls, pc'[d] \in Carries
        PROVE  /\ pc[d] \in Carries /\ req'[d].id = req[d].id
               /\ \A v \in Users : Awaits(d, v)' => Awaits(d, v)
    BY <1>2, <1>6, <2>1 DEF Awaits, Carries
  <2>2. nextId' \in Nat /\ nextId' >= nextId
    BY Zenon, <1>2, SameNext
  <2> QED BY Zenon, <1>2, <2>1, <2>2, CarryKept DEF Inv
<1>15. ListedNotifiedOnce'
  <2>1. ASSUME NEW d \in Calls, pc[d] \in {"push", "write"}, NEW v \in todo[d]
        PROVE  /\ pc'[d] \in {"push", "write"}
               /\ req'[d].id = req[d].id /\ v \in todo'[d]
    BY <1>2, <1>6, <2>1
  <2> QED BY Zenon, <1>2, <2>1, NotifiedKept DEF Inv
<1>16. ReadInv'
  <2>1. \A d \in Calls : pc'[d] = "readWrite" =>
          pc[d] = "readWrite" /\ req'[d] = req[d] /\ seen'[d] = seen[d]
    BY <1>2, <1>6
  <2> QED BY Zenon, <2>1, ReadKept DEF Inv
<1>17. CountInv'
  <2>1. Busy(c) /\ Busy(c)'
    BY <1>2, <1>6 DEF Busy, Sends, Carries
  <2>2. ASSUME ~disturbed' PROVE ~disturbed /\ Progress(c)'
    <3>1. disturbed' = disturbed
      BY Zenon, <1>2, <2>2
    <3>2. ~disturbed
      BY Zenon, <2>2, <3>1
    <3>3. members[u].active => members'[u] = row
      BY Zenon, <1>10, <2>2
    <3>4. Progress(c)
      BY Zenon, <2>1, <3>2 DEF Inv, CountInv
    <3>5. /\ LastExact /\ \A v \in Users : v \in todo[c] \/ Exact(v) \/ v = u
          /\ \A v \in todo[c] : seen[c][v] = members[v].lastRead
          /\ cnt[c] = Cardinality(Unread(u)) /\ u \notin todo[c]
      BY <1>1, <1>2, <3>4 DEF Progress
    <3>6. LastExact'
      BY Zenon, <1>2, <3>5 DEF LastExact
    <3>7. Exact(u)'
      <4>1. Unread(u)' = Unread(u)
        BY Zenon, <1>2, <1>10 DEF Unread
      <4> QED BY Zenon, <1>9, <1>10, <3>3, <3>5, <4>1 DEF Exact
    <3>8. ASSUME NEW v \in Users, v # u, Exact(v) PROVE Exact(v)'
      BY Zenon, <1>2, <1>10, <3>8 DEF Exact, Unread
    <3>9. \A v \in Users : v \in todo'[c] \/ Exact(v)'
      BY Zenon, <1>2, <3>5, <3>7, <3>8
    <3>10. \A v \in todo'[c] : seen'[c][v] = members'[v].lastRead
      BY <1>2, <1>3, <1>6, <1>10, <3>5
    <3> QED BY <1>6, <3>2, <3>6, <3>9, <3>10 DEF Progress, Reads
  <2> QED BY Zenon, <1>7, <2>1, <2>2, CountStep DEF Inv
<1> QED BY Zenon, <1>12, <1>13, <1>14, <1>15, <1>16, <1>17 DEF Inv

-----------------------------------------------------------------------------
(***************************************************************************)
(* ReadMessages writes its row, the server stops, and the beginning.       *)
(***************************************************************************)
LEMMA ReadRow ==
  ASSUME Inv, NEW c \in Calls, WriteRead(c)
  PROVE  /\ RowTypes' /\ req[c].user \in Users /\ req[c].id \in Nat
         /\ \A v \in Users : v # req[c].user => members'[v] = members[v]
         /\ members'[req[c].user].active = members[req[c].user].active
         /\ members[req[c].user].active =>
              /\ members'[req[c].user].lastRead = req[c].id
              /\ members'[req[c].user].unread = cnt[c]
         /\ ~members[req[c].user].active => members' = members
<1>1. PICK u, i, n : u = req[c].user /\ i = req[c].id /\ n = cnt[c]
  OBVIOUS
<1>2. pc[c] = "readWrite"
  BY DEF WriteRead
<1>3. u \in Users /\ i \in Nat
  BY <1>1, <1>2 DEF Inv, Types, CallTypes, RequestOK, RequestAt
<1>4. PICK row : row = [members[u] EXCEPT !.lastRead = i, !.unread = n, !.counted = TRUE]
  OBVIOUS
<1>5. members' = Updated(u, row)
  BY Zenon, <1>1, <1>4 DEF WriteRead, RowAfterRead
<1>6. RowTypes /\ DOMAIN members[u] = Columns
  BY <1>3 DEF Inv, Types, RowTypes
<1>7. /\ DOMAIN row = Columns /\ row.active = members[u].active
      /\ row.lastRead = i /\ row.unread = n
  BY <1>4, <1>6 DEF Columns
<1>8. /\ RowTypes'
      /\ \A v \in Users : v # u => members'[v] = members[v]
      /\ members'[u].active = members[u].active
      /\ members[u].active => members'[u] = row
  BY <1>3, <1>5, <1>6, <1>7, UpdatedRow
<1>9. ~members[u].active => members' = members
  BY <1>5 DEF Updated
<1> QED BY Zenon, <1>1, <1>3, <1>7, <1>8, <1>9

LEMMA ReadWriteInv ==
  ASSUME Inv, NEW c \in Calls, WriteRead(c)
  PROVE  Inv'
<1>1. PICK u, i, n : u = req[c].user /\ i = req[c].id /\ n = cnt[c]
  OBVIOUS
<1>2. /\ pc[c] = "readWrite" /\ Finish(c)
      /\ UNCHANGED <<messages, nextId, lastMessageID, answers, listed, pushed, disturbed>>
  BY DEF WriteRead, histVars
<1>3. /\ RowTypes' /\ u \in Users /\ i \in Nat
      /\ \A v \in Users : v # u => members'[v] = members[v]
      /\ members'[u].active = members[u].active
      /\ members[u].active => members'[u].lastRead = i /\ members'[u].unread = n
  BY Zenon, <1>1, ReadRow
<1>4. /\ CallStep(c) /\ CallTypes'
      /\ pc'[c] = "idle" /\ req'[c] = NoRequest /\ todo'[c] = {}
  BY <1>2, FinishFacts DEF Inv
<1>5. \A d \in Calls : d # c =>
        /\ pc'[d] = pc[d] /\ req'[d] = req[d] /\ seen'[d] = seen[d]
        /\ todo'[d] = todo[d]
  BY Zenon, <1>4 DEF CallStep
<1>6. Types'
  BY Zenon, <1>2, <1>3, <1>4 DEF Inv, Types, MessageTypes, PushTypes
<1>7. KeysInv'
  <2>1. \A d \in Calls : pc'[d] = "setLast" => pc[d] = "setLast" /\ req'[d] = req[d]
    BY <1>4, <1>5
  <2>2. SameMessages
    BY Zenon, <1>2 DEF SameMessages
  <2> QED BY Zenon, <1>2, <2>1, <2>2, KeysKept DEF Inv
<1>8. CarryInv'
  <2>1. ASSUME NEW d \in Calls, pc'[d] \in Carries
        PROVE  /\ pc[d] \in Carries /\ req'[d].id = req[d].id
               /\ \A v \in Users : Awaits(d, v)' => Awaits(d, v)
    <3>1. d # c
      BY <1>4, <2>1 DEF Carries
    <3> QED BY Zenon, <1>5, <2>1, <3>1 DEF Awaits
  <2>2. nextId' \in Nat /\ nextId' >= nextId
    BY Zenon, <1>2, SameNext
  <2> QED BY Zenon, <1>2, <2>1, <2>2, CarryKept DEF Inv
<1>9. ListedNotifiedOnce'
  <2>1. ASSUME NEW d \in Calls, pc[d] \in {"push", "write"}, NEW v \in todo[d]
        PROVE  /\ pc'[d] \in {"push", "write"}
               /\ req'[d].id = req[d].id /\ v \in todo'[d]
    BY <1>2, <1>5, <2>1
  <2> QED BY Zenon, <1>2, <2>1, NotifiedKept DEF Inv
<1>10. ReadInv'
  <2>1. \A d \in Calls : pc'[d] = "readWrite" =>
          pc[d] = "readWrite" /\ req'[d] = req[d] /\ seen'[d] = seen[d]
    BY <1>4, <1>5
  <2> QED BY Zenon, <2>1, ReadKept DEF Inv
<1>11. CountInv'
  <2>1. Busy(c) /\ ~Busy(c)'
    BY <1>2, <1>4 DEF Busy, Sends, Carries, Reads
  <2>2. ASSUME ~disturbed' PROVE AllExact' /\ LastExact'
    <3>1. Progress(c)
      BY Zenon, <1>2, <2>1, <2>2 DEF Inv, CountInv
    <3>2. AllExact /\ LastExact /\ n = UnreadAfter(u, i)
      BY <1>1, <1>2, <3>1 DEF Progress, Reads
    <3>3. Exact(u)'
      <4> SUFFICES ASSUME members'[u].active
                   PROVE  members'[u].unread = Cardinality(Unread(u)')
        BY DEF Exact
      <4>1. members'[u].lastRead = i /\ members'[u].unread = n
        BY Zenon, <1>3
      <4>2. Unread(u)' = {j \in DOMAIN messages : j > i /\ messages[j].sender # u}
        BY Zenon, <1>2, <4>1 DEF Unread
      <4> QED BY Zenon, <3>2, <4>1, <4>2 DEF UnreadAfter
    <3>4. ASSUME NEW v \in Users, v # u PROVE Exact(v)'
      BY Zenon, <1>2, <1>3, <3>2, <3>4 DEF AllExact, Exact, Unread
    <3>5. LastExact'
      BY Zenon, <1>2, <3>2 DEF LastExact
    <3> QED BY Zenon, <3>3, <3>4, <3>5 DEF AllExact
  <2> QED BY Zenon, <1>2, <1>4, <2>1, <2>2, CountStep DEF Inv
<1> QED BY Zenon, <1>6, <1>7, <1>8, <1>9, <1>10, <1>11 DEF Inv

LEMMA StopInv ==
  ASSUME Inv, ServerStops
  PROVE  Inv'
<1>1. /\ pc' = [c \in Calls |-> "idle"] /\ req' = [c \in Calls |-> NoRequest]
      /\ seen' = [c \in Calls |-> NothingSeen] /\ cnt' = [c \in Calls |-> 0]
      /\ todo' = [c \in Calls |-> {}] /\ listed' = [i \in Ids |-> {}]
      /\ UNCHANGED <<members, messages, nextId, lastMessageID, answers, pushed>>
  BY DEF ServerStops, dbVars
<1>2. \A c \in Calls : pc'[c] = "idle" /\ req'[c] = NoRequest
  BY <1>1
<1>3. Types'
  <2>1. ASSUME NEW c \in Calls PROVE RequestOK(c)'
    BY <1>2 DEF RequestOK, RequestAt, Sends, Carries, Reads, Others
  <2>2. CallTypes'
    <3>1. NothingSeen \in [Users -> Nat]
      BY DEF NothingSeen
    <3>2. seen' \in [Calls -> [Users -> Nat]] /\ todo' \in [Calls -> SUBSET Users]
      BY <1>1, <3>1
    <3>3. DOMAIN pc' = Calls /\ DOMAIN req' = Calls /\ DOMAIN cnt' = Calls
      BY <1>1
    <3> QED BY Zenon, <2>1, <3>2, <3>3 DEF CallTypes
  <2>3. PushTypes'
    <3>1. listed' \in [Ids -> SUBSET Users]
      BY <1>1
    <3> QED BY Zenon, <1>1, <3>1 DEF Inv, Types, PushTypes, Ids
  <2> QED BY Zenon, <1>1, <2>2, <2>3 DEF Inv, Types, RowTypes, MessageTypes
<1>4. \A c \in Calls : /\ pc'[c] \notin Carries /\ ~Busy(c)' /\ pc'[c] # "readWrite"
                       /\ pc'[c] \notin {"setLast", "list", "push", "write"}
  BY <1>2 DEF Carries, Busy, Sends, Reads
<1>5. Quiet
  BY <1>1, StillQuiet
<1>6. KeysInv'
  BY Zenon, <1>1, <1>4, <1>5, KeysKept DEF Inv, Quiet
<1>7. CarryInv'
  <2>1. \A c \in Calls, u \in Users : ~Awaits(c, u)'
    BY Zenon, <1>4 DEF Awaits
  <2> QED BY Zenon, <1>1, <1>4, <2>1 DEF Inv, CarryInv, Unsent
<1>8. ListedNotifiedOnce'
  <2>a. pushed' = pushed
    BY Zenon, <1>1
  <2> SUFFICES ASSUME NEW i \in Ids, NEW u \in Users
               PROVE  pushed[u][i] <= 1 /\ u \notin listed'[i]
    BY <2>a DEF ListedNotifiedOnce, Ids
  <2> QED BY <1>1 DEF Inv, ListedNotifiedOnce
<1>9. ReadInv'
  BY Zenon, <1>4 DEF ReadInv
<1>10. CountInv'
  <2> SUFFICES ASSUME ~disturbed' PROVE AllExact' /\ LastExact'
    BY Zenon, <1>4 DEF CountInv
  <2>1. ~disturbed /\ \A c \in Calls : req[c].op # "send"
    BY Zenon DEF ServerStops
  <2>2. AllExact /\ LastExact
    <3>1. CASE \A c \in Calls : ~Busy(c)
      BY Zenon, <2>1, <3>1 DEF Inv, CountInv
    <3>2. ASSUME NEW c \in Calls, Busy(c) PROVE AllExact /\ LastExact
      <4>1. pc[c] \notin Sends
        BY <2>1 DEF Inv, Types, CallTypes, RequestOK, RequestAt
      <4>2. pc[c] \in Reads
        BY <3>2, <4>1 DEF Busy
      <4>3. Progress(c)
        BY Zenon, <2>1, <3>2 DEF Inv, CountInv
      <4> QED BY <4>2, <4>3 DEF Progress, Reads
    <3> QED BY Zenon, <3>1, <3>2
  <2> QED BY Zenon, <1>5, <2>2, QuietCounts
<1> QED BY Zenon, <1>3, <1>6, <1>7, <1>8, <1>9, <1>10 DEF Inv

LEMMA NoneUnread == Cardinality({}) = 0
BY Zenon DEF Cardinality

LEMMA InitInv ==
  ASSUME Init
  PROVE  Inv
<1>1. DOMAIN messages = {} /\ answers = {} /\ nextId = 1
  BY DEF Init
<1>2. \A c \in Calls : pc[c] = "idle" /\ req[c] = NoRequest
  BY DEF Init
<1>3. ASSUME NEW u \in Users
      PROVE  /\ DOMAIN members[u] = Columns
             /\ members[u].lastRead = 0 /\ members[u].unread = 0
  BY DEF Init, Columns
<1>4. Types
  <2>1. ASSUME NEW c \in Calls PROVE RequestOK(c)
    BY <1>2 DEF RequestOK, RequestAt, Sends, Carries, Reads, Others
  <2>2. CallTypes
    <3>1. NothingSeen \in [Users -> Nat]
      BY DEF NothingSeen
    <3>2. seen \in [Calls -> [Users -> Nat]] /\ todo \in [Calls -> SUBSET Users]
      BY <3>1 DEF Init
    <3>3. DOMAIN pc = Calls /\ DOMAIN req = Calls /\ DOMAIN cnt = Calls
      BY DEF Init
    <3> QED BY Zenon, <2>1, <3>2, <3>3 DEF CallTypes
  <2>3. RowTypes
    BY <1>3 DEF Init, RowTypes
  <2>4. MessageTypes
    BY <1>1 DEF MessageTypes
  <2>5. PushTypes
    BY DEF Init, PushTypes
  <2> QED BY Zenon, <2>2, <2>3, <2>4, <2>5 DEF Types
<1>5. \A c \in Calls : pc[c] \notin Carries /\ ~Busy(c) /\ pc[c] # "readWrite"
  BY <1>2 DEF Carries, Busy, Sends, Reads
<1>6. KeysInv
  BY <1>1, <1>2 DEF KeysInv
<1>7. \A i \in Ids, u \in Users : pushed[u][i] = 0 /\ listed[i] = {}
  BY DEF Init
<1>8. CarryInv
  <2>1. \A c \in Calls, u \in Users : ~Awaits(c, u)
    BY <1>2 DEF Awaits
  <2>2. \A i : \A u \in Users : Unsent(i, u)
    BY Zenon, <1>7 DEF Unsent
  <2> QED BY Zenon, <1>5, <2>1, <2>2 DEF CarryInv
<1>9. ListedNotifiedOnce
  BY <1>7 DEF ListedNotifiedOnce
<1>10. ReadInv
  BY <1>5 DEF ReadInv
<1>11. CountInv
  <2>1. \A u \in Users : Unread(u) = {}
    BY <1>1 DEF Unread
  <2>2. AllExact
    BY Zenon, <1>3, <2>1, NoneUnread DEF AllExact, Exact
  <2>3. LastExact
    BY <1>1 DEF LastExact
  <2> QED BY Zenon, <1>5, <2>2, <2>3 DEF CountInv
<1> QED BY Zenon, <1>4, <1>6, <1>8, <1>9, <1>10, <1>11 DEF Inv

\* A removed member keeps its row.
LEMMA RemovedRow ==
  ASSUME Inv, MemberRemoved
  PROVE  SameRows
<1>1. PICK u \in Users : members' = [members EXCEPT ![u].active = FALSE] /\ members[u].active
  BY DEF MemberRemoved
<1>2. DOMAIN members = Users /\ \A v \in Users : DOMAIN members[v] = Columns
  BY DEF Inv, Types, RowTypes
<1>3. \A v \in Users : v # u => members'[v] = members[v]
  BY <1>1, <1>2
<1>4. /\ DOMAIN members' = Users /\ members'[u] = [members[u] EXCEPT !.active = FALSE]
  BY <1>1, <1>2
<1>5. /\ DOMAIN members'[u] = Columns /\ members'[u].lastRead = members[u].lastRead
      /\ members'[u].unread = members[u].unread /\ members'[u].active = FALSE
  BY <1>2, <1>4 DEF Columns
<1> QED BY Zenon, <1>1, <1>2, <1>3, <1>4, <1>5 DEF SameRows

\* An added member has not been counted.
LEMMA AddedRow ==
  ASSUME Inv, MemberAdded
  PROVE  SameRows
<1>1. PICK u \in Users :
        members' = [members EXCEPT ![u].stored = TRUE, ![u].active = TRUE,
                                   ![u].counted = FALSE]
  BY DEF MemberAdded
<1>2. DOMAIN members = Users /\ \A v \in Users : DOMAIN members[v] = Columns
  BY DEF Inv, Types, RowTypes
<1>3. \A v \in Users : v # u => members'[v] = members[v]
  BY <1>1, <1>2
<1>4. /\ DOMAIN members' = Users
      /\ members'[u] = [members[u] EXCEPT !.stored = TRUE, !.active = TRUE,
                                         !.counted = FALSE]
  BY <1>1, <1>2
<1>5. /\ DOMAIN members'[u] = Columns /\ members'[u].lastRead = members[u].lastRead
      /\ members'[u].unread = members[u].unread /\ members'[u].counted = FALSE
  BY <1>2, <1>4 DEF Columns
<1> QED BY Zenon, <1>1, <1>2, <1>3, <1>4, <1>5 DEF SameRows

LEMMA NextInv ==
  ASSUME Inv, [Next]_vars
  PROVE  Inv'
<1>1. ASSUME NEW c \in Calls, SendStep(c) PROVE Inv'
  <2>1. CASE CreateMessage(c)
    BY Zenon, <2>1, CreateInv, EndInv
  <2> QED BY Zenon, <1>1, <2>1, BeginInv, EndInv, MoveInv DEF SendStep
<1>2. ASSUME NEW c \in Calls, Broadcast(c) PROVE Inv'
  <2>1. CASE ContextEnds(c)
    <3>1. /\ UNCHANGED <<members, messages, lastMessageID>>
          /\ UNCHANGED <<nextId, pc, req, seen, cnt, todo, answers, listed, pushed, disturbed>>
      BY <2>1 DEF ContextEnds, dbVars, histVars
    <3> QED BY <3>1, StillQuiet, StayInv
  <2>2. CASE ListMembers(c)
    BY Zenon, <2>2, ListInv, EndInv
  <2> QED BY Zenon, <1>2, <2>1, <2>2, NotifyInv, WriteInv, EndInv DEF Broadcast
<1>3. ASSUME NEW c \in Calls, ReadStep(c) PROVE Inv'
  BY Zenon, <1>3, BeginInv, EndInv, MoveInv, ReadWriteInv DEF ReadStep
<1>4. ASSUME NEW c \in Calls, OtherStep(c) PROVE Inv'
  <2>1. CASE RecallLoad(c)
    BY Zenon, <2>1, MoveInv, EndInv
  <2> QED BY Zenon, <1>4, <2>1, BeginInv, EndInv DEF OtherStep
<1>5. CASE MemberRemoved
  <2>1. UNCHANGED <<nextId, pc, req, seen, cnt, todo, answers, listed, pushed, disturbed>>
    BY <1>5 DEF MemberRemoved, goVars, histVars
  <2>2. Quiet
    BY Zenon, <1>5, RemovedRow DEF MemberRemoved, Quiet, SameMessages
  <2> QED BY <2>1, <2>2, StayInv
<1>6. CASE ServerStops
  BY <1>6, StopInv
<1>7. CASE UNCHANGED vars
  <2>1. /\ UNCHANGED <<members, messages, lastMessageID>>
        /\ UNCHANGED <<nextId, pc, req, seen, cnt, todo, answers, listed, pushed, disturbed>>
    BY <1>7 DEF vars, dbVars, goVars, histVars
  <2> QED BY <2>1, StillQuiet, StayInv
<1>8. CASE MemberAdded
  <2>1. UNCHANGED <<nextId, pc, req, seen, cnt, todo, answers, listed, pushed, disturbed>>
    BY <1>8 DEF MemberAdded, goVars, histVars
  <2>2. Quiet
    BY Zenon, <1>8, AddedRow DEF MemberAdded, Quiet, SameMessages
  <2> QED BY <2>1, <2>2, StayInv
<1> QED BY Zenon, <1>1, <1>2, <1>3, <1>4, <1>5, <1>6, <1>7, <1>8 DEF Next

LEMMA Invariant == Spec => []Inv
<1>1. Init => Inv
  BY InitInv
<1>2. Inv /\ [Next]_vars => Inv'
  BY NextInv
<1> QED BY <1>1, <1>2, PTL DEF Spec

-----------------------------------------------------------------------------
(***************************************************************************)
(* The theorems.                                                           *)
(***************************************************************************)
\* However often a client repeats a SendMessage, and whatever calls run or break
\* off meanwhile, all successful answers for its ClientMsgId name one message of
\* its own: the unique key of chat_message keeps the check before Create honest.
THEOREM RetryAnsweredAlike == Spec => []AnswersAgree
<1>1. Inv => AnswersAgree
  <2> SUFFICES ASSUME KeysInv PROVE AnswersAgree
    BY DEF Inv
  <2>1. \A a \in answers : /\ a.id \in DOMAIN messages
                           /\ messages[a.id].sender = a.user
                           /\ messages[a.id].client = a.client
    BY DEF KeysInv, IsMessage
  <2>2. \A i, j \in DOMAIN messages :
          (/\ messages[i].sender = messages[j].sender
           /\ messages[i].client = messages[j].client) => i = j
    BY DEF KeysInv
  <2>3. ASSUME NEW a \in answers, NEW b \in answers, b.user = a.user, b.client = a.client
        PROVE  b.id = a.id
    <3>1. PICK i, j : i = a.id /\ j = b.id
      OBVIOUS
    <3>2. /\ i \in DOMAIN messages /\ j \in DOMAIN messages
          /\ messages[i].sender = messages[j].sender
          /\ messages[i].client = messages[j].client
      BY <2>1, <2>3, <3>1
    <3>3. i = j
      BY Zenon, <2>2, <3>2
    <3> QED BY <3>1, <3>3
  <2> QED BY <2>1, <2>3 DEF AnswersAgree
<1> QED BY <1>1, Invariant, PTL

\* Every member in the list the goroutine of SendMessage has read is sent
\* message_new at most once ever and exactly once unless the server stops, though
\* the context of the request ends and members leave in the middle of its loop.
THEOREM ListedMembersNotified == Spec => []ListedNotifiedOnce
<1>1. Inv => ListedNotifiedOnce
  BY DEF Inv
<1> QED BY <1>1, Invariant, PTL

\* While calls of SendMessage and ReadMessages do not overlap and every
\* broadcast gets to its end, the UnreadCount of every member and LastMessageID
\* are exact whenever none is running: each writes what it has counted.
THEOREM CountsExactAtRest == Spec => []UnreadExactAtRest
<1>1. Inv => UnreadExactAtRest
  <2> SUFFICES ASSUME Inv, ~disturbed, ~Overlaps
               PROVE  /\ \A u \in Users : members[u].active /\ members[u].counted =>
                           members[u].unread = Cardinality(Unread(u))
                      /\ \A i \in DOMAIN messages : i <= lastMessageID
    BY Zenon DEF UnreadExactAtRest
  <2>1. \A c \in Calls : ~Busy(c)
    BY Zenon, OverlapsBusy DEF Inv
  <2>2. AllExact /\ LastExact
    BY Zenon, <2>1 DEF Inv, CountInv
  <2> QED BY Zenon, <2>2 DEF AllExact, Exact, LastExact
<1> QED BY <1>1, Invariant, PTL

LEMMA OnlyReadMoves ==
  ASSUME Inv, [Next]_vars, \A c \in Calls : ~WriteRead(c), NEW u \in Users
  PROVE  members'[u].lastRead = members[u].lastRead
<1>1. ASSUME NEW c \in Calls, NEW v, NEW row,
             members' = Updated(v, row), v \in Users => row.lastRead = members[v].lastRead
      PROVE  members'[u].lastRead = members[u].lastRead
  <2>1. DOMAIN members = Users
    BY DEF Inv, Types, RowTypes
  <2>2. members' = members \/ members' = [members EXCEPT ![v] = row]
    BY <1>1 DEF Updated
  <2> QED BY <1>1, <2>1, <2>2
<1>2. ASSUME NEW c \in Calls, WriteUnread(c)
      PROVE  members'[u].lastRead = members[u].lastRead
  <2>1. PICK v : v = req[c].user
    OBVIOUS
  <2>2. members' = members \/ members' = Updated(v, [members[v] EXCEPT !.unread = cnt[c], !.counted = TRUE])
    BY Zenon, <1>2, <2>1 DEF WriteUnread, UnreadColumn
  <2>3. ASSUME v \in Users
        PROVE  [members[v] EXCEPT !.unread = cnt[c], !.counted = TRUE].lastRead = members[v].lastRead
    <3>1. DOMAIN members[v] = Columns
      BY <2>3 DEF Inv, Types, RowTypes
    <3> QED BY <3>1 DEF Columns
  <2> QED BY Zenon, <1>1, <2>2, <2>3
<1>3. ASSUME NEW c \in Calls, SettingsWrite(c)
      PROVE  members'[u].lastRead = members[u].lastRead
  <2>1. PICK v : v = req[c].user
    OBVIOUS
  <2>2. members' = Updated(v, [members[v] EXCEPT !.pinned = TRUE])
    BY Zenon, <1>3, <2>1 DEF SettingsWrite
  <2>3. ASSUME v \in Users
        PROVE  [members[v] EXCEPT !.pinned = TRUE].lastRead = members[v].lastRead
    <3>1. DOMAIN members[v] = Columns
      BY <2>3 DEF Inv, Types, RowTypes
    <3> QED BY <3>1 DEF Columns
  <2> QED BY Zenon, <1>1, <2>2, <2>3
<1>4. CASE MemberRemoved
  BY Zenon, <1>4, RemovedRow DEF SameRows
<1>5. ASSUME NEW c \in Calls, SendStep(c) \/ Broadcast(c), ~WriteUnread(c)
      PROVE  members' = members
  BY <1>5 DEF SendStep, Broadcast, SendMessage, TakeMember, AnswerExisting, LookupMisses,
     CreateMessage, SetLastMessage, SetLastFails, ContextEnds, ListMembers, NotifyMember,
     BroadcastEnds, dbVars
<1>6. ASSUME NEW c \in Calls, ReadStep(c) \/ OtherStep(c), ~SettingsWrite(c)
      PROVE  members' = members
  BY <1>6 DEF ReadStep, OtherStep, ReadMessages, TakeMember, ReadRefused, ReadAccepted,
     RecallMessage, RecallLoad, RecallWrite, UpdateConversationSettings, HandlerReturns,
     dbVars
<1>7. CASE ServerStops \/ UNCHANGED vars
  BY <1>7 DEF ServerStops, vars, dbVars
<1>8. CASE MemberAdded
  BY Zenon, <1>8, AddedRow DEF SameRows
<1> QED BY Zenon, <1>2, <1>3, <1>4, <1>5, <1>6, <1>7, <1>8 DEF Next

\* A member's LastReadMessageID goes back only in a ReadMessages call whose own
\* copy of the row is older than the mark: the broadcasts and the settings updates
\* that write the same row from older copies name their columns and leave it alone.
THEOREM OnlyRacingReadGoesBack == Spec => ReadBackOnlyByRace
<1> DEFINE Step == \A u \in Users :
             members'[u].lastRead < members[u].lastRead =>
               \E c \in Calls : /\ pc[c] = "readWrite" /\ req[c].user = u
                                /\ seen[c][u] < members[u].lastRead
<1>1. ASSUME Inv, [Next]_vars PROVE Step
  <2> SUFFICES ASSUME NEW u \in Users, members'[u].lastRead < members[u].lastRead
               PROVE  \E c \in Calls : /\ pc[c] = "readWrite" /\ req[c].user = u
                                       /\ seen[c][u] < members[u].lastRead
    BY Zenon
  <2>1. members[u].lastRead \in Nat
    BY <1>1 DEF Inv, Types, RowTypes
  <2>2. members'[u].lastRead # members[u].lastRead
    BY <2>1
  <2>3. PICK c \in Calls : WriteRead(c)
    BY Zenon, <1>1, <2>2, OnlyReadMoves
  <2>4. pc[c] = "readWrite"
    BY <2>3 DEF WriteRead
  <2>5. req[c].id \in Nat /\ req[c].user = u /\ members'[u].lastRead = req[c].id
    BY Zenon, <1>1, <2>2, <2>3, ReadRow
  <2>6. req[c].id > seen[c][u] /\ seen[c][u] \in Nat
    BY <1>1, <2>4, <2>5 DEF Inv, ReadInv, Types, CallTypes
  <2>7. seen[c][u] < members[u].lastRead
    BY <2>1, <2>5, <2>6
  <2> QED BY Zenon, <2>4, <2>5, <2>7
<1>2. Inv /\ [Next]_vars => [Step]_vars
  BY <1>1
<1> QED BY <1>2, Invariant, PTL DEF Spec, ReadBackOnlyByRace
=============================================================================
