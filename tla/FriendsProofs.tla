--------------------------- MODULE FriendsProofs ----------------------------
(***************************************************************************)
(* Requests and friendships, for any number of users, of calls at the same *)
(* time, of failed statements and restarts.                                *)
(***************************************************************************)
EXTENDS Friends, TLAPS

Requests == [pair : Pairs, status : 1..3]

\* The places of the calls on a request, and of the others.
OnRequest1 == {"transaction", "commit", "refuse"}
OnRequest2 == {"update", "befriend"}
Places1 == {"pending", "request"} \cup OnRequest1
Places2 == {"listed", "request2"} \cup OnRequest2

TableTypes ==
  /\ verifies \in Seq(Requests) /\ verifies2 \in Seq(Requests)
  /\ friends \in [Pairs -> Nat] /\ friends2 \in [Pairs -> Nat]
  /\ accepted \subseteq (DOMAIN verifies) \X Users /\ dealt \subseteq DOMAIN verifies2
  /\ DOMAIN fpc = Calls /\ DOMAIN arg = Calls

Args == [v : 0..2, pair : Pairs \cup {<<>>}, id : Nat, by : Nat, status : 0..3,
         found : BOOLEAN]

\* A call works on a pair, or on a request of that pair.
CallOK(c) ==
  /\ arg[c] \in Args
  /\ fpc[c] \in {"idle"} \cup Places1 \cup Places2
  /\ fpc[c] = "idle" <=> arg[c].v = 0
  /\ fpc[c] \in Places1 => arg[c].v = 1
  /\ fpc[c] \in Places2 => arg[c].v = 2
  /\ fpc[c] # "idle" => arg[c].pair \in Pairs
  /\ fpc[c] \in OnRequest1 =>
       /\ arg[c].id \in DOMAIN verifies
       /\ verifies[arg[c].id].pair = arg[c].pair /\ arg[c].by = arg[c].pair[2]
  /\ fpc[c] \in OnRequest2 =>
       arg[c].id \in DOMAIN verifies2 /\ verifies2[arg[c].id].pair = arg[c].pair
  /\ fpc[c] = "befriend" => arg[c].id \in dealt
  /\ fpc[c] = "commit" /\ arg[c].found => friends[arg[c].pair] > 0

\* What holds of a pair on which no two calls overlapped.
On(c, v, p) == arg[c].v = v /\ arg[c].pair = p

Unraced1(p) ==
  /\ friends[p] <= 1
  /\ \A i, j \in DOMAIN verifies :
       verifies[i] = Waiting(p) /\ verifies[j] = Waiting(p) => i = j
  /\ \A c, d \in Calls : On(c, 1, p) /\ On(d, 1, p) => c = d
  /\ \A c \in Calls : On(c, 1, p) =>
       /\ fpc[c] = "commit" /\ ~arg[c].found => friends[p] = 0
       /\ fpc[c] = "request" => \A i \in DOMAIN verifies : verifies[i] # Waiting(p)

Unraced2(p) ==
  /\ \A i, j \in DOMAIN verifies2 :
       verifies2[i].pair = p /\ verifies2[j].pair = p => i = j
  /\ \A c, d \in Calls : On(c, 2, p) /\ On(d, 2, p) => c = d
  /\ \A c \in Calls : On(c, 2, p) /\ fpc[c] = "request2" =>
       \A i \in DOMAIN verifies2 : verifies2[i].pair # p

RaceInv ==
  \A p \in Pairs : /\ <<1, p>> \notin raced => Unraced1(p)
                   /\ <<2, p>> \notin raced => Unraced2(p)

FriendsInv ==
  TableTypes /\ (\A c \in Calls : CallOK(c)) /\ FriendsByAnswer /\ RaceInv

-----------------------------------------------------------------------------
LEMMA FriendsInitInv == FriendsInit => FriendsInv
<1> SUFFICES ASSUME FriendsInit PROVE FriendsInv
  OBVIOUS
<1>1. TableTypes
  BY DEF FriendsInit, TableTypes, Requests
<1>2. ASSUME NEW c \in Calls PROVE CallOK(c)
  <2>1. arg[c] = NoArg /\ fpc[c] = "idle"
    BY DEF FriendsInit
  <2>2. NoArg \in Args
    BY DEF NoArg, Job, Args
  <2> QED BY <2>1, <2>2 DEF CallOK, NoArg, Job, Places1, Places2, OnRequest1, OnRequest2
<1>3. FriendsByAnswer
  BY DEF FriendsInit, FriendsByAnswer
<1>4. RaceInv
  BY DEF FriendsInit, RaceInv, Unraced1, Unraced2, On, NoArg, Job
<1> QED BY <1>1, <1>2, <1>3, <1>4 DEF FriendsInv

\* Requests keep their ids and pairs, and friends stay friends.
TablesGrow ==
  /\ \A i \in DOMAIN verifies :
       i \in DOMAIN verifies' /\ verifies'[i].pair = verifies[i].pair
  /\ \A i \in DOMAIN verifies2 :
       i \in DOMAIN verifies2' /\ verifies2'[i].pair = verifies2[i].pair
  /\ \A p \in Pairs : friends[p] > 0 => friends'[p] > 0
  /\ dealt \subseteq dealt'

SameTables == UNCHANGED <<verifies, friends, verifies2, friends2, accepted, dealt>>

LEMMA SameGrow == SameTables => TablesGrow
BY DEF SameTables, TablesGrow

\* A call that does not move is still in order, and so is one that returns.
LEMMA CallKept ==
  ASSUME NEW d \in Calls, CallOK(d), TablesGrow, fpc'[d] = fpc[d], arg'[d] = arg[d]
  PROVE  CallOK(d)'
<1>1. /\ arg'[d] \in Args
      /\ fpc'[d] \in {"idle"} \cup Places1 \cup Places2
      /\ fpc'[d] = "idle" <=> arg'[d].v = 0
      /\ fpc'[d] \in Places1 => arg'[d].v = 1
      /\ fpc'[d] \in Places2 => arg'[d].v = 2
      /\ fpc'[d] # "idle" => arg'[d].pair \in Pairs
  BY DEF CallOK
<1>2. fpc'[d] \in OnRequest1 =>
        /\ arg'[d].id \in DOMAIN verifies'
        /\ verifies'[arg'[d].id].pair = arg'[d].pair /\ arg'[d].by = arg'[d].pair[2]
  BY DEF CallOK, TablesGrow
<1>3. fpc'[d] \in OnRequest2 =>
       arg'[d].id \in DOMAIN verifies2' /\ verifies2'[arg'[d].id].pair = arg'[d].pair
  BY DEF CallOK, TablesGrow
<1>5. fpc'[d] = "befriend" => arg'[d].id \in dealt'
  BY DEF CallOK, TablesGrow
<1>4. fpc'[d] = "commit" /\ arg'[d].found => friends'[arg'[d].pair] > 0
  BY DEF CallOK, TablesGrow
<1> QED BY <1>1, <1>2, <1>3, <1>4, <1>5 DEF CallOK

LEMMA ReturnOK ==
  ASSUME NEW d \in Calls, fpc'[d] = "idle", arg'[d] = NoArg
  PROVE  CallOK(d)'
<1>1. NoArg \in Args
  BY DEF NoArg, Job, Args
<1> QED BY <1>1 DEF CallOK, NoArg, Job, Places1, Places2, OnRequest1, OnRequest2

LEMMA CallsReturn ==
  ASSUME TableTypes, \A d \in Calls : CallOK(d), TablesGrow, NEW c \in Calls, Returns(c)
  PROVE  /\ \A d \in Calls : CallOK(d)'
         /\ DOMAIN fpc' = Calls /\ DOMAIN arg' = Calls
         /\ fpc'[c] = "idle" /\ arg'[c] = NoArg
         /\ \A d \in Calls \ {c} : fpc'[d] = fpc[d] /\ arg'[d] = arg[d]
<1>1. /\ DOMAIN fpc' = Calls /\ DOMAIN arg' = Calls
      /\ fpc'[c] = "idle" /\ arg'[c] = NoArg
      /\ \A d \in Calls \ {c} : fpc'[d] = fpc[d] /\ arg'[d] = arg[d]
  BY DEF TableTypes, Returns, FGoto
<1>2. ASSUME NEW d \in Calls PROVE CallOK(d)'
  <2>1. CASE d = c
    BY <2>1, <1>1, ReturnOK
  <2>2. CASE d # c
    BY <2>2, <1>1, CallKept
  <2> QED BY <2>1, <2>2
<1> QED BY <1>1, <1>2

\* A pair without overlapping calls stays in order when it gets no new row and
\* no call on it comes to the point where it writes one.
LEMMA Unraced1Kept ==
  ASSUME NEW p \in Pairs, Unraced1(p), friends'[p] = friends[p],
         \A i \in DOMAIN verifies' : verifies'[i] = Waiting(p) =>
           i \in DOMAIN verifies /\ verifies[i] = Waiting(p),
         \A d \in Calls : On(d, 1, p)' =>
           /\ On(d, 1, p)
           /\ \/ fpc'[d] = fpc[d] /\ arg'[d] = arg[d]
              \/ fpc'[d] \notin {"commit", "request"}
  PROVE  Unraced1(p)'
BY DEF Unraced1, Waiting

LEMMA Unraced2Kept ==
  ASSUME NEW p \in Pairs, Unraced2(p),
         \A i \in DOMAIN verifies2' : verifies2'[i].pair = p =>
           i \in DOMAIN verifies2 /\ verifies2[i].pair = p,
         \A d \in Calls : On(d, 2, p)' =>
           On(d, 2, p) /\ (fpc'[d] = fpc[d] \/ fpc'[d] # "request2")
  PROVE  Unraced2(p)'
BY DEF Unraced2

\* The same for all pairs, when the tables stay as they are.
LEMMA RaceKept ==
  ASSUME RaceInv, SameTables, raced \subseteq raced',
         \A d \in Calls :
           \/ fpc'[d] = fpc[d] /\ arg'[d] = arg[d]
           \/ fpc'[d] = "idle" /\ arg'[d] = NoArg
  PROVE  RaceInv'
<1> SUFFICES ASSUME NEW p \in Pairs
             PROVE  /\ <<1, p>> \notin raced' => Unraced1(p)'
                    /\ <<2, p>> \notin raced' => Unraced2(p)'
  BY Zenon DEF RaceInv, Pairs
<1>0. \A v \in {1, 2}, d \in Calls : On(d, v, p)' =>
        On(d, v, p) /\ fpc'[d] = fpc[d] /\ arg'[d] = arg[d]
  BY DEF On, NoArg, Job
<1>1. ASSUME <<1, p>> \notin raced' PROVE Unraced1(p)'
  <2>1. Unraced1(p)
    BY Zenon, <1>1 DEF RaceInv
  <2> QED BY <1>0, <2>1, Unraced1Kept DEF SameTables
<1>2. ASSUME <<2, p>> \notin raced' PROVE Unraced2(p)'
  <2>1. Unraced2(p)
    BY Zenon, <1>2 DEF RaceInv
  <2> QED BY <1>0, <2>1, Unraced2Kept DEF SameTables
<1> QED BY <1>1, <1>2

LEMMA AcceptanceKept ==
  FriendsByAnswer /\ SameTables => FriendsByAnswer'
BY Zenon DEF FriendsByAnswer, SameTables

\* A call begins: on a pair on which another one is at work this is a race.
LEMMA ProceedsInv ==
  ASSUME FriendsInv, SameTables, NEW c \in Calls, fpc[c] = "idle",
         NEW a, NEW label, Proceeds(c, a, label),
         CallOK(c)', label \notin {"commit", "request", "request2"}
  PROVE  FriendsInv'
<1> USE DEF FriendsInv
<1>1. /\ DOMAIN fpc' = Calls /\ DOMAIN arg' = Calls
      /\ fpc'[c] = label /\ arg'[c] = a
      /\ \A d \in Calls \ {c} : fpc'[d] = fpc[d] /\ arg'[d] = arg[d]
  BY DEF TableTypes, Proceeds, FGoto
<1>2. TableTypes'
  BY <1>1 DEF TableTypes, SameTables
<1>3. ASSUME NEW d \in Calls PROVE CallOK(d)'
  <2>1. CASE d # c
    BY <2>1, <1>1, CallKept, SameGrow
  <2> QED BY <2>1
<1>4. FriendsByAnswer'
  BY AcceptanceKept
<1>5. RaceInv'
  <2> SUFFICES ASSUME NEW p \in Pairs
               PROVE  /\ <<1, p>> \notin raced' => Unraced1(p)'
                      /\ <<2, p>> \notin raced' => Unraced2(p)'
    BY Zenon DEF RaceInv, Pairs
  <2>1. \A v \in {1, 2} : \/ <<v, p>> \in raced'
                          \/ /\ <<v, p>> \notin raced
                             /\ On(c, v, p)' => \A d \in Calls \ {c} : ~On(d, v, p)
    BY <1>1 DEF On, Proceeds
  <2>2. \A v \in {1, 2}, d \in Calls \ {c} : On(d, v, p)' => On(d, v, p)
    BY <1>1 DEF On
  <2>3. ASSUME <<1, p>> \notin raced' PROVE Unraced1(p)'
    <3>1. Unraced1(p) /\ (On(c, 1, p)' => \A d \in Calls \ {c} : ~On(d, 1, p))
      BY <2>1, <2>3 DEF RaceInv
    <3>2. \A d, e \in Calls : On(d, 1, p)' /\ On(e, 1, p)' => d = e
      BY <3>1, <2>2 DEF Unraced1
    <3>3. ASSUME NEW d \in Calls, On(d, 1, p)'
          PROVE  /\ fpc'[d] = "commit" /\ ~arg'[d].found => friends'[p] = 0
                 /\ fpc'[d] = "request" =>
                      \A i \in DOMAIN verifies' : verifies'[i] # Waiting(p)
      <4>1. CASE d = c
        BY <4>1, <1>1
      <4>2. CASE d # c
        BY <4>2, <3>1, <3>3, <2>2, <1>1 DEF Unraced1, SameTables
      <4> QED BY <4>1, <4>2
    <3>4. /\ friends'[p] <= 1
          /\ \A i, j \in DOMAIN verifies' :
               verifies'[i] = Waiting(p) /\ verifies'[j] = Waiting(p) => i = j
      BY <3>1 DEF Unraced1, SameTables
    <3> QED BY <3>2, <3>3, <3>4 DEF Unraced1, Waiting
  <2>4. ASSUME <<2, p>> \notin raced' PROVE Unraced2(p)'
    <3>1. Unraced2(p) /\ (On(c, 2, p)' => \A d \in Calls \ {c} : ~On(d, 2, p))
      BY <2>1, <2>4 DEF RaceInv
    <3>2. \A d, e \in Calls : On(d, 2, p)' /\ On(e, 2, p)' => d = e
      BY <3>1, <2>2 DEF Unraced2
    <3>3. ASSUME NEW d \in Calls, On(d, 2, p)', fpc'[d] = "request2"
          PROVE  \A i \in DOMAIN verifies2' : verifies2'[i].pair # p
      BY <3>1, <3>3, <2>2, <1>1 DEF Unraced2, SameTables
    <3>4. \A i, j \in DOMAIN verifies2' :
            verifies2'[i].pair = p /\ verifies2'[j].pair = p => i = j
      BY <3>1 DEF Unraced2, SameTables
    <3> QED BY <3>2, <3>3, <3>4 DEF Unraced2
  <2> QED BY <2>3, <2>4
<1> QED BY <1>2, <1>3, <1>4, <1>5

\* A call that changes neither the tables nor its own state.
LEMMA FriendsStutter ==
  FriendsInv /\ SameTables /\ UNCHANGED <<fpc, arg, raced>> => FriendsInv'
<1> SUFFICES ASSUME FriendsInv, SameTables, UNCHANGED <<fpc, arg, raced>>
             PROVE  FriendsInv'
  OBVIOUS
<1>1. TableTypes'
  BY DEF FriendsInv, TableTypes, SameTables
<1>2. \A d \in Calls : CallOK(d)'
  BY CallKept, SameGrow DEF FriendsInv
<1>3. RaceInv'
  BY RaceKept DEF FriendsInv
<1> QED BY <1>1, <1>2, <1>3, AcceptanceKept DEF FriendsInv

LEMMA ProceedOK ==
  ASSUME TableTypes, SameTables, NEW c \in Calls, NEW a \in Args, NEW label,
         Proceeds(c, a, label), a.pair \in Pairs,
         \/ a.v = 1 /\ label = "pending"
         \/ /\ a.v = 1 /\ label \in {"transaction", "refuse"}
            /\ a.id \in DOMAIN verifies /\ verifies[a.id].pair = a.pair
            /\ a.by = a.pair[2]
         \/ a.v = 2 /\ label = "listed"
         \/ /\ a.v = 2 /\ label = "update"
            /\ a.id \in DOMAIN verifies2 /\ verifies2[a.id].pair = a.pair
  PROVE  CallOK(c)'
<1>1. fpc'[c] = label /\ arg'[c] = a
  BY DEF TableTypes, Proceeds, FGoto
<1>2. a.v # 0
  OBVIOUS
<1> QED
  BY <1>1, <1>2
  DEF CallOK, SameTables, Places1, Places2, OnRequest1, OnRequest2

\* What a call knows of its request.
LEMMA ArgFields ==
  ASSUME NEW n \in {1, 2}, NEW p \in Pairs, NEW i \in Nat, NEW u \in Nat, NEW st \in 0..3
  PROVE  /\ Job(n, p, i, u, st) \in Args
         /\ Job(n, p, i, u, st).v = n /\ Job(n, p, i, u, st).pair = p
         /\ Job(n, p, i, u, st).id = i /\ Job(n, p, i, u, st).by = u
<1>1. n \in 0..2
  OBVIOUS
<1>2. FALSE \in BOOLEAN /\ p \in Pairs \cup {<<>>}
  BY Zenon
<1>3. Job(n, p, i, u, st) \in Args
  BY <1>1, <1>2, Zenon DEF Args, Job
<1> QED BY <1>3 DEF Job

LEMMA RequestPairs ==
  ASSUME TableTypes
  PROVE  /\ \A i \in DOMAIN verifies : i \in Nat /\ verifies[i].pair \in Pairs
         /\ \A i \in DOMAIN verifies2 : i \in Nat /\ verifies2[i].pair \in Pairs
<1>1. ASSUME NEW i \in DOMAIN verifies PROVE i \in Nat /\ verifies[i].pair \in Pairs
  <2>1. i \in Nat /\ verifies[i] \in Requests
    BY <1>1 DEF TableTypes
  <2> QED BY <2>1, Zenon DEF Requests
<1>2. ASSUME NEW i \in DOMAIN verifies2 PROVE i \in Nat /\ verifies2[i].pair \in Pairs
  <2>1. i \in Nat /\ verifies2[i] \in Requests
    BY <1>2 DEF TableTypes
  <2> QED BY <2>1, Zenon DEF Requests
<1> QED BY <1>1, <1>2

LEMMA AddFriendInv == ASSUME FriendsInv, NEW c \in Calls, AddFriend(c) PROVE FriendsInv'
<1>0. SameTables /\ fpc[c] = "idle"
  BY DEF AddFriend, CallBegins, SameTables
<1>1. CASE UNCHANGED <<fpc, arg, raced>>
  BY <1>0, <1>1, FriendsStutter
<1>2. CASE \E p \in Pairs : Proceeds(c, Job(1, p, 0, 0, 0), "pending")
  <2>1. PICK p \in Pairs : Proceeds(c, Job(1, p, 0, 0, 0), "pending")
    BY <1>2
  <2> DEFINE a == Job(1, p, 0, 0, 0)
  <2> HIDE DEF a
  <2>3. Proceeds(c, a, "pending")
    BY <2>1 DEF a
  <2>4. CallOK(c)'
    <3>1. a \in Args /\ a.v = 1 /\ a.pair = p
      BY ArgFields DEF a
    <3> QED BY <3>1, <2>3, <1>0, ProceedOK DEF FriendsInv
  <2> QED BY <2>3, <2>4, <1>0, ProceedsInv
<1> QED BY <1>1, <1>2 DEF AddFriend

LEMMA ValidFriendInv == ASSUME FriendsInv, NEW c \in Calls, ValidFriend(c) PROVE FriendsInv'
<1>0. SameTables /\ fpc[c] = "idle"
  BY DEF ValidFriend, CallBegins, SameTables
<1>1. CASE UNCHANGED <<fpc, arg, raced>>
  BY <1>0, <1>1, FriendsStutter
<1>2. CASE ~UNCHANGED <<fpc, arg, raced>>
  <2>1. PICK i \in DOMAIN verifies, u \in Users, st \in {1, 2} :
          /\ verifies[i].pair[2] = u
          /\ Proceeds(c, Job(1, verifies[i].pair, i, u, 0),
                      IF st = 1 THEN "transaction" ELSE "refuse")
    BY <1>2 DEF ValidFriend
  <2>2. PICK p \in Pairs : p = verifies[i].pair
    BY RequestPairs DEF FriendsInv
  <2>3. PICK label \in {"transaction", "refuse"} :
          label = IF st = 1 THEN "transaction" ELSE "refuse"
    OBVIOUS
  <2> DEFINE a == Job(1, p, i, u, 0)
  <2>5. a \in Args /\ a.v = 1 /\ a.pair = p /\ a.id = i /\ a.by = u
    <3>1. i \in Nat /\ u \in Nat
      BY UsersAssumption, RequestPairs DEF FriendsInv
    <3>2. 1 \in 0..2 /\ 0 \in 0..3
      OBVIOUS
    <3>3. a \in Args
      BY <3>1, <3>2, Zenon DEF Args, Job
    <3> QED BY <3>3 DEF Job
  <2>6. Proceeds(c, a, label)
    BY <2>1, <2>2, <2>3
  <2> HIDE DEF a
  <2>7. CallOK(c)'
    BY <2>1, <2>2, <2>5, <2>6, <1>0, ProceedOK DEF FriendsInv
  <2> QED BY <2>6, <2>7, <1>0, ProceedsInv
<1> QED BY <1>1, <1>2

LEMMA SendVerifyInv == ASSUME FriendsInv, NEW c \in Calls, SendVerify(c) PROVE FriendsInv'
<1>0. SameTables /\ fpc[c] = "idle"
  BY DEF SendVerify, CallBegins, SameTables
<1>1. CASE UNCHANGED <<fpc, arg, raced>>
  BY <1>0, <1>1, FriendsStutter
<1>2. CASE \E p \in Pairs : Proceeds(c, Job(2, p, 0, 0, 0), "listed")
  <2>1. PICK p \in Pairs : Proceeds(c, Job(2, p, 0, 0, 0), "listed")
    BY <1>2
  <2> DEFINE a == Job(2, p, 0, 0, 0)
  <2> HIDE DEF a
  <2>3. Proceeds(c, a, "listed")
    BY <2>1 DEF a
  <2>4. CallOK(c)'
    <3>1. a \in Args /\ a.v = 2 /\ a.pair = p
      BY ArgFields DEF a
    <3> QED BY <3>1, <2>3, <1>0, ProceedOK DEF FriendsInv
  <2> QED BY <2>3, <2>4, <1>0, ProceedsInv
<1> QED BY <1>1, <1>2 DEF SendVerify

LEMMA DealVerifyInv == ASSUME FriendsInv, NEW c \in Calls, DealVerify(c) PROVE FriendsInv'
<1>0. SameTables /\ fpc[c] = "idle"
  BY DEF DealVerify, CallBegins, SameTables
<1>1. PICK i \in DOMAIN verifies2, st \in 0..3 :
        Proceeds(c, Job(2, verifies2[i].pair, i, 0, st), "update")
  BY DEF DealVerify
<1>2. PICK p \in Pairs : p = verifies2[i].pair
  BY RequestPairs DEF FriendsInv
<1> DEFINE a == Job(2, p, i, 0, st)
<1>4. a \in Args /\ a.v = 2 /\ a.pair = p /\ a.id = i
  <2>1. i \in Nat
    BY RequestPairs DEF FriendsInv
  <2> QED BY <2>1, ArgFields
<1>5. Proceeds(c, a, "update")
  BY <1>1, <1>2
<1> HIDE DEF a
<1>6. CallOK(c)'
  BY <1>2, <1>4, <1>5, <1>0, ProceedOK DEF FriendsInv
<1> QED BY <1>5, <1>6, <1>0, ProceedsInv

\* A call goes on to its next statement, and the tables stay as they are.
LEMMA GotoOK ==
  ASSUME FriendsInv, SameTables, NEW c \in Calls, NEW label, FGoto(c, label),
         arg' = arg, raced \subseteq raced', CallOK(c)'
  PROVE  /\ TableTypes' /\ FriendsByAnswer'
         /\ \A d \in Calls : CallOK(d)'
         /\ fpc'[c] = label /\ \A d \in Calls \ {c} : fpc'[d] = fpc[d]
<1>1. /\ DOMAIN fpc' = Calls /\ fpc'[c] = label
      /\ \A d \in Calls \ {c} : fpc'[d] = fpc[d]
  BY DEF FriendsInv, TableTypes, FGoto
<1>2. TableTypes'
  BY <1>1 DEF FriendsInv, TableTypes, SameTables
<1>3. ASSUME NEW d \in Calls PROVE CallOK(d)'
  <2>1. CASE d # c
    BY <2>1, <1>1, CallKept, SameGrow DEF FriendsInv
  <2> QED BY <2>1
<1> QED BY <1>1, <1>2, <1>3, AcceptanceKept DEF FriendsInv

LEMMA ReturnsInv ==
  ASSUME FriendsInv, SameTables, NEW c \in Calls, Returns(c), raced' = raced
  PROVE  FriendsInv'
<1>1. /\ \A d \in Calls : CallOK(d)'
      /\ DOMAIN fpc' = Calls /\ DOMAIN arg' = Calls
      /\ fpc'[c] = "idle" /\ arg'[c] = NoArg
      /\ \A d \in Calls \ {c} : fpc'[d] = fpc[d] /\ arg'[d] = arg[d]
  BY CallsReturn, SameGrow DEF FriendsInv
<1>2. TableTypes'
  BY <1>1 DEF FriendsInv, TableTypes, SameTables
<1>3. RaceInv'
  BY <1>1, RaceKept DEF FriendsInv
<1> QED BY <1>1, <1>2, <1>3, AcceptanceKept DEF FriendsInv

LEMMA TakePendingInv == ASSUME FriendsInv, NEW c \in Calls, TakePending(c) PROVE FriendsInv'
<1>0. SameTables /\ raced' = raced /\ fpc[c] = "pending"
  BY DEF TakePending, SameTables
<1>1. CASE Returns(c)
  BY <1>0, <1>1, ReturnsInv
<1>2. CASE /\ FGoto(c, "request") /\ arg' = arg
           /\ \A i \in DOMAIN verifies : verifies[i] # Waiting(arg[c].pair)
  <2>1. CallOK(c)'
    <3>1. fpc'[c] = "request"
      BY <1>2 DEF FriendsInv, TableTypes, FGoto
    <3>2. CallOK(c)
      BY DEF FriendsInv
    <3> QED
      BY <3>1, <3>2, <1>0, <1>2 DEF CallOK, Places1, Places2, OnRequest1, OnRequest2
  <2>2. /\ TableTypes' /\ FriendsByAnswer' /\ \A d \in Calls : CallOK(d)'
        /\ fpc'[c] = "request" /\ \A d \in Calls \ {c} : fpc'[d] = fpc[d]
    BY <2>1, <1>0, <1>2, GotoOK
  <2>3. ASSUME NEW p \in Pairs, <<1, p>> \notin raced PROVE Unraced1(p)'
    <3>1. Unraced1(p)
      BY Zenon, <2>3 DEF FriendsInv, RaceInv
    <3> QED BY <3>1, <1>0, <1>2, <2>2 DEF Unraced1, SameTables, On, Waiting
  <2>4. ASSUME NEW p \in Pairs, <<2, p>> \notin raced PROVE Unraced2(p)'
    <3>1. Unraced2(p)
      BY Zenon, <2>4 DEF FriendsInv, RaceInv
    <3> QED BY <3>1, <1>0, <1>2, <2>2, Unraced2Kept DEF SameTables, On
  <2>5. RaceInv'
    BY <2>3, <2>4, <1>0 DEF RaceInv, Pairs
  <2> QED BY <2>2, <2>5 DEF FriendsInv
<1> QED BY <1>1, <1>2 DEF TakePending

LEMMA ListRequestsInv == ASSUME FriendsInv, NEW c \in Calls, ListRequests(c) PROVE FriendsInv'
<1>0. SameTables /\ raced' = raced /\ fpc[c] = "listed"
  BY DEF ListRequests, SameTables
<1>1. CASE Returns(c)
  BY <1>0, <1>1, ReturnsInv
<1>2. CASE /\ FGoto(c, "request2") /\ arg' = arg
           /\ \A i \in DOMAIN verifies2 : verifies2[i].pair # arg[c].pair
  <2>1. CallOK(c)'
    <3>1. fpc'[c] = "request2"
      BY <1>2 DEF FriendsInv, TableTypes, FGoto
    <3>2. CallOK(c)
      BY DEF FriendsInv
    <3> QED
      BY <3>1, <3>2, <1>0, <1>2 DEF CallOK, Places1, Places2, OnRequest1, OnRequest2
  <2>2. /\ TableTypes' /\ FriendsByAnswer' /\ \A d \in Calls : CallOK(d)'
        /\ fpc'[c] = "request2" /\ \A d \in Calls \ {c} : fpc'[d] = fpc[d]
    BY <2>1, <1>0, <1>2, GotoOK
  <2>3. ASSUME NEW p \in Pairs, <<1, p>> \notin raced PROVE Unraced1(p)'
    <3>1. Unraced1(p)
      BY Zenon, <2>3 DEF FriendsInv, RaceInv
    <3> QED BY <3>1, <1>0, <1>2, <2>2, Unraced1Kept DEF SameTables, On
  <2>4. ASSUME NEW p \in Pairs, <<2, p>> \notin raced PROVE Unraced2(p)'
    <3>1. Unraced2(p)
      BY Zenon, <2>4 DEF FriendsInv, RaceInv
    <3> QED BY <3>1, <1>0, <1>2, <2>2 DEF Unraced2, SameTables, On
  <2>5. RaceInv'
    BY <2>3, <2>4, <1>0 DEF RaceInv, Pairs
  <2> QED BY <2>2, <2>5 DEF FriendsInv
<1> QED BY <1>1, <1>2 DEF ListRequests

LEMMA CallFailsInv == ASSUME FriendsInv, NEW c \in Calls, CallFails(c) PROVE FriendsInv'
<1>0. SameTables
  BY DEF CallFails, SameTables
<1>1. CASE Returns(c) /\ raced' = raced
  BY <1>0, <1>1, ReturnsInv
<1>2. CASE /\ FGoto(c, "request2") /\ arg' = arg /\ fpc[c] = "listed"
           /\ raced' = raced \cup {<<2, arg[c].pair>>}
  <2>1. CallOK(c)'
    <3>1. fpc'[c] = "request2"
      BY <1>2 DEF FriendsInv, TableTypes, FGoto
    <3>2. CallOK(c)
      BY DEF FriendsInv
    <3> QED
      BY <3>1, <3>2, <1>2 DEF CallOK, Places1, Places2, OnRequest1, OnRequest2
  <2>2. /\ TableTypes' /\ FriendsByAnswer' /\ \A d \in Calls : CallOK(d)'
        /\ fpc'[c] = "request2" /\ \A d \in Calls \ {c} : fpc'[d] = fpc[d]
    BY <2>1, <1>0, <1>2, GotoOK
  <2>3. ASSUME NEW p \in Pairs, <<1, p>> \notin raced' PROVE Unraced1(p)'
    <3>1. Unraced1(p)
      BY Zenon, <1>2, <2>3 DEF FriendsInv, RaceInv
    <3> QED BY <3>1, <1>0, <1>2, <2>2, Unraced1Kept DEF SameTables, On
  <2>4. ASSUME NEW p \in Pairs, <<2, p>> \notin raced' PROVE Unraced2(p)'
    <3>1. Unraced2(p) /\ arg[c].pair # p
      BY Zenon, <1>2, <2>4 DEF FriendsInv, RaceInv
    <3>2. \A d \in Calls : On(d, 2, p)' => On(d, 2, p) /\ fpc'[d] = fpc[d]
      BY <3>1, <1>2, <2>2 DEF On
    <3> QED BY <3>1, <3>2, <1>0, Unraced2Kept DEF SameTables
  <2>5. RaceInv'
    BY <2>3, <2>4 DEF RaceInv, Pairs
  <2> QED BY <2>2, <2>5 DEF FriendsInv
<1> QED BY <1>1, <1>2 DEF CallFails

LEMMA FriendsRestartInv == FriendsInv /\ FriendsRestart => FriendsInv'
<1> SUFFICES ASSUME FriendsInv, FriendsRestart PROVE FriendsInv'
  OBVIOUS
<1>0. SameTables /\ raced' = raced
  BY DEF FriendsRestart, SameTables
<1>1. /\ DOMAIN fpc' = Calls /\ DOMAIN arg' = Calls
      /\ \A d \in Calls : fpc'[d] = "idle" /\ arg'[d] = NoArg
  BY DEF FriendsRestart
<1>2. TableTypes'
  BY <1>0, <1>1 DEF FriendsInv, TableTypes, SameTables
<1>3. \A d \in Calls : CallOK(d)'
  BY <1>1, ReturnOK
<1>4. RaceInv'
  BY <1>0, <1>1, RaceKept DEF FriendsInv
<1> QED BY <1>0, <1>2, <1>3, <1>4, AcceptanceKept DEF FriendsInv

\* The calls of v1 leave the tables of v2 alone, and the other way round.
LEMMA OtherVersion2 ==
  ASSUME RaceInv, raced' = raced, verifies2' = verifies2,
         NEW p \in Pairs, <<2, p>> \notin raced,
         \A d \in Calls : On(d, 2, p)' => On(d, 2, p) /\ fpc'[d] = fpc[d]
  PROVE  Unraced2(p)'
<1>1. Unraced2(p)
  BY Zenon DEF RaceInv
<1> QED BY <1>1, Unraced2Kept

LEMMA OtherVersion1 ==
  ASSUME RaceInv, raced' = raced, verifies' = verifies, friends' = friends,
         NEW p \in Pairs, <<1, p>> \notin raced,
         \A d \in Calls : On(d, 1, p)' =>
           On(d, 1, p) /\ fpc'[d] = fpc[d] /\ arg'[d] = arg[d]
  PROVE  Unraced1(p)'
<1>1. Unraced1(p)
  BY Zenon DEF RaceInv
<1> QED BY <1>1, Unraced1Kept

\* Where the calls are after one of them returned.
LEMMA ReturnOn ==
  ASSUME NEW c \in Calls, arg'[c] = NoArg,
         \A d \in Calls \ {c} : fpc'[d] = fpc[d] /\ arg'[d] = arg[d],
         NEW v \in {1, 2}, NEW p
  PROVE  \A d \in Calls : On(d, v, p)' =>
           d # c /\ On(d, v, p) /\ fpc'[d] = fpc[d] /\ arg'[d] = arg[d]
BY DEF On, NoArg, Job

LEMMA TakeFriendInv == ASSUME FriendsInv, NEW c \in Calls, TakeFriend(c) PROVE FriendsInv'
<1>0. SameTables /\ raced' = raced /\ fpc[c] = "transaction"
  BY DEF TakeFriend, SameTables
<1>1. /\ CallOK(c) /\ arg[c] \in Args /\ arg[c].pair \in Pairs /\ arg[c].v = 1
  BY <1>0 DEF FriendsInv, CallOK, Places1, OnRequest1
<1>2. /\ DOMAIN fpc' = Calls /\ DOMAIN arg' = Calls /\ fpc'[c] = "commit"
      /\ arg'[c] = [arg[c] EXCEPT !.found = friends[arg[c].pair] > 0]
      /\ \A d \in Calls \ {c} : fpc'[d] = fpc[d] /\ arg'[d] = arg[d]
  BY DEF TakeFriend, FriendsInv, TableTypes, FGoto
<1>3. /\ arg'[c].v = arg[c].v /\ arg'[c].pair = arg[c].pair
      /\ arg'[c].id = arg[c].id /\ arg'[c].by = arg[c].by
  BY <1>1, <1>2 DEF Args
<1>4. arg'[c].found <=> friends[arg[c].pair] > 0
  BY Zenon, <1>1, <1>2 DEF Args
<1>5. arg'[c] \in Args
  <2>1. (friends[arg[c].pair] > 0) \in BOOLEAN
    OBVIOUS
  <2> QED BY <2>1, <1>1, <1>2, Zenon DEF Args
<1>6. TableTypes'
  BY <1>0, <1>2 DEF FriendsInv, TableTypes, SameTables
<1>7. ASSUME NEW d \in Calls PROVE CallOK(d)'
  <2>1. CASE d = c
    BY <2>1, <1>0, <1>1, <1>2, <1>3, <1>4, <1>5
    DEF CallOK, SameTables, Places1, Places2, OnRequest1, OnRequest2
  <2>2. CASE d # c
    BY <2>2, <1>0, <1>2, CallKept, SameGrow DEF FriendsInv
  <2> QED BY <2>1, <2>2
<1>8. ASSUME NEW p \in Pairs, <<1, p>> \notin raced PROVE Unraced1(p)'
  <2>1. Unraced1(p)
    BY Zenon, <1>8 DEF FriendsInv, RaceInv
  <2>2. \A d \in Calls : On(d, 1, p)' <=> On(d, 1, p)
    BY Zenon, <1>2, <1>3 DEF On
  <2>3. friends[p] \in Nat
    BY DEF FriendsInv, TableTypes
  <2>4. ASSUME NEW d \in Calls, On(d, 1, p)'
        PROVE  /\ fpc'[d] = "commit" /\ ~arg'[d].found => friends'[p] = 0
               /\ fpc'[d] = "request" =>
                    \A i \in DOMAIN verifies' : verifies'[i] # Waiting(p)
    <3>1. CASE d = c
      BY <3>1, <2>2, <2>3, <2>4, <1>0, <1>2, <1>4 DEF SameTables, On
    <3>2. CASE d # c
      BY <3>2, <2>1, <2>2, <2>4, <1>0, <1>2 DEF Unraced1, SameTables
    <3> QED BY <3>1, <3>2
  <2> QED BY <2>1, <2>2, <2>4, <1>0 DEF Unraced1, SameTables, Waiting
<1>9. ASSUME NEW p \in Pairs, <<2, p>> \notin raced PROVE Unraced2(p)'
  <2>1. \A d \in Calls : On(d, 2, p)' => On(d, 2, p) /\ fpc'[d] = fpc[d]
    <3>1. ~On(c, 2, p)'
      BY <1>1, <1>3 DEF On
    <3> QED BY Zenon, <3>1, <1>2 DEF On
  <2> QED BY <2>1, <1>0, <1>9, OtherVersion2 DEF FriendsInv, SameTables
<1>10. RaceInv'
  BY <1>8, <1>9, <1>0 DEF RaceInv, Pairs
<1> QED BY <1>0, <1>6, <1>7, <1>10, AcceptanceKept DEF FriendsInv

LEMMA CreateRequestInv == ASSUME FriendsInv, NEW c \in Calls, CreateRequest(c) PROVE FriendsInv'
<1>0. /\ fpc[c] = "request" /\ raced' = raced /\ friends' = friends
      /\ verifies2' = verifies2 /\ friends2' = friends2 /\ accepted' = accepted /\ dealt' = dealt
      /\ verifies' = Append(verifies, Waiting(arg[c].pair)) /\ Returns(c)
  BY DEF CreateRequest
<1>1. PICK q \in Pairs : q = arg[c].pair /\ On(c, 1, q)
  BY <1>0 DEF FriendsInv, CallOK, Places1, On
<1>2. Waiting(q) \in Requests /\ Waiting(q).pair = q /\ Waiting(q).status = 1
  BY DEF Waiting, Requests
<1>3. /\ verifies' \in Seq(Requests) /\ verifies \in Seq(Requests)
      /\ DOMAIN verifies' = 1..(Len(verifies) + 1) /\ DOMAIN verifies = 1..Len(verifies)
      /\ Len(verifies) \in Nat
      /\ \A i \in DOMAIN verifies : i \in DOMAIN verifies' /\ verifies'[i] = verifies[i]
      /\ verifies'[Len(verifies) + 1] = Waiting(q)
  BY <1>0, <1>1, <1>2 DEF FriendsInv, TableTypes
<1>4. TablesGrow
  BY <1>0, <1>3 DEF TablesGrow
<1>5. /\ \A d \in Calls : CallOK(d)'
      /\ DOMAIN fpc' = Calls /\ DOMAIN arg' = Calls
      /\ fpc'[c] = "idle" /\ arg'[c] = NoArg
      /\ \A d \in Calls \ {c} : fpc'[d] = fpc[d] /\ arg'[d] = arg[d]
  BY <1>0, <1>4, CallsReturn DEF FriendsInv
<1>6. TableTypes'
  <2>1. accepted' \subseteq (DOMAIN verifies') \X Users
    BY <1>0, <1>3 DEF FriendsInv, TableTypes
  <2> QED BY <2>1, <1>0, <1>3, <1>5 DEF FriendsInv, TableTypes
<1>7. FriendsByAnswer'
  <2>1. ASSUME NEW p \in Pairs
        PROVE  friends'[p] > 0 <=>
                 \E i \in DOMAIN verifies' :
                   verifies'[i].pair = p /\ <<i, p[2]>> \in accepted'
    <3>1. \A i \in DOMAIN verifies' : <<i, p[2]>> \in accepted => i \in DOMAIN verifies
      BY DEF FriendsInv, TableTypes
    <3>2. friends[p] > 0 <=>
            \E i \in DOMAIN verifies : verifies[i].pair = p /\ <<i, p[2]>> \in accepted
      BY DEF FriendsInv, FriendsByAnswer
    <3>3. (\E i \in DOMAIN verifies : verifies[i].pair = p /\ <<i, p[2]>> \in accepted)
            <=> \E i \in DOMAIN verifies' :
                  verifies'[i].pair = p /\ <<i, p[2]>> \in accepted
      BY <3>1, <1>3, Zenon
    <3> QED BY Zenon, <3>2, <3>3, <1>0
  <2>2. \A i \in DOMAIN verifies' :
          verifies'[i].status = 2 => friends'[verifies'[i].pair] > 0
    BY <1>0, <1>2, <1>3 DEF FriendsInv, FriendsByAnswer
  <2>3. \A p \in Pairs :
          friends2'[p] > 0 => \E i \in dealt' : verifies2'[i].pair = p
    BY <1>0 DEF FriendsInv, FriendsByAnswer
  <2> QED BY Zenon, <2>1, <2>2, <2>3 DEF FriendsByAnswer, Pairs
<1>8. ASSUME NEW p \in Pairs, <<1, p>> \notin raced PROVE Unraced1(p)'
  <2>1. Unraced1(p)
    BY Zenon, <1>8 DEF FriendsInv, RaceInv
  <2>2. \A d \in Calls : On(d, 1, p)' =>
          d # c /\ On(d, 1, p) /\ fpc'[d] = fpc[d] /\ arg'[d] = arg[d]
    BY <1>5, ReturnOn
  <2>3. CASE p # q
    <3>1. Waiting(q) # Waiting(p)
      BY <2>3, <1>2 DEF Waiting
    <3>2. \A i \in DOMAIN verifies' : verifies'[i] = Waiting(p) =>
            i \in DOMAIN verifies /\ verifies[i] = Waiting(p)
      BY <3>1, <1>3
    <3> QED BY <3>2, <2>1, <2>2, <1>0, Unraced1Kept
  <2>4. CASE p = q
    <3>1. \A d \in Calls : ~On(d, 1, p)'
      BY <2>1, <2>2, <2>4, <1>1 DEF Unraced1
    <3>2. \A i \in DOMAIN verifies : verifies[i] # Waiting(p)
      BY <2>1, <2>4, <1>0, <1>1 DEF Unraced1
    <3>3. \A i, j \in DOMAIN verifies' :
            verifies'[i] = Waiting(p) /\ verifies'[j] = Waiting(p) => i = j
      BY <3>2, <1>3
    <3> QED BY <3>1, <3>3, <2>1, <1>0 DEF Unraced1, Waiting
  <2> QED BY <2>3, <2>4
<1>9. ASSUME NEW p \in Pairs, <<2, p>> \notin raced PROVE Unraced2(p)'
  <2>1. \A d \in Calls : On(d, 2, p)' => On(d, 2, p) /\ fpc'[d] = fpc[d]
    BY <1>5, ReturnOn
  <2> QED BY <2>1, <1>0, <1>9, OtherVersion2 DEF FriendsInv
<1>10. RaceInv'
  BY <1>8, <1>9, <1>0 DEF RaceInv, Pairs
<1> QED BY <1>5, <1>6, <1>7, <1>10 DEF FriendsInv

LEMMA CreateRequest2Inv ==
  ASSUME FriendsInv, NEW c \in Calls, CreateRequest2(c) PROVE FriendsInv'
<1>0. /\ fpc[c] = "request2" /\ raced' = raced /\ friends' = friends
      /\ verifies' = verifies /\ friends2' = friends2 /\ accepted' = accepted /\ dealt' = dealt
      /\ verifies2' = Append(verifies2, Waiting(arg[c].pair)) /\ Returns(c)
  BY DEF CreateRequest2
<1>1. PICK q \in Pairs : q = arg[c].pair /\ On(c, 2, q)
  BY <1>0 DEF FriendsInv, CallOK, Places2, On
<1>2. Waiting(q) \in Requests /\ Waiting(q).pair = q
  BY DEF Waiting, Requests
<1>3. /\ verifies2' \in Seq(Requests) /\ verifies2 \in Seq(Requests)
      /\ DOMAIN verifies2' = 1..(Len(verifies2) + 1) /\ DOMAIN verifies2 = 1..Len(verifies2)
      /\ Len(verifies2) \in Nat
      /\ \A i \in DOMAIN verifies2 : i \in DOMAIN verifies2' /\ verifies2'[i] = verifies2[i]
      /\ verifies2'[Len(verifies2) + 1] = Waiting(q)
  BY <1>0, <1>1, <1>2 DEF FriendsInv, TableTypes
<1>4. TablesGrow
  BY <1>0, <1>3 DEF TablesGrow
<1>5. /\ \A d \in Calls : CallOK(d)'
      /\ DOMAIN fpc' = Calls /\ DOMAIN arg' = Calls
      /\ fpc'[c] = "idle" /\ arg'[c] = NoArg
      /\ \A d \in Calls \ {c} : fpc'[d] = fpc[d] /\ arg'[d] = arg[d]
  BY <1>0, <1>4, CallsReturn DEF FriendsInv
<1>6. TableTypes'
  BY <1>0, <1>3, <1>5 DEF FriendsInv, TableTypes
<1>7. FriendsByAnswer'
  <2>1. \A p \in Pairs :
          friends2'[p] > 0 => \E i \in dealt' : verifies2'[i].pair = p
    <3>1. dealt \subseteq DOMAIN verifies2
      BY DEF FriendsInv, TableTypes
    <3>2. \A p \in Pairs : friends2[p] > 0 => \E i \in dealt : verifies2[i].pair = p
      BY Zenon DEF FriendsInv, FriendsByAnswer
    <3>3. dealt \subseteq dealt' /\ friends2' = friends2
      BY <1>0
    <3>4. \A i \in dealt : verifies2'[i].pair = verifies2[i].pair
      BY <1>3, <3>1
    <3> QED BY Zenon, <3>2, <3>3, <3>4
  <2> QED BY Zenon, <2>1, <1>0 DEF FriendsInv, FriendsByAnswer, Pairs
<1>8. ASSUME NEW p \in Pairs, <<2, p>> \notin raced PROVE Unraced2(p)'
  <2>1. Unraced2(p)
    BY Zenon, <1>8 DEF FriendsInv, RaceInv
  <2>2. \A d \in Calls : On(d, 2, p)' => d # c /\ On(d, 2, p) /\ fpc'[d] = fpc[d]
    BY <1>5, ReturnOn
  <2>3. CASE p # q
    <3>1. \A i \in DOMAIN verifies2' : verifies2'[i].pair = p =>
            i \in DOMAIN verifies2 /\ verifies2[i].pair = p
      BY <2>3, <1>2, <1>3
    <3> QED BY <3>1, <2>1, <2>2, Unraced2Kept
  <2>4. CASE p = q
    <3>1. \A d \in Calls : ~On(d, 2, p)'
      BY <2>1, <2>2, <2>4, <1>1 DEF Unraced2
    <3>2. \A i \in DOMAIN verifies2 : verifies2[i].pair # p
      BY <2>1, <2>4, <1>0, <1>1 DEF Unraced2
    <3>3. \A i, j \in DOMAIN verifies2' :
            verifies2'[i].pair = p /\ verifies2'[j].pair = p => i = j
      BY <3>2, <1>3
    <3> QED BY <3>1, <3>3 DEF Unraced2
  <2> QED BY <2>3, <2>4
<1>9. ASSUME NEW p \in Pairs, <<1, p>> \notin raced PROVE Unraced1(p)'
  <2>1. \A d \in Calls : On(d, 1, p)' =>
          On(d, 1, p) /\ fpc'[d] = fpc[d] /\ arg'[d] = arg[d]
    BY <1>5, ReturnOn
  <2> QED BY <2>1, <1>0, <1>9, OtherVersion1 DEF FriendsInv
<1>10. RaceInv'
  BY <1>8, <1>9, <1>0 DEF RaceInv, Pairs
<1> QED BY <1>5, <1>6, <1>7, <1>10 DEF FriendsInv

\* A new status leaves the ids and the pairs of the requests as they are.
LEMMA StatusSet ==
  ASSUME NEW s \in Seq(Requests), NEW i \in DOMAIN s, NEW st \in 1..3,
         NEW t, t = [s EXCEPT ![i].status = st]
  PROVE  /\ t \in Seq(Requests) /\ DOMAIN t = DOMAIN s
         /\ \A j \in DOMAIN s : t[j].pair = s[j].pair
         /\ \A j \in DOMAIN s : j # i => t[j] = s[j]
         /\ t[i].status = st
<1>1. s[i] \in Requests
  OBVIOUS
<1>2. PICK r : r = [s[i] EXCEPT !.status = st]
  OBVIOUS
<1>3. r \in Requests /\ r.pair = s[i].pair /\ r.status = st
  BY <1>1, <1>2 DEF Requests
<1>4. t = [s EXCEPT ![i] = r]
  BY <1>2
<1>5. t \in Seq(Requests) /\ DOMAIN t = DOMAIN s
  BY <1>3, <1>4
<1> QED BY <1>3, <1>4, <1>5

LEMMA UpdateStatusInv == ASSUME FriendsInv, NEW c \in Calls, UpdateStatus(c) PROVE FriendsInv'
<1>0. /\ fpc[c] = "update" /\ raced' = raced /\ friends' = friends /\ arg' = arg
      /\ verifies' = verifies /\ friends2' = friends2 /\ accepted' = accepted
      /\ dealt' = dealt \cup {arg[c].id} /\ FGoto(c, "befriend")
  BY DEF UpdateStatus
<1>1. /\ CallOK(c) /\ arg[c].id \in DOMAIN verifies2 /\ arg[c].status \in 0..3
      /\ verifies2[arg[c].id].pair = arg[c].pair /\ arg[c].pair \in Pairs /\ arg[c].v = 2
  BY <1>0 DEF FriendsInv, CallOK, Places2, OnRequest2, Args
<1>2. PICK st \in 1..3 : st = IF arg[c].status = 0 THEN verifies2[arg[c].id].status
                             ELSE arg[c].status
  <2>1. verifies2[arg[c].id] \in Requests
    BY <1>1 DEF FriendsInv, TableTypes
  <2>2. verifies2[arg[c].id].status \in 1..3
    BY <2>1 DEF Requests
  <2> QED BY <2>2, <1>1
<1>3. verifies2' = [verifies2 EXCEPT ![arg[c].id].status = st]
  BY <1>2 DEF UpdateStatus
<1>4. /\ verifies2' \in Seq(Requests) /\ DOMAIN verifies2' = DOMAIN verifies2
      /\ \A j \in DOMAIN verifies2 : verifies2'[j].pair = verifies2[j].pair
  <2>1. verifies2 \in Seq(Requests)
    BY DEF FriendsInv, TableTypes
  <2> QED BY <2>1, <1>1, <1>3, StatusSet
<1>5. TablesGrow
  BY <1>0, <1>4 DEF TablesGrow
<1>6. /\ DOMAIN fpc' = Calls /\ fpc'[c] = "befriend"
      /\ \A d \in Calls \ {c} : fpc'[d] = fpc[d]
  BY <1>0 DEF FriendsInv, TableTypes, FGoto
<1>7. TableTypes'
  <2>1. dealt' \subseteq DOMAIN verifies2'
    BY <1>0, <1>1, <1>4 DEF FriendsInv, TableTypes
  <2>2. TableTypes
    BY DEF FriendsInv
  <2> QED BY <2>1, <2>2, <1>0, <1>4, <1>6 DEF TableTypes
<1>8. ASSUME NEW d \in Calls PROVE CallOK(d)'
  <2>1. CASE d = c
    BY <2>1, <1>0, <1>1, <1>4, <1>6
    DEF CallOK, Places1, Places2, OnRequest1, OnRequest2
  <2>2. CASE d # c
    BY <2>2, <1>0, <1>5, <1>6, CallKept DEF FriendsInv
  <2> QED BY <2>1, <2>2
<1>9. FriendsByAnswer'
  <2>1. \A p \in Pairs :
          friends2'[p] > 0 => \E i \in dealt' : verifies2'[i].pair = p
    <3>1. dealt \subseteq DOMAIN verifies2
      BY DEF FriendsInv, TableTypes
    <3>2. \A p \in Pairs : friends2[p] > 0 => \E i \in dealt : verifies2[i].pair = p
      BY Zenon DEF FriendsInv, FriendsByAnswer
    <3>3. dealt \subseteq dealt' /\ friends2' = friends2
      BY <1>0
    <3>4. \A i \in dealt : verifies2'[i].pair = verifies2[i].pair
      BY <1>4, <3>1
    <3> QED BY Zenon, <3>2, <3>3, <3>4
  <2> QED BY Zenon, <2>1, <1>0 DEF FriendsInv, FriendsByAnswer, Pairs
<1>10. ASSUME NEW p \in Pairs, <<1, p>> \notin raced PROVE Unraced1(p)'
  <2>1. \A d \in Calls : On(d, 1, p)' =>
          On(d, 1, p) /\ fpc'[d] = fpc[d] /\ arg'[d] = arg[d]
    BY <1>0, <1>1, <1>6 DEF On
  <2> QED BY <2>1, <1>0, <1>10, OtherVersion1 DEF FriendsInv
<1>11. ASSUME NEW p \in Pairs, <<2, p>> \notin raced PROVE Unraced2(p)'
  <2>1. Unraced2(p)
    BY Zenon, <1>11 DEF FriendsInv, RaceInv
  <2>2. \A d \in Calls : On(d, 2, p)' =>
          On(d, 2, p) /\ (fpc'[d] = fpc[d] \/ fpc'[d] # "request2")
    BY <1>0, <1>6 DEF On
  <2>3. \A i \in DOMAIN verifies2' : verifies2'[i].pair = p =>
          i \in DOMAIN verifies2 /\ verifies2[i].pair = p
    BY <1>4
  <2> QED BY <2>1, <2>2, <2>3, Unraced2Kept
<1>12. RaceInv'
  BY <1>10, <1>11, <1>0 DEF RaceInv, Pairs
<1> QED BY <1>7, <1>8, <1>9, <1>12 DEF FriendsInv

\* A call of v1 sets the status of its request to st, not to waiting.
LEMMA AnswerRows ==
  ASSUME FriendsInv, NEW c \in Calls, fpc[c] \in {"commit", "refuse"}, NEW st \in {2, 3},
         verifies' = [verifies EXCEPT ![arg[c].id].status = st]
  PROVE  /\ arg[c].id \in DOMAIN verifies /\ arg[c].pair \in Pairs /\ On(c, 1, arg[c].pair)
         /\ verifies[arg[c].id].pair = arg[c].pair /\ arg[c].by = arg[c].pair[2]
         /\ verifies' \in Seq(Requests) /\ DOMAIN verifies' = DOMAIN verifies
         /\ \A j \in DOMAIN verifies : verifies'[j].pair = verifies[j].pair
         /\ \A j \in DOMAIN verifies : j # arg[c].id => verifies'[j] = verifies[j]
         /\ verifies'[arg[c].id].status = st
         /\ \A p \in Pairs, i \in DOMAIN verifies' : verifies'[i] = Waiting(p) =>
              i \in DOMAIN verifies /\ verifies[i] = Waiting(p)
<1>1. /\ arg[c].id \in DOMAIN verifies /\ arg[c].pair \in Pairs /\ On(c, 1, arg[c].pair)
      /\ verifies[arg[c].id].pair = arg[c].pair /\ arg[c].by = arg[c].pair[2]
  BY DEF FriendsInv, CallOK, Places1, OnRequest1, On
<1>2. verifies \in Seq(Requests) /\ st \in 1..3
  BY DEF FriendsInv, TableTypes
<1>3. /\ verifies' \in Seq(Requests) /\ DOMAIN verifies' = DOMAIN verifies
      /\ \A j \in DOMAIN verifies : verifies'[j].pair = verifies[j].pair
      /\ \A j \in DOMAIN verifies : j # arg[c].id => verifies'[j] = verifies[j]
      /\ verifies'[arg[c].id].status = st
  BY <1>1, <1>2, StatusSet
<1>4. \A p \in Pairs : Waiting(p).status # st
  BY DEF Waiting
<1> QED BY <1>1, <1>3, <1>4

LEMMA RefuseInv == ASSUME FriendsInv, NEW c \in Calls, Refuse(c) PROVE FriendsInv'
<1>0. /\ fpc[c] = "refuse" /\ raced' = raced /\ friends' = friends
      /\ verifies2' = verifies2 /\ friends2' = friends2 /\ accepted' = accepted /\ dealt' = dealt
      /\ verifies' = [verifies EXCEPT ![arg[c].id].status = 3] /\ Returns(c)
  BY DEF Refuse
<1>1. /\ arg[c].id \in DOMAIN verifies
      /\ verifies' \in Seq(Requests) /\ DOMAIN verifies' = DOMAIN verifies
      /\ \A j \in DOMAIN verifies : verifies'[j].pair = verifies[j].pair
      /\ \A j \in DOMAIN verifies : j # arg[c].id => verifies'[j] = verifies[j]
      /\ verifies'[arg[c].id].status = 3
      /\ \A p \in Pairs, i \in DOMAIN verifies' : verifies'[i] = Waiting(p) =>
           i \in DOMAIN verifies /\ verifies[i] = Waiting(p)
  BY Zenon, <1>0, AnswerRows
<1>2. TablesGrow
  BY <1>0, <1>1 DEF TablesGrow
<1>3. /\ \A d \in Calls : CallOK(d)'
      /\ DOMAIN fpc' = Calls /\ DOMAIN arg' = Calls
      /\ fpc'[c] = "idle" /\ arg'[c] = NoArg
      /\ \A d \in Calls \ {c} : fpc'[d] = fpc[d] /\ arg'[d] = arg[d]
  BY <1>0, <1>2, CallsReturn DEF FriendsInv
<1>4. TableTypes'
  BY <1>0, <1>1, <1>3 DEF FriendsInv, TableTypes
<1>5. FriendsByAnswer'
  <2>1. ASSUME NEW p \in Pairs
        PROVE  friends'[p] > 0 <=>
                 \E i \in DOMAIN verifies' :
                   verifies'[i].pair = p /\ <<i, p[2]>> \in accepted'
    <3>1. friends[p] > 0 <=>
            \E i \in DOMAIN verifies : verifies[i].pair = p /\ <<i, p[2]>> \in accepted
      BY Zenon DEF FriendsInv, FriendsByAnswer
    <3> QED BY <3>1, <1>0, <1>1, Zenon
  <2>2. \A i \in DOMAIN verifies' :
          verifies'[i].status = 2 => friends'[verifies'[i].pair] > 0
    BY <1>0, <1>1 DEF FriendsInv, FriendsByAnswer
  <2>3. \A p \in Pairs :
          friends2'[p] > 0 => \E i \in dealt' : verifies2'[i].pair = p
    BY Zenon, <1>0 DEF FriendsInv, FriendsByAnswer
  <2> QED BY Zenon, <2>1, <2>2, <2>3 DEF FriendsByAnswer, Pairs
<1>6. ASSUME NEW p \in Pairs, <<1, p>> \notin raced PROVE Unraced1(p)'
  <2>1. Unraced1(p)
    BY Zenon, <1>6 DEF FriendsInv, RaceInv
  <2>2. \A d \in Calls : On(d, 1, p)' =>
          On(d, 1, p) /\ fpc'[d] = fpc[d] /\ arg'[d] = arg[d]
    BY <1>3, ReturnOn
  <2> QED BY <2>1, <2>2, <1>0, <1>1, Unraced1Kept
<1>7. ASSUME NEW p \in Pairs, <<2, p>> \notin raced PROVE Unraced2(p)'
  <2>1. \A d \in Calls : On(d, 2, p)' => On(d, 2, p) /\ fpc'[d] = fpc[d]
    BY <1>3, ReturnOn
  <2> QED BY <2>1, <1>0, <1>7, OtherVersion2 DEF FriendsInv
<1>8. RaceInv'
  BY <1>6, <1>7, <1>0 DEF RaceInv, Pairs
<1> QED BY <1>3, <1>4, <1>5, <1>8 DEF FriendsInv

LEMMA CommitInv == ASSUME FriendsInv, NEW c \in Calls, Commit(c) PROVE FriendsInv'
<1>0. /\ fpc[c] = "commit" /\ raced' = raced
      /\ verifies2' = verifies2 /\ friends2' = friends2 /\ dealt' = dealt
      /\ accepted' = accepted \cup {<<arg[c].id, arg[c].by>>}
      /\ verifies' = [verifies EXCEPT ![arg[c].id].status = 2] /\ Returns(c)
      /\ friends' = [friends EXCEPT ![arg[c].pair] =
           IF arg[c].found THEN friends[arg[c].pair] ELSE friends[arg[c].pair] + 1]
  BY DEF Commit
<1>1. /\ arg[c].id \in DOMAIN verifies /\ arg[c].pair \in Pairs /\ On(c, 1, arg[c].pair)
      /\ verifies[arg[c].id].pair = arg[c].pair /\ arg[c].by = arg[c].pair[2]
      /\ verifies' \in Seq(Requests) /\ DOMAIN verifies' = DOMAIN verifies
      /\ \A j \in DOMAIN verifies : verifies'[j].pair = verifies[j].pair
      /\ \A j \in DOMAIN verifies : j # arg[c].id => verifies'[j] = verifies[j]
      /\ \A p \in Pairs, i \in DOMAIN verifies' : verifies'[i] = Waiting(p) =>
           i \in DOMAIN verifies /\ verifies[i] = Waiting(p)
  BY Zenon, <1>0, AnswerRows
<1>2. PICK q \in Pairs, i \in DOMAIN verifies : q = arg[c].pair /\ i = arg[c].id
  BY <1>1
<1>3. /\ friends' \in [Pairs -> Nat] /\ friends'[q] > 0
      /\ \A p \in Pairs : p # q => friends'[p] = friends[p]
      /\ friends'[q] = IF arg[c].found THEN friends[q] ELSE friends[q] + 1
  <2>1. friends \in [Pairs -> Nat] /\ (arg[c].found => friends[q] > 0)
    BY <1>0, <1>2 DEF FriendsInv, TableTypes, CallOK
  <2>2. friends' = [friends EXCEPT ![q] = IF arg[c].found THEN friends[q] ELSE friends[q] + 1]
    BY <1>0, <1>2
  <2> QED BY <2>1, <2>2
<1>4. TablesGrow
  BY <1>0, <1>1, <1>3 DEF TablesGrow
<1>5. /\ \A d \in Calls : CallOK(d)'
      /\ DOMAIN fpc' = Calls /\ DOMAIN arg' = Calls
      /\ fpc'[c] = "idle" /\ arg'[c] = NoArg
      /\ \A d \in Calls \ {c} : fpc'[d] = fpc[d] /\ arg'[d] = arg[d]
  BY <1>0, <1>4, CallsReturn DEF FriendsInv
<1>6. q[2] \in Users /\ accepted' = accepted \cup {<<i, q[2]>>}
  BY <1>0, <1>1, <1>2 DEF Pairs
<1>7. TableTypes'
  <2>1. accepted' \subseteq (DOMAIN verifies') \X Users
    <3>1. accepted \subseteq (DOMAIN verifies) \X Users
      BY DEF FriendsInv, TableTypes
    <3> QED BY <3>1, <1>1, <1>6
  <2>2. TableTypes
    BY DEF FriendsInv
  <2> QED BY <2>1, <2>2, <1>0, <1>1, <1>3, <1>5 DEF TableTypes
<1>8. FriendsByAnswer'
  <2>1. ASSUME NEW p \in Pairs
        PROVE  friends'[p] > 0 <=>
                 \E j \in DOMAIN verifies' :
                   verifies'[j].pair = p /\ <<j, p[2]>> \in accepted'
    <3>1. CASE p = q
      <4>1. /\ i \in DOMAIN verifies' /\ verifies'[i].pair = p /\ <<i, p[2]>> \in accepted'
        BY <3>1, <1>1, <1>2, <1>6
      <4> QED BY <4>1, <3>1, <1>3
    <3>2. CASE p # q
      <4>1. \A j \in DOMAIN verifies : verifies[j].pair = p =>
              (<<j, p[2]>> \in accepted' <=> <<j, p[2]>> \in accepted)
        BY <3>2, <1>1, <1>2, <1>6
      <4>2. friends[p] > 0 <=>
              \E j \in DOMAIN verifies : verifies[j].pair = p /\ <<j, p[2]>> \in accepted
        BY DEF FriendsInv, FriendsByAnswer
      <4> QED BY Zenon, <4>1, <4>2, <3>2, <1>1, <1>3
    <3> QED BY <3>1, <3>2
  <2>2. \A j \in DOMAIN verifies' :
          verifies'[j].status = 2 => friends'[verifies'[j].pair] > 0
    <3> SUFFICES ASSUME NEW j \in DOMAIN verifies', verifies'[j].status = 2
                 PROVE  friends'[verifies'[j].pair] > 0
      OBVIOUS
    <3>1. CASE j = i
      BY <3>1, <1>1, <1>2, <1>3
    <3>2. CASE j # i
      <4>1. j \in DOMAIN verifies /\ verifies'[j] = verifies[j]
        BY <3>2, <1>1, <1>2
      <4>2. friends[verifies[j].pair] > 0 /\ verifies[j].pair \in Pairs
        BY <4>1, RequestPairs DEF FriendsInv, FriendsByAnswer
      <4> QED BY <4>1, <4>2, <1>3
    <3> QED BY <3>1, <3>2
  <2>3. \A p \in Pairs :
          friends2'[p] > 0 => \E j \in dealt' : verifies2'[j].pair = p
    BY <1>0 DEF FriendsInv, FriendsByAnswer
  <2> QED BY <2>1, <2>2, <2>3 DEF FriendsByAnswer, Pairs
<1>9. ASSUME NEW p \in Pairs, <<1, p>> \notin raced PROVE Unraced1(p)'
  <2>1. Unraced1(p)
    BY Zenon, <1>9 DEF FriendsInv, RaceInv
  <2>2. \A d \in Calls : On(d, 1, p)' =>
          d # c /\ On(d, 1, p) /\ fpc'[d] = fpc[d] /\ arg'[d] = arg[d]
    BY <1>5, ReturnOn
  <2>3. CASE p # q
    BY <2>1, <2>2, <2>3, <1>1, <1>3, Unraced1Kept
  <2>4. CASE p = q
    <3>1. \A d \in Calls : ~On(d, 1, p)'
      BY <2>1, <2>2, <2>4, <1>1, <1>2 DEF Unraced1
    <3>2. friends'[p] <= 1
      BY <2>1, <2>4, <1>0, <1>1, <1>2, <1>3 DEF Unraced1
    <3>3. \A k, l \in DOMAIN verifies' :
            verifies'[k] = Waiting(p) /\ verifies'[l] = Waiting(p) => k = l
      BY <2>1, <1>1 DEF Unraced1
    <3> QED BY <3>1, <3>2, <3>3 DEF Unraced1, Waiting
  <2> QED BY <2>3, <2>4
<1>10. ASSUME NEW p \in Pairs, <<2, p>> \notin raced PROVE Unraced2(p)'
  <2>1. \A d \in Calls : On(d, 2, p)' => On(d, 2, p) /\ fpc'[d] = fpc[d]
    BY <1>5, ReturnOn
  <2> QED BY <2>1, <1>0, <1>10, OtherVersion2 DEF FriendsInv
<1>11. RaceInv'
  BY <1>9, <1>10, <1>0 DEF RaceInv, Pairs
<1> QED BY <1>5, <1>7, <1>8, <1>11 DEF FriendsInv

LEMMA CreateFriend2Inv ==
  ASSUME FriendsInv, NEW c \in Calls, CreateFriend2(c) PROVE FriendsInv'
<1>0. /\ fpc[c] = "befriend" /\ raced' = raced /\ friends' = friends
      /\ verifies' = verifies /\ verifies2' = verifies2 /\ accepted' = accepted /\ dealt' = dealt
      /\ friends2' = [friends2 EXCEPT ![arg[c].pair] = friends2[arg[c].pair] + 1]
      /\ Returns(c)
  BY DEF CreateFriend2
<1>1. PICK q \in Pairs, i \in dealt : q = arg[c].pair /\ verifies2[i].pair = q
  BY <1>0 DEF FriendsInv, CallOK, OnRequest2, Places2
<1>2. TablesGrow
  BY <1>0 DEF TablesGrow
<1>3. /\ \A d \in Calls : CallOK(d)'
      /\ DOMAIN fpc' = Calls /\ DOMAIN arg' = Calls
      /\ fpc'[c] = "idle" /\ arg'[c] = NoArg
      /\ \A d \in Calls \ {c} : fpc'[d] = fpc[d] /\ arg'[d] = arg[d]
  BY <1>0, <1>2, CallsReturn DEF FriendsInv
<1>4. /\ friends2' \in [Pairs -> Nat]
      /\ \A p \in Pairs : p # q => friends2'[p] = friends2[p]
  <2>1. friends2 \in [Pairs -> Nat]
    BY DEF FriendsInv, TableTypes
  <2>2. friends2' = [friends2 EXCEPT ![q] = friends2[q] + 1]
    BY <1>0, <1>1
  <2> QED BY <2>1, <2>2
<1>5. TableTypes'
  <2>1. TableTypes
    BY DEF FriendsInv
  <2> QED BY <2>1, <1>0, <1>3, <1>4 DEF TableTypes
<1>6. FriendsByAnswer'
  <2>1. \A p \in Pairs :
          friends2'[p] > 0 => \E j \in dealt' : verifies2'[j].pair = p
    BY <1>0, <1>1, <1>4 DEF FriendsInv, FriendsByAnswer
  <2> QED BY <2>1, <1>0, Zenon DEF FriendsInv, FriendsByAnswer, Pairs
<1>7. ASSUME NEW p \in Pairs, <<1, p>> \notin raced PROVE Unraced1(p)'
  <2>1. \A d \in Calls : On(d, 1, p)' =>
          On(d, 1, p) /\ fpc'[d] = fpc[d] /\ arg'[d] = arg[d]
    BY <1>3, ReturnOn
  <2> QED BY <2>1, <1>0, <1>7, OtherVersion1 DEF FriendsInv
<1>8. ASSUME NEW p \in Pairs, <<2, p>> \notin raced PROVE Unraced2(p)'
  <2>1. \A d \in Calls : On(d, 2, p)' => On(d, 2, p) /\ fpc'[d] = fpc[d]
    BY <1>3, ReturnOn
  <2> QED BY <2>1, <1>0, <1>8, OtherVersion2 DEF FriendsInv
<1>9. RaceInv'
  BY <1>7, <1>8, <1>0 DEF RaceInv, Pairs
<1> QED BY <1>3, <1>5, <1>6, <1>9 DEF FriendsInv

-----------------------------------------------------------------------------
LEMMA FriendsNextInv == FriendsInv /\ [FriendsNext]_friendVars => FriendsInv'
<1> SUFFICES ASSUME FriendsInv, [FriendsNext]_friendVars PROVE FriendsInv'
  OBVIOUS
<1>1. CASE UNCHANGED friendVars
  <2>1. SameTables /\ UNCHANGED <<fpc, arg, raced>>
    BY <1>1 DEF friendVars, SameTables
  <2> QED BY <2>1, FriendsStutter
<1>2. CASE FriendsNext
  BY <1>2, AddFriendInv, TakePendingInv, CreateRequestInv, ValidFriendInv,
     TakeFriendInv, CommitInv, RefuseInv, SendVerifyInv, ListRequestsInv,
     CreateRequest2Inv, DealVerifyInv, UpdateStatusInv, CreateFriend2Inv,
     CallFailsInv, FriendsRestartInv
  DEF FriendsNext
<1> QED BY <1>1, <1>2

LEMMA FriendsInvariance == FriendsSpec => []FriendsInv
<1>1. FriendsInit => FriendsInv
  BY FriendsInitInv
<1>2. FriendsInv /\ [FriendsNext]_friendVars => FriendsInv'
  BY FriendsNextInv
<1> QED BY <1>1, <1>2, PTL DEF FriendsSpec

\* Friends are those who asked and were answered, in v1 accepted (ValidFriend), in
\* v2 dealt with in whatever way (DealVerify), for any number of users, of calls
\* at the same time, of failures and restarts.
THEOREM FriendsWereAnswered == FriendsSpec => []FriendsByAnswer
<1>1. FriendsInv => FriendsByAnswer
  BY DEF FriendsInv
<1> QED BY <1>1, FriendsInvariance, PTL

\* A direction has two rows of friend, two waiting requests, or in v2 two
\* requests (AddFriend, ValidFriend, SendVerify), only where calls overlapped.
THEOREM OnlyRacesDouble == FriendsSpec => []OneRowUnlessRaced
<1>1. FriendsInv => OneRowUnlessRaced
  BY DEF FriendsInv, RaceInv, Unraced1, Unraced2, OneRowUnlessRaced
<1> QED BY <1>1, FriendsInvariance, PTL
=============================================================================
