---------------------------- MODULE WsHubProofs ----------------------------
(***************************************************************************)
(* Theorems about WsHub, for any connections, users and senders: writes to *)
(* a registered connection are exclusive, SendJSON reaches every           *)
(* connection that stays registered during the call, and a connection      *)
(* whose handler has returned is in no set.                                *)
(*                                                                         *)
(* The first half has the inductive invariant and the kinds of steps that  *)
(* keep it: a step that changes only a goroutine's own place (OwnStep,     *)
(* LocalStep), one that leaves fn (UnlockStep), one that takes a           *)
(* connection out of the hub's maps (ForgetStep), and one the hub does not *)
(* see (QuietStep).  The second half has one lemma per action.             *)
(***************************************************************************)
EXTENDS WsHub, TLAPS

LEMMA ProcFacts ==
  /\ \A c \in Conns : /\ Handler(c) \in Procs /\ Ping(c) \in Procs
                      /\ Handler(c) \in Handlers /\ Ping(c) \in Pings
                      /\ Handler(c) \notin Senders /\ Ping(c) \notin Senders
                      /\ Handler(c) \notin Pings /\ Ping(c) \notin Handlers
  /\ \A c, d \in Conns : /\ Handler(c) # Ping(d)
                         /\ Handler(c) = Handler(d) => c = d
                         /\ Ping(c) = Ping(d) => c = d
  /\ \A s \in Senders : s \in Procs /\ s \notin Handlers /\ s \notin Pings
BY ProcsAssumption DEF Procs, Handlers, Pings, Handler, Ping

Registered(c) == c \in byUUID[UuidOf[c]]

\* Who is where: a goroutine in WithConnWrite has a connection that has been
\* registered, and past the look-up a mutex; an unregistered connection is
\* used by nobody yet; a call has its number.
HasConn(p) ==
  /\ pc[p] \in {"lookup", "lazy", "lock"} \/ InFn(p) => cur[p] \in Conns
  /\ pc[p] = "lock" \/ InFn(p) => ref[p] \in LockIds
  /\ pc[p] \in {"cleanup", "range", "idle"} => p \in Senders

Early == {"register", "lookup", "lazy", "lock", "write"}

Unborn(c) ==
  /\ pc[Handler(c)] \in Early => pc[Ping(c)] = "off"
  /\ pc[Handler(c)] = "register" =>
       ~Registered(c) /\ \A p \in Procs : cur[p] # c

PlaceInv ==
  /\ \A p \in Procs : HasConn(p)
  /\ \A c \in Conns : Unborn(c)
  /\ \A u \in Uuids : \A c \in byUUID[u] : UuidOf[c] = u

\* A registered connection has one mutex, and the goroutines that have a
\* mutex for it have that one.
RefInv(p) ==
  (pc[p] = "lock" \/ InFn(p)) /\ Registered(cur[p]) => ref[p] = locks[cur[p]]

LockInv ==
  /\ LockedIffInFn
  /\ \A c \in Conns : Registered(c) => locks[c] # NoLock
  /\ \A p \in Procs : RefInv(p)

\* What a running call owes: the connections it started with are of its user
\* and have been registered; while one of them still is, the set has not been
\* dropped; a visited one that still is registered has the payload or is the
\* one being written.
Serving(s, c) ==
  cur[s] = c /\ pc[s] \in {"lookup", "lazy", "lock", "write", "cleanup"}

Owes(s, c) ==
  /\ UuidOf[c] = uuid[s] /\ pc[Handler(c)] # "register"
  /\ Registered(c) =>
       /\ set[s] = setNo[uuid[s]]
       /\ c \in seen[s] => call[s] \in got[c] \/ Serving(s, c)

Reached(d, c) ==
  pc[Handler(c)] # "register" /\ (Registered(c) => d.call \in got[c])

CallOK(s) ==
  /\ call[s] \in 1..MaxSends /\ must[s] \subseteq Conns
  /\ \A c \in must[s] : Owes(s, c)

SendInv ==
  /\ \A s \in Senders : pc[s] # "idle" => CallOK(s)
  /\ \A d \in done : \A c \in d.must : c \in Conns /\ Reached(d, c)

Core == PlaceInv /\ LockInv /\ SendInv
Inv  == TypeOK /\ Core

-----------------------------------------------------------------------------
LEMMA InitInv == Init => Inv
<1> SUFFICES ASSUME Init PROVE Inv
  OBVIOUS
<1>1. TypeOK
  <2>1. HubTypes /\ ConnTypes /\ HistTypes
    BY DEF Init, HubTypes, ConnTypes, HistTypes
  <2>2. PlaceTypes
    BY DEF Init, PlaceTypes, HandlerPCs, PingPCs, SenderPCs
  <2>3. SendTypes
    BY OwnersAssumption, BoundsAssumption DEF Init, SendTypes
  <2> QED BY <2>1, <2>2, <2>3 DEF TypeOK
<1>2. /\ \A p \in Procs : /\ pc[p] \in {"register", "off", "idle"}
                          /\ pc[p] = "idle" => p \in Senders
                          /\ cur[p] = NoConn
      /\ \A c \in Conns : pc[Handler(c)] = "register" /\ pc[Ping(c)] = "off"
      /\ \A s \in Senders : pc[s] = "idle"
  BY ProcFacts DEF Init, Procs
<1>3. held = {} /\ done = {} /\ \A p \in Procs : ~InFn(p)
  BY <1>2 DEF Init, InFn
<1>4. (\A u \in Uuids : byUUID[u] = {}) /\ \A c \in Conns : ~Registered(c)
  BY OwnersAssumption DEF Init, Registered
<1>5. PlaceInv
  BY <1>2, <1>3, <1>4, NamesAssumption DEF PlaceInv, HasConn, Unborn
<1>6. LockInv
  BY <1>2, <1>3, <1>4 DEF LockInv, LockedIffInFn, RefInv
<1>7. SendInv
  BY <1>2, <1>3, <1>4 DEF SendInv
<1> QED BY <1>1, <1>5, <1>6, <1>7 DEF Inv, Core

LEMMA CoreReached ==
  ASSUME Core, NEW d \in done, NEW c \in d.must
  PROVE  c \in Conns /\ Reached(d, c)
BY DEF Core, SendInv

\* Nothing that other goroutines can see changes.
HubStays == UNCHANGED <<byUUID, setNo, locks, held, got, done>>
MutexesStay ==
  /\ UNCHANGED <<byUUID, setNo, held, got, done>>
  /\ \A c \in Conns : Registered(c) => locks'[c] = locks[c]

\* No other goroutine moves, and no other call of SendJSON changes.
OthersStay(p) ==
  \A q \in Procs \ {p} : pc'[q] = pc[q] /\ cur'[q] = cur[q] /\ ref'[q] = ref[q]
CallsStay(p) ==
  \A s \in Senders \ {p} :
    /\ uuid'[s] = uuid[s] /\ set'[s] = set[s] /\ must'[s] = must[s]
    /\ seen'[s] = seen[s] /\ call'[s] = call[s]

\* The places of the handlers and ping loops that the invariant tells apart.
PlacesKept ==
  \A c \in Conns :
    /\ pc'[Handler(c)] = "register" <=> pc[Handler(c)] = "register"
    /\ pc'[Handler(c)] \in Early => /\ pc[Handler(c)] \in Early
                                    /\ pc'[Ping(c)] = pc[Ping(c)]
UnbornUnused(p) ==
  \A c \in Conns : cur'[p] = c => pc[Handler(c)] # "register"

\* A call under way still owes what it owed when registered connections only
\* leave, sets with registered connections are not dropped, what was written
\* stays and the connection being written does.
LEMMA CallKept ==
  ASSUME Core, NEW s \in Senders, pc[s] # "idle",
         \A c \in must[s] : Serving(s, c) => Serving(s, c)',
         uuid'[s] = uuid[s], set'[s] = set[s], must'[s] = must[s],
         seen'[s] = seen[s], call'[s] = call[s],
         \A c \in Conns :
           /\ pc[Handler(c)] # "register" => pc'[Handler(c)] # "register"
           /\ got[c] \subseteq got'[c]
           /\ pc[Handler(c)] # "register" /\ Registered(c)' =>
                Registered(c) /\ setNo'[UuidOf[c]] = setNo[UuidOf[c]]
  PROVE  CallOK(s)'
<1>1. /\ call[s] \in 1..MaxSends /\ must[s] \subseteq Conns
      /\ \A c \in must[s] : Owes(s, c)
  BY DEF Core, SendInv, CallOK
<1>2. ASSUME NEW c \in must[s] PROVE Owes(s, c)'
  <2>1. c \in Conns /\ Owes(s, c)
    BY <1>1
  <2>2. Serving(s, c) => Serving(s, c)'
    OBVIOUS
  <2>3. /\ UuidOf[c] = uuid[s] /\ pc[Handler(c)] # "register"
        /\ Registered(c) => /\ set[s] = setNo[uuid[s]]
                            /\ c \in seen[s] => call[s] \in got[c] \/ Serving(s, c)
    BY <2>1 DEF Owes
  <2>4. /\ pc'[Handler(c)] # "register"
        /\ Registered(c)' => Registered(c) /\ setNo'[uuid[s]] = setNo[uuid[s]]
    BY <2>1, <2>3
  <2>5. call[s] \in got[c] => call[s] \in got'[c]
    BY <2>1
  <2> QED BY <2>2, <2>3, <2>4, <2>5 DEF Owes
<1> QED BY <1>1, <1>2 DEF CallOK

\* A finished call stays answered for.
LEMMA ReachedKept ==
  ASSUME Core, NEW d \in done, NEW c \in d.must,
         pc[Handler(c)] # "register" => pc'[Handler(c)] # "register",
         got[c] \subseteq got'[c],
         pc[Handler(c)] # "register" /\ Registered(c)' => Registered(c)
  PROVE  c \in Conns /\ Reached(d, c)'
<1>1. c \in Conns /\ Reached(d, c)
  BY CoreReached
<1> QED BY <1>1 DEF Reached

LEMMA UnbornKept ==
  ASSUME Core, NEW c \in Conns, PlacesKept,
         Registered(c)' => Registered(c),
         pc[Handler(c)] = "register" => \A p \in Procs : cur'[p] # c
  PROVE  Unborn(c)'
<1>1. Unborn(c)
  BY DEF Core, PlaceInv
<1> QED BY <1>1 DEF PlacesKept, Unborn

\* A step in which goroutine p goes on without entering or leaving fn, and
\* nothing changes that another goroutine can see, but for the mutex of a
\* connection that is not registered.
LEMMA OwnStep ==
  ASSUME Core, NEW p \in Procs, MutexesStay, OthersStay(p), CallsStay(p),
         PlacesKept, UnbornUnused(p),
         InFn(p)' <=> InFn(p), InFn(p) => ref'[p] = ref[p],
         HasConn(p)', RefInv(p)',
         p \in Senders /\ pc'[p] # "idle" => CallOK(p)'
  PROVE  Core'
<1>1. \A c : Registered(c)' <=> Registered(c)
  BY DEF Registered, MutexesStay
<1>2. \A q \in Procs : InFn(q)' <=> InFn(q)
  BY DEF InFn, OthersStay
<1>3. PlaceInv'
  <2>1. ASSUME NEW q \in Procs PROVE HasConn(q)'
    <3>1. HasConn(q)
      BY DEF Core, PlaceInv
    <3> QED BY <1>2, <3>1 DEF OthersStay, HasConn
  <2>2. ASSUME NEW c \in Conns PROVE Unborn(c)'
    <3>1. pc[Handler(c)] = "register" => \A q \in Procs : cur[q] # c
      BY DEF Core, PlaceInv, Unborn
    <3>2. pc[Handler(c)] = "register" => \A q \in Procs : cur'[q] # c
      BY <3>1 DEF OthersStay, UnbornUnused
    <3> QED BY <1>1, <3>2, UnbornKept
  <2>3. \A u \in Uuids : \A c \in byUUID'[u] : UuidOf[c] = u
    BY DEF Core, PlaceInv, MutexesStay
  <2> QED BY <2>1, <2>2, <2>3 DEF PlaceInv
<1>4. LockInv'
  <2>1. LockedIffInFn'
    <3>1. LockedIffInFn /\ held' = held /\ \A q \in Procs : InFn(q) => ref'[q] = ref[q]
      BY DEF Core, LockInv, MutexesStay, OthersStay
    <3> QED BY <1>2, <3>1 DEF LockedIffInFn
  <2>2. \A c \in Conns : Registered(c)' => locks'[c] # NoLock
    BY <1>1 DEF Core, LockInv, MutexesStay
  <2>3. ASSUME NEW q \in Procs, q # p PROVE RefInv(q)'
    <3>1. RefInv(q) /\ HasConn(q) /\ cur'[q] = cur[q] /\ ref'[q] = ref[q]
      BY <2>3 DEF Core, LockInv, PlaceInv, OthersStay
    <3>2. Registered(cur[q])' <=> Registered(cur[q])
      BY <1>1, <3>1 DEF Registered
    <3>3. (pc'[q] = "lock" \/ InFn(q)') => (pc[q] = "lock" \/ InFn(q)) /\ cur[q] \in Conns
      BY <1>2, <2>3, <3>1 DEF HasConn, OthersStay
    <3>4. cur[q] \in Conns /\ Registered(cur[q]) => locks'[cur[q]] = locks[cur[q]]
      BY DEF MutexesStay
    <3> QED BY <3>1, <3>2, <3>3, <3>4 DEF RefInv
  <2> QED BY <2>1, <2>2, <2>3 DEF LockInv
<1>5. /\ got' = got /\ done' = done /\ setNo' = setNo
      /\ \A c \in Conns : pc[Handler(c)] # "register" => pc'[Handler(c)] # "register"
  BY DEF MutexesStay, PlacesKept
<1>6. SendInv'
  <2>1. ASSUME NEW s \in Senders, pc'[s] # "idle", s # p PROVE CallOK(s)'
    <3>1. /\ pc'[s] = pc[s] /\ cur'[s] = cur[s]
          /\ uuid'[s] = uuid[s] /\ set'[s] = set[s] /\ must'[s] = must[s]
          /\ seen'[s] = seen[s] /\ call'[s] = call[s]
      BY <2>1, ProcFacts DEF OthersStay, CallsStay
    <3>2. \A c : Serving(s, c) => Serving(s, c)'
      BY <3>1 DEF Serving
    <3> QED BY <1>1, <1>5, <2>1, <3>1, <3>2, CallKept
  <2>2. ASSUME NEW d \in done, NEW c \in d.must
        PROVE  c \in Conns /\ Reached(d, c)'
    <3>1. c \in Conns
      BY CoreReached
    <3> QED BY <1>1, <1>5, <3>1, ReachedKept
  <2> QED BY <1>5, <2>1, <2>2 DEF SendInv
<1> QED BY <1>3, <1>4, <1>6 DEF Core

LEMMA LocalStep ==
  ASSUME Core, NEW p \in Procs, HubStays, OthersStay(p), CallsStay(p),
         PlacesKept, UnbornUnused(p),
         InFn(p)' <=> InFn(p), InFn(p) => ref'[p] = ref[p],
         HasConn(p)', RefInv(p)',
         p \in Senders /\ pc'[p] # "idle" => CallOK(p)'
  PROVE  Core'
<1>1. MutexesStay
  BY DEF HubStays, MutexesStay
<1> QED BY <1>1, OwnStep

\* A step in which goroutine p leaves fn and unlocks its mutex, and a call of
\* SendJSON that p makes has written what it had to.
LeavesFn(p) ==
  /\ InFn(p) /\ ~InFn(p)' /\ pc'[p] # "lock"
  /\ cur'[p] = NoConn /\ held' = held \ {ref[p]}
OthersIn(p) ==
  \A q \in Procs \ {p} :
    /\ InFn(q)' <=> InFn(q)
    /\ pc'[q] = "lock" <=> pc[q] = "lock"
    /\ cur'[q] = cur[q] /\ ref'[q] = ref[q]
MapsStay == UNCHANGED <<byUUID, setNo, locks, done>>
CallsGoOn(p) ==
  /\ UNCHANGED <<uuid, set, must, seen, call>>
  /\ \A s \in Senders \ {p} : pc'[s] = pc[s]
  /\ \A c \in Conns : got[c] \subseteq got'[c]
Served(p) ==
  /\ pc[p] # "idle"
  /\ \A c \in must[p] : Registered(c) /\ c \in seen[p] => call[p] \in got'[c]

LEMMA UnlockStep ==
  ASSUME Core, NEW p \in Procs, LeavesFn(p), OthersIn(p), MapsStay, CallsGoOn(p),
         \A q \in Procs : HasConn(q)', PlacesKept,
         p \in Senders => Served(p)
  PROVE  Core'
<1>1. \A c : Registered(c)' <=> Registered(c)
  BY DEF Registered, MapsStay
<1>2. PlaceInv'
  <2>1. ASSUME NEW c \in Conns PROVE Unborn(c)'
    <3>1. pc[Handler(c)] = "register" => \A q \in Procs : cur[q] # c
      BY DEF Core, PlaceInv, Unborn
    <3>2. pc[Handler(c)] = "register" => \A q \in Procs : cur'[q] # c
      BY <3>1, NamesAssumption DEF LeavesFn, OthersIn
    <3> QED BY <1>1, <3>2, UnbornKept
  <2>2. \A u \in Uuids : \A c \in byUUID'[u] : UuidOf[c] = u
    BY DEF Core, PlaceInv, MapsStay
  <2> QED BY <2>1, <2>2 DEF PlaceInv
<1>3. LockInv'
  <2>1. LockedIffInFn'
    <3>1. LockedIffInFn
      BY DEF Core, LockInv
    <3>2. \A q, r \in Procs : q # r /\ InFn(q)' /\ InFn(r)' => ref'[q] # ref'[r]
      BY <3>1 DEF LockedIffInFn, LeavesFn, OthersIn
    <3>3. held' = {ref'[q] : q \in {r \in Procs : InFn(r)'}}
      <4>1. held = {ref[q] : q \in {r \in Procs : InFn(r)}}
        BY <3>1 DEF LockedIffInFn
      <4>2. ASSUME NEW q \in Procs, InFn(q)' PROVE ref'[q] \in held'
        <5>1. q # p /\ InFn(q) /\ ref'[q] = ref[q] /\ InFn(p)
          BY <4>2 DEF LeavesFn, OthersIn
        <5>2. ref[q] # ref[p]
          BY <3>1, <5>1 DEF LockedIffInFn
        <5> QED BY <4>1, <5>1, <5>2 DEF LeavesFn
      <4>3. ASSUME NEW l \in held'
            PROVE  \E q \in Procs : InFn(q)' /\ l = ref'[q]
        <5>1. PICK q \in Procs : InFn(q) /\ l = ref[q] /\ q # p
          BY <4>1 DEF LeavesFn
        <5> QED BY <5>1 DEF OthersIn
      <4> QED BY <4>2, <4>3
    <3> QED BY <3>2, <3>3 DEF LockedIffInFn
  <2>2. \A c \in Conns : Registered(c)' => locks'[c] # NoLock
    BY <1>1 DEF Core, LockInv, MapsStay
  <2>3. RefInv(p)'
    BY DEF RefInv, LeavesFn
  <2>4. ASSUME NEW q \in Procs, q # p PROVE RefInv(q)'
    <3>1. RefInv(q) /\ locks' = locks /\ cur'[q] = cur[q]
      BY <2>4 DEF Core, LockInv, MapsStay, OthersIn
    <3>2. Registered(cur[q])' <=> Registered(cur[q])
      BY <3>1 DEF Registered, MapsStay
    <3>3. (pc'[q] = "lock" \/ InFn(q)' => pc[q] = "lock" \/ InFn(q)) /\ ref'[q] = ref[q]
      BY <2>4 DEF OthersIn
    <3> QED BY <3>1, <3>2, <3>3 DEF RefInv
  <2> QED BY <2>1, <2>2, <2>3, <2>4 DEF LockInv
<1>4. SendInv'
  <2>1. /\ \A c \in Conns : /\ pc[Handler(c)] # "register" => pc'[Handler(c)] # "register"
                            /\ got[c] \subseteq got'[c]
        /\ setNo' = setNo /\ done' = done
    BY DEF PlacesKept, CallsGoOn, MapsStay
  <2>2. ASSUME NEW s \in Senders, pc'[s] # "idle", s # p PROVE CallOK(s)'
    <3>1. /\ pc'[s] = pc[s] /\ cur'[s] = cur[s]
          /\ uuid'[s] = uuid[s] /\ set'[s] = set[s] /\ must'[s] = must[s]
          /\ seen'[s] = seen[s] /\ call'[s] = call[s]
      BY <2>2, ProcFacts DEF OthersIn, CallsGoOn
    <3>2. \A c : Serving(s, c) => Serving(s, c)'
      BY <3>1 DEF Serving
    <3> QED BY <1>1, <2>1, <2>2, <3>1, <3>2, CallKept
  <2>3. ASSUME p \in Senders PROVE CallOK(p)'
    <3>1. CallOK(p) /\ Served(p)
      BY <2>3 DEF Core, SendInv, Served
    <3>2. UNCHANGED <<uuid, set, must, seen, call, setNo>>
      BY DEF CallsGoOn, MapsStay
    <3>3. ASSUME NEW c \in must[p] PROVE Owes(p, c)'
      <4>1. Owes(p, c) /\ c \in Conns
        BY <3>1 DEF CallOK
      <4>2. /\ UuidOf[c] = uuid[p] /\ pc'[Handler(c)] # "register"
            /\ Registered(c) => set[p] = setNo[uuid[p]]
        BY <2>1, <4>1 DEF Owes
      <4>3. Registered(c) /\ c \in seen[p] => call[p] \in got'[c]
        BY <3>1 DEF Served
      <4> QED BY <1>1, <3>2, <4>2, <4>3 DEF Owes
    <3> QED BY <3>1, <3>2, <3>3 DEF CallOK
  <2>4. ASSUME NEW d \in done, NEW c \in d.must
        PROVE  c \in Conns /\ Reached(d, c)'
    <3>1. c \in Conns
      BY CoreReached
    <3> QED BY <1>1, <2>1, <3>1, ReachedKept
  <2> QED BY <2>1, <2>2, <2>3, <2>4 DEF SendInv
<1> QED BY <1>2, <1>3, <1>4 DEF Core

\* What Unregister and the cleanup of SendJSON do to the hub's maps: the
\* connection leaves, nothing changes for the others, and a set object that
\* still has another connection is not dropped.
Forgotten(c) ==
  /\ \A u \in Uuids : \A d \in byUUID'[u] : UuidOf[d] = u
  /\ \A d \in Conns : /\ Registered(d)' <=> Registered(d) /\ d # c
                      /\ d # c => locks'[d] = locks[d]
                      /\ Registered(d)' => setNo'[UuidOf[d]] = setNo[UuidOf[d]]

LEMMA ForgetProperties ==
  ASSUME HubTypes, Core, NEW c \in Conns, Forget(c)
  PROVE  HubTypes' /\ Forgotten(c)
<1> DEFINE u == UuidOf[c]
           n == IF byUUID[u] = {c} THEN setNo[u] + 1 ELSE setNo[u]
<1>1. /\ byUUID' = [byUUID EXCEPT ![u] = byUUID[u] \ {c}]
      /\ setNo' = [setNo EXCEPT ![u] = n]
      /\ locks' = [locks EXCEPT ![c] = NoLock]
      /\ u \in Uuids
  BY OwnersAssumption DEF Forget
<1>2. n \in Nat /\ (byUUID[u] # {c} => n = setNo[u])
  BY <1>1 DEF HubTypes
<1>3. \A v \in Uuids : \A d \in byUUID[v] : UuidOf[d] = v
  BY DEF Core, PlaceInv
<1> HIDE DEF n
<1>4. HubTypes'
  BY <1>1, <1>2 DEF HubTypes
<1>5. \A v \in Uuids : \A d \in byUUID'[v] : UuidOf[d] = v
  BY <1>1, <1>3 DEF HubTypes
<1>6. ASSUME NEW d \in Conns
      PROVE  /\ Registered(d)' <=> Registered(d) /\ d # c
             /\ d # c => locks'[d] = locks[d]
             /\ Registered(d)' => setNo'[UuidOf[d]] = setNo[UuidOf[d]]
  <2>1. UuidOf[d] \in Uuids
    BY OwnersAssumption
  <2>2. Registered(d)' <=> Registered(d) /\ d # c
    BY <1>1, <2>1 DEF Registered, HubTypes
  <2>3. d # c => locks'[d] = locks[d]
    BY <1>1 DEF HubTypes
  <2>4. Registered(d)' => setNo'[UuidOf[d]] = setNo[UuidOf[d]]
    BY <1>1, <1>2, <2>1, <2>2 DEF Registered, HubTypes
  <2> QED BY <2>2, <2>3, <2>4
<1> QED BY <1>4, <1>5, <1>6 DEF Forgotten

\* A step that takes connection c out of the hub's maps, by its handler or by
\* the sender that has its mutex.
LEMMA ForgetStep ==
  ASSUME Core, NEW p \in Procs, NEW c \in Conns, Forgotten(c),
         p = Handler(c) \/ (p \in Senders /\ cur[p] = c),
         pc[p] \in {"waitDone", "cleanup"},
         pc[p] = "cleanup" <=> p \in Senders,
         UNCHANGED <<held, uuid, set, must, seen, call, cur, ref, got, done>>,
         \A q \in Procs : pc'[q] = IF q = p THEN "close" ELSE pc[q]
  PROVE  Core'
<1>1. /\ \A d \in Conns : /\ Registered(d)' <=> Registered(d) /\ d # c
                          /\ d # c => locks'[d] = locks[d]
                          /\ Registered(d)' => setNo'[UuidOf[d]] = setNo[UuidOf[d]]
      /\ \A u \in Uuids : \A d \in byUUID'[u] : UuidOf[d] = u
  BY DEF Forgotten
<1>2. \A q \in Procs : /\ InFn(q)' <=> InFn(q)
                       /\ q # p => pc'[q] = pc[q]
                       /\ pc'[q] = "lock" <=> pc[q] = "lock"
  BY DEF InFn
<1>3. PlacesKept
  BY ProcFacts DEF PlacesKept, Early
<1>4. PlaceInv'
  <2>1. ASSUME NEW q \in Procs PROVE HasConn(q)'
    <3>1. HasConn(q)
      BY DEF Core, PlaceInv
    <3> QED BY <1>2, <3>1 DEF HasConn
  <2>2. ASSUME NEW d \in Conns PROVE Unborn(d)'
    <3>1. pc[Handler(d)] = "register" => \A q \in Procs : cur[q] # d
      BY DEF Core, PlaceInv, Unborn
    <3> QED BY <1>1, <1>3, <3>1, UnbornKept
  <2> QED BY <1>1, <2>1, <2>2 DEF PlaceInv
<1>5. LockInv'
  <2>1. LockedIffInFn'
    <3>1. LockedIffInFn
      BY DEF Core, LockInv
    <3> QED BY <1>2, <3>1 DEF LockedIffInFn
  <2>2. \A d \in Conns : Registered(d)' => locks'[d] # NoLock
    BY <1>1 DEF Core, LockInv
  <2>3. ASSUME NEW q \in Procs, pc'[q] = "lock" \/ InFn(q)', Registered(cur[q])'
        PROVE  ref'[q] = locks'[cur'[q]]
    <3>1. HasConn(q) /\ RefInv(q)
      BY DEF Core, PlaceInv, LockInv
    <3>2. (pc[q] = "lock" \/ InFn(q)) /\ cur[q] \in Conns
      BY <1>2, <2>3, <3>1 DEF HasConn
    <3>3. Registered(cur[q]) /\ cur[q] # c
      BY <1>1, <2>3, <3>2
    <3> QED BY <1>1, <3>1, <3>2, <3>3 DEF RefInv
  <2> QED BY <2>1, <2>2, <2>3 DEF LockInv, RefInv
<1>6. SendInv'
  <2>1. \A d \in Conns : pc[Handler(d)] # "register" => pc'[Handler(d)] # "register"
    BY <1>3 DEF PlacesKept
  <2>2. ASSUME NEW s \in Senders, pc'[s] # "idle", s # p PROVE CallOK(s)'
    <3>1. s \in Procs /\ pc'[s] = pc[s]
      BY <2>2, <1>2, ProcFacts
    <3>2. \A d : Serving(s, d) => Serving(s, d)'
      BY <3>1 DEF Serving
    <3> QED BY <1>1, <2>1, <2>2, <3>1, <3>2, CallKept
  <2>3. ASSUME p \in Senders PROVE CallOK(p)'
    <3>1. CallOK(p) /\ cur[p] = c
      <4>1. p # Handler(c)
        BY <2>3, ProcFacts
      <4>2. CallOK(p)
        BY <2>3 DEF Core, SendInv
      <4> QED BY <4>1, <4>2
    <3>2. ASSUME NEW d \in must[p] PROVE Owes(p, d)'
      <4>1. Owes(p, d) /\ d \in Conns
        BY <3>1 DEF CallOK
      <4>2. /\ UuidOf[d] = uuid[p] /\ pc'[Handler(d)] # "register"
            /\ Registered(d)' => /\ Registered(d) /\ d # c
                                 /\ set[p] = setNo'[uuid[p]]
        BY <1>1, <2>1, <4>1 DEF Owes
      <4>3. Registered(d)' /\ d \in seen[p] => call[p] \in got[d]
        BY Zenon, <3>1, <4>1, <4>2 DEF Owes, Serving
      <4> QED BY <4>2, <4>3 DEF Owes
    <3> QED BY <3>1, <3>2 DEF CallOK
  <2>4. ASSUME NEW d \in done, NEW e \in d.must
        PROVE  e \in Conns /\ Reached(d, e)'
    <3>1. e \in Conns
      BY CoreReached
    <3> QED BY <1>1, <2>1, <3>1, ReachedKept
  <2> QED BY <2>2, <2>3, <2>4 DEF SendInv
<1> QED BY <1>4, <1>5, <1>6 DEF Core
-----------------------------------------------------------------------------
\* One goroutine moves.
PCs == HandlerPCs \cup PingPCs \cup SenderPCs

Moves(p, to, c, l) ==
  /\ pc' = [pc EXCEPT ![p] = to]
  /\ cur' = [cur EXCEPT ![p] = c]
  /\ ref' = [ref EXCEPT ![p] = l]

LEMMA MovesFacts ==
  ASSUME PlaceTypes, NEW p \in Procs, NEW to \in PCs,
         NEW c \in Conns \cup {NoConn}, NEW l \in LockIds \cup {NoLock},
         Moves(p, to, c, l)
  PROVE  /\ PlaceTypes' /\ OthersStay(p)
         /\ pc'[p] = to /\ cur'[p] = c /\ ref'[p] = l
BY DEF PlaceTypes, OthersStay, Moves, PCs

LEMMA StepPlaces ==
  ASSUME Core, NEW p \in Procs, OthersStay(p),
         pc[p] \notin {"off", "register"}, pc'[p] # "register",
         p \in Handlers /\ pc'[p] \in Early => pc[p] \in Early
  PROVE  PlacesKept
<1> SUFFICES ASSUME NEW c \in Conns
             PROVE  /\ pc'[Handler(c)] = "register" <=> pc[Handler(c)] = "register"
                    /\ pc'[Handler(c)] \in Early => /\ pc[Handler(c)] \in Early
                                                    /\ pc'[Ping(c)] = pc[Ping(c)]
  BY DEF PlacesKept
<1>1. CASE p = Handler(c)
  BY <1>1, ProcFacts DEF OthersStay
<1>2. CASE p = Ping(c)
  BY <1>2, ProcFacts DEF OthersStay, Core, PlaceInv, Unborn
<1>3. CASE p # Handler(c) /\ p # Ping(c)
  BY <1>3, ProcFacts DEF OthersStay
<1> QED BY <1>1, <1>2, <1>3

LEMMA OthersHave ==
  ASSUME Core, NEW p \in Procs, OthersStay(p), HasConn(p)'
  PROVE  OthersIn(p) /\ \A q \in Procs : HasConn(q)'
<1>1. ASSUME NEW q \in Procs, q # p
      PROVE  /\ InFn(q)' <=> InFn(q)
             /\ pc'[q] = pc[q] /\ cur'[q] = cur[q] /\ ref'[q] = ref[q]
  BY <1>1 DEF OthersStay, InFn
<1>2. ASSUME NEW q \in Procs, q # p PROVE HasConn(q)'
  <2>1. HasConn(q)
    BY DEF Core, PlaceInv
  <2> QED BY <1>1, <1>2, <2>1 DEF HasConn
<1> QED BY <1>1, <1>2 DEF OthersIn

\* A step of a goroutine that is not in a call of SendJSON, or in one that
\* goes on with the connection it has.
LEMMA CallGoesOn ==
  ASSUME Core, NEW s \in Senders, PlacesKept, pc[s] # "idle",
         UNCHANGED <<byUUID, setNo, got, uuid, set, must, seen, call>>,
         \A c \in must[s] : Serving(s, c) => Serving(s, c)'
  PROVE  CallOK(s)'
<1>1. \A c \in Conns :
        /\ pc[Handler(c)] # "register" => pc'[Handler(c)] # "register"
        /\ got[c] \subseteq got'[c] /\ (Registered(c)' => Registered(c))
        /\ setNo'[UuidOf[c]] = setNo[UuidOf[c]]
  BY DEF PlacesKept, Registered
<1> QED BY <1>1, CallKept

LEMMA QuietStep ==
  ASSUME Core, HubStays,
         UNCHANGED <<pc, cur, ref, uuid, set, must, seen, call>>
  PROVE  Core'
<1>1. /\ \A c : Registered(c)' <=> Registered(c)
      /\ \A p : InFn(p)' <=> InFn(p)
      /\ PlacesKept
      /\ UNCHANGED <<byUUID, setNo, locks, held, got, done>>
  BY DEF Registered, InFn, PlacesKept, HubStays
<1>2. PlaceInv'
  <2>1. \A p \in Procs : HasConn(p)'
    BY <1>1 DEF Core, PlaceInv, HasConn
  <2>2. \A c \in Conns : Unborn(c)'
    BY <1>1 DEF Core, PlaceInv, Unborn
  <2> QED BY <1>1, <2>1, <2>2 DEF Core, PlaceInv
<1>3. LockInv'
  <2>1. LockedIffInFn'
    BY <1>1 DEF Core, LockInv, LockedIffInFn
  <2>2. ASSUME NEW p \in Procs PROVE RefInv(p)'
    BY <1>1 DEF Core, LockInv, RefInv
  <2> QED BY <1>1, <2>1, <2>2 DEF Core, LockInv
<1>4. SendInv'
  <2>1. ASSUME NEW s \in Senders, pc'[s] # "idle" PROVE CallOK(s)'
    <3>1. \A c : Serving(s, c) => Serving(s, c)'
      BY DEF Serving
    <3> QED BY <1>1, <2>1, <3>1, CallGoesOn
  <2>2. \A d \in done : \A c \in d.must : c \in Conns /\ Reached(d, c)'
    BY <1>1 DEF Core, SendInv, Reached
  <2> QED BY <1>1, <2>1, <2>2 DEF SendInv
<1> QED BY <1>2, <1>3, <1>4 DEF Core

-----------------------------------------------------------------------------

LEMMA TypesStay ==
  /\ HubTypes /\ UNCHANGED hubVars => HubTypes'
  /\ ConnTypes /\ UNCHANGED <<connVars, alive>> => ConnTypes'
  /\ SendTypes /\ UNCHANGED sendVars => SendTypes'
  /\ HistTypes /\ UNCHANGED <<got, done>> => HistTypes'
BY DEF HubTypes, ConnTypes, SendTypes, HistTypes, hubVars, connVars, sendVars

\* What TypeOK says of one goroutine.
LEMMA PlaceOf ==
  ASSUME TypeOK, NEW p \in Procs
  PROVE  /\ pc[p] \in PCs /\ cur[p] \in Conns \cup {NoConn}
         /\ ref[p] \in LockIds \cup {NoLock}
         /\ pc = [pc EXCEPT ![p] = pc[p]] /\ cur = [cur EXCEPT ![p] = cur[p]]
         /\ ref = [ref EXCEPT ![p] = ref[p]]
BY DEF TypeOK, PlaceTypes, PCs

LEMMA UnbornUsed ==
  ASSUME Core, NEW p \in Procs, cur'[p] = cur[p] \/ cur'[p] = NoConn
  PROVE  UnbornUnused(p)
BY NamesAssumption DEF Core, PlaceInv, Unborn, UnbornUnused

LEMMA PCsList ==
  {"register", "lookup", "lazy", "lock", "write", "read", "waitDone", "close",
   "exit", "off", "select", "done", "idle", "range", "cleanup"} \subseteq PCs
BY DEF PCs, HandlerPCs, PingPCs, SenderPCs

\* A step of one goroutine, not a sender, between two places outside
\* WithConnWrite.
LEMMA HandlerMoves ==
  ASSUME Inv, NEW p \in Procs, p \notin Senders, NEW to \in PCs,
         Moves(p, to, cur[p], ref[p]), HubStays, UNCHANGED sendVars, ConnTypes',
         pc[p] \in {"read", "close", "select"},
         to \in {"waitDone", "exit", "done"},
         to = "exit" => pc[p] = "close"
  PROVE  Inv'
<1>1. /\ PlaceTypes' /\ OthersStay(p)
      /\ pc'[p] = to /\ cur'[p] = cur[p] /\ ref'[p] = ref[p]
  BY PlaceOf, MovesFacts DEF Inv, TypeOK
<1>2. TypeOK'
  BY <1>1, TypesStay DEF Inv, TypeOK, HubStays, hubVars
<1>3. PlacesKept
  BY <1>1, StepPlaces DEF Inv, Early
<1>4. UnbornUnused(p) /\ CallsStay(p)
  BY <1>1, UnbornUsed DEF Inv, CallsStay, sendVars
<1>5. InFn(p)' <=> InFn(p)
  BY <1>1 DEF InFn
<1>6. HasConn(p)' /\ RefInv(p)'
  BY <1>1 DEF HasConn, RefInv, InFn
<1> QED BY <1>1, <1>2, <1>3, <1>4, <1>5, <1>6, LocalStep DEF Inv

LEMMA ReadFailsInv ==
  ASSUME Inv, NEW c \in Conns, ReadFails(c)
  PROVE  Inv'
<1>1. /\ pc[Handler(c)] = "read" /\ Handler(c) \in Procs /\ Handler(c) \notin Senders
      /\ Moves(Handler(c), "waitDone", cur[Handler(c)], ref[Handler(c)])
      /\ HubStays /\ UNCHANGED sendVars
  BY ProcFacts, PlaceOf DEF Inv, ReadFails, Goto, Moves, HubStays, hubVars, connVars
<1>2. ConnTypes'
  BY TypesStay DEF Inv, TypeOK, ReadFails
<1> QED BY <1>1, <1>2, PCsList, HandlerMoves

LEMMA HandlerClosesInv ==
  ASSUME Inv, NEW c \in Conns, HandlerCloses(c)
  PROVE  Inv'
<1>1. /\ pc[Handler(c)] = "close" /\ Handler(c) \in Procs /\ Handler(c) \notin Senders
      /\ Moves(Handler(c), "exit", cur[Handler(c)], ref[Handler(c)])
      /\ HubStays /\ UNCHANGED sendVars
  BY ProcFacts, PlaceOf DEF Inv, HandlerCloses, Goto, Moves, HubStays, hubVars
<1>2. ConnTypes'
  BY DEF Inv, TypeOK, ConnTypes, HandlerCloses
<1> QED BY <1>1, <1>2, PCsList, HandlerMoves

LEMMA ContextDoneInv ==
  ASSUME Inv, NEW c \in Conns, ContextDone(c)
  PROVE  Inv'
<1>1. /\ pc[Ping(c)] = "select" /\ Ping(c) \in Procs /\ Ping(c) \notin Senders
      /\ Moves(Ping(c), "done", cur[Ping(c)], ref[Ping(c)])
      /\ HubStays /\ UNCHANGED sendVars
  BY ProcFacts, PlaceOf DEF Inv, ContextDone, Goto, Moves, HubStays, hubVars, connVars
<1>2. ConnTypes'
  BY TypesStay DEF Inv, TypeOK, ContextDone
<1> QED BY <1>1, <1>2, PCsList, HandlerMoves

LEMMA PeerGoneInv ==
  ASSUME Inv, NEW c \in Conns, PeerGone(c)
  PROVE  Inv'
<1>1. HubStays /\ UNCHANGED <<pc, cur, ref, sendVars>>
  BY DEF PeerGone, HubStays, hubVars
<1>2. ConnTypes' /\ PlaceTypes'
  BY <1>1 DEF Inv, TypeOK, ConnTypes, PlaceTypes, PeerGone
<1>3. TypeOK'
  BY <1>1, <1>2, TypesStay DEF Inv, TypeOK, HubStays, hubVars
<1> QED BY <1>1, <1>3, QuietStep DEF Inv, sendVars

LEMMA ConcurrentMapWriteInv ==
  ASSUME Inv, NEW s \in Senders, ConcurrentMapWrite(s)
  PROVE  Inv'
<1>1. HubStays /\ UNCHANGED <<pc, cur, ref, sendVars>>
  BY DEF ConcurrentMapWrite, HubStays, hubVars, connVars
<1>2. ConnTypes' /\ PlaceTypes'
  BY Zenon, <1>1 DEF Inv, TypeOK, ConnTypes, PlaceTypes, ConcurrentMapWrite, connVars
<1>3. TypeOK'
  BY <1>1, <1>2, TypesStay DEF Inv, TypeOK, HubStays, hubVars
<1> QED BY <1>1, <1>3, QuietStep DEF Inv, sendVars

LEMMA StutterInv ==
  ASSUME Inv, UNCHANGED vars
  PROVE  Inv'
<1>1. HubStays /\ UNCHANGED <<pc, cur, ref, sendVars>>
  BY DEF vars, HubStays, hubVars, connVars
<1>2. ConnTypes' /\ PlaceTypes'
  BY <1>1 DEF Inv, TypeOK, ConnTypes, PlaceTypes, vars, connVars
<1>3. TypeOK'
  BY <1>1, <1>2, TypesStay DEF Inv, TypeOK, HubStays, hubVars
<1> QED BY <1>1, <1>3, QuietStep DEF Inv, sendVars

LEMMA TickInv ==
  ASSUME Inv, NEW c \in Conns, Tick(c)
  PROVE  Inv'
<1> DEFINE p == Ping(c)
<1>1. /\ pc[p] = "select" /\ p \in Procs /\ p \notin Senders /\ p \notin Handlers
      /\ Moves(p, "lookup", c, ref[p])
      /\ HubStays /\ UNCHANGED <<connVars, alive, sendVars>>
  BY ProcFacts, PlaceOf DEF Inv, Tick, Goto, Moves, HubStays, hubVars, connVars
<1>2. pc[Handler(c)] # "register"
  BY <1>1 DEF Inv, Core, PlaceInv, Unborn, Early
<1> HIDE DEF p
<1>3. /\ PlaceTypes' /\ OthersStay(p)
      /\ pc'[p] = "lookup" /\ cur'[p] = c /\ ref'[p] = ref[p]
  BY <1>1, PlaceOf, PCsList, MovesFacts DEF Inv, TypeOK
<1>4. TypeOK'
  BY <1>1, <1>3, TypesStay DEF Inv, TypeOK, HubStays, hubVars
<1>5. PlacesKept
  BY <1>1, <1>3, StepPlaces DEF Inv
<1>6. UnbornUnused(p) /\ CallsStay(p)
  BY <1>1, <1>2, <1>3 DEF UnbornUnused, CallsStay, sendVars
<1>7. ~InFn(p)' /\ ~InFn(p)
  BY <1>1, <1>3 DEF InFn
<1>8. HasConn(p)' /\ RefInv(p)'
  BY <1>3, <1>7 DEF HasConn, RefInv
<1> QED BY <1>1, <1>3, <1>4, <1>5, <1>6, <1>7, <1>8, LocalStep DEF Inv
LEMMA LookupLockInv ==
  ASSUME Inv, NEW p \in Procs, LookupLock(p)
  PROVE  Inv'
<1> DEFINE to == IF locks[cur[p]] = NoLock THEN "lazy" ELSE "lock"
<1>1. /\ pc[p] = "lookup"
      /\ Moves(p, to, cur[p], locks[cur[p]])
      /\ HubStays /\ UNCHANGED <<connVars, alive, sendVars>>
  BY PlaceOf DEF Inv, LookupLock, Goto, Moves, HubStays, hubVars, connVars
<1>2. cur[p] \in Conns
  BY <1>1 DEF Inv, Core, PlaceInv, HasConn
<1>3. locks[cur[p]] \in LockIds \cup {NoLock}
  BY <1>2 DEF Inv, TypeOK, HubTypes
<1>4. to \in {"lazy", "lock"} /\ to \in PCs
      /\ (to = "lock" => locks[cur[p]] \in LockIds)
  BY <1>3, PCsList
<1> HIDE DEF to
<1>5. /\ PlaceTypes' /\ OthersStay(p)
      /\ pc'[p] = to /\ cur'[p] = cur[p] /\ ref'[p] = locks[cur[p]]
  BY <1>1, <1>2, <1>3, <1>4, MovesFacts DEF Inv, TypeOK
<1>6. TypeOK'
  BY <1>1, <1>5, TypesStay DEF Inv, TypeOK, HubStays, hubVars
<1>7. PlacesKept
  BY <1>1, <1>4, <1>5, StepPlaces DEF Inv, Early
<1>8. UnbornUnused(p) /\ CallsStay(p)
  BY <1>1, <1>5, UnbornUsed DEF Inv, CallsStay, sendVars
<1>9. ~InFn(p)' /\ ~InFn(p)
  BY <1>1, <1>4, <1>5 DEF InFn
<1>10. HasConn(p)' /\ RefInv(p)'
  BY <1>1, <1>2, <1>4, <1>5, <1>9 DEF HasConn, RefInv, HubStays
<1>11. p \in Senders => CallOK(p)'
  <2>1. \A c : Serving(p, c) => Serving(p, c)'
    BY <1>4, <1>5 DEF Serving
  <2> QED BY <1>1, <1>7, <2>1, CallGoesOn DEF Inv, sendVars, HubStays
<1> QED BY <1>1, <1>5, <1>6, <1>7, <1>8, <1>9, <1>10, <1>11, LocalStep DEF Inv

LEMMA WriteFailsInv ==
  ASSUME Inv, NEW s \in Senders, WriteFails(s)
  PROVE  Inv'
<1>1. /\ pc[s] = "write" /\ s \in Procs /\ s \notin Handlers
      /\ Moves(s, "cleanup", cur[s], ref[s])
      /\ HubStays /\ UNCHANGED <<connVars, alive, sendVars>>
  BY ProcFacts, PlaceOf DEF Inv, WriteFails, Goto, Moves, HubStays, hubVars, connVars
<1>2. /\ PlaceTypes' /\ OthersStay(s)
      /\ pc'[s] = "cleanup" /\ cur'[s] = cur[s] /\ ref'[s] = ref[s]
  BY <1>1, PlaceOf, PCsList, MovesFacts DEF Inv, TypeOK
<1>3. TypeOK'
  BY <1>1, <1>2, TypesStay DEF Inv, TypeOK, HubStays, hubVars
<1>4. PlacesKept
  BY <1>1, <1>2, StepPlaces DEF Inv
<1>5. UnbornUnused(s) /\ CallsStay(s)
  BY <1>1, <1>2, UnbornUsed DEF Inv, CallsStay, sendVars
<1>6. InFn(s)' /\ InFn(s)
  BY <1>1, <1>2 DEF InFn
<1>7. HasConn(s) /\ RefInv(s)
  BY <1>1 DEF Inv, Core, PlaceInv, LockInv
<1>8. HasConn(s)' /\ RefInv(s)'
  <2>1. Registered(cur[s])' <=> Registered(cur[s])
    BY <1>1, <1>2 DEF Registered, HubStays
  <2>2. RefInv(s)'
    BY <1>1, <1>2, <1>6, <1>7, <2>1 DEF RefInv, HubStays
  <2> QED BY <1>2, <1>6, <1>7, <2>2 DEF HasConn
<1>9. CallOK(s)'
  <2>1. \A c : Serving(s, c) => Serving(s, c)'
    BY <1>2 DEF Serving
  <2> QED BY <1>1, <1>4, <2>1, CallGoesOn DEF Inv, sendVars, HubStays
<1> QED BY <1>1, <1>2, <1>3, <1>4, <1>5, <1>6, <1>8, <1>9, LocalStep DEF Inv

LEMMA SendJSONInv ==
  ASSUME Inv, NEW s \in Senders, SendJSON(s)
  PROVE  Inv'
<1>1. PICK u \in Uuids :
        /\ uuid' = [uuid EXCEPT ![s] = u] /\ set' = [set EXCEPT ![s] = setNo[u]]
        /\ must' = [must EXCEPT ![s] = byUUID[u]]
        /\ seen' = [seen EXCEPT ![s] = {}]
        /\ pc' = [pc EXCEPT ![s] = IF byUUID[u] = {} THEN pc[s] ELSE "range"]
  BY Zenon, ProcFacts, PlaceOf DEF Inv, SendJSON, Goto
<1>2. /\ pc[s] = "idle" /\ s \in Procs /\ s \notin Handlers
      /\ sends' = sends + 1 /\ call' = [call EXCEPT ![s] = sends + 1]
      /\ sends \in 0..MaxSends /\ sends < MaxSends
      /\ HubStays /\ UNCHANGED <<connVars, alive, cur, ref>>
  BY ProcFacts DEF Inv, TypeOK, SendTypes, SendJSON, HubStays, hubVars, connVars
<1>3. PICK to \in {"idle", "range"} : Moves(s, to, cur[s], ref[s])
  BY Zenon, <1>1, <1>2, PlaceOf DEF Inv, Moves
<1>4. /\ PlaceTypes' /\ OthersStay(s)
      /\ pc'[s] = to /\ cur'[s] = cur[s] /\ ref'[s] = ref[s]
  BY Zenon, <1>2, <1>3, PlaceOf, PCsList, MovesFacts DEF Inv, TypeOK
<1>5. sends + 1 \in 1..MaxSends
  BY <1>2, BoundsAssumption
<1>6. TypeOK'
  <2>1. byUUID[u] \subseteq Conns /\ setNo[u] \in Nat
    BY DEF Inv, TypeOK, HubTypes
  <2>2. SendTypes
    BY DEF Inv, TypeOK
  <2>3. SendTypes'
    <3>1. sends' \in 0..MaxSends /\ sends + 1 \in 0..MaxSends
      BY <1>2, <1>5
    <3>2. call' \in [Senders -> 0..MaxSends]
      BY Zenon, <1>2, <2>2, <3>1 DEF SendTypes
    <3>3. /\ uuid' \in [Senders -> Uuids] /\ set' \in [Senders -> Nat]
          /\ must' \in [Senders -> SUBSET Conns] /\ seen' \in [Senders -> SUBSET Conns]
      BY Zenon, <1>1, <2>1, <2>2 DEF SendTypes
    <3> QED BY Zenon, <3>1, <3>2, <3>3 DEF SendTypes
  <2> QED BY <1>2, <1>4, <2>3, TypesStay DEF Inv, TypeOK, HubStays, hubVars
<1>7. PlacesKept
  BY <1>2, <1>4, StepPlaces DEF Inv
<1>8. UnbornUnused(s)
  BY <1>2, <1>4, UnbornUsed DEF Inv
<1>9. CallsStay(s)
  BY <1>1, <1>2 DEF CallsStay, Inv, TypeOK, SendTypes
<1>10. ~InFn(s)' /\ ~InFn(s)
  BY <1>2, <1>4 DEF InFn
<1>11. HasConn(s)' /\ RefInv(s)'
  BY <1>2, <1>4, <1>10 DEF HasConn, RefInv
<1>12. CallOK(s)'
  <2>1. /\ uuid'[s] = u /\ set'[s] = setNo[u] /\ must'[s] = byUUID[u]
        /\ seen'[s] = {} /\ call'[s] = sends + 1
    BY <1>1, <1>2 DEF Inv, TypeOK, SendTypes
  <2>2. byUUID[u] \subseteq Conns /\ setNo' = setNo
    BY <1>2 DEF Inv, TypeOK, HubTypes, HubStays
  <2>3. ASSUME NEW c \in byUUID[u] PROVE Owes(s, c)'
    <3>1. c \in Conns /\ UuidOf[c] = u /\ Registered(c)
      BY <2>2 DEF Inv, Core, PlaceInv, Registered
    <3>2. pc'[Handler(c)] # "register"
      BY <1>7, <3>1 DEF Inv, Core, PlaceInv, Unborn, PlacesKept
    <3> QED BY <2>1, <2>2, <3>1, <3>2 DEF Owes
  <2> QED BY <1>5, <2>1, <2>2, <2>3 DEF CallOK
<1> QED BY <1>2, <1>4, <1>6, <1>7, <1>8, <1>9, <1>10, <1>11, <1>12, LocalStep DEF Inv

LEMMA RangeNextInv ==
  ASSUME Inv, NEW s \in Senders, RangeNext(s)
  PROVE  Inv'
<1>1. PICK c \in Ranged(s) \ seen[s] : /\ cur' = [cur EXCEPT ![s] = c]
                                      /\ seen' = [seen EXCEPT ![s] = @ \cup {c}]
  BY Zenon DEF RangeNext
<1>2. /\ pc[s] = "range" /\ s \in Procs /\ s \notin Handlers
      /\ Moves(s, "lookup", c, ref[s])
      /\ HubStays /\ UNCHANGED <<connVars, alive, uuid, set, must, call, sends>>
  BY Zenon, <1>1, ProcFacts, PlaceOf DEF Inv, RangeNext, Goto, Moves, HubStays, hubVars, connVars
<1>3. uuid[s] \in Uuids /\ c \in byUUID[uuid[s]]
  BY <1>1 DEF Ranged, Inv, TypeOK, SendTypes
<1>4. c \in Conns /\ UuidOf[c] = uuid[s] /\ Registered(c)
  BY <1>3 DEF Inv, TypeOK, HubTypes, Core, PlaceInv, Registered
<1>5. pc[Handler(c)] # "register"
  BY <1>4 DEF Inv, Core, PlaceInv, Unborn
<1>6. /\ PlaceTypes' /\ OthersStay(s)
      /\ pc'[s] = "lookup" /\ cur'[s] = c /\ ref'[s] = ref[s]
  BY <1>2, <1>4, PlaceOf, PCsList, MovesFacts DEF Inv, TypeOK
<1>7. TypeOK'
  <2>1. SendTypes'
    BY <1>1, <1>2, <1>4 DEF Inv, TypeOK, SendTypes
  <2> QED BY <1>2, <1>6, <2>1, TypesStay DEF Inv, TypeOK, HubStays, hubVars
<1>8. PlacesKept
  BY <1>2, <1>6, StepPlaces DEF Inv
<1>9. UnbornUnused(s)
  BY <1>5, <1>6 DEF UnbornUnused
<1>10. CallsStay(s)
  BY <1>1, <1>2 DEF CallsStay, Inv, TypeOK, SendTypes
<1>11. ~InFn(s)' /\ ~InFn(s)
  BY <1>2, <1>6 DEF InFn
<1>12. HasConn(s)' /\ RefInv(s)'
  BY <1>4, <1>6, <1>11 DEF HasConn, RefInv
<1>13. CallOK(s)'
  <2>1. CallOK(s) /\ seen'[s] = seen[s] \cup {c}
    BY <1>1, <1>2 DEF Inv, TypeOK, SendTypes, Core, SendInv
  <2>2. Serving(s, c)' /\ \A d : ~Serving(s, d)
    BY <1>2, <1>6 DEF Serving
  <2>3. ASSUME NEW d \in must[s] PROVE Owes(s, d)'
    <3>1. Owes(s, d) /\ d \in Conns
      BY <2>1 DEF CallOK
    <3>2. pc'[Handler(d)] # "register"
      BY <1>8, <3>1 DEF Owes, PlacesKept
    <3>3. Registered(d)' <=> Registered(d)
      BY <1>2 DEF Registered, HubStays
    <3> QED BY <1>2, <2>1, <2>2, <3>1, <3>2, <3>3 DEF Owes, HubStays
  <2> QED BY <1>2, <2>1, <2>3 DEF CallOK
<1> QED BY <1>2, <1>6, <1>7, <1>8, <1>9, <1>10, <1>11, <1>12, <1>13, LocalStep DEF Inv
LEMMA NewLockIsNew ==
  ASSUME Unused # {}
  PROVE  /\ NewLock \in LockIds /\ NewLock # NoLock
         /\ \A p \in Procs : ref[p] # NewLock
<1>1. NewLock \in Unused
  BY DEF NewLock
<1> QED BY <1>1, NamesAssumption DEF Unused

LEMMA GetLockInv ==
  ASSUME Inv, NEW p \in Procs, GetLock(p)
  PROVE  Inv'
<1> DEFINE c == cur[p]
           l == IF locks[c] = NoLock THEN NewLock ELSE locks[c]
<1>1. /\ pc[p] = "lazy"
      /\ locks' = [locks EXCEPT ![c] = l]
      /\ Moves(p, "lock", c, l)
      /\ UNCHANGED <<byUUID, setNo, connVars, sendVars, alive, got, done>>
  BY PlaceOf DEF Inv, GetLock, Goto, Moves
<1>2. c \in Conns
  BY <1>1 DEF Inv, Core, PlaceInv, HasConn
<1>3. l \in LockIds /\ l # NoLock /\ (Registered(c) => l = locks[c])
  BY <1>2, NewLockIsNew, NamesAssumption
     DEF GetLock, Inv, Core, LockInv, TypeOK, HubTypes
<1> HIDE DEF l, c
<1>4. /\ PlaceTypes' /\ OthersStay(p)
      /\ pc'[p] = "lock" /\ cur'[p] = c /\ ref'[p] = l
  BY <1>1, <1>2, <1>3, PCsList, MovesFacts DEF Inv, TypeOK
<1>5. HubTypes' /\ locks'[c] = l
  BY <1>1, <1>2, <1>3 DEF Inv, TypeOK, HubTypes
<1>6. TypeOK'
  BY <1>1, <1>4, <1>5, TypesStay DEF Inv, TypeOK
<1>7. MutexesStay
  <2>1. \A d \in Conns : Registered(d) => locks'[d] = locks[d]
    BY <1>1, <1>2, <1>3 DEF Inv, TypeOK, HubTypes
  <2> QED BY <1>1, <2>1 DEF MutexesStay, connVars
<1>8. PlacesKept
  BY <1>1, <1>4, StepPlaces DEF Inv, Early
<1>9. UnbornUnused(p) /\ CallsStay(p)
  BY <1>1, <1>4, UnbornUsed DEF Inv, CallsStay, sendVars, c
<1>10. ~InFn(p)' /\ ~InFn(p)
  BY <1>1, <1>4 DEF InFn
<1>11. HasConn(p)' /\ RefInv(p)'
  BY <1>2, <1>3, <1>4, <1>5, <1>10 DEF HasConn, RefInv
<1>12. p \in Senders => CallOK(p)'
  <2>1. \A d : Serving(p, d) => Serving(p, d)'
    BY <1>4 DEF Serving, c
  <2> QED BY <1>1, <1>8, <2>1, CallGoesOn DEF Inv, sendVars
<1> QED BY <1>4, <1>6, <1>7, <1>8, <1>9, <1>10, <1>11, <1>12, OwnStep DEF Inv

LEMMA PingedInv ==
  ASSUME Inv, NEW c \in Conns, Pinged(c)
  PROVE  Inv'
<1> DEFINE p == Ping(c)
<1>1. /\ pc[p] = "write" /\ p \in Procs /\ p \notin Senders /\ p \notin Handlers
      /\ Moves(p, "select", NoConn, NoLock) /\ held' = held \ {ref[p]}
      /\ UNCHANGED <<hubVars, open, gone, sendVars, alive, got, done>>
  BY ProcFacts DEF Pinged, Unlock, Goto, Moves
<1> HIDE DEF p
<1>2. /\ PlaceTypes' /\ OthersStay(p)
      /\ pc'[p] = "select" /\ cur'[p] = NoConn /\ ref'[p] = NoLock
  BY <1>1, PCsList, MovesFacts DEF Inv, TypeOK
<1>3. TypeOK'
  <2>1. ConnTypes'
    BY <1>1 DEF Inv, TypeOK, ConnTypes
  <2> QED BY <1>1, <1>2, <2>1, TypesStay DEF Inv, TypeOK
<1>4. PlacesKept
  BY <1>1, <1>2, StepPlaces DEF Inv
<1>5. LeavesFn(p) /\ HasConn(p)'
  BY <1>1, <1>2 DEF LeavesFn, InFn, HasConn
<1>6. OthersIn(p) /\ \A q \in Procs : HasConn(q)'
  BY <1>1, <1>2, <1>5, OthersHave DEF Inv
<1>7. MapsStay /\ CallsGoOn(p)
  <2>1. \A s \in Senders : pc'[s] = pc[s]
    BY <1>1, <1>2, ProcFacts DEF OthersStay
  <2> QED BY <1>1, <2>1 DEF MapsStay, CallsGoOn, hubVars, sendVars
<1> QED BY <1>1, <1>3, <1>4, <1>5, <1>6, <1>7, UnlockStep DEF Inv

\* The unlocking steps of SendJSON, when the call has written to every
\* registered connection it has visited.
LEMMA SenderUnlocks ==
  ASSUME Inv, NEW s \in Senders, InFn(s), Unlock(s, "range"),
         ConnTypes', HistTypes', UNCHANGED <<hubVars, sendVars, done>>,
         \A c \in Conns : got[c] \subseteq got'[c], Served(s)
  PROVE  Inv'
<1>1. /\ s \in Procs /\ s \notin Handlers
      /\ Moves(s, "range", NoConn, NoLock) /\ held' = held \ {ref[s]}
  BY ProcFacts DEF Unlock, Goto, Moves
<1>2. /\ PlaceTypes' /\ OthersStay(s)
      /\ pc'[s] = "range" /\ cur'[s] = NoConn /\ ref'[s] = NoLock
  BY <1>1, PCsList, MovesFacts DEF Inv, TypeOK
<1>3. TypeOK'
  BY <1>2, TypesStay DEF Inv, TypeOK
<1>4. PlacesKept
  BY <1>1, <1>2, StepPlaces DEF Inv, InFn
<1>5. LeavesFn(s) /\ HasConn(s)'
  BY <1>1, <1>2 DEF LeavesFn, InFn, HasConn
<1>6. OthersIn(s) /\ \A q \in Procs : HasConn(q)'
  BY <1>1, <1>2, <1>5, OthersHave DEF Inv
<1>7. MapsStay /\ CallsGoOn(s)
  <2>1. \A t \in Senders \ {s} : pc'[t] = pc[t]
    BY <1>1, <1>2, ProcFacts DEF OthersStay
  <2> QED BY <2>1 DEF MapsStay, CallsGoOn, hubVars, sendVars
<1> QED BY <1>1, <1>3, <1>4, <1>5, <1>6, <1>7, UnlockStep DEF Inv

LEMMA JSONWrittenInv ==
  ASSUME Inv, NEW s \in Senders, JSONWritten(s)
  PROVE  Inv'
<1>1. /\ pc[s] = "write" /\ InFn(s) /\ Unlock(s, "range")
      /\ got' = [got EXCEPT ![cur[s]] = @ \cup {call[s]}]
      /\ held' = held \ {ref[s]}
      /\ UNCHANGED <<hubVars, open, gone, sendVars, alive, done>>
  BY DEF JSONWritten, InFn, Unlock
<1>2. cur[s] \in Conns /\ CallOK(s)
  BY <1>1, ProcFacts DEF Inv, Core, PlaceInv, HasConn, SendInv
<1>3. ConnTypes'
  BY <1>1 DEF Inv, TypeOK, ConnTypes
<1>4. HistTypes' /\ (\A c \in Conns : got[c] \subseteq got'[c])
      /\ call[s] \in got'[cur[s]]
  BY <1>1, <1>2 DEF Inv, TypeOK, HistTypes, CallOK
<1>5. Served(s)
  <2>1. ASSUME NEW c \in must[s], Registered(c), c \in seen[s]
        PROVE  call[s] \in got'[c]
    <3>1. Owes(s, c) /\ c \in Conns
      BY <1>2 DEF CallOK
    <3>2. call[s] \in got[c] \/ cur[s] = c
      BY <2>1, <3>1 DEF Owes, Serving
    <3> QED BY <1>4, <3>1, <3>2
  <2> QED BY <1>1, <2>1 DEF Served
<1> QED BY <1>1, <1>3, <1>4, <1>5, SenderUnlocks

LEMMA CloseBrokenInv ==
  ASSUME Inv, NEW s \in Senders, CloseBroken(s)
  PROVE  Inv'
<1>1. /\ pc[s] = "close" /\ InFn(s) /\ Unlock(s, "range")
      /\ open' = [open EXCEPT ![cur[s]] = FALSE]
      /\ held' = held \ {ref[s]}
      /\ UNCHANGED <<hubVars, gone, sendVars, alive, got, done>>
  BY DEF CloseBroken, InFn, Unlock
<1>2. CallOK(s)
  BY <1>1 DEF Inv, Core, SendInv
<1>3. ConnTypes' /\ HistTypes'
  BY Zenon, <1>1, TypesStay DEF Inv, TypeOK, ConnTypes
<1>4. Served(s)
  <2>1. ASSUME NEW c \in must[s], Registered(c), c \in seen[s]
        PROVE  call[s] \in got'[c]
    <3>1. Owes(s, c) /\ ~Serving(s, c)
      BY <1>1, <1>2 DEF CallOK, Serving
    <3> QED BY <1>1, <2>1, <3>1 DEF Owes
  <2> QED BY <1>1, <2>1 DEF Served
<1> QED BY <1>1, <1>3, <1>4, SenderUnlocks
LEMMA ReadyWrittenInv ==
  ASSUME Inv, NEW c \in Conns, ReadyWritten(c)
  PROVE  Inv'
<1> DEFINE p == Handler(c)
           r == Ping(c)
<1>1. /\ pc[p] = "write" /\ p \in Procs /\ p \notin Senders
      /\ r \in Procs /\ r # p /\ r \notin Senders /\ p \notin Pings
      /\ held' = held \ {ref[p]}
      /\ ref' = [ref EXCEPT ![p] = NoLock]
      /\ cur' = [cur EXCEPT ![p] = NoConn]
      /\ pc' = [pc EXCEPT ![p] = "read", ![r] = "select"]
      /\ UNCHANGED <<hubVars, open, gone, sendVars, alive, got, done>>
  BY ProcFacts DEF ReadyWritten
<1>2. pc[r] = "off"
  BY <1>1 DEF Inv, Core, PlaceInv, Unborn, Early
<1>3. PlaceTypes' /\ \A q \in Procs :
        /\ pc'[q] = IF q = p THEN "read" ELSE IF q = r THEN "select" ELSE pc[q]
        /\ cur'[q] = IF q = p THEN NoConn ELSE cur[q]
        /\ ref'[q] = IF q = p THEN NoLock ELSE ref[q]
  BY <1>1, PCsList DEF Inv, TypeOK, PlaceTypes, PCs
<1>4. TypeOK'
  <2>1. ConnTypes'
    BY <1>1 DEF Inv, TypeOK, ConnTypes
  <2> QED BY <1>1, <1>3, <2>1, TypesStay DEF Inv, TypeOK
<1>5. ASSUME NEW d \in Conns
      PROVE  /\ d # c => /\ pc'[Handler(d)] = pc[Handler(d)]
                         /\ pc'[Ping(d)] = pc[Ping(d)]
             /\ d = c => pc'[Handler(d)] = "read" /\ pc[Handler(d)] = "write"
  BY <1>1, <1>3, ProcFacts
<1>6. PlacesKept
  BY <1>5 DEF PlacesKept, Early
<1> HIDE DEF p, r
<1>7. LeavesFn(p)
  <2>1. pc'[p] = "read" /\ cur'[p] = NoConn /\ pc[p] = "write" /\ p \notin Senders
    BY Zenon, <1>1, <1>3
  <2> QED BY <1>1, <2>1 DEF LeavesFn, InFn
<1>8. OthersIn(p)
  <2>1. ASSUME NEW q \in Procs, q # p
        PROVE  /\ InFn(q)' <=> InFn(q)
               /\ pc'[q] = "lock" <=> pc[q] = "lock"
               /\ cur'[q] = cur[q] /\ ref'[q] = ref[q]
    <3>1. CASE q = r
      <4>1. /\ pc[r] = "off" /\ pc'[r] = "select" /\ r \notin Senders
            /\ cur'[r] = cur[r] /\ ref'[r] = ref[r]
        BY Zenon, <1>1, <1>2, <1>3
      <4> QED BY <3>1, <4>1 DEF InFn
    <3>2. CASE q # r
      <4>1. pc'[q] = pc[q] /\ cur'[q] = cur[q] /\ ref'[q] = ref[q]
        BY <1>3, <2>1, <3>2
      <4> QED BY <4>1 DEF InFn
    <3> QED BY <3>1, <3>2
  <2> QED BY <2>1 DEF OthersIn
<1>9. ASSUME NEW q \in Procs PROVE HasConn(q)'
  <2>1. HasConn(q)
    BY DEF Inv, Core, PlaceInv
  <2>2. InFn(q)' => InFn(q) /\ q # p
    BY <1>7, <1>8 DEF OthersIn, LeavesFn
  <2> QED BY <1>3, <2>1, <2>2 DEF HasConn
<1>10. MapsStay /\ CallsGoOn(p)
  <2>1. \A s \in Senders : pc'[s] = pc[s]
    BY Zenon, <1>1, <1>3, ProcFacts
  <2> QED BY Zenon, <1>1, <2>1 DEF MapsStay, CallsGoOn, hubVars, sendVars
<1> QED BY <1>1, <1>4, <1>6, <1>7, <1>8, <1>9, <1>10, UnlockStep DEF Inv

LEMMA UnregisterInv ==
  ASSUME Inv, NEW c \in Conns, Unregister(c)
  PROVE  Inv'
<1> DEFINE p == Handler(c)
<1>1. /\ pc[p] = "waitDone" /\ p \in Procs /\ p \notin Senders /\ Forget(c)
      /\ Moves(p, "close", cur[p], ref[p])
      /\ UNCHANGED <<connVars, sendVars, alive, cur, ref, got, done>>
  BY ProcFacts, PlaceOf DEF Inv, Unregister, Goto, Moves
<1>2. HubTypes' /\ Forgotten(c)
  BY <1>1, ForgetProperties DEF Inv, TypeOK
<1>3. /\ PlaceTypes' /\ OthersStay(p) /\ pc'[p] = "close"
  BY Zenon, <1>1, PlaceOf, PCsList, MovesFacts DEF Inv, TypeOK
<1>4. TypeOK'
  BY <1>1, <1>2, <1>3, TypesStay DEF Inv, TypeOK
<1>5. \A q \in Procs : pc'[q] = IF q = p THEN "close" ELSE pc[q]
  BY <1>3 DEF OthersStay
<1> QED BY <1>1, <1>2, <1>4, <1>5, ForgetStep DEF Inv, connVars, sendVars

LEMMA CleanupInv ==
  ASSUME Inv, NEW s \in Senders, Cleanup(s)
  PROVE  Inv'
<1>1. /\ pc[s] = "cleanup" /\ s \in Procs /\ Forget(cur[s])
      /\ Moves(s, "close", cur[s], ref[s])
      /\ UNCHANGED <<connVars, sendVars, alive, cur, ref, got, done>>
  BY ProcFacts, PlaceOf DEF Inv, Cleanup, Goto, Moves
<1>2. cur[s] \in Conns
  BY <1>1 DEF Inv, Core, PlaceInv, HasConn, InFn
<1>3. HubTypes' /\ Forgotten(cur[s])
  BY <1>1, <1>2, ForgetProperties DEF Inv, TypeOK
<1>4. /\ PlaceTypes' /\ OthersStay(s) /\ pc'[s] = "close"
  BY <1>1, PlaceOf, PCsList, MovesFacts DEF Inv, TypeOK
<1>5. TypeOK'
  BY <1>1, <1>3, <1>4, TypesStay DEF Inv, TypeOK
<1>6. \A q \in Procs : pc'[q] = IF q = s THEN "close" ELSE pc[q]
  BY <1>4 DEF OthersStay
<1> QED BY <1>1, <1>2, <1>3, <1>5, <1>6, ForgetStep DEF Inv, connVars, sendVars

LEMMA LockConnInv ==
  ASSUME Inv, NEW p \in Procs, LockConn(p)
  PROVE  Inv'
<1>1. /\ pc[p] = "lock" /\ ref[p] \notin held
      /\ held' = held \cup {ref[p]}
      /\ Moves(p, "write", cur[p], ref[p])
      /\ UNCHANGED <<hubVars, open, gone, sendVars, alive, cur, ref, got, done>>
  BY PlaceOf DEF Inv, LockConn, Goto, Moves
<1>2. /\ PlaceTypes' /\ OthersStay(p) /\ pc'[p] = "write" /\ cur'[p] = cur[p]
  BY <1>1, PlaceOf, PCsList, MovesFacts DEF Inv, TypeOK
<1>3. HasConn(p) /\ ref[p] \in LockIds /\ cur[p] \in Conns /\ ~InFn(p) /\ InFn(p)'
  BY <1>1, <1>2 DEF Inv, Core, PlaceInv, HasConn, InFn
<1>4. TypeOK'
  <2>1. ConnTypes'
    BY <1>1, <1>3 DEF Inv, TypeOK, ConnTypes
  <2> QED BY <1>1, <1>2, <2>1, TypesStay DEF Inv, TypeOK
<1>5. PlacesKept
  BY <1>1, <1>2, StepPlaces DEF Inv, Early
<1>6. HasConn(p)'
  BY <1>1, <1>2, <1>3 DEF HasConn
<1>7. OthersIn(p) /\ \A q \in Procs : HasConn(q)'
  BY <1>2, <1>6, OthersHave DEF Inv
<1>8. \A c : Registered(c)' <=> Registered(c)
  BY <1>1 DEF Registered, hubVars
<1>9. PlaceInv'
  <2>1. ASSUME NEW d \in Conns PROVE Unborn(d)'
    <3>1. pc[Handler(d)] = "register" => \A q \in Procs : cur'[q] # d
      BY <1>1 DEF Inv, Core, PlaceInv, Unborn
    <3> QED BY <1>5, <1>8, <3>1, UnbornKept DEF Inv
  <2> QED BY <1>1, <1>7, <2>1 DEF Inv, Core, PlaceInv, hubVars
<1>10. LockInv'
  <2>1. LockedIffInFn /\ (\A c \in Conns : Registered(c) => locks[c] # NoLock)
        /\ \A q \in Procs : RefInv(q)
    BY DEF Inv, Core, LockInv
  <2>2. \A q \in Procs : InFn(q)' <=> InFn(q) \/ q = p
    BY <1>3, <1>7 DEF OthersIn
  <2>3. LockedIffInFn'
    <3>1. held' = {ref'[q] : q \in {r \in Procs : InFn(r)'}}
      BY <1>1, <2>1, <2>2 DEF LockedIffInFn
    <3>2. \A q, r \in Procs : q # r /\ InFn(q)' /\ InFn(r)' => ref'[q] # ref'[r]
      BY <1>1, <2>1, <2>2 DEF LockedIffInFn
    <3> QED BY <3>1, <3>2 DEF LockedIffInFn
  <2>4. ASSUME NEW q \in Procs PROVE RefInv(q)'
    <3>1. Registered(cur[q])' <=> Registered(cur[q])
      BY <1>1, <1>8 DEF Registered
    <3>2. pc'[q] = "lock" \/ InFn(q)' => pc[q] = "lock" \/ InFn(q)
      BY <1>1, <1>2, <2>2 DEF OthersStay
    <3> QED BY <1>1, <2>1, <3>1, <3>2 DEF RefInv, hubVars
  <2> QED BY <1>1, <1>8, <2>1, <2>3, <2>4 DEF LockInv, hubVars
<1>11. SendInv'
  <2>1. \A c \in Conns : pc[Handler(c)] # "register" => pc'[Handler(c)] # "register"
    BY <1>5 DEF PlacesKept
  <2>2. ASSUME NEW s \in Senders, pc'[s] # "idle" PROVE CallOK(s)'
    <3>1. pc[s] # "idle" /\ \A c : Serving(s, c) => Serving(s, c)'
      BY <1>1, <1>2, <2>2, ProcFacts DEF Serving, OthersStay
    <3> QED BY <1>1, <1>5, <3>1, CallGoesOn DEF Inv, hubVars, sendVars
  <2>3. ASSUME NEW d \in done, NEW c \in d.must
        PROVE  c \in Conns /\ Reached(d, c)'
    <3>1. c \in Conns
      BY CoreReached DEF Inv
    <3> QED BY <1>1, <1>8, <2>1, <3>1, ReachedKept DEF Inv
  <2> QED BY <1>1, <2>2, <2>3 DEF SendInv
<1> QED BY <1>4, <1>9, <1>10, <1>11 DEF Inv, Core
LEMMA RegisterInv ==
  ASSUME Inv, NEW c \in Conns, Register(c)
  PROVE  Inv'
<1> DEFINE h == Handler(c)
           l == IF locks[c] = NoLock THEN NewLock ELSE locks[c]
<1>1. /\ pc[h] = "register" /\ h \in Procs /\ h \notin Senders
      /\ UuidOf[c] \in Uuids
      /\ byUUID' = [byUUID EXCEPT ![UuidOf[c]] = @ \cup {c}]
      /\ locks' = [locks EXCEPT ![c] = l]
      /\ Moves(h, "lookup", c, ref[h])
      /\ UNCHANGED <<setNo, connVars, sendVars, alive, ref, got, done>>
  BY ProcFacts, PlaceOf, OwnersAssumption DEF Inv, Register, Goto, Moves
<1>2. l \in LockIds /\ l # NoLock
  BY NewLockIsNew, NamesAssumption DEF Register, Inv, TypeOK, HubTypes
<1>3. /\ pc[Ping(c)] = "off" /\ ~Registered(c)
      /\ \A p \in Procs : cur[p] # c
  BY <1>1 DEF Inv, Core, PlaceInv, Unborn, Early
<1> HIDE DEF l
<1>4. HubTypes' /\ \A d \in Conns : /\ Registered(d)' <=> Registered(d) \/ d = c
                                    /\ d # c => locks'[d] = locks[d]
                                    /\ d = c => locks'[d] # NoLock
  <2>1. HubTypes
    BY DEF Inv, TypeOK
  <2>2. HubTypes' /\ locks'[c] = l /\ \A d \in Conns : d # c => locks'[d] = locks[d]
    BY <1>1, <1>2, <2>1 DEF HubTypes
  <2>3. ASSUME NEW d \in Conns PROVE Registered(d)' <=> Registered(d) \/ d = c
    <3>1. UuidOf[d] \in Uuids
      BY OwnersAssumption
    <3> QED BY <1>1, <2>1, <3>1 DEF HubTypes, Registered
  <2> QED BY <1>2, <2>2, <2>3
<1>5. /\ PlaceTypes' /\ OthersStay(h)
      /\ pc'[h] = "lookup" /\ cur'[h] = c /\ ref'[h] = ref[h]
  BY <1>1, PlaceOf, PCsList, MovesFacts DEF Inv, TypeOK
<1>6. TypeOK'
  BY <1>1, <1>4, <1>5, TypesStay DEF Inv, TypeOK
<1>7. /\ \A d \in Conns : d # c => pc'[Handler(d)] = pc[Handler(d)]
      /\ \A d \in Conns : pc'[Ping(d)] = pc[Ping(d)]
      /\ \A s \in Senders : pc'[s] = pc[s] /\ cur'[s] = cur[s]
  BY <1>5, ProcFacts DEF OthersStay
<1>8. ~InFn(h) /\ ~InFn(h)' /\ HasConn(h)'
  BY <1>1, <1>5 DEF InFn, HasConn
<1>9. OthersIn(h) /\ \A q \in Procs : HasConn(q)'
  BY <1>1, <1>5, <1>8, OthersHave DEF Inv
<1>10. PlaceInv'
  <2>1. ASSUME NEW d \in Conns PROVE Unborn(d)'
    <3>1. CASE d = c
      BY <1>3, <1>5, <1>7, <3>1 DEF Unborn
    <3>2. CASE d # c
      <4>1. Unborn(d) /\ pc'[Handler(d)] = pc[Handler(d)] /\ pc'[Ping(d)] = pc[Ping(d)]
        BY <1>7, <3>2 DEF Inv, Core, PlaceInv
      <4>2. \A q \in Procs : cur[q] # d => cur'[q] # d
        BY <1>5, <3>2 DEF OthersStay
      <4> QED BY <1>4, <3>2, <4>1, <4>2 DEF Unborn
    <3> QED BY <3>1, <3>2
  <2>2. \A v \in Uuids : \A d \in byUUID'[v] : UuidOf[d] = v
    BY <1>1 DEF Inv, Core, PlaceInv, TypeOK, HubTypes
  <2> QED BY <1>9, <2>1, <2>2 DEF PlaceInv
<1>11. LockInv'
  <2>1. LockedIffInFn /\ \A q \in Procs : InFn(q)' <=> InFn(q)
    BY <1>8, <1>9 DEF Inv, Core, LockInv, OthersIn
  <2>2. LockedIffInFn'
    BY <1>1, <2>1 DEF LockedIffInFn, connVars
  <2>3. \A d \in Conns : Registered(d)' => locks'[d] # NoLock
    BY <1>4 DEF Inv, Core, LockInv
  <2>4. ASSUME NEW q \in Procs PROVE RefInv(q)'
    <3>1. CASE q = h
      BY <1>5, <1>8, <3>1 DEF RefInv
    <3>2. CASE q # h
      <4>1. /\ RefInv(q) /\ HasConn(q) /\ cur'[q] = cur[q] /\ ref'[q] = ref[q]
            /\ pc'[q] = pc[q] /\ cur[q] # c
        BY <1>3, <1>5, <3>2 DEF Inv, Core, LockInv, PlaceInv, OthersStay
      <4>2. pc'[q] = "lock" \/ InFn(q)' => (pc[q] = "lock" \/ InFn(q)) /\ cur[q] \in Conns
        BY <2>1, <4>1 DEF HasConn
      <4>3. cur[q] \in Conns => /\ Registered(cur[q])' <=> Registered(cur[q])
                                /\ locks'[cur[q]] = locks[cur[q]]
        BY <1>4, <4>1
      <4> QED BY <4>1, <4>2, <4>3 DEF RefInv
    <3> QED BY <3>1, <3>2
  <2> QED BY <2>2, <2>3, <2>4 DEF LockInv
<1>12. \A d \in Conns : pc[Handler(d)] # "register" =>
         pc'[Handler(d)] # "register" /\ (Registered(d)' => Registered(d))
  BY <1>1, <1>4, <1>5, <1>7
<1>13. SendInv'
  <2>1. ASSUME NEW s \in Senders, pc'[s] # "idle" PROVE CallOK(s)'
    <3>1. pc[s] # "idle" /\ \A d : Serving(s, d) => Serving(s, d)'
      BY <1>7, <2>1 DEF Serving
    <3> QED BY <1>1, <1>12, <3>1, CallKept DEF Inv, sendVars
  <2>2. ASSUME NEW d \in done, NEW e \in d.must
        PROVE  e \in Conns /\ Reached(d, e)'
    <3>1. e \in Conns
      BY CoreReached DEF Inv
    <3> QED BY <1>1, <1>12, <3>1, ReachedKept DEF Inv
  <2> QED BY <1>1, <2>1, <2>2 DEF SendInv
<1> QED BY <1>6, <1>10, <1>11, <1>13 DEF Inv, Core

LEMMA RangeEndInv ==
  ASSUME Inv, NEW s \in Senders, RangeEnd(s)
  PROVE  Inv'
<1> DEFINE e == [call |-> call[s], must |-> must[s]]
<1>1. /\ pc[s] = "range" /\ s \in Procs /\ s \notin Handlers
      /\ must[s] \cap Ranged(s) \subseteq seen[s]
      /\ done' = done \cup {e}
      /\ Moves(s, "idle", cur[s], ref[s])
      /\ UNCHANGED <<hubVars, connVars, sendVars, alive, cur, ref, got>>
  BY ProcFacts, PlaceOf DEF Inv, RangeEnd, Goto, Moves
<1>2. e.call = call[s] /\ e.must = must[s]
  OBVIOUS
<1>3. CallOK(s)
  BY <1>1 DEF Inv, Core, SendInv
<1>4. /\ PlaceTypes' /\ OthersStay(s) /\ pc'[s] = "idle"
  BY <1>1, PlaceOf, PCsList, MovesFacts DEF Inv, TypeOK
<1>5. TypeOK'
  <2>1. HistTypes'
    <3>1. e \in [call : 1..MaxSends, must : SUBSET Conns]
      BY <1>3 DEF CallOK
    <3>2. HistTypes
      BY DEF Inv, TypeOK
    <3> HIDE DEF e
    <3> QED BY <1>1, <3>1, <3>2 DEF HistTypes
  <2> QED BY <1>1, <1>4, <2>1, TypesStay DEF Inv, TypeOK
<1>6. PlacesKept
  BY <1>1, <1>4, StepPlaces DEF Inv
<1>7. ASSUME NEW c \in must[s]
      PROVE  /\ c \in Conns /\ pc'[Handler(c)] # "register"
             /\ Registered(c)' => call[s] \in got[c]
  <2>1. Owes(s, c) /\ c \in Conns /\ ~Serving(s, c)
    BY <1>1, <1>3 DEF CallOK, Serving
  <2>2. Registered(c) => c \in seen[s]
    BY <1>1, <2>1 DEF Owes, Registered, Ranged
  <2>3. pc'[Handler(c)] # "register" /\ (Registered(c)' <=> Registered(c))
    BY <1>1, <1>6, <2>1 DEF Owes, PlacesKept, Registered, hubVars
  <2>4. Registered(c) => call[s] \in got[c]
    BY <2>1, <2>2 DEF Owes
  <2> QED BY <2>1, <2>3, <2>4
<1> HIDE DEF e
\* The rest of the step changes nothing that the invariant speaks of.
<1>8. ~InFn(s)' /\ ~InFn(s) /\ HasConn(s)'
  BY <1>1, <1>4 DEF InFn, HasConn
<1>9. OthersIn(s) /\ \A q \in Procs : HasConn(q)'
  BY <1>1, <1>4, <1>8, OthersHave DEF Inv
<1>10. \A c : Registered(c)' <=> Registered(c)
  BY <1>1 DEF Registered, hubVars
<1>11. PlaceInv'
  <2>1. ASSUME NEW d \in Conns PROVE Unborn(d)'
    <3>1. pc[Handler(d)] = "register" => \A q \in Procs : cur'[q] # d
      BY <1>1 DEF Inv, Core, PlaceInv, Unborn
    <3> QED BY <1>6, <1>10, <3>1, UnbornKept DEF Inv
  <2> QED BY <1>1, <1>9, <2>1 DEF Inv, Core, PlaceInv, hubVars
<1>12. LockInv'
  <2>1. LockedIffInFn /\ (\A c \in Conns : Registered(c) => locks[c] # NoLock)
        /\ \A q \in Procs : RefInv(q)
    BY DEF Inv, Core, LockInv
  <2>2. \A q \in Procs : InFn(q)' <=> InFn(q)
    BY <1>8, <1>9 DEF OthersIn
  <2>3. LockedIffInFn'
    BY <1>1, <2>1, <2>2 DEF LockedIffInFn, connVars
  <2>4. ASSUME NEW q \in Procs PROVE RefInv(q)'
    <3>1. Registered(cur[q])' <=> Registered(cur[q])
      BY <1>1, <1>10 DEF Registered
    <3>2. pc'[q] = "lock" \/ InFn(q)' => pc[q] = "lock" \/ InFn(q)
      BY <1>4, <2>2 DEF OthersStay
    <3> QED BY <1>1, <2>1, <3>1, <3>2 DEF RefInv, hubVars
  <2> QED BY <1>1, <1>10, <2>1, <2>3, <2>4 DEF LockInv, hubVars
<1>13. SendInv'
  <2>1. \A c \in Conns : pc[Handler(c)] # "register" => pc'[Handler(c)] # "register"
    BY <1>6 DEF PlacesKept
  <2>2. ASSUME NEW t \in Senders, pc'[t] # "idle" PROVE CallOK(t)'
    <3>1. pc[t] # "idle" /\ \A c : Serving(t, c) => Serving(t, c)'
      BY <1>1, <1>4, <2>2, ProcFacts DEF Serving, OthersStay
    <3> QED BY <1>1, <1>6, <3>1, CallGoesOn DEF Inv, hubVars, sendVars
  <2>3. ASSUME NEW d \in done, NEW c \in d.must
        PROVE  c \in Conns /\ Reached(d, c)'
    <3>1. c \in Conns
      BY CoreReached DEF Inv
    <3> QED BY <1>1, <1>10, <2>1, <3>1, ReachedKept DEF Inv
  <2>4. ASSUME NEW d \in done', NEW c \in d.must
        PROVE  c \in Conns /\ Reached(d, c)'
    <3>1. CASE d \in done
      BY <2>3, <3>1
    <3>2. CASE d = e
      <4>1. c \in must[s] /\ d.call = call[s] /\ got' = got
        BY <1>1, <1>2, <3>2
      <4> QED BY <1>7, <4>1 DEF Reached
    <3> QED BY <1>1, <3>1, <3>2
  <2> QED BY <2>2, <2>4 DEF SendInv
<1> QED BY <1>5, <1>11, <1>12, <1>13 DEF Inv, Core

-----------------------------------------------------------------------------
LEMMA NextInv ==
  ASSUME Inv, [Next]_vars
  PROVE  Inv'
<1>1. ASSUME NEW p \in Procs, WithConnWrite(p) PROVE Inv'
  BY <1>1, LookupLockInv, GetLockInv, LockConnInv DEF WithConnWrite
<1>2. ASSUME NEW c \in Conns,
             \/ HandlerStep(c) \/ PeerGone(c)
             \/ Tick(c) \/ Pinged(c) \/ ContextDone(c)
      PROVE  Inv'
  BY <1>2, RegisterInv, ReadyWrittenInv, ReadFailsInv, UnregisterInv,
     HandlerClosesInv, PeerGoneInv, TickInv, PingedInv, ContextDoneInv
     DEF HandlerStep
<1>3. ASSUME NEW s \in Senders,
             SendJSON(s) \/ SenderStep(s) \/ ConcurrentMapWrite(s)
      PROVE  Inv'
  BY <1>3, SendJSONInv, RangeNextInv, RangeEndInv, JSONWrittenInv,
     WriteFailsInv, CleanupInv, CloseBrokenInv, ConcurrentMapWriteInv
     DEF SenderStep
<1> QED BY <1>1, <1>2, <1>3, StutterInv DEF Next

LEMMA InvAlways == Spec => []Inv
<1>1. Inv /\ [Next]_vars => Inv'
  BY NextInv
<1> QED BY <1>1, InitInv, PTL DEF Spec

LEMMA InvExclusive == Inv => ExclusiveWhileRegistered
<1> SUFFICES ASSUME Inv, NEW p \in Procs, NEW q \in Procs, p # q, InFn(p),
                    InFn(q), cur[p] = cur[q], Registered(cur[p])
             PROVE  FALSE
  BY DEF ExclusiveWhileRegistered, Registered
<1>1. ref[p] = ref[q]
  BY DEF Inv, Core, LockInv, RefInv
<1> QED BY <1>1 DEF Inv, Core, LockInv, LockedIffInFn

LEMMA InvDelivered == Inv => DeliveredToAll
BY DEF Inv, Core, SendInv, Reached, DeliveredToAll, Registered

\* The hub's maps, the connections and the goroutines of ChatWsHandler and
\* SendJSON keep their types.
THEOREM TypeCorrect == Spec => []TypeOK
<1>1. Inv => TypeOK
  BY DEF Inv
<1> QED BY <1>1, InvAlways, PTL

\* While a connection is registered, WithConnWrite lets one goroutine at a
\* time inside fn for it, for any number of senders and connections.
THEOREM WritesExclusive == Spec => []ExclusiveWhileRegistered
BY InvAlways, InvExclusive, PTL

\* Every locked mutex belongs to a goroutine inside fn, which waits for no
\* other mutex of a connection: writers to connections cannot wait in a circle.
THEOREM MutexesReleased == Spec => []LockedIffInFn
<1>1. Inv => LockedIffInFn
  BY DEF Inv, Core, LockInv
<1> QED BY <1>1, InvAlways, PTL

\* A SendJSON call that has returned has written its payload to every
\* connection that was registered when it began and still is.
THEOREM SendReachesAll == Spec => []DeliveredToAll
BY InvAlways, InvDelivered, PTL

=============================================================================
