------------------------------- MODULE WsHub -------------------------------
(***************************************************************************)
(* The push connections of the chat API: svc.WsHub and the goroutines that *)
(* use it, which are the handler and the ping loop of every connection     *)
(* (ChatWsHandler) and the goroutines that call SendJSON.                  *)
(*                                                                         *)
(* One step per critical section of h.mu and per call that can block.  A   *)
(* connection object is registered once; several belong to one uuid.       *)
(***************************************************************************)
EXTENDS Integers, FiniteSets

CONSTANTS Conns, Uuids, UuidOf, \* connections, users, owner of a connection
          Senders,              \* goroutines that call SendJSON
          LockIds, NoLock,      \* mutex objects; more of them than goroutines
          NoConn,
          CancelOnClose,        \* does the request context end with the
                                \* connection?  net/http: not once hijacked
          MaxSends              \* bound on the calls of SendJSON

Handler(c) == <<"handler", c>>
Ping(c)    == <<"ping", c>>

Handlers == {Handler(c) : c \in Conns}
Pings    == {Ping(c) : c \in Conns}
Procs    == Senders \cup Handlers \cup Pings

ASSUME OwnersAssumption == UuidOf \in [Conns -> Uuids] /\ Uuids # {}
ASSUME ProcsAssumption  == Senders \cap (Handlers \cup Pings) = {}
ASSUME NamesAssumption  == NoLock \notin LockIds /\ NoConn \notin Conns
ASSUME BoundsAssumption == CancelOnClose \in BOOLEAN /\ MaxSends \in Nat

VARIABLES
  byUUID,   \* h.byUUID: the set object a uuid has now; empty when it has none
  setNo,    \* which set object that is: dropping one makes the next one new
  locks,    \* h.locks: the mutex object of a connection, or NoLock
  held,     \* the mutex objects that are locked
  open,     \* the connection has not been closed by the server
  gone,     \* the peer has closed, or has been silent for the read deadline
  alive,    \* the Go runtime has not stopped the process
  pc, cur, ref,           \* per goroutine: place, connection, mutex object
  uuid, set, must, seen,  \* per sender: target, its set object, the
                          \* connections in it at the start, those visited
  call, sends, got, done  \* history: call numbers, what was written, finished
                          \* calls

hubVars  == <<byUUID, setNo, locks>>
connVars == <<held, open, gone>>
sendVars == <<uuid, set, must, seen, call, sends>>
vars     == <<hubVars, connVars, sendVars, alive, pc, cur, ref, got, done>>

-----------------------------------------------------------------------------
Init ==
  /\ byUUID = [u \in Uuids |-> {}] /\ setNo = [u \in Uuids |-> 0]
  /\ locks = [c \in Conns |-> NoLock] /\ held = {}
  /\ open = [c \in Conns |-> TRUE] /\ gone = [c \in Conns |-> FALSE]
  /\ alive = TRUE
  /\ pc = [p \in Procs |-> IF p \in Handlers THEN "register"
                           ELSE IF p \in Pings THEN "off" ELSE "idle"]
  /\ cur = [p \in Procs |-> NoConn] /\ ref = [p \in Procs |-> NoLock]
  /\ uuid = [s \in Senders |-> CHOOSE u \in Uuids : TRUE]
  /\ set = [s \in Senders |-> 0]
  /\ must = [s \in Senders |-> {}] /\ seen = [s \in Senders |-> {}]
  /\ call = [s \in Senders |-> 0] /\ sends = 0
  /\ got = [c \in Conns |-> {}] /\ done = {}

Goto(p, to) == pc' = [pc EXCEPT ![p] = to]

\* A mutex nobody can see yet: what &sync.Mutex{} gives.
Unused  == LockIds \ ({locks[c] : c \in Conns} \cup {ref[p] : p \in Procs})
NewLock == CHOOSE l \in Unused : TRUE

\* delete(set, conn), delete(h.byUUID, uuid) when that empties it, and
\* delete(h.locks, conn).
Forget(c) ==
  LET u == UuidOf[c]
  IN  /\ byUUID' = [byUUID EXCEPT ![u] = @ \ {c}]
      /\ setNo' = [setNo EXCEPT ![u] = IF byUUID[u] = {c} THEN @ + 1 ELSE @]
      /\ locks' = [locks EXCEPT ![c] = NoLock]

-----------------------------------------------------------------------------
\* ChatWsHandler: Register, then the ready event under WithConnWrite.
Register(c) ==
  /\ pc[Handler(c)] = "register" /\ Unused # {}
  /\ byUUID' = [byUUID EXCEPT ![UuidOf[c]] = @ \cup {c}]
  /\ locks' = [locks EXCEPT ![c] = IF @ = NoLock THEN NewLock ELSE @]
  /\ cur' = [cur EXCEPT ![Handler(c)] = c]
  /\ Goto(Handler(c), "lookup")
  /\ UNCHANGED <<setNo, connVars, sendVars, alive, ref, got, done>>

\* WithConnWrite, the look under h.mu.RLock.
LookupLock(p) ==
  /\ pc[p] = "lookup"
  /\ ref' = [ref EXCEPT ![p] = locks[cur[p]]]
  /\ Goto(p, IF locks[cur[p]] = NoLock THEN "lazy" ELSE "lock")
  /\ UNCHANGED <<hubVars, connVars, sendVars, alive, cur, got, done>>

\* WithConnWrite, getLock under h.mu.Lock.
GetLock(p) ==
  /\ pc[p] = "lazy" /\ Unused # {}
  /\ LET c == cur[p]
         l == IF locks[c] = NoLock THEN NewLock ELSE locks[c]
     IN  /\ locks' = [locks EXCEPT ![c] = l]
         /\ ref' = [ref EXCEPT ![p] = l]
  /\ Goto(p, "lock")
  /\ UNCHANGED <<byUUID, setNo, connVars, sendVars, alive, cur, got, done>>

\* Mutant: the mutex is taken for reading.
LockConnShared(p) ==
  /\ pc[p] = "lock"
  /\ held' = held \cup {ref[p]}
  /\ Goto(p, "write")
  /\ UNCHANGED <<hubVars, open, gone, sendVars, alive, cur, ref, got, done>>

\* l.Lock(): from here the goroutine is inside fn.
LockConn(p) ==
  /\ pc[p] = "lock" /\ ref[p] \notin held
  /\ held' = held \cup {ref[p]}
  /\ Goto(p, "write")
  /\ UNCHANGED <<hubVars, open, gone, sendVars, alive, cur, ref, got, done>>

\* The deferred l.Unlock(); the goroutine goes on at "to".
Unlock(p, to) ==
  /\ held' = held \ {ref[p]}
  /\ ref' = [ref EXCEPT ![p] = NoLock]
  /\ cur' = [cur EXCEPT ![p] = NoConn]
  /\ Goto(p, to)

\* The ready event is written or not, the error is dropped; then the ping
\* loop starts and the handler reads.
ReadyWritten(c) ==
  LET p == Handler(c)
  IN  /\ pc[p] = "write"
      /\ held' = held \ {ref[p]}
      /\ ref' = [ref EXCEPT ![p] = NoLock]
      /\ cur' = [cur EXCEPT ![p] = NoConn]
      /\ pc' = [pc EXCEPT ![p] = "read", ![Ping(c)] = "select"]
      /\ UNCHANGED <<hubVars, open, gone, sendVars, alive, got, done>>

PeerGone(c) ==
  /\ ~gone[c]
  /\ gone' = [gone EXCEPT ![c] = TRUE]
  /\ UNCHANGED <<hubVars, held, open, sendVars, alive, pc, cur, ref, got, done>>

\* ReadMessage returns an error; the handler waits for the ping loop.
ReadFails(c) ==
  /\ pc[Handler(c)] = "read" /\ (gone[c] \/ ~open[c])
  /\ Goto(Handler(c), "waitDone")
  /\ UNCHANGED <<hubVars, connVars, sendVars, alive, cur, ref, got, done>>

\* The deferred Unregister, once the ping loop has closed done.
Unregister(c) ==
  /\ pc[Handler(c)] = "waitDone" /\ pc[Ping(c)] = "done"
  /\ Forget(c)
  /\ Goto(Handler(c), "close")
  /\ UNCHANGED <<connVars, sendVars, alive, cur, ref, got, done>>

\* The deferred conn.Close().
HandlerCloses(c) ==
  /\ pc[Handler(c)] = "close"
  /\ open' = [open EXCEPT ![c] = FALSE]
  /\ Goto(Handler(c), "exit")
  /\ UNCHANGED <<hubVars, held, gone, sendVars, alive, cur, ref, got, done>>

\* The ping loop: the ticker, the ping under WithConnWrite with its error
\* dropped, and the end of the request context.
Tick(c) ==
  /\ pc[Ping(c)] = "select"
  /\ cur' = [cur EXCEPT ![Ping(c)] = c]
  /\ Goto(Ping(c), "lookup")
  /\ UNCHANGED <<hubVars, connVars, sendVars, alive, ref, got, done>>

Pinged(c) ==
  /\ pc[Ping(c)] = "write"
  /\ Unlock(Ping(c), "select")
  /\ UNCHANGED <<hubVars, open, gone, sendVars, alive, got, done>>

\* The constant chooses between the two readings of r.Context(): without
\* fairness, TRUE has every behaviour of FALSE and the ones behind <-done.
ContextDone(c) ==
  /\ pc[Ping(c)] = "select" /\ CancelOnClose /\ (gone[c] \/ ~open[c])
  /\ Goto(Ping(c), "done")
  /\ UNCHANGED <<hubVars, connVars, sendVars, alive, cur, ref, got, done>>

-----------------------------------------------------------------------------
\* SendJSON: the set object is read under h.mu.RLock, and used without it.
SendJSON(s) ==
  /\ pc[s] = "idle" /\ sends < MaxSends
  /\ sends' = sends + 1 /\ call' = [call EXCEPT ![s] = sends + 1]
  /\ \E u \in Uuids :
       /\ uuid' = [uuid EXCEPT ![s] = u]
       /\ set' = [set EXCEPT ![s] = setNo[u]]
       /\ must' = [must EXCEPT ![s] = byUUID[u]]
       /\ seen' = [seen EXCEPT ![s] = {}]
       /\ IF byUUID[u] = {} THEN UNCHANGED pc ELSE Goto(s, "range")
  /\ UNCHANGED <<hubVars, connVars, alive, cur, ref, got, done>>

\* The set object s is ranging over: a set that was dropped stays empty.
Ranged(s) == IF set[s] = setNo[uuid[s]] THEN byUUID[uuid[s]] ELSE {}

\* for c := range set.  A connection that joins during the loop may or may not
\* be visited, one that leaves before its turn is not.
RangeNext(s) ==
  /\ pc[s] = "range"
  /\ \E c \in Ranged(s) \ seen[s] :
       /\ cur' = [cur EXCEPT ![s] = c]
       /\ seen' = [seen EXCEPT ![s] = @ \cup {c}]
  /\ Goto(s, "lookup")
  /\ UNCHANGED <<hubVars, connVars, uuid, set, must, call, sends, alive, ref,
                 got, done>>

RangeEnd(s) ==
  /\ pc[s] = "range" /\ must[s] \cap Ranged(s) \subseteq seen[s]
  /\ done' = done \cup {[call |-> call[s], must |-> must[s]]}
  /\ Goto(s, "idle")
  /\ UNCHANGED <<hubVars, connVars, sendVars, alive, cur, ref, got>>

\* WriteJSON succeeds.
JSONWritten(s) ==
  /\ pc[s] = "write" /\ open[cur[s]]
  /\ got' = [got EXCEPT ![cur[s]] = @ \cup {call[s]}]
  /\ Unlock(s, "range")
  /\ UNCHANGED <<hubVars, open, gone, sendVars, alive, done>>

\* WriteJSON fails: the peer is gone, the connection closed, or the peer has
\* not read for ten seconds.
WriteFails(s) ==
  /\ pc[s] = "write"
  /\ Goto(s, "cleanup")
  /\ UNCHANGED <<hubVars, connVars, sendVars, alive, cur, ref, got, done>>

\* The cleanup of a broken connection, under h.mu and inside fn.
Cleanup(s) ==
  /\ pc[s] = "cleanup"
  /\ Forget(cur[s])
  /\ Goto(s, "close")
  /\ UNCHANGED <<connVars, sendVars, alive, cur, ref, got, done>>

\* Mutant: SendJSON stops at the first connection that fails.
CloseAndReturn(s) ==
  /\ pc[s] = "close"
  /\ open' = [open EXCEPT ![cur[s]] = FALSE]
  /\ Unlock(s, "idle")
  /\ done' = done \cup {[call |-> call[s], must |-> must[s]]}
  /\ UNCHANGED <<hubVars, gone, sendVars, alive, got>>

CloseBroken(s) ==
  /\ pc[s] = "close"
  /\ open' = [open EXCEPT ![cur[s]] = FALSE]
  /\ Unlock(s, "range")
  /\ UNCHANGED <<hubVars, gone, sendVars, alive, got, done>>

\* The loop of SendJSON advances while another goroutine writes the same map
\* under h.mu: the runtime may notice and stop the process.
WritesSet(u) ==
  \/ \E c \in Conns : /\ UuidOf[c] = u
                      /\ \/ pc[Handler(c)] = "register"
                         \/ pc[Handler(c)] = "waitDone" /\ pc[Ping(c)] = "done"
  \/ \E s \in Senders : pc[s] = "cleanup" /\ UuidOf[cur[s]] = u

ConcurrentMapWrite(s) ==
  /\ pc[s] = "range" /\ Ranged(s) # {} /\ WritesSet(uuid[s])
  /\ alive' = FALSE
  /\ UNCHANGED <<hubVars, connVars, sendVars, pc, cur, ref, got, done>>

-----------------------------------------------------------------------------
WithConnWrite(p) == LookupLock(p) \/ GetLock(p) \/ LockConn(p)

HandlerStep(c) ==
  \/ Register(c) \/ ReadyWritten(c) \/ ReadFails(c) \/ Unregister(c)
  \/ HandlerCloses(c)

SenderStep(s) ==
  \/ RangeNext(s) \/ RangeEnd(s) \/ JSONWritten(s) \/ WriteFails(s)
  \/ Cleanup(s) \/ CloseBroken(s)

Next ==
  /\ alive
  /\ \/ \E p \in Procs : WithConnWrite(p)
     \/ \E c \in Conns : \/ HandlerStep(c) \/ PeerGone(c)
                        \/ Tick(c) \/ Pinged(c) \/ ContextDone(c)
     \/ \E s \in Senders : \/ SendJSON(s) \/ SenderStep(s)
                          \/ ConcurrentMapWrite(s)

\* Goroutines that can run do run; sync.Mutex serves a starved waiter, hence
\* strong fairness for the lock; select picks at random among the ready
\* cases, hence strong fairness for the end of the context; writes return
\* within the write deadline.
Fairness ==
  /\ \A p \in Procs : /\ WF_vars(alive /\ (LookupLock(p) \/ GetLock(p)))
                      /\ SF_vars(alive /\ LockConn(p))
  /\ \A c \in Conns : /\ WF_vars(alive /\ HandlerStep(c))
                      /\ WF_vars(alive /\ Pinged(c))
                      /\ SF_vars(alive /\ ContextDone(c))
  /\ \A s \in Senders : WF_vars(alive /\ SenderStep(s))

Spec == Init /\ [][Next]_vars
FairSpec == Spec /\ Fairness

-----------------------------------------------------------------------------
HandlerPCs == {"register", "lookup", "lazy", "lock", "write", "read",
               "waitDone", "close", "exit"}
PingPCs    == {"off", "select", "lookup", "lazy", "lock", "write", "done"}
SenderPCs  == {"idle", "range", "lookup", "lazy", "lock", "write", "cleanup",
               "close"}

HubTypes ==
  /\ byUUID \in [Uuids -> SUBSET Conns] /\ setNo \in [Uuids -> Nat]
  /\ locks \in [Conns -> LockIds \cup {NoLock}]
ConnTypes ==
  /\ held \subseteq LockIds /\ alive \in BOOLEAN
  /\ open \in [Conns -> BOOLEAN] /\ gone \in [Conns -> BOOLEAN]
PlaceTypes ==
  /\ pc \in [Procs -> HandlerPCs \cup PingPCs \cup SenderPCs]
  /\ cur \in [Procs -> Conns \cup {NoConn}]
  /\ ref \in [Procs -> LockIds \cup {NoLock}]
SendTypes ==
  /\ uuid \in [Senders -> Uuids] /\ set \in [Senders -> Nat]
  /\ must \in [Senders -> SUBSET Conns] /\ seen \in [Senders -> SUBSET Conns]
  /\ call \in [Senders -> 0..MaxSends] /\ sends \in 0..MaxSends
HistTypes ==
  /\ got \in [Conns -> SUBSET (1..MaxSends)]
  /\ done \subseteq [call : 1..MaxSends, must : SUBSET Conns]

\* The types of the hub's maps, the connections and the goroutines' locals.
TypeOK == HubTypes /\ ConnTypes /\ PlaceTypes /\ SendTypes /\ HistTypes

InFn(p) == pc[p] \in {"write", "cleanup"} \/ (p \in Senders /\ pc[p] = "close")

\* WithConnWrite: while a connection is registered no two goroutines are
\* inside fn for it, although the cleanup of SendJSON and Unregister delete
\* the mutex other goroutines may be about to look up.
ExclusiveWhileRegistered ==
  \A p, q \in Procs :
    p # q /\ InFn(p) /\ InFn(q) /\ cur[p] = cur[q]
      => cur[p] \notin byUUID[UuidOf[cur[p]]]

\* A mutex is locked exactly while one goroutine is inside fn with it, also
\* when fn itself deletes the mutex from h.locks.
LockedIffInFn ==
  /\ held = {ref[p] : p \in {q \in Procs : InFn(q)}}
  /\ \A p, q \in Procs : p # q /\ InFn(p) /\ InFn(q) => ref[p] # ref[q]

\* SendJSON pushes the payload "to all active connections of the uuid": a
\* connection that was registered when the call began and still is when it
\* ends has got the payload, although the loop runs without h.mu while others
\* register, unregister and clean up.
DeliveredToAll ==
  \A d \in done : \A c \in d.must :
    c \in byUUID[UuidOf[c]] => d.call \in got[c]

\* ChatWsHandler: "register and ensure unregister on exit".  The handler of a
\* connection whose peer is gone returns, and its deferred Unregister and
\* Close run.  At <-done it waits for the ping goroutine, which waits for the
\* request context.
HandlerExits ==
  \A c \in Conns : gone[c] ~> (pc[Handler(c)] = "exit" \/ ~alive)

=============================================================================
