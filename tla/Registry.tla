------------------------------ MODULE Registry ------------------------------
(***************************************************************************)
(* InMemoryRegistry (registry.go) with the clients that register stores    *)
(* and send heartbeats, and the StoreManager that mirrors the registry     *)
(* from its events (discovery.go).                                         *)
(*                                                                         *)
(* The registry, the events and the mirror hold pointers to the same       *)
(* StoreInfo: what the manager writes into its copy is written into the    *)
(* registry.  Here a StoreInfo is a member of Infos; every store owns one, *)
(* which its client registers again and again.  Time is the age of the     *)
(* last heartbeat: fresh, or older than 60 seconds.                        *)
(***************************************************************************)
EXTENDS Integers, Sequences, FiniteSets

CONSTANTS
  Infos,       \* the StoreInfo of each store, which has its ID
  EventCap,    \* capacity of the channel of Watch (100 in the code)
  MaxEvents    \* bound on the events

ASSUME RegistryAssumption == EventCap \in Nat \ {0} /\ MaxEvents \in Nat

VARIABLES
  registered,  \* stores of the registry
  status,      \* the Status of each StoreInfo
  fresh,       \* its LastSeen is at most 60 seconds old
  client,      \* per store: "off", "on", "stopping" (heartbeat cancelled), and
  beating,     \* its heartbeat goroutine has taken a tick and not yet called
  manager,     \* "off", "watching", "running": how far Start has come
  events,      \* the manager's channel
  mirror,      \* the manager's map
  dropped,     \* an event met a full channel
  stale,       \* stores into which the manager wrote an "unhealthy" event that
               \* a heartbeat had overtaken
  revived,     \* stores that UpdateMetadata registered while their client was
               \* stopped or not yet started
  sent         \* events so far

registryVars == <<registered, status, fresh, client, beating, manager, events,
                  mirror, dropped, stale, revived, sent>>

-----------------------------------------------------------------------------
RegistryInit ==
  /\ registered = {} /\ mirror = {} /\ events = <<>>
  /\ status = [s \in Infos |-> "none"]
  /\ fresh = [s \in Infos |-> FALSE]
  /\ client = [s \in Infos |-> "off"] /\ beating = {}
  /\ manager = "off" /\ dropped = FALSE /\ stale = {}
  /\ revived = {} /\ sent = 0

\* A send to a full channel is skipped.
Notify(e) ==
  /\ sent' = sent + 1
  /\ IF manager = "off" THEN UNCHANGED <<events, dropped>>
     ELSE IF Len(events) < EventCap
       THEN events' = Append(events, e) /\ UNCHANGED dropped
       ELSE dropped' = TRUE /\ UNCHANGED events

\* InMemoryRegistry.Register.
Register(s) ==
  /\ sent < MaxEvents
  /\ registered' = registered \cup {s}
  /\ status' = [status EXCEPT ![s] = "active"]
  /\ fresh' = [fresh EXCEPT ![s] = TRUE]
  /\ stale' = stale \ {s}
  /\ Notify([type |-> "register", store |-> s])
  /\ UNCHANGED <<beating, manager, mirror>>

\* Start registers and starts the heartbeat.  Its owner calls Start and Stop
\* one after the other.
StartClient(s) ==
  /\ client[s] \in {"off", "on"}
  /\ client' = [client EXCEPT ![s] = "on"]
  /\ Register(s)
  /\ UNCHANGED revived

\* UpdateMetadata registers the same StoreInfo again, without a look at
\* isRegistered and without a heartbeat: before Start, after Stop or during it.
UpdateMetadata(s) ==
  /\ Register(s)
  /\ revived' = IF client[s] = "off" THEN revived \cup {s} ELSE revived
  /\ UNCHANGED client

\* Stop cancels the heartbeat, then unregisters.
StopClient(s) ==
  /\ client[s] = "on"
  /\ client' = [client EXCEPT ![s] = "stopping"]
  /\ UNCHANGED <<registered, status, fresh, beating, manager, events, mirror,
                 dropped, stale, revived, sent>>

Unregister(s) ==
  /\ sent < MaxEvents /\ client[s] = "stopping"
  /\ client' = [client EXCEPT ![s] = "off"]
  /\ registered' = registered \ {s}
  /\ revived' = revived \ {s}
  /\ Notify([type |-> "unregister", store |-> s])
  /\ UNCHANGED <<status, fresh, beating, manager, mirror, stale>>

\* The heartbeat goroutine takes a tick; its call may come after Stop.
TakeTick(s) ==
  /\ client[s] = "on"
  /\ beating' = beating \cup {s}
  /\ UNCHANGED <<registered, status, fresh, client, manager, events, mirror,
                 dropped, stale, revived, sent>>

UpdateHeartbeat(s) ==
  /\ sent < MaxEvents /\ s \in beating
  /\ beating' = beating \ {s}
  /\ \/ /\ s \in registered
        /\ fresh' = [fresh EXCEPT ![s] = TRUE]
        /\ status' = [status EXCEPT ![s] = "active"]
        /\ stale' = stale \ {s}
        /\ Notify([type |-> "heartbeat", store |-> s])
     \/ /\ s \notin registered
        /\ UNCHANGED <<fresh, status, stale, events, dropped, sent>>
  /\ UNCHANGED <<registered, client, manager, mirror, revived>>

\* More than 60 seconds pass without a heartbeat of s.
Ages(s) ==
  /\ fresh[s]
  /\ fresh' = [fresh EXCEPT ![s] = FALSE]
  /\ UNCHANGED <<registered, status, client, beating, manager, events, mirror,
                 dropped, stale, revived, sent>>

\* checkUnhealthyStores, one store of it at a time: what it does to a store
\* depends on no other, so the steps of one check may be taken separately.
CheckUnhealthy(s) ==
  /\ sent < MaxEvents
  /\ s \in registered /\ status[s] = "active" /\ ~fresh[s]
  /\ status' = [status EXCEPT ![s] = "unhealthy"]
  /\ Notify([type |-> "unhealthy", store |-> s])
  /\ UNCHANGED <<registered, fresh, client, beating, manager, mirror, stale, revived>>

-----------------------------------------------------------------------------
\* StoreManager.Start: Watch, then loadStores, then handleEvents.
StartWatch ==
  /\ manager = "off"
  /\ manager' = "watching"
  /\ UNCHANGED <<registered, status, fresh, client, beating, events, mirror,
                 dropped, stale, revived, sent>>

LoadStores ==
  /\ manager = "watching"
  /\ manager' = "running"
  /\ mirror' = registered
  /\ UNCHANGED <<registered, status, fresh, client, beating, events, dropped,
                 stale, revived, sent>>

\* Mutant: the removal of a store is not applied.
HandleEventKeeping ==
  /\ manager = "running" /\ events # <<>>
  /\ events' = Tail(events)
  /\ mirror' = IF Head(events).type = "register"
               THEN mirror \cup {Head(events).store} ELSE mirror
  /\ UNCHANGED <<registered, status, fresh, client, beating, manager, dropped,
                 stale, revived, sent>>

\* handleEvents.  The copy a "heartbeat" makes is from a StoreInfo to itself.
HandleEvent ==
  /\ manager = "running" /\ events # <<>>
  /\ events' = Tail(events)
  /\ LET e == Head(events)
     IN  /\ mirror' = CASE e.type = "register"   -> mirror \cup {e.store}
                        [] e.type = "unregister" -> mirror \ {e.store}
                        [] OTHER                 -> mirror
         /\ IF e.type = "unhealthy" /\ e.store \in mirror
              THEN /\ status' = [status EXCEPT ![e.store] = "unhealthy"]
                   /\ stale' = IF status[e.store] = "active"
                               THEN stale \cup {e.store} ELSE stale
              ELSE UNCHANGED <<status, stale>>
  /\ UNCHANGED <<registered, fresh, client, beating, manager, dropped, revived,
                 sent>>

RegistryNext ==
  \/ StartWatch \/ LoadStores \/ HandleEvent
  \/ \E s \in Infos :
       \/ StartClient(s) \/ UpdateMetadata(s) \/ StopClient(s)
       \/ Unregister(s) \/ TakeTick(s)
       \/ UpdateHeartbeat(s) \/ Ages(s) \/ CheckUnhealthy(s)

RegistrySpec == RegistryInit /\ [][RegistryNext]_registryVars

-----------------------------------------------------------------------------
\* What the registry and its mirror say of a store is so, however clients, the
\* health check and the two halves of the manager's Start interleave.  A
\* heartbeat that was on its way when the client stopped does not bring the
\* store back: only UpdateMetadata does, which does not look whether the client
\* is registered.  A store heard of within 60 seconds is active, unless the manager
\* applied an "unhealthy" event that the heartbeat had overtaken, which writes
\* the shared StoreInfo.  And when the manager has handled all its events its
\* map has the stores of the registry, unless an event met a full channel.
RegistryAgrees ==
  /\ \A s \in Infos : client[s] = "off" /\ s \in registered => s \in revived
  /\ \A s \in registered : fresh[s] /\ s \notin stale => status[s] = "active"
  /\ manager = "running" /\ events = <<>> /\ ~dropped => mirror = registered
=============================================================================
