------------------------------- MODULE Router -------------------------------
(***************************************************************************)
(* ConsistentHashRouter: the stores it knows, their last reported load and *)
(* the hash ring that places timelines on them.  r.mu makes AddStore,      *)
(* RemoveStore and UpdateStoreLoad atomic; GetTimelineReplicas holds the   *)
(* read lock while it walks the ring, one point per step.                  *)
(***************************************************************************)
EXTENDS Integers, Sequences, FiniteSets, SequencesExt

CONSTANTS RingStores,    \* store ids
          MaxHash,       \* hashes are 0..MaxHash (32 bits in the code)
          VnodeHash,     \* hash of "id:i": RingStores -> Seq(0..MaxHash)
          Replicas,      \* NewConsistentHashRouter's replicas
          Loads,         \* loads a store reports: [over, score]
          MaxRouterOps   \* bound on calls that write

NoStore == "none"  \* Go's ""
NoScore == -1      \* NaN: 0 of 0 capacity, larger than no score
NoScan == [hash |-> -1]

VARIABLES
  nodes,        \* HashRing.nodes, sorted
  nodeMap,      \* HashRing.nodeMap: hash -> store
  stores,       \* r.stores: store -> Status
  loads,        \* r.loads: store -> load
  scan,         \* the GetNodes loop under way, or NoScan
  addedTwice,   \* history: stores AddStore was given while they were there
  routerOps

ringVars == <<nodes, nodeMap>>
routerVars == <<nodes, nodeMap, stores, loads, scan, addedTwice, routerOps>>

Hashes == 0..MaxHash
Owner(h) == IF h \in DOMAIN nodeMap THEN nodeMap[h] ELSE NoStore
Without(f, x) == [y \in DOMAIN f \ {x} |-> f[y]]
With(f, x, v) == [y \in DOMAIN f \cup {x} |-> IF y = x THEN v ELSE f[y]]

-----------------------------------------------------------------------------
\* A store's points go in again when it is already there.
AddNode(s) ==
  /\ nodes' = SortSeq(nodes \o VnodeHash[s], LAMBDA a, b : a < b)
  /\ nodeMap' = [h \in DOMAIN nodeMap \cup Range(VnodeHash[s]) |->
                   IF h \in Range(VnodeHash[s]) THEN s ELSE nodeMap[h]]

\* The entry of a point goes with its first copy, so a second copy no longer
\* belongs to the store and stays.
RemoveNode(s) ==
  LET copy(i) == \E j \in 1..(i - 1) : nodes[j] = nodes[i]
      kept == {i \in DOMAIN nodes : Owner(nodes[i]) # s \/ copy(i)}
      order == SetToSortSeq(kept, LAMBDA a, b : a < b)
  IN /\ nodes' = [i \in DOMAIN order |-> nodes[order[i]]]
     /\ nodeMap' = [h \in {g \in DOMAIN nodeMap : nodeMap[g] # s} |-> nodeMap[h]]

\* Binary search for the first point at or past the hash, wrapping around.
Search(ring, hash) ==
  LET after == {i \in DOMAIN ring : ring[i] >= hash}
  IN IF after = {} THEN 1 ELSE CHOOSE i \in after : \A j \in after : i <= j

GetNode(hash) ==
  IF nodes = <<>> THEN NoStore ELSE Owner(nodes[Search(nodes, hash)])

-----------------------------------------------------------------------------
Write == scan = NoScan /\ routerOps < MaxRouterOps /\ routerOps' = routerOps + 1

AddStore(s, status) ==
  /\ Write
  /\ stores' = With(stores, s, status)
  /\ AddNode(s)
  /\ addedTwice' = IF s \in DOMAIN stores THEN addedTwice \cup {s} ELSE addedTwice
  /\ UNCHANGED <<loads, scan>>

RemoveStore(s) ==
  /\ Write
  /\ stores' = Without(stores, s)
  /\ loads' = Without(loads, s)
  /\ RemoveNode(s)
  /\ UNCHANGED <<scan, addedTwice>>

UpdateStoreLoad(s, load) ==
  /\ Write
  /\ loads' = With(loads, s, load)
  /\ UNCHANGED <<ringVars, stores, scan, addedTwice>>

-----------------------------------------------------------------------------
Healthy == {s \in DOMAIN stores : stores[s] = "healthy"}

\* The stores the loop over r.stores may end with, whatever the map's order:
\* a reported score beats no report, and NaN is larger than nothing.
getBestAvailableStore ==
  LET scored == {s \in Healthy \cap DOMAIN loads : loads[s].score # NoScore}
      best == {s \in scored : \A t \in scored : loads[t].score <= loads[s].score}
      silent == Healthy \ DOMAIN loads
  IN IF best # {} THEN best ELSE IF silent # {} THEN silent ELSE {NoStore}

\* Mutant: the status of the store is not looked at.
RouteTimelineAnyStatus(hash) ==
  LET s == GetNode(hash)
  IN IF DOMAIN stores = {} \/ s = NoStore THEN {NoStore}
     ELSE IF s \in DOMAIN loads /\ loads[s].over THEN getBestAvailableStore
     ELSE {s}

\* The answers RouteTimeline may give; NoStore stands for an error.
RouteTimeline(hash) ==
  LET s == GetNode(hash)
  IN IF DOMAIN stores = {} \/ s = NoStore THEN {NoStore}
     ELSE IF s \notin Healthy THEN getBestAvailableStore
     ELSE IF s \in DOMAIN loads /\ loads[s].over THEN getBestAvailableStore
     ELSE {s}

-----------------------------------------------------------------------------
\* GetTimelineReplicas enters GetNodes; with no store, or no point, it returns.
GetTimelineReplicas(hash) ==
  /\ scan = NoScan /\ DOMAIN stores # {} /\ DOMAIN nodeMap # {}
  /\ scan' = [hash |-> hash, idx |-> Search(nodes, hash), result |-> <<>>,
              seen |-> {}, steps |-> 0]
  /\ UNCHANGED <<ringVars, stores, loads, addedTwice, routerOps>>

Count == IF Replicas > Cardinality(DOMAIN nodeMap)
         THEN Cardinality(DOMAIN nodeMap) ELSE Replicas

Looping == /\ scan # NoScan
           /\ Len(scan.result) < Count
           /\ Cardinality(scan.seen) < Cardinality(DOMAIN nodeMap)

\* steps counts the points walked, up to one turn of the ring.
NextPoint(add) ==
  LET node == Owner(nodes[scan.idx])
  IN /\ Looping
     /\ scan' = [scan EXCEPT
          !.result = IF add THEN Append(@, node) ELSE @,
          !.seen = IF add THEN @ \cup {node} ELSE @,
          !.idx = (@ % Len(nodes)) + 1,
          !.steps = IF @ < Len(nodes) THEN @ + 1 ELSE @]
     /\ UNCHANGED <<ringVars, stores, loads, addedTwice, routerOps>>

\* Mutant: a store already found is not skipped.
GetNodesRepeating == NextPoint(TRUE)

GetNodes == NextPoint(Owner(nodes[scan.idx]) \notin scan.seen)

\* The loop ends; the unhealthy replicas are filtered out of the answer.
ReturnReplicas ==
  /\ scan # NoScan /\ ~Looping
  /\ scan' = NoScan
  /\ UNCHANGED <<ringVars, stores, loads, addedTwice, routerOps>>

RouterInit ==
  /\ nodes = <<>> /\ nodeMap = <<>> /\ stores = <<>> /\ loads = <<>>
  /\ scan = NoScan /\ addedTwice = {} /\ routerOps = 0

RouterNext ==
  \/ \E s \in RingStores, status \in {"healthy", "unhealthy"} : AddStore(s, status)
  \/ \E s \in RingStores : RemoveStore(s)
  \/ \E s \in RingStores, load \in Loads : UpdateStoreLoad(s, load)
  \/ \E h \in Hashes : GetTimelineReplicas(h)
  \/ GetNodes
  \/ ReturnReplicas

-----------------------------------------------------------------------------
\* RouteTimeline answers with a healthy store whenever one can be chosen: one
\* whose score is a number or that reported no load.  The exception is a store
\* that was added again while it was there: its removal leaves points that
\* belong to nobody, and timelines that hash to them find no store.
RoutesToHealthy ==
  LET choosable == {s \in Healthy : s \in DOMAIN loads => loads[s].score # NoScore}
  IN choosable # {} /\ addedTwice = {} =>
       \A h \in Hashes : RouteTimeline(h) \subseteq Healthy

\* A walk of the ring finds each store once, the store of RouteTimeline's hash
\* lookup first; one that has gone all the way round has found every store
\* there is, so it goes round for ever exactly when there are fewer stores
\* than replicas asked for.
ReplicaWalk ==
  scan # NoScan =>
    LET found == scan.result
    IN /\ found # <<>> => Head(found) = GetNode(scan.hash)
       /\ \A i, j \in DOMAIN found : found[i] = found[j] => i = j
       /\ scan.steps = Len(nodes) /\ Looping
            => Range(found) = {Owner(nodes[i]) : i \in DOMAIN nodes}

=============================================================================
