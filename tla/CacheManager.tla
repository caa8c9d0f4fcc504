---------------------------- MODULE CacheManager ----------------------------
(***************************************************************************)
(* MultiLevelCacheManager over an LRU MemoryCache and a second level: a    *)
(* MemoryCache too, or the DiskCache whose Get always misses.  The third   *)
(* level's Get always misses and is left out.  mcm.mu makes Set, Delete,   *)
(* Clear and UpdatePolicy exclude every Get; the steps of two Gets, which  *)
(* share the read lock, may interleave with one another and with the batch *)
(* worker, which writes to the second level without mcm.mu.  What is stored, and   *)
(* what Get returns, are the bytes processValue makes of the value.        *)
(***************************************************************************)
EXTENDS Integers, Sequences, FiniteSets, SequencesExt

CONSTANTS CacheKeys, Getters,
          JsonSize,     \* length of the n-th value's JSON, n in 1..MaxSets
          GzipSize,     \* and of that once compressed
          Threshold,    \* length above which the JSON is compressed: 1024
          L1Max, L2Max, \* maxSize of the two levels
          MaxSets,      \* bound on Set calls; the n-th writes value n
          MaxExpiries   \* bound on items whose time to live passes

VARIABLES
  l1, l2,       \* [items, curSize]: items most recently used first
  l2Kind,       \* "memory" or "disk"
  writePolicy,  \* policies[L1Cache].WritePolicy
  get,          \* per getter: its Get under way: [at, key or item]
  pending,      \* write-back items scheduled and not yet executed
  sets,         \* number of Set calls
  expiries,     \* number of items that expired
  latest,       \* history: per key, the value of the last Set, 0 if deleted
  unsure        \* history: keys whose last Set or Delete left an old copy behind
                \* it, or passed a write-back not yet executed

cacheVars == <<l1, l2, l2Kind, writePolicy, get, pending, sets, expiries,
               latest, unsure>>

NoGet == [at |-> "idle"]
EmptyCache == [items |-> <<>>, curSize |-> 0]

\* Serialized, and compressed if long: nothing in the result tells which.
processValue(n) ==
  IF JsonSize[n] > Threshold THEN [form |-> "gzip", of |-> n, len |-> GzipSize[n]]
                             ELSE [form |-> "json", of |-> n, len |-> JsonSize[n]]

\* estimateSize of a byte slice is its length.
Item(k, bytes) == [key |-> k, val |-> bytes, size |-> bytes.len, expired |-> FALSE]

TotalSize(items) == FoldLeft(LAMBDA sum, it : sum + it.size, 0, items)
Entry(c, k) == SelectSeq(c.items, LAMBDA it : it.key = k)
Others(c, k) == SelectSeq(c.items, LAMBDA it : it.key # k)
Fresh(c, k) == SelectSeq(c.items, LAMBDA it : it.key = k /\ ~it.expired)

-----------------------------------------------------------------------------
\* MemoryCache, one operator per method.
MemDelete(c, k) ==
  [c EXCEPT !.items = Others(c, k), !.curSize = @ - TotalSize(Entry(c, k))]

MemGet(c, k) ==
  LET e == Entry(c, k)
  IN IF e = <<>> THEN c
     ELSE IF e[1].expired THEN MemDelete(c, k)
     ELSE [c EXCEPT !.items = e \o Others(c, k)]

\* The replacement of a value evicts nothing, even where it grows.
Replace(c, it) ==
  [c EXCEPT !.curSize = @ - TotalSize(Entry(c, it.key)) + it.size,
            !.items = <<it>> \o Others(c, it.key)]

Insert(c, it, keep) ==
  [items |-> <<it>> \o SubSeq(c.items, 1, keep),
   curSize |-> c.curSize - TotalSize(SubSeq(c.items, keep + 1, Len(c.items))) + it.size]

\* evictLRU from the back until the new item fits or nothing is left.
MemSet(c, it, max) ==
  LET after(n) == c.curSize - TotalSize(SubSeq(c.items, n + 1, Len(c.items))) + it.size
      fits == {n \in 1..Len(c.items) : after(n) <= max}
  IN IF Entry(c, it.key) # <<>> THEN Replace(c, it)
     ELSE Insert(c, it, IF fits = {} THEN 0 ELSE Max(fits))

L2Set(it) == IF l2Kind = "memory" THEN MemSet(l2, it, L2Max) ELSE l2

-----------------------------------------------------------------------------
\* No write-back of the key is on its way to the second level.
Settled(k) == \A it \in pending : it.key # k

\* mcm.mu can be locked for writing.
Exclusive == \A g \in Getters : get[g] = NoGet

\* behind: an old copy of the key stays in a level the write does not reach.
Passes(k, behind) ==
  unsure' = IF Settled(k) /\ ~behind THEN unsure \ {k} ELSE unsure \cup {k}

\* A value that cannot be serialized is an error before anything is written.
Set(k) ==
  LET it == Item(k, processValue(sets + 1))
  IN /\ Exclusive /\ sets < MaxSets
     /\ sets' = sets + 1
     /\ latest' = [latest EXCEPT ![k] = sets + 1]
     /\ \/ /\ writePolicy = "WriteThrough"
           /\ l1' = MemSet(l1, it, L1Max) /\ l2' = L2Set(it)
           /\ Passes(k, FALSE)
           /\ UNCHANGED pending
        \/ /\ writePolicy = "WriteBack"
           /\ l1' = MemSet(l1, it, L1Max)
           /\ pending' = pending \cup {it}
           /\ Passes(k, Fresh(l2, k) # <<>>)
           /\ UNCHANGED l2
        \/ /\ writePolicy = "WriteAround"
           /\ l2' = L2Set(it)
           /\ Passes(k, Fresh(l1, k) # <<>>)
           /\ UNCHANGED <<l1, pending>>
     /\ UNCHANGED <<l2Kind, writePolicy, get, expiries>>

\* The goroutines of ScheduleWrite reach the queue in any order; the worker,
\* or a goroutine that finds the queue full, executes the items one by one.
\* Items left in the queue when the manager is closed are never executed.
executeItem(it) ==
  /\ pending' = pending \ {it}
  /\ l2' = L2Set(it)
  /\ UNCHANGED <<l1, l2Kind, writePolicy, get, sets, expiries, latest, unsure>>

DeleteFrom(k, second) ==
  /\ Exclusive
  /\ l1' = MemDelete(l1, k)
  /\ l2' = second
  /\ latest' = [latest EXCEPT ![k] = 0]
  /\ Passes(k, FALSE)
  /\ UNCHANGED <<l2Kind, writePolicy, get, pending, sets, expiries>>

\* Mutant: the second level keeps the key.
DeleteFromL1(k) == DeleteFrom(k, l2)

Delete(k) == DeleteFrom(k, MemDelete(l2, k))

Clear ==
  /\ Exclusive
  /\ \/ l1' = EmptyCache /\ UNCHANGED l2
     \/ l2' = EmptyCache /\ UNCHANGED l1
  /\ UNCHANGED <<l2Kind, writePolicy, get, pending, sets, expiries, latest, unsure>>

UpdatePolicy(p) ==
  /\ Exclusive
  /\ writePolicy' = p
  /\ UNCHANGED <<l1, l2, l2Kind, get, pending, sets, expiries, latest, unsure>>

Expired(c, i) == [c EXCEPT !.items[i].expired = TRUE]

\* The time to live of an item passes.
ItemExpires ==
  /\ expiries < MaxExpiries
  /\ \/ \E i \in DOMAIN l1.items : l1' = Expired(l1, i) /\ UNCHANGED l2
     \/ \E i \in DOMAIN l2.items : l2' = Expired(l2, i) /\ UNCHANGED l1
  /\ expiries' = expiries + 1
  /\ UNCHANGED <<l2Kind, writePolicy, get, pending, sets, latest, unsure>>

-----------------------------------------------------------------------------
\* Get holds mcm.mu for reading: the first level, then the second, whose item
\* goes up to the first; a miss queues a prefetch, which loads nothing.
Get(g, k) ==
  /\ get[g] = NoGet
  /\ l1' = MemGet(l1, k)
  /\ \/ Fresh(l1, k) # <<>> /\ UNCHANGED get
     \/ /\ Fresh(l1, k) = <<>>
        /\ get' = [get EXCEPT ![g] = [at |-> "l2", key |-> k]]
  /\ UNCHANGED <<l2, l2Kind, writePolicy, pending, sets, expiries, latest, unsure>>

GetFromL2(g) ==
  LET found == Fresh(l2, get[g].key)
  IN /\ get[g].at = "l2"
     /\ l2' = MemGet(l2, get[g].key)
     /\ get' = [get EXCEPT ![g] = IF found = <<>> THEN NoGet
                                  ELSE [at |-> "promote", item |-> found[1]]]
     /\ UNCHANGED <<l1, l2Kind, writePolicy, pending, sets, expiries, latest, unsure>>

Promote(g) ==
  /\ get[g].at = "promote"
  /\ l1' = MemSet(l1, get[g].item, L1Max)
  /\ get' = [get EXCEPT ![g] = NoGet]
  /\ UNCHANGED <<l2, l2Kind, writePolicy, pending, sets, expiries, latest, unsure>>

CacheInit ==
  /\ l1 = EmptyCache /\ l2 = EmptyCache /\ l2Kind \in {"memory", "disk"}
  /\ writePolicy = "WriteThrough" /\ get = [g \in Getters |-> NoGet]
  /\ pending = {} /\ sets = 0
  /\ expiries = 0
  /\ latest = [k \in CacheKeys |-> 0] /\ unsure = {}

CacheNext ==
  \/ \E k \in CacheKeys : Set(k)
  \/ \E it \in pending : executeItem(it)
  \/ \E k \in CacheKeys : Delete(k)
  \/ Clear
  \/ \E p \in {"WriteThrough", "WriteBack", "WriteAround"} : UpdatePolicy(p)
  \/ ItemExpires
  \/ \E g \in Getters, k \in CacheKeys : Get(g, k)
  \/ \E g \in Getters : GetFromL2(g) \/ Promote(g)

-----------------------------------------------------------------------------
Served(k) == Fresh(l1, k) \o Fresh(l2, k)

\* A hit is what processValue makes of the last value set, and nothing is served
\* of a deleted key, whatever the policy, however Gets, promotions and late
\* write-backs interleave, and through evictions, expiry and Clear.  Excepted are
\* the keys whose last Set or Delete passed a write-back of the key that was not
\* executed yet, or wrote around a copy in the first level, or wrote back over a
\* copy in the second.
HitIsLatest ==
  \A k \in CacheKeys \ unsure :
    LET right(it) == latest[k] # 0 /\ it.val = processValue(latest[k])
    IN /\ \A i \in DOMAIN Served(k) : right(Served(k)[i])
       /\ \A g \in Getters :
            get[g].at = "promote" /\ get[g].item.key = k => right(get[g].item)

=============================================================================
