---------------------------- MODULE GlobalIndex ----------------------------
(***************************************************************************)
(* InMemoryGlobalIndex (pkg/storage/global_index.go): where the blocks of  *)
(* each timeline are.  The same facts are kept four times: in the block    *)
(* list of a timeline, in its StoreMap, in the index of each store and in  *)
(* the load of each store.  Every operation runs under one mutex, so it is *)
(* one step.                                                               *)
(*                                                                         *)
(* A timeline key is the sequence of its parts between the colons, and the *)
(* key of a block in a store's index is that sequence with the block's id  *)
(* after it, as in timelineKey + ":" + blockID.  StoreMap holds the ids of *)
(* its entries, which are all that is read of it.  The maps of storeIndex  *)
(* and loadInfo have an entry for a store only once it has been made: to   *)
(* write into a map that is not there is a panic, and the load of a store  *)
(* that has none is a fresh record, in which nothing written lasts.        *)
(***************************************************************************)
EXTENDS Integers, Sequences, FiniteSets, Functions

CONSTANTS
  Timelines,   \* timeline keys
  Stores,
  BlockIds,
  WatchCap,    \* capacity of a watcher's channel (100 in the code)
  MaxChanges   \* bound on the changes

ASSUME GlobalIndexAssumption ==
  /\ Timelines \subseteq Seq(STRING) /\ <<>> \notin Timelines
  /\ WatchCap \in Nat \ {0} /\ MaxChanges \in Nat

VARIABLES
  located,     \* timelineIndex; a timeline that is not in it has NoLocation
  storeIndex,  \* per store, the entry of each block key
  loadInfo,    \* per store, as last computed by updateStoreLoad
  watcher,     \* one watcher: its timeline, its channel, and the block ids
               \* that it makes out from what it received
  missed,      \* its channel was full once
  changes,
  twice,       \* timelines that have, or had, two entries with one block id
  merged,      \* timelines moved onto a store that had blocks of them
  strayed,     \* timelines with an entry that an update put on another store
  guessed      \* stores whose size the shard manager wrote since it was computed

indexVars == <<located, storeIndex, loadInfo, watcher, missed, changes,
               twice, merged, strayed, guessed>>

-----------------------------------------------------------------------------
NoBlock   == ""                      \* the BlockID of the entries that
AllBlocks == BlockIds \cup {NoBlock}  \* CreateTimeline adds
NoLocation == [blocks |-> <<>>, storeMap |-> [s \in Stores |-> <<>>],
               size |-> 0, count |-> 0]
NoWatch == [on |-> <<>>, chan |-> <<>>, ids |-> <<>>, open |-> FALSE]

\* splitTimelineKey, and the first part of the result.
FirstPart(key) == key[1]

Put(f, key, e) == [k \in DOMAIN f \cup {key} |-> IF k = key THEN e ELSE f[k]]
Drop(f, key)   == [k \in DOMAIN f \ {key} |-> f[k]]

SizeOf(f) == SumFunction([k \in DOMAIN f |-> f[k].size])

IndexOf(s) == IF s \in DOMAIN storeIndex THEN storeIndex[s] ELSE <<>>

\* updateStoreLoad
Load(f) == [timelines |-> Cardinality({FirstPart(k) : k \in DOMAIN f}),
            blocks |-> Cardinality(DOMAIN f), size |-> SizeOf(f)]
Reloaded(stores) ==
  /\ loadInfo' = [s \in DOMAIN loadInfo \cup stores |->
       IF s \in stores THEN Load(IndexOf(s)') ELSE loadInfo[s]]
  /\ guessed' = guessed \ stores

GetStoreLoad(s) == IF s \in DOMAIN loadInfo THEN loadInfo[s] ELSE Load(<<>>)

Ids(entries) == [i \in DOMAIN entries |-> entries[i].block]

\* The first position of that block id, 0 if there is none.
Position(ids, b) ==
  LET at == {i \in DOMAIN ids : ids[i] = b}
  IN  IF at = {} THEN 0 ELSE CHOOSE i \in at : \A j \in at : i <= j

Without(entries, i) == SubSeq(entries, 1, i - 1) \o SubSeq(entries, i + 1, Len(entries))
WithoutId(ids, b) ==
  LET i == Position(ids, b) IN IF i = 0 THEN ids ELSE Without(ids, i)

IndexInit ==
  /\ located = [t \in Timelines |-> NoLocation]
  /\ storeIndex = <<>> /\ loadInfo = <<>>
  /\ watcher = NoWatch /\ missed = FALSE
  /\ changes = 0 /\ twice = {} /\ merged = {} /\ strayed = {} /\ guessed = {}

Changes == changes' = changes + 1

\* A send to a full channel is skipped.
notifyWatchers(t, event) ==
  IF ~watcher.open \/ watcher.on # t THEN UNCHANGED <<watcher, missed>>
  ELSE IF Len(watcher.chan) < WatchCap
    THEN /\ watcher' = [watcher EXCEPT !.chan = Append(@, event)]
         /\ UNCHANGED missed
    ELSE missed' = TRUE /\ UNCHANGED watcher

-----------------------------------------------------------------------------
AddIndex(t, e) ==
  /\ Changes
  /\ located' = [located EXCEPT ![t] =
       [blocks |-> Append(@.blocks, e),
        storeMap |-> [@.storeMap EXCEPT ![e.store] = Append(@, e.block)],
        size |-> @.size + e.size, count |-> @.count + 1]]
  /\ storeIndex' = Put(storeIndex, e.store, Put(IndexOf(e.store), t \o <<e.block>>, e))
  /\ Reloaded({e.store})
  /\ notifyWatchers(t, <<"add", e.block>>)
  /\ twice' = IF Position(Ids(located[t].blocks), e.block) # 0
              THEN twice \cup {t} ELSE twice
  /\ UNCHANGED <<merged, strayed>>

\* The first entry with that id goes; the last one takes the location with it.
\* A delete from a map that is not there does nothing.
Removed(t, b) ==
  LET l == located[t]
      i == Position(Ids(l.blocks), b)
      e == l.blocks[i]
      rest == [blocks |-> Without(l.blocks, i),
               storeMap |-> [l.storeMap EXCEPT ![e.store] = WithoutId(@, b)],
               size |-> l.size - e.size, count |-> l.count - 1]
  IN  /\ i # 0
      /\ Changes
      /\ located' = [located EXCEPT ![t] = IF rest.count = 0 THEN NoLocation ELSE rest]
      /\ storeIndex' = [s \in DOMAIN storeIndex |->
           IF s = e.store THEN Drop(storeIndex[s], t \o <<b>>) ELSE storeIndex[s]]
      /\ Reloaded({e.store})
      /\ UNCHANGED <<twice, merged, strayed>>

\* Mutant: it returns once the location is gone, before the watchers are told.
RemoveIndexSilently(t, b) ==
  /\ Removed(t, b)
  /\ IF located[t].count = 1 THEN UNCHANGED <<watcher, missed>>
     ELSE notifyWatchers(t, <<"remove", b>>)

RemoveIndex(t, b) == Removed(t, b) /\ notifyWatchers(t, <<"remove", b>>)

\* The first entry with the id of e becomes e, whatever store it was on.  When
\* the index has no map for the store of e the write to it panics; the deferred
\* Unlock runs, and what was written before the panic stays.
UpdateIndex(t, e) ==
  LET l == located[t]
      i == Position(Ids(l.blocks), e.block)
  IN  /\ i # 0
      /\ Changes
      /\ located' = [located EXCEPT ![t] =
           [l EXCEPT !.blocks[i] = e, !.size = @ - l.blocks[i].size + e.size]]
      /\ \/ /\ e.store \in DOMAIN storeIndex
            /\ storeIndex' = [storeIndex EXCEPT ![e.store] = Put(@, t \o <<e.block>>, e)]
            /\ Reloaded({e.store})
            /\ notifyWatchers(t, <<"update", e.block>>)
         \/ /\ e.store \notin DOMAIN storeIndex
            /\ UNCHANGED <<storeIndex, loadInfo, guessed, watcher, missed>>
      /\ strayed' = IF l.blocks[i].store = e.store THEN strayed ELSE strayed \cup {t}
      /\ UNCHANGED <<twice, merged>>

\* What the index of to gets under a key: the last entry with it moves.
MovedEntry(e, from, to) == IF e.store = from THEN [e EXCEPT !.store = to] ELSE e
LastMoved(t, from, to, key) ==
  LET entries == located[t].blocks
      at == {i \in DOMAIN entries :
               entries[i].store = from /\ t \o <<entries[i].block>> = key}
  IN  MovedEntry(entries[CHOOSE i \in at : \A j \in at : j <= i], from, to)

\* Mutant: the index of the old store is not cleared.
MovedKeepingOld(t, from, to, keys) ==
  Put(storeIndex, to, [k \in DOMAIN IndexOf(to) \cup keys |->
    IF k \in keys THEN LastMoved(t, from, to, k) ELSE IndexOf(to)[k]])

\* The index of each store after the entries with these keys moved; the map of
\* to is made with the first of them.
MovedIndex(t, from, to, keys) ==
  LET without == [s \in DOMAIN storeIndex |->
        IF s = from THEN [k \in DOMAIN storeIndex[s] \ keys |-> storeIndex[s][k]]
        ELSE storeIndex[s]]
      old == IF to \in DOMAIN without THEN without[to] ELSE <<>>
  IN  IF keys = {} THEN storeIndex
      ELSE Put(without, to, [k \in DOMAIN old \cup keys |->
             IF k \in keys THEN LastMoved(t, from, to, k) ELSE old[k]])

\* Every entry of from moves to to; StoreMap[to] is replaced by StoreMap[from].
MigrateIndex(t, from, to) ==
  LET l == located[t]
      Moved(e) == MovedEntry(e, from, to)
      keys == {t \o <<e.block>> : e \in {x \in Range(l.blocks) : x.store = from}}
  IN  /\ l.count > 0
      /\ Changes
      /\ located' = [located EXCEPT ![t] =
           [l EXCEPT !.blocks = [i \in DOMAIN @ |-> Moved(@[i])],
                     !.storeMap = [@ EXCEPT ![from] = <<>>, ![to] = l.storeMap[from]]]]
      /\ storeIndex' = MovedIndex(t, from, to, keys)
      /\ Reloaded({from, to})
      /\ notifyWatchers(t, <<"migrate", from>>)
      /\ merged' = IF from # to /\ l.storeMap[to] # <<>> THEN merged \cup {t} ELSE merged
      /\ UNCHANGED <<twice, strayed>>

\* GetRebalanceRecommendations of the shard manager: it recommends to move t
\* from high to low and writes the sizes it expects through the pointers that
\* GetStoreLoad returned.  It knows a timeline by the first part of its key.
\* The load factor is the larger of the timelines and of the size, each over
\* its limit; the thresholds on it are left open.
GetRebalanceRecommendations(t, high, low) ==
  LET size == located[t].size
      Expected(s, load) == CASE s = high -> [load EXCEPT !.size = @ - size]
                             [] s = low  -> [load EXCEPT !.size = @ + size]
                             [] OTHER    -> load
  IN  /\ high # low
      /\ \/ GetStoreLoad(high).timelines > GetStoreLoad(low).timelines
         \/ GetStoreLoad(high).size > GetStoreLoad(low).size
      /\ \E key \in DOMAIN IndexOf(high) : <<FirstPart(key)>> = t
      /\ located[t].count > 0
      /\ Changes
      /\ loadInfo' = [s \in DOMAIN loadInfo |-> Expected(s, loadInfo[s])]
      /\ guessed' = guessed \cup ({high, low} \cap DOMAIN loadInfo)
      /\ UNCHANGED <<located, storeIndex, watcher, missed, twice, merged, strayed>>

-----------------------------------------------------------------------------
Watch(t) ==
  /\ watcher = NoWatch
  /\ watcher' = [NoWatch EXCEPT !.on = t, !.ids = Ids(located[t].blocks), !.open = TRUE]
  /\ UNCHANGED <<located, storeIndex, loadInfo, missed, changes, twice, merged,
                 strayed, guessed>>

\* What a client that keeps the list of block ids makes of an event.
Follow(ids, event) ==
  CASE event[1] = "add"    -> Append(ids, event[2])
    [] event[1] = "remove" -> WithoutId(ids, event[2])
    [] OTHER -> ids

Receive ==
  /\ watcher.chan # <<>>
  /\ watcher' = [watcher EXCEPT !.chan = Tail(@), !.ids = Follow(@, Head(watcher.chan))]
  /\ UNCHANGED <<located, storeIndex, loadInfo, missed, changes, twice, merged,
                 strayed, guessed>>

\* The context of Watch ends: the channel leaves the list and is closed, what
\* is in it can still be received.
StopWatch ==
  /\ watcher.open
  /\ watcher' = [watcher EXCEPT !.open = FALSE]
  /\ UNCHANGED <<located, storeIndex, loadInfo, missed, changes, twice, merged,
                 strayed, guessed>>

IndexNext ==
  \/ \E t \in Timelines, b \in BlockIds, s \in Stores :
       /\ changes < MaxChanges
       /\ \/ AddIndex(t, [block |-> b, store |-> s, size |-> 1])
          \/ UpdateIndex(t, [block |-> b, store |-> s, size |-> 2])
  \/ \E t \in Timelines, b \in BlockIds :
       changes < MaxChanges /\ RemoveIndex(t, b)
  \/ \E t \in Timelines, from, to \in Stores :
       /\ changes < MaxChanges
       /\ MigrateIndex(t, from, to) \/ GetRebalanceRecommendations(t, from, to)
  \/ \E t \in Timelines : Watch(t)
  \/ Receive \/ StopWatch

-----------------------------------------------------------------------------
BlocksAt(t, s) ==
  {e.block : e \in {x \in Range(located[t].blocks) : x.store = s}}

TotalsOf(t) == LET l == located[t]
               IN  l.count = Len(l.blocks) /\ l.size = SizeOf(l.blocks)

\* Keys with the same first part count as one timeline.
LoadOf(s) ==
  LET on == {t \in Timelines : BlocksAt(t, s) # {}}
  IN  [timelines |-> Cardinality({FirstPart(t) : t \in on}),
       blocks |-> SumFunction([t \in on |-> Cardinality(BlocksAt(t, s))]),
       size |-> SumFunction([t \in on |->
         SumFunction([i \in DOMAIN located[t].blocks |->
                        IF located[t].blocks[i].store = s
                        THEN located[t].blocks[i].size ELSE 0])])]

\* The block list with its totals, the StoreMap, the index of each store and
\* the load table, from which the shard manager decides, place every block
\* alike, after any sequence of additions, removals, updates and migrations, for
\* timelines whose block ids are unique and whose updates name the store the
\* block is on.  StoreMap may lack blocks, and never has one too many, once a
\* migration has put the timeline on a store that had blocks of it; and the size
\* of a store is a guess from a recommendation of the shard manager until the
\* next change of that store.
ViewsAgree ==
  /\ \A t \in Timelines : TotalsOf(t)
  /\ \A t \in Timelines \ (twice \cup strayed), s \in Stores :
       /\ {b \in AllBlocks : t \o <<b>> \in DOMAIN IndexOf(s)} = BlocksAt(t, s)
       /\ Range(located[t].storeMap[s]) \subseteq BlocksAt(t, s)
       /\ t \notin merged => Range(located[t].storeMap[s]) = BlocksAt(t, s)
  /\ twice \cup strayed = {} => \A s \in Stores :
       LET seen == GetStoreLoad(s)
           true == LoadOf(s)
       IN  IF s \in guessed
           THEN seen.timelines = true.timelines /\ seen.blocks = true.blocks
           ELSE seen = true

\* A client that watches a timeline and applies each event to the list of block
\* ids it had when it called Watch ends up with the list that the index has:
\* every operation that adds or removes a block of that timeline sends its
\* event, in the order of the operations, and no other timeline's.  Unless its
\* channel was full once, when notifyWatchers skips it.
WatcherFollows ==
  LET after[n \in 0..Len(watcher.chan)] ==
        IF n = 0 THEN watcher.ids ELSE Follow(after[n - 1], watcher.chan[n])
  IN  watcher.open /\ ~missed =>
        after[Len(watcher.chan)] = Ids(located[watcher.on].blocks)
=============================================================================
