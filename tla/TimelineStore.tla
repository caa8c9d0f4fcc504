--------------------------- MODULE TimelineStore ---------------------------
(***************************************************************************)
(* The block store of pkg/storage/timeline.go: one Store process whose     *)
(* goroutines call Store.AddMessage, GetMessagesAfterCheckpoint and        *)
(* UpdateUserCheckpoint concurrently, over the block and metadata files    *)
(* that survive a restart of the process.                                  *)
(*                                                                         *)
(* A step is what the code does between two points at which another        *)
(* goroutine can see the difference: the atomic counter, a critical        *)
(* section of s.mu or tl.mu, and each half of the unlocked                 *)
(* read-modify-write of CurrentCapacity.                                   *)
(***************************************************************************)
EXTENDS Integers, Sequences, FiniteSets

CONSTANTS
  Writers,          \* goroutines inside Store.AddMessage
  Readers,          \* goroutines of a client that synchronises a user
  Convs, Users,     \* keys of ConvTimelines and of UserTimelines
  UserLists,        \* the userIDs slices callers pass
  TimelineMaxSize,  \* StoreConfig.TimelineMaxSize
  MaxCapacity,      \* StoreConfig.MaxCapacity
  TornWrites,       \* whether an interrupted write may leave part of a file
  NoProc,           \* the value of storeMu when s.mu is free
  MaxCalls,         \* bound: calls of AddMessage
  MaxReads,         \* bound: synchronisations a reader starts
  MaxCrashes,       \* bound: restarts of the process
  MaxFaults         \* bound: failed writes, and crashes that tear metadata

Procs == Writers \cup Readers
Timelines == Convs \cup Users

ASSUME ProcsAssumption == Writers \cap Readers = {} /\ NoProc \notin Procs
ASSUME KeysAssumption == Convs \cap Users = {}
\* Callers pass the members of a conversation, each of them once.
ASSUME UserListsAssumption ==
  /\ UserLists \subseteq Seq(Users)
  /\ \A us \in UserLists : \A i, j \in DOMAIN us : us[i] = us[j] => i = j
ASSUME SizesAssumption == TimelineMaxSize \in Nat \ {0} /\ MaxCapacity \in Nat
ASSUME TornWritesAssumption == TornWrites \in BOOLEAN
ASSUME BoundsAssumption ==
  MaxCalls \in Nat /\ MaxReads \in Nat /\ MaxCrashes \in Nat /\ MaxFaults \in Nat

VARIABLES
  seqGenerator,     \* Store.seqGenerator
  currentCapacity,  \* Store.CurrentCapacity
  storeMu,          \* who holds s.mu across more than one step
  loaded,           \* keys present in ConvTimelines and UserTimelines
  blocks,           \* Timeline.Blocks
  lastSeqID,        \* Timeline.LastSeqID
  checkpoints,      \* Store.UserCheckpoints
  blockFile,        \* block_<BlockID>.gob
  metaFile,         \* <type>_<id>.meta
  pc,               \* where each goroutine is
  msg,              \* the message a writer is adding
  targets,          \* the timelines a goroutine visits, in order
  pos,              \* which of them it is at
  blk,              \* index in Blocks of blockToSave
  capRead,          \* CurrentCapacity as read by +=
  since,            \* the checkpoint a reader has read
  fetched,          \* the SeqID a reader will store as checkpoint
  calls,            \* AddMessage calls so far; numbers the messages
  reads,            \* synchronisations so far
  acked,            \* messages whose AddMessage returned nil, where and when
  delivered,        \* messages each user has been handed
  crashes, faults

memVars  == <<seqGenerator, currentCapacity, storeMu, loaded, blocks,
              lastSeqID, checkpoints>>
diskVars == <<blockFile, metaFile>>
goVars   == <<pc, msg, targets, pos, blk, capRead, since, fetched>>
histVars == <<calls, reads, acked, delivered, crashes, faults>>
vars     == <<memVars, diskVars, goVars, histVars>>

-----------------------------------------------------------------------------
(***************************************************************************)
(* Data.  A message keeps its SeqID and the number of the call that added  *)
(* it, which stands for its content and tells messages apart.  A block is  *)
(* named by the call that created it: BlockID ends in time.Now() in        *)
(* nanoseconds, which differs from block to block of a timeline.  The Size *)
(* of a block is the length of msgs.                                       *)
(***************************************************************************)
CallIds  == 1..MaxCalls
Messages == [id : CallIds, seq : Nat]
BlockIds == Timelines \X CallIds
Blocks   == [id : CallIds, msgs : Seq(Messages), full : BOOLEAN]

\* "absent": no such file.  "bad": the decoder or json.Unmarshal fails on it.
FileStatus == {"absent", "ok", "bad"}
BlockFiles == [status : FileStatus, msgs : Seq(Messages)]
MetaFiles  == [status : FileStatus, last : Nat, ids : Seq(CallIds)]

NoBlockFile  == [status |-> "absent", msgs |-> << >>]
BadBlockFile == [status |-> "bad", msgs |-> << >>]
NoMetaFile   == [status |-> "absent", last |-> 0, ids |-> << >>]
BadMetaFile  == [status |-> "bad", last |-> 0, ids |-> << >>]

NoMessage == [id |-> 0, seq |-> 0]

Tl(p) == targets[p][pos[p]]
LastTarget(p) == pos[p] = Len(targets[p])

\* Mutant: AddMessage tests CurrentBlock == nil but not IsFull.
NeedsBlockIgnoringFull(tl) == blocks[tl] = << >>

\* CurrentBlock is the last block unless that one is full: a loaded block is
\* always full, so CurrentBlock is nil after a load.
NeedsBlock(tl) ==
  blocks[tl] # << >> => blocks[tl][Len(blocks[tl])].full

\* What a write of msgs can leave when it is interrupted or fails: messages
\* are encoded one by one, and a cut inside one of them does not decode.
Interrupted(msgs) ==
  {NoBlockFile} \cup
  IF TornWrites
    THEN {BadBlockFile} \cup
         {[status |-> "ok", msgs |-> SubSeq(msgs, 1, n)] : n \in 0..Len(msgs)}
    ELSE {}

-----------------------------------------------------------------------------
Init ==
  /\ seqGenerator = 0 /\ currentCapacity = 0 /\ storeMu = NoProc
  /\ loaded = {}
  /\ blocks = [tl \in Timelines |-> << >>]
  /\ lastSeqID = [tl \in Timelines |-> 0]
  /\ checkpoints = [u \in Users |-> 0]
  /\ blockFile = [b \in BlockIds |-> NoBlockFile]
  /\ metaFile = [tl \in Timelines |-> NoMetaFile]
  /\ pc = [p \in Procs |-> "idle"]
  /\ msg = [p \in Procs |-> NoMessage]
  /\ targets = [p \in Procs |-> << >>]
  /\ pos = [p \in Procs |-> 0]
  /\ blk = [p \in Procs |-> 0]
  /\ capRead = [p \in Procs |-> 0]
  /\ since = [p \in Procs |-> 0]
  /\ fetched = [p \in Procs |-> 0]
  /\ calls = 0 /\ reads = 0 /\ acked = {} /\ crashes = 0 /\ faults = 0
  /\ delivered = [u \in Users |-> {}]

\* The result of NextSeqID, an atomic add.
NextSeqID == seqGenerator + 1

\* Store.AddMessage up to and including NextSeqID, which takes no lock and
\* comes before any timeline is loaded.
AddMessage(p) ==
  /\ pc[p] = "idle" /\ calls < MaxCalls
  /\ calls' = calls + 1
  /\ seqGenerator' = seqGenerator + 1
  /\ msg' = [msg EXCEPT ![p] = [id |-> calls + 1, seq |-> NextSeqID]]
  /\ \E c \in Convs, us \in UserLists :
       targets' = [targets EXCEPT ![p] = <<c>> \o us]
  /\ pos' = [pos EXCEPT ![p] = 1]
  /\ pc' = [pc EXCEPT ![p] = "getTimeline"]
  /\ UNCHANGED <<currentCapacity, storeMu, loaded, blocks, lastSeqID,
                 checkpoints, diskVars, blk, capRead, since, fetched, reads,
                 acked, delivered, crashes, faults>>

\* Where a goroutine goes once it has its timeline.
AfterGet(p) == IF p \in Writers THEN "append" ELSE "fetch"

\* GetOrCreateConvTimeline, GetOrCreateUserTimeline on a known timeline.
GetTimeline(p) ==
  /\ pc[p] = "getTimeline" /\ storeMu = NoProc /\ Tl(p) \in loaded
  /\ pc' = [pc EXCEPT ![p] = AfterGet(p)]
  /\ UNCHANGED <<memVars, diskVars, msg, targets, pos, blk, capRead, since,
                 fetched, histVars>>

\* Mutant: the loop of loadTimelineBlocks ends at a block without a file.
KeptToFirstGap(tl) ==
  LET ids == metaFile[tl].ids
  IN  {i \in 1..Len(ids) :
         \A j \in 1..i : blockFile[<<tl, ids[j]>>].status = "ok"}

\* The blocks of the metadata that loadTimelineBlocks adds: those without a
\* file are skipped, the first file that does not decode ends the loop.  A
\* corrupt or absent metadata file gives an empty timeline, since the callers
\* ignore the error of loadTimeline.
Kept(tl) ==
  LET ids == metaFile[tl].ids
  IN  {i \in 1..Len(ids) :
         /\ blockFile[<<tl, ids[i]>>].status = "ok"
         /\ \A j \in 1..i : blockFile[<<tl, ids[j]>>].status # "bad"}

\* The order of the loop: the one increasing enumeration of Kept(tl).
LoadOrders(tl) ==
  {f \in UNION {[1..n -> Kept(tl)] : n \in 0..Len(metaFile[tl].ids)} :
     /\ \A i, j \in DOMAIN f : i < j => f[i] < f[j]
     /\ Kept(tl) = {f[i] : i \in DOMAIN f}}

LoadedBlocks(tl, order) ==
  [i \in DOMAIN order |->
     LET b == metaFile[tl].ids[order[i]]
     IN  [id |-> b, msgs |-> blockFile[<<tl, b>>].msgs, full |-> TRUE]]

\* loadTimelineMetadata, the comparison of LastSeqID with seqGenerator.
MustRaise(tl) == metaFile[tl].last > seqGenerator

InsertTimeline(tl) ==
  /\ loaded' = loaded \cup {tl}
  /\ \E order \in LoadOrders(tl) :
       blocks' = [blocks EXCEPT ![tl] = LoadedBlocks(tl, order)]
  /\ lastSeqID' = [lastSeqID EXCEPT ![tl] = metaFile[tl].last]

LoadTimeline(p) ==
  /\ pc[p] = "getTimeline" /\ storeMu = NoProc /\ Tl(p) \notin loaded
  /\ ~MustRaise(Tl(p))
  /\ InsertTimeline(Tl(p))
  /\ pc' = [pc EXCEPT ![p] = AfterGet(p)]
  /\ UNCHANGED <<seqGenerator, currentCapacity, storeMu, checkpoints, diskVars,
                 msg, targets, pos, blk, capRead, since, fetched, histVars>>

\* The comparison said the counter is behind; the store comes in a step of
\* its own because NextSeqID does not take s.mu.
DecideRaise(p) ==
  /\ pc[p] = "getTimeline" /\ storeMu = NoProc /\ Tl(p) \notin loaded
  /\ MustRaise(Tl(p))
  /\ storeMu' = p
  /\ pc' = [pc EXCEPT ![p] = "raise"]
  /\ UNCHANGED <<seqGenerator, currentCapacity, loaded, blocks, lastSeqID,
                 checkpoints, diskVars, msg, targets, pos, blk, capRead, since,
                 fetched, histVars>>

\* Mutant: s.mu is not released after a load that raised the counter.
RaiseKeepingLock(p) ==
  /\ pc[p] = "raise"
  /\ seqGenerator' = metaFile[Tl(p)].last
  /\ InsertTimeline(Tl(p))
  /\ pc' = [pc EXCEPT ![p] = AfterGet(p)]
  /\ UNCHANGED <<currentCapacity, storeMu, checkpoints, diskVars, msg, targets,
                 pos, blk, capRead, since, fetched, histVars>>

RaiseAndLoad(p) ==
  /\ pc[p] = "raise"
  /\ seqGenerator' = metaFile[Tl(p)].last
  /\ InsertTimeline(Tl(p))
  /\ storeMu' = NoProc
  /\ pc' = [pc EXCEPT ![p] = AfterGet(p)]
  /\ UNCHANGED <<currentCapacity, checkpoints, diskVars, msg, targets, pos,
                 blk, capRead, since, fetched, histVars>>

-----------------------------------------------------------------------------
\* Mutant: Store.AddMessage saves the metadata after the first timeline.
AdvanceSkippingUsers(p) ==
  /\ pos' = [pos EXCEPT ![p] = 1]
  /\ pc' = [pc EXCEPT ![p] = "saveMeta"]

\* Timeline.AddMessage has returned nil: on to the next timeline, or to the
\* metadata once all of them hold the message.
Advance(p) ==
  /\ pos' = [pos EXCEPT ![p] = IF LastTarget(p) THEN 1 ELSE @ + 1]
  /\ pc' = [pc EXCEPT ![p] = IF LastTarget(p) THEN "saveMeta"
                                              ELSE "getTimeline"]

\* createNewBlock refuses when the store is at its capacity.
Refused(tl) == NeedsBlock(tl) /\ currentCapacity >= MaxCapacity

\* Blocks after createNewBlock, when AddMessage needs one.
WithRoom(tl, m) ==
  IF NeedsBlock(tl)
    THEN Append(blocks[tl], [id |-> m.id, msgs |-> << >>, full |-> FALSE])
    ELSE blocks[tl]

\* Mutant: the message is put before the others of the block.
WithMessagePrepended(tl, m) ==
  LET bs == WithRoom(tl, m)
      cur == bs[Len(bs)]
      ms == <<m>> \o cur.msgs
  IN  [bs EXCEPT ![Len(bs)] =
         [id |-> cur.id, msgs |-> ms, full |-> Len(ms) >= TimelineMaxSize]]

\* Blocks after the message is in the current block.
WithMessage(tl, m) ==
  LET bs == WithRoom(tl, m)
      cur == bs[Len(bs)]
      ms == Append(cur.msgs, m)
  IN  [bs EXCEPT ![Len(bs)] =
         [id |-> cur.id, msgs |-> ms, full |-> Len(ms) >= TimelineMaxSize]]

\* Timeline.AddMessage when the block still has room: one critical section.
AppendMessage(p) ==
  LET tl == Tl(p)
      bs == WithMessage(tl, msg[p])
  IN  /\ pc[p] = "append" /\ ~Refused(tl)
      /\ ~bs[Len(bs)].full
      /\ blocks' = [blocks EXCEPT ![tl] = bs]
      /\ lastSeqID' = [lastSeqID EXCEPT ![tl] = msg[p].seq]
      /\ Advance(p)
      /\ UNCHANGED <<seqGenerator, currentCapacity, storeMu, loaded,
                     checkpoints, diskVars, msg, targets, blk, capRead, since,
                     fetched, histVars>>

\* Timeline.AddMessage when the message fills the block: tl.mu is released
\* with LastSeqID not yet written.
AppendAndFill(p) ==
  LET tl == Tl(p)
      bs == WithMessage(tl, msg[p])
  IN  /\ pc[p] = "append" /\ ~Refused(tl)
      /\ bs[Len(bs)].full
      /\ blocks' = [blocks EXCEPT ![tl] = bs]
      /\ blk' = [blk EXCEPT ![p] = Len(bs)]
      /\ pc' = [pc EXCEPT ![p] = "saveBlock"]
      /\ UNCHANGED <<seqGenerator, currentCapacity, storeMu, loaded, lastSeqID,
                     checkpoints, diskVars, msg, targets, pos, capRead, since,
                     fetched, histVars>>

\* The error of createNewBlock is returned through both AddMessages; earlier
\* timelines keep the message.
AppendRefused(p) ==
  /\ pc[p] = "append" /\ Refused(Tl(p))
  /\ pc' = [pc EXCEPT ![p] = "idle"]
  /\ UNCHANGED <<memVars, diskVars, msg, targets, pos, blk, capRead, since,
                 fetched, histVars>>

SavedBlock(p) == blocks[Tl(p)][blk[p]]

\* What saveTimelineBlock writes: the messages one by one, in order.
Encoded(b) == [status |-> "ok", msgs |-> b.msgs]

\* saveTimelineBlock: the file, then the load half of CurrentCapacity +=.
SaveBlock(p) ==
  /\ pc[p] = "saveBlock"
  /\ blockFile' = [blockFile EXCEPT ![<<Tl(p), SavedBlock(p).id>>] =
                     Encoded(SavedBlock(p))]
  /\ capRead' = [capRead EXCEPT ![p] = currentCapacity]
  /\ pc' = [pc EXCEPT ![p] = "addCapacity"]
  /\ UNCHANGED <<memVars, metaFile, msg, targets, pos, blk, since, fetched,
                 histVars>>

\* os.Create or Encode fails: the error is returned, the message stays in the
\* block and the block stays full.
SaveBlockFails(p) ==
  /\ pc[p] = "saveBlock" /\ faults < MaxFaults
  /\ faults' = faults + 1
  /\ \E f \in Interrupted(SavedBlock(p).msgs) :
       blockFile' = [blockFile EXCEPT ![<<Tl(p), SavedBlock(p).id>>] = f]
  /\ pc' = [pc EXCEPT ![p] = "idle"]
  /\ UNCHANGED <<memVars, metaFile, msg, targets, pos, blk, capRead, since,
                 fetched, calls, reads, acked, delivered, crashes>>

\* The store half of CurrentCapacity += block.Size, without a lock that
\* excludes the other writers.
AddCapacity(p) ==
  /\ pc[p] = "addCapacity"
  /\ currentCapacity' = capRead[p] + Len(SavedBlock(p).msgs)
  /\ pc' = [pc EXCEPT ![p] = "relock"]
  /\ UNCHANGED <<seqGenerator, storeMu, loaded, blocks, lastSeqID, checkpoints,
                 diskVars, msg, targets, pos, blk, capRead, since, fetched,
                 histVars>>

\* tl.mu is taken again and LastSeqID written.
Relock(p) ==
  /\ pc[p] = "relock"
  /\ lastSeqID' = [lastSeqID EXCEPT ![Tl(p)] = msg[p].seq]
  /\ Advance(p)
  /\ UNCHANGED <<seqGenerator, currentCapacity, storeMu, loaded, blocks,
                 checkpoints, diskVars, msg, targets, blk, capRead, since,
                 fetched, histVars>>

\* Mutant: block IDs are collected last to first.
MetaOfReversed(tl) ==
  [status |-> "ok", last |-> lastSeqID[tl],
   ids |-> [i \in 1..Len(blocks[tl]) |->
              blocks[tl][Len(blocks[tl]) + 1 - i].id]]

\* saveTimelineMetadata.  It holds tl.mu for reading from the snapshot to the
\* end of os.WriteFile, so two overlapping saves write the same bytes and a
\* save is one step.  The user timelines are looked up again under s.mu.
MetaOf(tl) ==
  [status |-> "ok", last |-> lastSeqID[tl],
   ids |-> [i \in 1..Len(blocks[tl]) |-> blocks[tl][i].id]]

SaveMetadata(p) ==
  /\ pc[p] = "saveMeta" /\ (pos[p] = 1 \/ storeMu = NoProc)
  /\ metaFile' = [metaFile EXCEPT ![Tl(p)] = MetaOf(Tl(p))]
  /\ IF LastTarget(p)
       THEN /\ pc' = [pc EXCEPT ![p] = "idle"]
            /\ acked' = acked \cup
                 {[msg |-> msg[p], at |-> targets[p], boot |-> crashes]}
            /\ UNCHANGED pos
       ELSE /\ pos' = [pos EXCEPT ![p] = @ + 1]
            /\ UNCHANGED <<pc, acked>>
  /\ UNCHANGED <<memVars, blockFile, msg, targets, blk, capRead, since,
                 fetched, calls, reads, delivered, crashes, faults>>

\* os.WriteFile fails before or after it has truncated the file.
SaveMetadataFails(p) ==
  /\ pc[p] = "saveMeta" /\ (pos[p] = 1 \/ storeMu = NoProc)
  /\ faults < MaxFaults
  /\ faults' = faults + 1
  /\ \E torn \in {FALSE, TornWrites} :
       metaFile' = [metaFile EXCEPT ![Tl(p)] = IF torn THEN BadMetaFile ELSE @]
  /\ pc' = [pc EXCEPT ![p] = "idle"]
  /\ UNCHANGED <<memVars, blockFile, msg, targets, pos, blk, capRead, since,
                 fetched, calls, reads, acked, delivered, crashes>>

-----------------------------------------------------------------------------
\* A client synchronises: GetUserCheckpoint, the first call of
\* GetMessagesAfterCheckpoint.
StartSync(p) ==
  /\ pc[p] = "idle" /\ reads < MaxReads /\ storeMu = NoProc
  /\ reads' = reads + 1
  /\ \E u \in Users : /\ targets' = [targets EXCEPT ![p] = <<u>>]
                      /\ since' = [since EXCEPT ![p] = checkpoints[u]]
  /\ pos' = [pos EXCEPT ![p] = 1]
  /\ pc' = [pc EXCEPT ![p] = "getTimeline"]
  /\ UNCHANGED <<memVars, diskVars, msg, blk, capRead, fetched, calls, acked,
                 delivered, crashes, faults>>

\* The positions of a timeline's messages: block, then index in the block.
AllPlaces(tl) ==
  UNION {{i} \X (1..Len(blocks[tl][i].msgs)) : i \in 1..Len(blocks[tl])}

MessageAt(tl, pl) == blocks[tl][pl[1]].msgs[pl[2]]

Before(p, q) == p[1] < q[1] \/ (p[1] = q[1] /\ p[2] < q[2])

\* Mutant: the checkpoint is taken for the next SeqID to deliver.
PlacesAfterNext(tl, checkpoint) ==
  {pl \in AllPlaces(tl) : MessageAt(tl, pl).seq > checkpoint + 1}

PlacesAfter(tl, checkpoint) ==
  {pl \in AllPlaces(tl) : MessageAt(tl, pl).seq > checkpoint}

\* The loop of GetMessagesAfterCheckpoint, under tl.mu.  The client will use
\* the SeqID of the last message of the result, which is in block order.
Fetch(p) ==
  LET tl == Tl(p)
      result == PlacesAfter(tl, since[p])
  IN  /\ pc[p] = "fetch"
      /\ delivered' = [delivered EXCEPT ![tl] =
                          @ \cup {MessageAt(tl, pl) : pl \in result}]
      /\ \/ /\ result = {}
            /\ pc' = [pc EXCEPT ![p] = "idle"]
            /\ UNCHANGED fetched
         \/ \E last \in result :
              /\ \A pl \in result \ {last} : Before(pl, last)
              /\ fetched' = [fetched EXCEPT ![p] = MessageAt(tl, last).seq]
              /\ pc' = [pc EXCEPT ![p] = "update"]
      /\ UNCHANGED <<memVars, diskVars, msg, targets, pos, blk, capRead, since,
                     calls, reads, acked, crashes, faults>>

\* The client stores the SeqID of the last message it was handed.
UpdateUserCheckpoint(p) ==
  /\ pc[p] = "update" /\ storeMu = NoProc
  /\ checkpoints' = [checkpoints EXCEPT ![Tl(p)] = fetched[p]]
  /\ pc' = [pc EXCEPT ![p] = "idle"]
  /\ UNCHANGED <<seqGenerator, currentCapacity, storeMu, loaded, blocks,
                 lastSeqID, diskVars, msg, targets, pos, blk, capRead, since,
                 fetched, histVars>>

\* The process dies (or is stopped: nothing is saved on the way out) and
\* NewStore builds an empty Store on the same directory.  The outcome of a
\* concurrent map write, which the Go runtime turns into a fatal error, is
\* one of these steps: createNewBlock writes StoreIndex and TimelineBlocks
\* without s.mu.
SavingProcs == {p \in Writers : pc[p] = "saveBlock"}
SavingIds   == {<<Tl(p), SavedBlock(p).id>> : p \in SavingProcs}
MetaInWrite == {Tl(p) : p \in {q \in Writers : pc[q] = "saveMeta"}}

Crash ==
  /\ crashes < MaxCrashes
  /\ crashes' = crashes + 1
  /\ \E left \in [SavingProcs ->
                  UNION {Interrupted(SavedBlock(p).msgs) : p \in SavingProcs}] :
       /\ \A p \in SavingProcs : left[p] \in Interrupted(SavedBlock(p).msgs)
       /\ blockFile' =
            [b \in BlockIds |->
               IF b \in SavingIds
                 THEN left[CHOOSE p \in SavingProcs :
                             b = <<Tl(p), SavedBlock(p).id>>]
                 ELSE blockFile[b]]
  /\ \E torn \in IF TornWrites /\ faults < MaxFaults
                  THEN SUBSET MetaInWrite ELSE {{}} :
       /\ metaFile' = [tl \in Timelines |->
                         IF tl \in torn THEN BadMetaFile ELSE metaFile[tl]]
       /\ faults' = IF torn = {} THEN faults ELSE faults + 1
  /\ seqGenerator' = 0 /\ currentCapacity' = 0 /\ storeMu' = NoProc
  /\ loaded' = {}
  /\ blocks' = [tl \in Timelines |-> << >>]
  /\ lastSeqID' = [tl \in Timelines |-> 0]
  /\ checkpoints' = [u \in Users |-> 0]
  /\ pc' = [p \in Procs |-> "idle"]
  /\ msg' = [p \in Procs |-> NoMessage]
  /\ targets' = [p \in Procs |-> << >>]
  /\ pos' = [p \in Procs |-> 0] /\ blk' = [p \in Procs |-> 0]
  /\ capRead' = [p \in Procs |-> 0]
  /\ since' = [p \in Procs |-> 0] /\ fetched' = [p \in Procs |-> 0]
  /\ UNCHANGED <<calls, reads, acked, delivered>>

WriterStep(p) ==
  \/ AppendMessage(p) \/ AppendAndFill(p) \/ AppendRefused(p)
  \/ SaveBlock(p) \/ AddCapacity(p) \/ Relock(p) \/ SaveMetadata(p)

TimelineStep(p) ==
  GetTimeline(p) \/ LoadTimeline(p) \/ DecideRaise(p) \/ RaiseAndLoad(p)

ReaderStep(p) == Fetch(p) \/ UpdateUserCheckpoint(p)

Fault(p) == SaveBlockFails(p) \/ SaveMetadataFails(p)

Next ==
  \/ \E p \in Writers : AddMessage(p) \/ WriterStep(p) \/ Fault(p)
  \/ \E p \in Procs : TimelineStep(p)
  \/ \E p \in Readers : StartSync(p) \/ ReaderStep(p)
  \/ Crash

\* The Go scheduler runs every goroutine that can run; sync.Mutex hands over
\* to a waiter that has been starved (starvation mode), which the model needs
\* only weakly because s.mu is never held across a blocking call.
Fairness ==
  /\ \A p \in Writers : WF_vars(TimelineStep(p) \/ WriterStep(p))
  /\ \A p \in Readers : WF_vars(TimelineStep(p) \/ ReaderStep(p))

Spec == Init /\ [][Next]_vars
FairSpec == Spec /\ Fairness

-----------------------------------------------------------------------------
(***************************************************************************)
(* Properties.                                                             *)
(***************************************************************************)
WriterPCs == {"idle", "getTimeline", "raise", "append", "saveBlock",
              "addCapacity", "relock", "saveMeta"}
ReaderPCs == {"idle", "getTimeline", "raise", "fetch", "update"}

\* Type correctness of the Store, its files and its goroutines.
TypeOK ==
  /\ seqGenerator \in Nat /\ currentCapacity \in Nat
  /\ storeMu \in Procs \cup {NoProc}
  /\ loaded \subseteq Timelines
  /\ blocks \in [Timelines -> Seq(Blocks)]
  /\ lastSeqID \in [Timelines -> Nat]
  /\ checkpoints \in [Users -> Nat]
  /\ blockFile \in [BlockIds -> BlockFiles]
  /\ metaFile \in [Timelines -> MetaFiles]
  /\ pc \in [Procs -> WriterPCs \cup ReaderPCs]
  /\ msg \in [Procs -> Messages \cup {NoMessage}]
  /\ targets \in [Procs -> Seq(Timelines)]
  /\ pos \in [Procs -> Nat] /\ blk \in [Procs -> Nat]
  /\ capRead \in [Procs -> Nat]
  /\ since \in [Procs -> Nat] /\ fetched \in [Procs -> Nat]
  /\ calls \in 0..MaxCalls /\ reads \in 0..MaxReads
  /\ acked \subseteq [msg : Messages, at : Seq(Timelines), boot : 0..MaxCrashes]
  /\ delivered \in [Users -> SUBSET Messages]
  /\ crashes \in 0..MaxCrashes /\ faults \in 0..MaxFaults

\* A block list as CurrentBlock relies on it: no block outgrows
\* TimelineMaxSize, only the last one is open, an open one is never empty.
WellFormed(bs) ==
  \A i \in 1..Len(bs) :
    /\ Len(bs[i].msgs) <= TimelineMaxSize
    /\ ~bs[i].full => /\ i = Len(bs)
                      /\ Len(bs[i].msgs) \in 1..(TimelineMaxSize - 1)

\* Timeline.AddMessage releases tl.mu while it saves a block, yet the block
\* list of every timeline stays well formed, and an unloaded timeline has no
\* block in memory.
BlocksWellFormed ==
  \A tl \in Timelines :
    /\ tl \notin loaded => blocks[tl] = << >>
    /\ WellFormed(blocks[tl])

\* The block a writer is saving with tl.mu released is full, so no append can
\* change it under saveTimelineBlock, and no other writer saves it too.
SaverOwnsBlock ==
  \A p \in Writers : pc[p] \in {"saveBlock", "addCapacity"} =>
    /\ blk[p] \in 1..Len(blocks[Tl(p)])
    /\ SavedBlock(p).full
    /\ \A q \in Writers \ {p} :
         pc[q] \in {"saveBlock", "addCapacity"} /\ Tl(q) = Tl(p)
           => blk[q] # blk[p]

Places(tl, m) == {pl \in AllPlaces(tl) : MessageAt(tl, pl) = m}

\* Once AddMessage has returned nil, the message is in the conversation
\* timeline and in the timeline of every listed user exactly once, for as long
\* as the process lives, whatever the other writers did meanwhile; and, unless
\* a write failed, the metadata file of each of them names the block it is in:
\* a save by a slower writer never puts an older list of blocks back.
AckedExactlyOnce ==
  \A a \in acked : a.boot = crashes =>
    \A k \in 1..Len(a.at) :
      /\ Cardinality(Places(a.at[k], a.msg)) = 1
      /\ faults = 0 => \A pl \in Places(a.at[k], a.msg) :
           \E i \in 1..Len(metaFile[a.at[k]].ids) :
             metaFile[a.at[k]].ids[i] = blocks[a.at[k]][pl[1]].id

InFile(tl, b, m) ==
  /\ blockFile[<<tl, b>>].status = "ok"
  /\ \E j \in 1..Len(blockFile[<<tl, b>>].msgs) :
       blockFile[<<tl, b>>].msgs[j] = m

AllDecode(tl) == \A b \in CallIds : blockFile[<<tl, b>>].status # "bad"

\* An acknowledged message whose block reached the disk is found again after
\* any number of restarts, though other blocks of the timeline were lost with
\* the memory or cut short, as long as no metadata write failed and no block
\* file of the timeline is left undecodable: loadTimelineBlocks gives up at
\* such a file, and the blocks behind it are lost with it.
SavedSurvives ==
  faults = 0 => \A a \in acked : \A k \in 1..Len(a.at) : \A b \in CallIds :
    InFile(a.at[k], b, a.msg) /\ AllDecode(a.at[k]) =>
      /\ \E i \in 1..Len(metaFile[a.at[k]].ids) : metaFile[a.at[k]].ids[i] = b
      /\ a.at[k] \in loaded => Places(a.at[k], a.msg) # {}

\* A message stays where it was put: while the process lives, Blocks only
\* grows at its end and no message moves, changes or disappears.
AppendOnly ==
  [][crashes' = crashes =>
       \A tl \in loaded :
         /\ Len(blocks[tl]) <= Len(blocks'[tl])
         /\ \A i \in 1..Len(blocks[tl]) :
              /\ blocks'[tl][i].id = blocks[tl][i].id
              /\ \E n \in 0..Len(blocks'[tl][i].msgs) :
                   blocks[tl][i].msgs = SubSeq(blocks'[tl][i].msgs, 1, n)]_vars

\* Every AddMessage call returns, with or without an error: neither the
\* unlock and relock around saveTimelineBlock nor s.mu can strand a writer.
AddMessageReturns == \A p \in Writers : (pc[p] # "idle") ~> (pc[p] = "idle")

TimelineOrdered(tl) ==
  \A pl, pk \in AllPlaces(tl) :
    Before(pl, pk) => MessageAt(tl, pl).seq < MessageAt(tl, pk).seq

\* As long as the writers have appended to a user's timeline in the order of
\* their SeqIDs, a user who synchronises gets every message: GetMessagesAfter-
\* Checkpoint and UpdateUserCheckpoint never pass over an acknowledged one.
SyncInOrder ==
  \A a \in acked : a.boot = crashes =>
    \A k \in 1..Len(a.at) :
      a.at[k] \in Users /\ TimelineOrdered(a.at[k]) =>
        a.msg \in delivered[a.at[k]] \/ a.msg.seq > checkpoints[a.at[k]]

-----------------------------------------------------------------------------
(***************************************************************************)
(* What the documentation says and the code does not do.                   *)
(***************************************************************************)
\* A user who synchronises gets every message: an acknowledged message is
\* still above the user's checkpoint unless the user has been handed it.
SyncMissesNothing ==
  \A a \in acked : a.boot = crashes =>
    \A k \in 1..Len(a.at) :
      a.at[k] \in Users =>
        a.msg \in delivered[a.at[k]] \/ a.msg.seq > checkpoints[a.at[k]]
=============================================================================
