------------------------ MODULE TimelineStoreProofs ------------------------
(***************************************************************************)
(* TimelineStore's type correctness for any writers, readers, timelines,   *)
(* block sizes and bounds: the inductive invariant, the steps that bring a *)
(* timeline into memory and append to it, and the steps that save, sync    *)
(* and crash.                                                              *)
(***************************************************************************)
EXTENDS TimelineStore, TLAPS

\* Facts about sequences.
LEMMA SeqLength ==
  ASSUME NEW S, NEW s \in Seq(S)
  PROVE  Len(s) \in Nat /\ s \in [1..Len(s) -> S] /\ DOMAIN s = 1..Len(s)
OBVIOUS

LEMMA SeqElement ==
  ASSUME NEW S, NEW s \in Seq(S), NEW i \in 1..Len(s)
  PROVE  s[i] \in S
OBVIOUS

LEMMA SeqEmpty ==
  ASSUME NEW S
  PROVE  << >> \in Seq(S) /\ \A s \in Seq(S) : s = << >> <=> Len(s) = 0
OBVIOUS

LEMMA SeqOfFunction ==
  ASSUME NEW S, NEW n \in Nat, NEW s \in [1..n -> S]
  PROVE  s \in Seq(S) /\ Len(s) = n
OBVIOUS

LEMMA SeqAppend ==
  ASSUME NEW S, NEW s \in Seq(S), NEW e \in S
  PROVE  /\ Append(s, e) \in Seq(S) /\ Len(Append(s, e)) = Len(s) + 1
         /\ \A i \in 1..Len(s) : Append(s, e)[i] = s[i]
         /\ Append(s, e)[Len(s) + 1] = e
OBVIOUS

LEMMA SeqExcept ==
  ASSUME NEW S, NEW s \in Seq(S), NEW i \in 1..Len(s), NEW e \in S
  PROVE  /\ [s EXCEPT ![i] = e] \in Seq(S) /\ Len([s EXCEPT ![i] = e]) = Len(s)
         /\ \A j \in 1..Len(s) : [s EXCEPT ![i] = e][j] = IF j = i THEN e ELSE s[j]
OBVIOUS

LEMMA SeqConcat ==
  ASSUME NEW S, NEW s \in Seq(S), NEW t \in Seq(S)
  PROVE  s \o t \in Seq(S) /\ Len(s \o t) = Len(s) + Len(t)
OBVIOUS

LEMMA SeqPrefix ==
  ASSUME NEW S, NEW s \in Seq(S), NEW n \in 0..Len(s)
  PROVE  SubSeq(s, 1, n) \in Seq(S) /\ Len(SubSeq(s, 1, n)) = n
OBVIOUS

-----------------------------------------------------------------------------

\* A goroutine inside a call is at one of its timelines; a writer has a
\* message; past the load its timeline is in memory; a goroutine that raises
\* the counter holds s.mu and its timeline is not in memory yet; a block being
\* saved is a block of the timeline.
InCallAt(p) ==
  /\ pc[p] # "idle" => pos[p] \in 1..Len(targets[p])
  /\ p \in Writers /\ pc[p] # "idle" => msg[p] \in Messages
  /\ p \in Writers => pc[p] \in WriterPCs
  /\ p \in Readers => pc[p] \in ReaderPCs
  /\ pc[p] \in {"append", "saveBlock", "addCapacity", "relock", "fetch"}
       => Tl(p) \in loaded
  /\ pc[p] = "raise" => storeMu = p /\ Tl(p) \notin loaded
  /\ pc[p] \in {"saveBlock", "addCapacity"}
       => blk[p] \in 1..Len(blocks[Tl(p)])

InCall == \A p \in Procs : InCallAt(p)

TypeInv == TypeOK /\ InCall

\* What the blocks of a timeline are once a message is appended: at most one
\* block more, the others as they were, the message at the end of the last.
LEMMA WithMessageProperties ==
  ASSUME TypeOK, NEW tl \in Timelines, NEW m \in Messages
  PROVE  LET bs == WithMessage(tl, m)
             n == Len(blocks[tl])
         IN  /\ bs \in Seq(Blocks)
             /\ Len(bs) = IF NeedsBlock(tl) THEN n + 1 ELSE n
             /\ Len(bs) >= 1
             /\ \A i \in 1..n : i < Len(bs) => bs[i] = blocks[tl][i]
             /\ ~NeedsBlock(tl) => bs[n].msgs = Append(blocks[tl][n].msgs, m)
             /\ ~NeedsBlock(tl) => bs[n].id = blocks[tl][n].id
             /\ ~NeedsBlock(tl) => n >= 1 /\ ~blocks[tl][n].full
             /\ NeedsBlock(tl) => bs[Len(bs)].msgs = <<m>>
             /\ bs[Len(bs)].full = (Len(bs[Len(bs)].msgs) >= TimelineMaxSize)
<1> DEFINE n == Len(blocks[tl])
           room == WithRoom(tl, m)
           empty == [id |-> m.id, msgs |-> << >>, full |-> FALSE]
<1>1. blocks[tl] \in Seq(Blocks) /\ n \in Nat /\ m.id \in CallIds
  BY DEF TypeOK, Messages
<1>2. empty \in Blocks
  BY <1>1 DEF Blocks
<1>3. /\ room \in Seq(Blocks)
      /\ Len(room) = IF NeedsBlock(tl) THEN n + 1 ELSE n
      /\ Len(room) >= 1
      /\ \A i \in 1..n : room[i] = blocks[tl][i]
      /\ NeedsBlock(tl) => room[Len(room)] = empty
      /\ ~NeedsBlock(tl) => n >= 1 /\ ~blocks[tl][n].full
  <2>1. CASE NeedsBlock(tl)
    <3>1. room = Append(blocks[tl], empty)
      BY <2>1 DEF WithRoom
    <3> QED BY <3>1, <2>1, <1>1, <1>2, SeqAppend
  <2>2. CASE ~NeedsBlock(tl)
    <3>1. room = blocks[tl] /\ blocks[tl] # << >> /\ ~blocks[tl][n].full
      BY <2>2 DEF WithRoom, NeedsBlock
    <3>2. n >= 1
      BY <3>1, <1>1, SeqEmpty
    <3> QED BY <3>1, <3>2, <2>2, <1>1
  <2> QED BY <2>1, <2>2
<1> DEFINE k == Len(room)
           ms == Append(room[k].msgs, m)
           new == [id |-> room[k].id, msgs |-> ms, full |-> Len(ms) >= TimelineMaxSize]
<1>4. k \in 1..k /\ room[k] \in Blocks
  BY <1>3, SeqElement
<1>5. ms \in Seq(Messages) /\ Len(ms) \in Nat /\ Len(ms) = Len(room[k].msgs) + 1
  BY <1>4, SeqAppend DEF Blocks
<1>6. new \in Blocks
  BY <1>4, <1>5, SizesAssumption DEF Blocks
<1>7. WithMessage(tl, m) = [room EXCEPT ![k] = new]
  BY DEF WithMessage
<1> HIDE DEF new, ms, room
<1>8. /\ WithMessage(tl, m) \in Seq(Blocks)
      /\ Len(WithMessage(tl, m)) = k
      /\ WithMessage(tl, m)[k] = new
      /\ \A i \in 1..k : i # k => WithMessage(tl, m)[i] = room[i]
  BY <1>3, <1>4, <1>6, <1>7, SeqExcept
<1>9. /\ new.id = room[k].id /\ new.msgs = ms
      /\ new.full = (Len(ms) >= TimelineMaxSize)
  BY DEF new
<1>10. NeedsBlock(tl) => ms = <<m>>
  <2> SUFFICES ASSUME NeedsBlock(tl) PROVE ms = <<m>>
    OBVIOUS
  <2>1. room[k].msgs = << >>
    BY <1>3
  <2>2. ms = Append(<< >>, m)
    BY <2>1, Zenon DEF ms
  <2> QED BY <2>2
<1>11. ~NeedsBlock(tl) => ms = Append(blocks[tl][n].msgs, m)
  <2> SUFFICES ASSUME ~NeedsBlock(tl) PROVE ms = Append(blocks[tl][n].msgs, m)
    OBVIOUS
  <2>1. room[k] = blocks[tl][n]
    BY <1>1, <1>3
  <2> QED BY <2>1, Zenon DEF ms
<1> DEFINE bs == WithMessage(tl, m)
<1>12. bs[Len(bs)] = new
  BY <1>8, Zenon
<1>13. bs[Len(bs)].full = (Len(bs[Len(bs)].msgs) >= TimelineMaxSize)
  BY <1>9, <1>12, Zenon
<1>14. ~NeedsBlock(tl) => bs[n] = new /\ room[k] = blocks[tl][n]
  BY <1>1, <1>3, <1>8
<1>15. \A i \in 1..n : i < Len(bs) => bs[i] = blocks[tl][i]
  BY <1>1, <1>3, <1>8
<1>16. Len(bs) = (IF NeedsBlock(tl) THEN n + 1 ELSE n) /\ Len(bs) >= 1
  BY <1>3, <1>8, Zenon
<1> HIDE DEF bs
<1>17. bs \in Seq(Blocks)
  BY <1>8, Zenon DEF bs
<1>18. ~NeedsBlock(tl) => /\ bs[n].msgs = Append(blocks[tl][n].msgs, m)
                          /\ bs[n].id = blocks[tl][n].id
                          /\ n >= 1 /\ ~blocks[tl][n].full
  BY <1>3, <1>9, <1>11, <1>14, Zenon
<1>19. NeedsBlock(tl) => bs[Len(bs)].msgs = <<m>>
  BY <1>9, <1>10, <1>12, Zenon
<1> QED
  BY <1>13, <1>15, <1>16, <1>17, <1>18, <1>19, Zenon DEF bs

-----------------------------------------------------------------------------
LEMMA TlType ==
  ASSUME TypeInv, NEW p \in Procs, pc[p] # "idle"
  PROVE  Tl(p) \in Timelines
BY DEF TypeInv, TypeOK, InCall, InCallAt, Tl

\* A step of p that only adds to the memory keeps every goroutine's part of
\* InCall, if it establishes its own.
OnlyAt(p) ==
  \A q \in Procs \ {p} :
    /\ pc'[q] = pc[q] /\ pos'[q] = pos[q] /\ targets'[q] = targets[q]
    /\ msg'[q] = msg[q] /\ blk'[q] = blk[q]

MemoryGrows(p) ==
  /\ \A tl \in loaded : tl \in loaded' /\ Len(blocks'[tl]) >= Len(blocks[tl])
  /\ \A q \in Procs \ {p} :
       pc[q] = "raise" => storeMu' = storeMu /\ loaded' = loaded

\* A step that leaves the memory alone, and one that only moves p.
LEMMA MemoryKept ==
  ASSUME TypeOK, NEW p \in Procs,
         loaded' = loaded, blocks' = blocks, storeMu' = storeMu
  PROVE  MemoryGrows(p)
<1>1. \A tl \in loaded : Len(blocks[tl]) \in Nat
  <2> SUFFICES ASSUME NEW tl \in loaded PROVE Len(blocks[tl]) \in Nat
    OBVIOUS
  <2>1. blocks[tl] \in Seq(Blocks)
    BY DEF TypeOK
  <2> QED BY <2>1, SeqLength
<1>2. \A tl \in loaded : tl \in loaded' /\ Len(blocks'[tl]) >= Len(blocks[tl])
  BY <1>1
<1> QED BY <1>2 DEF MemoryGrows

LEMMA OnlyMoved ==
  ASSUME TypeOK, NEW p \in Procs, NEW to, pc' = [pc EXCEPT ![p] = to],
         UNCHANGED <<pos, targets, msg, blk>>
  PROVE  OnlyAt(p)
<1>1. \A q \in Procs \ {p} : pc'[q] = pc[q]
  BY DEF TypeOK
<1> QED BY <1>1 DEF OnlyAt

LEMMA InCallPreserved ==
  ASSUME TypeInv, TypeOK', NEW p \in Procs, OnlyAt(p), MemoryGrows(p),
         InCallAt(p)'
  PROVE  InCall'
<1> SUFFICES ASSUME NEW q \in Procs, q # p PROVE InCallAt(q)'
  BY DEF InCall
<1>1. /\ pc'[q] = pc[q] /\ pos'[q] = pos[q] /\ targets'[q] = targets[q]
      /\ msg'[q] = msg[q] /\ blk'[q] = blk[q]
      /\ InCallAt(q)
  BY DEF OnlyAt, TypeInv, InCall
<1>2. Tl(q)' = Tl(q)
  BY <1>1 DEF Tl
<1>3. \A tl \in Timelines : Len(blocks[tl]) \in Nat /\ Len(blocks'[tl]) \in Nat
  BY SeqLength DEF TypeInv, TypeOK
<1>4. pc[q] \in {"append", "saveBlock", "addCapacity", "relock", "fetch"}
        => /\ Tl(q) \in loaded /\ Tl(q) \in loaded' /\ Tl(q) \in Timelines
           /\ Len(blocks'[Tl(q)]) >= Len(blocks[Tl(q)])
  BY <1>1, TlType DEF InCallAt, MemoryGrows
<1>5. pc[q] = "raise" => storeMu' = q /\ Tl(q) \notin loaded'
  BY <1>1 DEF InCallAt, MemoryGrows
<1>6. pc[q] \in {"saveBlock", "addCapacity"}
        => blk[q] \in 1..Len(blocks'[Tl(q)])
  BY <1>1, <1>3, <1>4, SMTT(40) DEF InCallAt
<1> QED BY <1>1, <1>2, <1>4, <1>5, <1>6 DEF InCallAt

LEMMA InitType == Init => TypeInv
<1> SUFFICES ASSUME Init PROVE TypeInv
  OBVIOUS
<1> USE BoundsAssumption
<1>1. NoBlockFile \in BlockFiles /\ NoMetaFile \in MetaFiles
  BY DEF NoBlockFile, NoMetaFile, BlockFiles, MetaFiles, FileStatus
<1>2. TypeOK
  BY <1>1 DEF Init, TypeOK, WriterPCs
<1>3. InCall
  BY DEF Init, InCall, InCallAt, WriterPCs, ReaderPCs
<1> QED BY <1>2, <1>3 DEF TypeInv

LEMMA AddMessageType ==
  ASSUME TypeInv, NEW p \in Writers, AddMessage(p)
  PROVE  TypeInv'
<1> USE BoundsAssumption DEF TypeInv
<1>1. PICK ts \in Seq(Timelines) :
        Len(ts) >= 1 /\ targets' = [targets EXCEPT ![p] = ts]
  <2>1. PICK c \in Convs, us \in UserLists :
          targets' = [targets EXCEPT ![p] = <<c>> \o us]
    BY Zenon DEF AddMessage
  <2>2. us \in Seq(Timelines) /\ <<c>> \in Seq(Timelines)
    BY UserListsAssumption DEF Timelines
  <2>3. <<c>> \o us \in Seq(Timelines) /\ Len(<<c>> \o us) >= 1
    BY <2>2, SeqConcat
  <2> QED BY Zenon, <2>1, <2>3
<1> DEFINE m == [id |-> calls + 1, seq |-> NextSeqID]
<1>2. m \in Messages /\ msg' = [msg EXCEPT ![p] = m]
  <2>1. calls + 1 \in CallIds /\ NextSeqID \in Nat
    BY DEF AddMessage, CallIds, TypeOK, NextSeqID
  <2> QED BY <2>1 DEF AddMessage, Messages
<1> HIDE DEF m
<1>3. /\ calls' \in 0..MaxCalls /\ seqGenerator' \in Nat
      /\ pos' = [pos EXCEPT ![p] = 1]
      /\ pc' = [pc EXCEPT ![p] = "getTimeline"]
      /\ UNCHANGED <<currentCapacity, storeMu, loaded, blocks, lastSeqID,
                     checkpoints, blockFile, metaFile, blk, capRead, since,
                     fetched, reads, acked, delivered, crashes, faults>>
  <2>1. calls \in 0..MaxCalls /\ seqGenerator \in Nat
    BY DEF TypeOK
  <2>2. calls < MaxCalls /\ calls' = calls + 1 /\ seqGenerator' = seqGenerator + 1
    BY Zenon DEF AddMessage
  <2>3. calls' \in 0..MaxCalls /\ seqGenerator' \in Nat
    BY <2>1, <2>2
  <2> QED BY Zenon, <2>3 DEF AddMessage, diskVars
<1>4. TypeOK'
  BY Zenon, <1>1, <1>2, <1>3 DEF TypeOK, Procs, WriterPCs
<1>5. OnlyAt(p) /\ MemoryGrows(p)
  <2>1. MemoryGrows(p)
    BY <1>3, MemoryKept DEF Procs
  <2>2. OnlyAt(p)
    BY <1>1, <1>2, <1>3 DEF OnlyAt, TypeOK, Procs
  <2> QED BY <2>1, <2>2
<1>6. InCallAt(p)'
  BY <1>1, <1>2, <1>3, ProcsAssumption
     DEF TypeOK, InCallAt, Procs, WriterPCs
<1>7. p \in Procs
  BY DEF Procs
<1> QED BY <1>4, <1>5, <1>6, <1>7, InCallPreserved

LEMMA GetTimelineType ==
  ASSUME TypeInv, NEW p \in Procs, GetTimeline(p)
  PROVE  TypeInv'
<1> USE DEF TypeInv
<1>1. TypeOK'
  BY Zenon DEF GetTimeline, AfterGet, TypeOK, Procs, WriterPCs, ReaderPCs, memVars,
         diskVars, histVars
<1>2. OnlyAt(p) /\ MemoryGrows(p)
  BY Zenon, OnlyMoved, MemoryKept DEF GetTimeline, memVars
<1>3. InCallAt(p)'
  BY Zenon, ProcsAssumption DEF GetTimeline, AfterGet, TypeOK, InCall, InCallAt,
       Tl, Procs, WriterPCs, ReaderPCs, memVars
<1> QED BY <1>1, <1>2, <1>3, InCallPreserved

\* A loaded timeline has one full block per block file that was kept.
LEMMA LoadedBlocksProperties ==
  ASSUME TypeOK, NEW tl \in Timelines, NEW order \in LoadOrders(tl)
  PROVE  /\ LoadedBlocks(tl, order) \in Seq(Blocks)
         /\ \A i \in 1..Len(LoadedBlocks(tl, order)) :
              /\ LoadedBlocks(tl, order)[i].full
              /\ \E b \in CallIds :
                   LoadedBlocks(tl, order)[i].msgs = blockFile[<<tl, b>>].msgs
<1> DEFINE ids == metaFile[tl].ids
           load == LoadedBlocks(tl, order)
<1>1. ids \in Seq(CallIds) /\ Len(ids) \in Nat
  BY SeqLength DEF TypeOK, MetaFiles
<1>2. Kept(tl) \subseteq 1..Len(ids)
  BY DEF Kept
<1>3. PICK n \in Nat : order \in [1..n -> Kept(tl)]
  BY <1>1 DEF LoadOrders
<1>4. order \in [1..n -> Kept(tl)]
  BY <1>3
<1>5. \A i \in 1..n : ids[order[i]] \in CallIds
  BY <1>1, <1>2, <1>4, SeqElement
<1>6. ASSUME NEW i \in 1..n
      PROVE  /\ load[i] \in Blocks
             /\ load[i].full = TRUE
             /\ load[i].msgs = blockFile[<<tl, ids[order[i]]>>].msgs
  <2> DEFINE b == ids[order[i]]
  <2>1. b \in CallIds /\ blockFile[<<tl, b>>] \in BlockFiles
    BY <1>5, <1>6 DEF TypeOK, BlockIds
  <2>2. blockFile[<<tl, b>>].msgs \in Seq(Messages)
    BY <2>1 DEF BlockFiles
  <2>3. load[i] = [id |-> b, msgs |-> blockFile[<<tl, b>>].msgs, full |-> TRUE]
    BY <1>4, <1>6 DEF LoadedBlocks
  <2> HIDE DEF b, load
  <2>4. load[i] \in Blocks
    BY <2>1, <2>2, <2>3 DEF Blocks
  <2>5. load[i].full = TRUE /\ load[i].msgs = blockFile[<<tl, b>>].msgs
    BY <2>3
  <2> QED BY <2>4, <2>5 DEF b
<1>7. load = [i \in 1..n |-> load[i]]
  BY <1>4 DEF LoadedBlocks
<1> HIDE DEF load, ids
<1>8. \A i \in 1..n : load[i] \in Blocks
  BY Zenon, <1>6
<1>9. load \in [1..n -> Blocks]
  BY <1>7, <1>8
<1>10. load \in Seq(Blocks) /\ Len(load) = n
  BY <1>3, <1>9
<1>12. \A i \in 1..Len(load) :
         /\ load[i].full
         /\ \E b \in CallIds : load[i].msgs = blockFile[<<tl, b>>].msgs
  BY Zenon, <1>5, <1>6, <1>10
<1> QED BY Zenon, <1>10, <1>12 DEF load

LEMMA InsertTimelineType ==
  ASSUME TypeInv, NEW tl \in Timelines, InsertTimeline(tl)
  PROVE  /\ loaded' \subseteq Timelines /\ loaded' = loaded \cup {tl}
         /\ blocks' \in [Timelines -> Seq(Blocks)]
         /\ lastSeqID' \in [Timelines -> Nat]
         /\ \A t \in Timelines : t # tl => blocks'[t] = blocks[t]
<1>1. PICK order \in LoadOrders(tl) :
        blocks' = [blocks EXCEPT ![tl] = LoadedBlocks(tl, order)]
  BY Zenon DEF InsertTimeline
<1>2. LoadedBlocks(tl, order) \in Seq(Blocks)
  BY LoadedBlocksProperties DEF TypeInv
<1> QED BY Zenon, <1>1, <1>2 DEF InsertTimeline, TypeInv, TypeOK, MetaFiles

LEMMA LoadTimelineType ==
  ASSUME TypeInv, NEW p \in Procs, LoadTimeline(p)
  PROVE  TypeInv'
<1> USE DEF TypeInv
<1> DEFINE tl == Tl(p)
<1>1. tl \in Timelines /\ tl \notin loaded
  BY TlType DEF LoadTimeline
<1>2. /\ loaded' \subseteq Timelines /\ loaded' = loaded \cup {tl}
      /\ blocks' \in [Timelines -> Seq(Blocks)]
      /\ lastSeqID' \in [Timelines -> Nat]
      /\ \A t \in Timelines : t # tl => blocks'[t] = blocks[t]
  BY <1>1, InsertTimelineType DEF LoadTimeline
<1>3. /\ pc' = [pc EXCEPT ![p] = AfterGet(p)] /\ storeMu = NoProc
      /\ pc[p] = "getTimeline"
      /\ UNCHANGED <<seqGenerator, currentCapacity, storeMu, checkpoints,
                     blockFile, metaFile, msg, targets, pos, blk, capRead,
                     since, fetched, calls, reads, acked, delivered, crashes,
                     faults>>
  BY DEF LoadTimeline, diskVars, histVars
<1> HIDE DEF tl
<1>4. TypeOK'
  BY Zenon, <1>2, <1>3 DEF TypeOK, AfterGet, WriterPCs, ReaderPCs
<1>5. \A q \in Procs : pc[q] # "raise"
  BY <1>3, ProcsAssumption DEF InCall, InCallAt
<1>6. OnlyAt(p) /\ MemoryGrows(p)
  <2>0. \A t \in loaded : blocks'[t] = blocks[t] /\ blocks[t] \in Seq(Blocks)
    BY <1>1, <1>2 DEF TypeOK
  <2>1. \A t \in loaded : Len(blocks'[t]) >= Len(blocks[t])
    BY <2>0, SeqLength
  <2>2. MemoryGrows(p)
    BY <1>2, <1>3, <1>5, <2>1 DEF MemoryGrows
  <2>3. OnlyAt(p)
    BY <1>3 DEF OnlyAt, TypeOK
  <2> QED BY <2>2, <2>3
<1>7. InCallAt(p)'
  <2>1. Tl(p)' = tl
    BY <1>3 DEF Tl, tl
  <2> QED BY <2>1, <1>2, <1>3, ProcsAssumption
          DEF AfterGet, TypeOK, InCall, InCallAt, Procs, WriterPCs, ReaderPCs
<1> QED BY <1>4, <1>6, <1>7, InCallPreserved

LEMMA DecideRaiseType ==
  ASSUME TypeInv, NEW p \in Procs, DecideRaise(p)
  PROVE  TypeInv'
<1> USE DEF TypeInv
<1>1. TypeOK'
  BY Zenon DEF DecideRaise, TypeOK, WriterPCs, diskVars, histVars
<1>2. \A q \in Procs : pc[q] # "raise"
  BY ProcsAssumption DEF DecideRaise, InCall, InCallAt
<1>3. OnlyAt(p) /\ MemoryGrows(p)
  <2>1. \A t \in loaded : Len(blocks[t]) \in Nat
    BY SeqLength DEF TypeOK
  <2>2. MemoryGrows(p)
    BY <1>2, <2>1 DEF DecideRaise, MemoryGrows
  <2>3. OnlyAt(p)
    BY Zenon, OnlyMoved DEF DecideRaise
  <2> QED BY <2>2, <2>3
<1>4. InCallAt(p)'
  BY Zenon DEF DecideRaise, TypeOK, InCall, InCallAt, Tl, Procs, WriterPCs, ReaderPCs
<1> QED BY <1>1, <1>3, <1>4, InCallPreserved

LEMMA RaiseAndLoadType ==
  ASSUME TypeInv, NEW p \in Procs, RaiseAndLoad(p)
  PROVE  TypeInv'
<1> USE DEF TypeInv
<1> DEFINE tl == Tl(p)
<1>1. tl \in Timelines /\ tl \notin loaded /\ storeMu = p
  BY TlType DEF RaiseAndLoad, InCall, InCallAt
<1>2. /\ loaded' \subseteq Timelines /\ loaded' = loaded \cup {tl}
      /\ blocks' \in [Timelines -> Seq(Blocks)]
      /\ lastSeqID' \in [Timelines -> Nat]
      /\ \A t \in Timelines : t # tl => blocks'[t] = blocks[t]
  BY <1>1, InsertTimelineType DEF RaiseAndLoad
<1>3. /\ pc' = [pc EXCEPT ![p] = AfterGet(p)] /\ storeMu' = NoProc
      /\ pc[p] = "raise" /\ seqGenerator' \in Nat
      /\ UNCHANGED <<currentCapacity, checkpoints, blockFile, metaFile, msg,
                     targets, pos, blk, capRead, since, fetched, calls, reads,
                     acked, delivered, crashes, faults>>
  BY <1>1 DEF RaiseAndLoad, diskVars, histVars, TypeOK, MetaFiles
<1> HIDE DEF tl
<1>4. TypeOK'
  BY Zenon, <1>2, <1>3 DEF TypeOK, AfterGet, WriterPCs, ReaderPCs
<1>5. \A q \in Procs : q # p => pc[q] # "raise"
  BY <1>1 DEF InCall, InCallAt
<1>6. OnlyAt(p) /\ MemoryGrows(p)
  <2>0. \A t \in loaded : blocks'[t] = blocks[t] /\ blocks[t] \in Seq(Blocks)
    BY <1>1, <1>2 DEF TypeOK
  <2>1. \A t \in loaded : Len(blocks'[t]) >= Len(blocks[t])
    BY <2>0, SeqLength
  <2>2. MemoryGrows(p)
    BY <1>2, <1>3, <1>5, <2>1 DEF MemoryGrows
  <2>3. OnlyAt(p)
    BY <1>3 DEF OnlyAt, TypeOK
  <2> QED BY <2>2, <2>3
<1>7. InCallAt(p)'
  <2>1. Tl(p)' = tl
    BY <1>3 DEF Tl, tl
  <2> QED BY <2>1, <1>2, <1>3, ProcsAssumption
          DEF AfterGet, TypeOK, InCall, InCallAt, Procs, WriterPCs, ReaderPCs
<1> QED BY <1>4, <1>6, <1>7, InCallPreserved

-----------------------------------------------------------------------------
\* What Advance leaves of a writer's place in its call.
LEMMA AdvanceType ==
  ASSUME TypeInv, NEW p \in Writers, pc[p] # "idle", Advance(p)
  PROVE  /\ pc' \in [Procs -> WriterPCs \cup ReaderPCs]
         /\ pos' \in [Procs -> Nat]
         /\ pc'[p] \in {"saveMeta", "getTimeline"}
         /\ pos'[p] \in 1..Len(targets[p])
         /\ \A q \in Procs \ {p} : pc'[q] = pc[q] /\ pos'[q] = pos[q]
<1>1. p \in Procs /\ pos[p] \in 1..Len(targets[p]) /\ Len(targets[p]) \in Nat
  BY SeqLength DEF TypeInv, TypeOK, InCall, InCallAt, Procs
<1>0. pc \in [Procs -> WriterPCs \cup ReaderPCs] /\ pos \in [Procs -> Nat]
  BY DEF TypeInv, TypeOK
<1>2. CASE LastTarget(p)
  <2>1. /\ pos' = [pos EXCEPT ![p] = 1]
        /\ pc' = [pc EXCEPT ![p] = "saveMeta"]
    BY <1>2 DEF Advance
  <2> QED BY <1>0, <1>1, <2>1 DEF WriterPCs
<1>3. CASE ~LastTarget(p)
  <2>1. /\ pos' = [pos EXCEPT ![p] = pos[p] + 1]
        /\ pc' = [pc EXCEPT ![p] = "getTimeline"]
    BY <1>3 DEF Advance
  <2>2. pos[p] + 1 \in 1..Len(targets[p])
    BY <1>1, <1>3 DEF LastTarget
  <2> QED BY <1>0, <1>1, <2>1, <2>2 DEF WriterPCs
<1> QED BY <1>2, <1>3

LEMMA AppendMessageType ==
  ASSUME TypeInv, NEW p \in Writers, AppendMessage(p)
  PROVE  TypeInv'
<1> USE DEF TypeInv
<1> DEFINE tl == Tl(p)
           bs == WithMessage(tl, msg[p])
<1>1. /\ p \in Procs /\ pc[p] = "append" /\ tl \in Timelines /\ tl \in loaded
      /\ msg[p] \in Messages
  BY TlType DEF AppendMessage, InCall, InCallAt, Procs
<1>2. bs \in Seq(Blocks) /\ Len(bs) >= Len(blocks[tl])
  <2>1. Len(blocks[tl]) \in Nat
    BY <1>1, SeqLength DEF TypeOK
  <2> HIDE DEF tl
  <2>2. /\ bs \in Seq(Blocks)
        /\ Len(bs) = IF NeedsBlock(tl) THEN Len(blocks[tl]) + 1 ELSE Len(blocks[tl])
    BY <1>1, WithMessageProperties, Zenon
  <2> HIDE DEF bs
  <2> QED BY <2>1, <2>2
<1>3. /\ blocks' = [blocks EXCEPT ![tl] = bs]
      /\ lastSeqID' = [lastSeqID EXCEPT ![tl] = msg[p].seq]
      /\ Advance(p)
      /\ UNCHANGED <<seqGenerator, currentCapacity, storeMu, loaded,
                     checkpoints, blockFile, metaFile, msg, targets, blk,
                     capRead, since, fetched, calls, reads, acked, delivered,
                     crashes, faults>>
  BY DEF AppendMessage, diskVars, histVars
<1> HIDE DEF tl, bs
<1>4. /\ pc' \in [Procs -> WriterPCs \cup ReaderPCs]
      /\ pos' \in [Procs -> Nat]
      /\ pc'[p] \in {"saveMeta", "getTimeline"}
      /\ pos'[p] \in 1..Len(targets[p])
      /\ \A q \in Procs \ {p} : pc'[q] = pc[q] /\ pos'[q] = pos[q]
  BY <1>1, <1>3, AdvanceType
<1>5. msg[p].seq \in Nat
  BY <1>1 DEF Messages
<1>6. TypeOK'
  BY Zenon, <1>1, <1>2, <1>3, <1>4, <1>5 DEF TypeOK
<1>7. OnlyAt(p) /\ MemoryGrows(p)
  <2>1. \A t \in loaded : Len(blocks[t]) \in Nat
    BY SeqLength DEF TypeOK
  <2>2. \A t \in loaded : Len(blocks'[t]) >= Len(blocks[t])
    BY <1>1, <1>2, <1>3, <2>1, SMTT(40) DEF TypeOK
  <2> QED BY <1>3, <1>4, <2>2 DEF OnlyAt, MemoryGrows
<1>8. InCallAt(p)'
  BY <1>1, <1>3, <1>4, ProcsAssumption DEF InCallAt, WriterPCs
<1> QED BY <1>1, <1>6, <1>7, <1>8, InCallPreserved

LEMMA AppendAndFillType ==
  ASSUME TypeInv, NEW p \in Writers, AppendAndFill(p)
  PROVE  TypeInv'
<1> USE DEF TypeInv
<1> DEFINE tl == Tl(p)
           bs == WithMessage(tl, msg[p])
<1>1. /\ p \in Procs /\ pc[p] = "append" /\ tl \in Timelines /\ tl \in loaded
      /\ msg[p] \in Messages /\ pos[p] \in 1..Len(targets[p])
  BY TlType DEF AppendAndFill, InCall, InCallAt, Procs
<1>2. bs \in Seq(Blocks) /\ Len(bs) >= Len(blocks[tl]) /\ Len(bs) \in Nat \ {0}
  <2>1. Len(blocks[tl]) \in Nat
    BY <1>1, SeqLength DEF TypeOK
  <2> HIDE DEF tl
  <2>2. /\ bs \in Seq(Blocks) /\ Len(bs) >= 1
        /\ Len(bs) = IF NeedsBlock(tl) THEN Len(blocks[tl]) + 1 ELSE Len(blocks[tl])
    BY <1>1, WithMessageProperties, Zenon
  <2> HIDE DEF bs
  <2> QED BY <2>1, <2>2
<1>3. /\ blocks' = [blocks EXCEPT ![tl] = bs]
      /\ blk' = [blk EXCEPT ![p] = Len(bs)]
      /\ pc' = [pc EXCEPT ![p] = "saveBlock"]
      /\ UNCHANGED <<seqGenerator, currentCapacity, storeMu, loaded, lastSeqID,
                     checkpoints, blockFile, metaFile, msg, targets, pos,
                     capRead, since, fetched, calls, reads, acked, delivered,
                     crashes, faults>>
  BY DEF AppendAndFill, diskVars, histVars
<1>4. Tl(p)' = tl
  BY <1>3 DEF Tl
<1> HIDE DEF tl, bs
<1>5. TypeOK'
  BY Zenon, <1>1, <1>2, <1>3 DEF TypeOK, WriterPCs
<1>6. OnlyAt(p) /\ MemoryGrows(p)
  <2>1. \A t \in loaded : Len(blocks[t]) \in Nat
    BY SeqLength DEF TypeOK
  <2>2. \A t \in loaded : Len(blocks'[t]) >= Len(blocks[t])
    BY <1>1, <1>2, <1>3, <2>1 DEF TypeOK
  <2>3. OnlyAt(p)
    BY <1>3 DEF OnlyAt, TypeOK
  <2> QED BY <1>3, <2>2, <2>3 DEF MemoryGrows
<1>7. InCallAt(p)'
  <2>1. pc'[p] = "saveBlock" /\ blk'[p] \in 1..Len(blocks'[tl])
    BY <1>1, <1>2, <1>3, SMTT(40) DEF TypeOK
  <2> QED BY <1>1, <1>3, <1>4, <2>1, ProcsAssumption DEF InCallAt, WriterPCs
<1> QED BY <1>1, <1>5, <1>6, <1>7, InCallPreserved

-----------------------------------------------------------------------------
\* Steps of a writer that leave the memory of the timelines alone and end, or
\* go on, with the writer's place in its call unchanged.
LEMMA WriterStays ==
  ASSUME TypeInv, TypeOK', NEW p \in Writers, pc[p] # "idle",
         NEW to, pc' = [pc EXCEPT ![p] = to],
         \/ to = "idle"
         \/ pc[p] = "saveBlock" /\ to = "addCapacity"
         \/ pc[p] = "addCapacity" /\ to = "relock",
         UNCHANGED <<pos, targets, msg, blk, loaded, blocks, storeMu>>
  PROVE  TypeInv'
<1> USE DEF TypeInv
<1>1. p \in Procs /\ InCallAt(p)
  BY DEF InCall, Procs
<1>2. OnlyAt(p) /\ MemoryGrows(p)
  BY Zenon, <1>1, OnlyMoved, MemoryKept
<1>3. Tl(p)' = Tl(p)
  BY DEF Tl
<1>4. pc'[p] = to
  BY <1>1 DEF TypeOK
<1>5. InCallAt(p)'
  BY <1>1, <1>3, <1>4, ProcsAssumption DEF InCallAt, WriterPCs
<1> QED BY <1>1, <1>2, <1>5, InCallPreserved

LEMMA AppendRefusedType ==
  ASSUME TypeInv, NEW p \in Writers, AppendRefused(p)
  PROVE  TypeInv'
<1>1. TypeOK'
  BY Zenon DEF AppendRefused, TypeInv, TypeOK, WriterPCs, memVars, diskVars, histVars
<1> QED BY Zenon, <1>1, WriterStays DEF AppendRefused, memVars

\* The block a writer is saving, and the name of its file.
LEMMA SavedBlockType ==
  ASSUME TypeInv, NEW p \in Writers, pc[p] \in {"saveBlock", "addCapacity"}
  PROVE  /\ p \in Procs /\ Tl(p) \in Timelines
         /\ SavedBlock(p) \in Blocks
         /\ <<Tl(p), SavedBlock(p).id>> \in BlockIds
         /\ SavedBlock(p).msgs \in Seq(Messages)
         /\ Len(SavedBlock(p).msgs) \in Nat
<1>1. p \in Procs /\ pc[p] # "idle"
  BY DEF Procs
<1>2. Tl(p) \in Timelines
  BY <1>1, TlType
<1>3. blocks[Tl(p)] \in Seq(Blocks) /\ blk[p] \in 1..Len(blocks[Tl(p)])
  BY Zenon, <1>1, <1>2 DEF TypeInv, TypeOK, InCall, InCallAt
<1>4. SavedBlock(p) \in Blocks
  BY <1>3, SeqElement DEF SavedBlock
<1>5. SavedBlock(p).id \in CallIds /\ SavedBlock(p).msgs \in Seq(Messages)
  BY <1>4 DEF Blocks
<1> QED BY <1>1, <1>2, <1>4, <1>5, SeqLength DEF BlockIds

LEMMA InterruptedType ==
  ASSUME NEW ms \in Seq(Messages), NEW f \in Interrupted(ms)
  PROVE  f \in BlockFiles /\ Len(f.msgs) <= Len(ms) /\ Len(f.msgs) \in Nat
<1>1. Len(ms) \in Nat
  BY SeqLength
<1>2. CASE f = NoBlockFile \/ f = BadBlockFile
  <2>0. << >> \in Seq(Messages)
    BY SeqEmpty
  <2>1. f.msgs = << >> /\ f \in BlockFiles
    <3>1. CASE f = NoBlockFile
      BY <2>0, <3>1 DEF NoBlockFile, BlockFiles, FileStatus
    <3>2. CASE f = BadBlockFile
      BY <2>0, <3>2 DEF BadBlockFile, BlockFiles, FileStatus
    <3> QED BY <1>2, <3>1, <3>2
  <2>2. Len(f.msgs) = 0
    BY <2>1, SeqEmpty
  <2> QED BY <1>1, <2>1, <2>2
<1>3. ASSUME NEW k \in 0..Len(ms),
             f = [status |-> "ok", msgs |-> SubSeq(ms, 1, k)]
      PROVE  f \in BlockFiles /\ Len(f.msgs) <= Len(ms) /\ Len(f.msgs) \in Nat
  <2>1. SubSeq(ms, 1, k) \in Seq(Messages) /\ Len(SubSeq(ms, 1, k)) = k
    BY <1>1, <1>3, SeqPrefix
  <2> QED BY <1>1, <1>3, <2>1 DEF BlockFiles, FileStatus
<1> QED BY <1>2, <1>3 DEF Interrupted

LEMMA SaveBlockType ==
  ASSUME TypeInv, NEW p \in Writers, SaveBlock(p)
  PROVE  TypeInv'
<1>1. pc[p] = "saveBlock"
  BY DEF SaveBlock
<1>2. Encoded(SavedBlock(p)) \in BlockFiles
  BY Zenon, <1>1, SavedBlockType DEF Encoded, BlockFiles, FileStatus
<1>3. TypeOK'
  BY Zenon, <1>1, <1>2, SavedBlockType
     DEF SaveBlock, TypeInv, TypeOK, WriterPCs, memVars, histVars
<1> QED BY Zenon, <1>1, <1>3, WriterStays DEF SaveBlock, memVars

LEMMA SaveBlockFailsType ==
  ASSUME TypeInv, NEW p \in Writers, SaveBlockFails(p)
  PROVE  TypeInv'
<1>1. pc[p] = "saveBlock"
  BY DEF SaveBlockFails
<1>2. PICK f \in Interrupted(SavedBlock(p).msgs) :
        blockFile' = [blockFile EXCEPT ![<<Tl(p), SavedBlock(p).id>>] = f]
  BY Zenon DEF SaveBlockFails
<1>3. f \in BlockFiles
  BY Zenon, <1>1, SavedBlockType, InterruptedType
<1>4. blockFile' \in [BlockIds -> BlockFiles]
  BY Zenon, <1>1, <1>2, <1>3, SavedBlockType DEF TypeInv, TypeOK
<1>5. faults' \in 0..MaxFaults
  <2>1. faults \in 0..MaxFaults
    BY DEF TypeInv, TypeOK
  <2>2. faults < MaxFaults /\ faults' = faults + 1
    BY Zenon DEF SaveBlockFails
  <2> QED BY <2>1, <2>2, BoundsAssumption
<1>6. TypeOK'
  BY Zenon, <1>4, <1>5 DEF SaveBlockFails, TypeInv, TypeOK, WriterPCs, memVars
<1> QED BY Zenon, <1>1, <1>6, WriterStays DEF SaveBlockFails, memVars

LEMMA AddCapacityType ==
  ASSUME TypeInv, NEW p \in Writers, AddCapacity(p)
  PROVE  TypeInv'
<1>1. pc[p] = "addCapacity"
  BY DEF AddCapacity
<1>2. currentCapacity' \in Nat
  <2>1. p \in Procs /\ Len(SavedBlock(p).msgs) \in Nat
    BY Zenon, <1>1, SavedBlockType
  <2>2. capRead[p] \in Nat
    BY <2>1 DEF TypeInv, TypeOK
  <2> QED BY <2>1, <2>2 DEF AddCapacity
<1>3. TypeOK'
  BY Zenon, <1>2 DEF AddCapacity, TypeInv, TypeOK, WriterPCs, diskVars, histVars
<1> QED BY Zenon, <1>1, <1>3, WriterStays DEF AddCapacity

LEMMA RelockType ==
  ASSUME TypeInv, NEW p \in Writers, Relock(p)
  PROVE  TypeInv'
<1> USE DEF TypeInv
<1>1. /\ p \in Procs /\ pc[p] = "relock" /\ Tl(p) \in Timelines
      /\ msg[p] \in Messages
  BY TlType DEF Relock, InCall, InCallAt, Procs
<1>2. /\ pc' \in [Procs -> WriterPCs \cup ReaderPCs]
      /\ pos' \in [Procs -> Nat]
      /\ pc'[p] \in {"saveMeta", "getTimeline"}
      /\ pos'[p] \in 1..Len(targets[p])
      /\ \A q \in Procs \ {p} : pc'[q] = pc[q] /\ pos'[q] = pos[q]
  BY <1>1, AdvanceType DEF Relock
<1>3. /\ lastSeqID' = [lastSeqID EXCEPT ![Tl(p)] = msg[p].seq]
      /\ UNCHANGED <<seqGenerator, currentCapacity, storeMu, loaded, blocks,
                     checkpoints, blockFile, metaFile, msg, targets, blk,
                     capRead, since, fetched, calls, reads, acked, delivered,
                     crashes, faults>>
  BY DEF Relock, diskVars, histVars
<1>4. TypeOK'
  BY Zenon, <1>1, <1>2, <1>3 DEF TypeOK, Messages
<1>5. OnlyAt(p) /\ MemoryGrows(p)
  <2>1. MemoryGrows(p)
    BY <1>1, <1>3, MemoryKept
  <2> QED BY <1>2, <1>3, <2>1 DEF OnlyAt
<1>6. InCallAt(p)'
  BY <1>1, <1>2, <1>3, ProcsAssumption DEF InCallAt, WriterPCs
<1> QED BY <1>1, <1>4, <1>5, <1>6, InCallPreserved

LEMMA MetaOfType ==
  ASSUME TypeOK, NEW tl \in Timelines
  PROVE  MetaOf(tl) \in MetaFiles
<1> DEFINE ids == [i \in 1..Len(blocks[tl]) |-> blocks[tl][i].id]
<1>1. blocks[tl] \in Seq(Blocks) /\ Len(blocks[tl]) \in Nat
  BY SeqLength DEF TypeOK
<1>2. \A i \in 1..Len(blocks[tl]) : blocks[tl][i].id \in CallIds
  <2>1. \A i \in 1..Len(blocks[tl]) : blocks[tl][i] \in Blocks
    BY <1>1, SeqElement
  <2> QED BY <2>1 DEF Blocks
<1>3. ids \in [1..Len(blocks[tl]) -> CallIds]
  BY <1>1, <1>2
<1>4. ids \in Seq(CallIds)
  BY <1>1, <1>3, SeqOfFunction
<1> HIDE DEF ids
<1>5. MetaOf(tl) = [status |-> "ok", last |-> lastSeqID[tl], ids |-> ids]
  BY DEF MetaOf, ids
<1>6. lastSeqID[tl] \in Nat
  BY DEF TypeOK
<1>7. PICK last \in Nat, js \in Seq(CallIds) :
        MetaOf(tl) = [status |-> "ok", last |-> last, ids |-> js]
  BY Zenon, <1>4, <1>5, <1>6
<1>8. MetaOf(tl) \in MetaFiles
  <2>1. "ok" \in FileStatus
    BY Zenon DEF FileStatus
  <2>2. [status |-> "ok", last |-> last, ids |-> js] \in MetaFiles
    BY <2>1 DEF MetaFiles
  <2> QED BY Zenon, <1>7, <2>2
<1> QED BY <1>8

LEMMA SaveMetadataType ==
  ASSUME TypeInv, NEW p \in Writers, SaveMetadata(p)
  PROVE  TypeInv'
<1> USE DEF TypeInv
<1>1. /\ p \in Procs /\ pc[p] = "saveMeta" /\ Tl(p) \in Timelines
      /\ msg[p] \in Messages /\ pos[p] \in 1..Len(targets[p])
      /\ Len(targets[p]) \in Nat
  BY Zenon, TlType, SeqLength DEF SaveMetadata, TypeOK, InCall, InCallAt, Procs
<1>2. /\ metaFile' \in [Timelines -> MetaFiles]
      /\ UNCHANGED <<memVars, blockFile, msg, targets, blk, capRead, since,
                     fetched, calls, reads, delivered, crashes, faults>>
  BY Zenon, <1>1, MetaOfType DEF SaveMetadata, TypeOK
<1>3. CASE LastTarget(p)
  <2>1. /\ pc' = [pc EXCEPT ![p] = "idle"] /\ pos' = pos
        /\ acked' = acked \cup
             {[msg |-> msg[p], at |-> targets[p], boot |-> crashes]}
    BY <1>3 DEF SaveMetadata
  <2>2. [msg |-> msg[p], at |-> targets[p], boot |-> crashes]
          \in [msg : Messages, at : Seq(Timelines), boot : 0..MaxCrashes]
    BY <1>1 DEF TypeOK
  <2>3. TypeOK'
    BY Zenon, <1>2, <2>1, <2>2 DEF TypeOK, WriterPCs, memVars
  <2> QED BY Zenon, <1>1, <1>2, <2>1, <2>3, WriterStays DEF memVars
<1>4. CASE ~LastTarget(p)
  <2>1. pos' = [pos EXCEPT ![p] = pos[p] + 1] /\ UNCHANGED <<pc, acked>>
    BY <1>4 DEF SaveMetadata
  <2>2. pos[p] + 1 \in 1..Len(targets[p])
    BY <1>1, <1>4 DEF LastTarget
  <2>3. TypeOK'
    <3>0. pos \in [Procs -> Nat]
      BY DEF TypeOK
    <3>1. pos' \in [Procs -> Nat]
      <4>1. PICK n \in Nat : n = pos[p] + 1
        BY <1>1, <3>0
      <4>2. pos' = [pos EXCEPT ![p] = n]
        BY Zenon, <2>1, <4>1
      <4> QED BY <1>1, <3>0, <4>2
    <3> QED BY Zenon, <1>2, <2>1, <3>1 DEF TypeOK, memVars
  <2>4. OnlyAt(p) /\ MemoryGrows(p)
    <3>1. MemoryGrows(p)
      BY <1>1, <1>2, <2>1, MemoryKept DEF memVars
    <3>2. OnlyAt(p)
      BY <1>2, <2>1 DEF OnlyAt, TypeOK
    <3> QED BY <3>1, <3>2
  <2>5. pos'[p] \in 1..Len(targets[p])
    BY <1>1, <2>1, <2>2 DEF TypeOK
  <2>6. InCallAt(p)'
    BY <1>1, <1>2, <2>1, <2>5, ProcsAssumption DEF InCallAt, WriterPCs, memVars
  <2> QED BY <1>1, <2>3, <2>4, <2>6, InCallPreserved
<1> QED BY <1>3, <1>4

LEMMA SaveMetadataFailsType ==
  ASSUME TypeInv, NEW p \in Writers, SaveMetadataFails(p)
  PROVE  TypeInv'
<1>1. BadMetaFile \in MetaFiles
  BY DEF BadMetaFile, MetaFiles, FileStatus
<1>2. PICK f \in MetaFiles : metaFile' = [metaFile EXCEPT ![Tl(p)] = f]
  <2>1. PICK torn \in {FALSE, TornWrites} :
          metaFile' = [metaFile EXCEPT ![Tl(p)] =
                         IF torn THEN BadMetaFile ELSE metaFile[Tl(p)]]
    BY Zenon DEF SaveMetadataFails
  <2>2. metaFile[Tl(p)] \in MetaFiles
    BY Zenon, TlType DEF SaveMetadataFails, TypeInv, TypeOK, Procs
  <2> QED BY Zenon, <1>1, <2>1, <2>2
<1>3. faults' \in 0..MaxFaults
  <2>1. faults \in 0..MaxFaults
    BY DEF TypeInv, TypeOK
  <2>2. faults < MaxFaults /\ faults' = faults + 1
    BY Zenon DEF SaveMetadataFails
  <2> QED BY <2>1, <2>2, BoundsAssumption
<1>4. TypeOK'
  BY Zenon, <1>2, <1>3 DEF SaveMetadataFails, TypeInv, TypeOK, WriterPCs, memVars
<1> QED BY Zenon, <1>4, WriterStays DEF SaveMetadataFails, memVars

-----------------------------------------------------------------------------
LEMMA StartSyncType ==
  ASSUME TypeInv, NEW p \in Readers, StartSync(p)
  PROVE  TypeInv'
<1> USE DEF TypeInv
<1>1. PICK u \in Users : /\ targets' = [targets EXCEPT ![p] = <<u>>]
                         /\ since' = [since EXCEPT ![p] = checkpoints[u]]
  BY Zenon DEF StartSync
<1>2. /\ p \in Procs /\ u \in Timelines /\ <<u>> \in Seq(Timelines)
      /\ Len(<<u>>) = 1
  BY DEF Procs, Timelines
<1>3. /\ reads' \in 0..MaxReads
      /\ pos' = [pos EXCEPT ![p] = 1]
      /\ pc' = [pc EXCEPT ![p] = "getTimeline"]
      /\ UNCHANGED <<seqGenerator, currentCapacity, storeMu, loaded, blocks,
                     lastSeqID, checkpoints, blockFile, metaFile, msg, blk,
                     capRead, fetched, calls, acked, delivered, crashes, faults>>
  <2>1. reads \in 0..MaxReads
    BY DEF TypeOK
  <2>2. reads < MaxReads /\ reads' = reads + 1
    BY Zenon DEF StartSync
  <2>3. reads' \in 0..MaxReads
    BY <2>1, <2>2, BoundsAssumption
  <2> QED BY Zenon, <2>3 DEF StartSync, memVars, diskVars
<1> DEFINE ts == <<u>>
<1>4. ts \in Seq(Timelines) /\ Len(ts) = 1 /\ targets' = [targets EXCEPT ![p] = ts]
  BY <1>1, <1>2
<1> HIDE DEF ts
<1>5. TypeOK'
  BY Zenon, <1>1, <1>2, <1>3, <1>4 DEF TypeOK, ReaderPCs
<1>6. OnlyAt(p) /\ MemoryGrows(p)
  <2>1. MemoryGrows(p)
    BY <1>2, <1>3, MemoryKept
  <2>2. OnlyAt(p)
    BY <1>3, <1>4 DEF OnlyAt, TypeOK
  <2> QED BY <2>1, <2>2
<1>7. InCallAt(p)'
  <2>1. pc'[p] = "getTimeline" /\ pos'[p] = 1 /\ targets'[p] = ts
    BY <1>2, <1>3, <1>4 DEF TypeOK
  <2>2. p \notin Writers /\ pos'[p] \in 1..Len(targets'[p])
    <3>1. p \notin Writers
      BY ProcsAssumption
    <3>2. Len(ts) = 1
      BY Zenon, <1>4
    <3>3. Len(targets'[p]) = 1 /\ pos'[p] = 1
      BY Zenon, <2>1, <3>2
    <3> QED BY <3>1, <3>3
  <2>3. pc'[p] \in ReaderPCs
    BY <2>1 DEF ReaderPCs
  <2> QED BY <2>1, <2>2, <2>3 DEF InCallAt
<1> QED BY <1>2, <1>5, <1>6, <1>7, InCallPreserved

LEMMA PlaceType ==
  ASSUME TypeOK, NEW tl \in Timelines, NEW pl \in AllPlaces(tl)
  PROVE  MessageAt(tl, pl) \in Messages
<1>1. PICK i \in 1..Len(blocks[tl]) : pl \in {i} \X (1..Len(blocks[tl][i].msgs))
  BY DEF AllPlaces
<1>2. pl[1] = i /\ pl[2] \in 1..Len(blocks[tl][i].msgs)
  BY <1>1
<1>3. blocks[tl] \in Seq(Blocks)
  BY DEF TypeOK
<1>4. blocks[tl][i] \in Blocks
  BY <1>3, SeqElement
<1>5. blocks[tl][i].msgs \in Seq(Messages)
  BY <1>4 DEF Blocks
<1>6. blocks[tl][i].msgs[pl[2]] \in Messages
  BY <1>2, <1>5, SeqElement
<1> QED BY <1>2, <1>6 DEF MessageAt

\* A reader ends, or goes on to store its checkpoint.
LEMMA ReaderStays ==
  ASSUME TypeInv, TypeOK', NEW p \in Readers, pc[p] # "idle",
         NEW to \in {"idle", "update"}, pc' = [pc EXCEPT ![p] = to],
         UNCHANGED <<pos, targets, msg, blk, loaded, blocks, storeMu>>
  PROVE  TypeInv'
<1> USE DEF TypeInv
<1>1. p \in Procs /\ InCallAt(p)
  BY DEF InCall, Procs
<1>2. OnlyAt(p) /\ MemoryGrows(p)
  BY Zenon, <1>1, OnlyMoved, MemoryKept
<1>3. pc'[p] = to
  BY <1>1 DEF TypeOK
<1>4. InCallAt(p)'
  BY <1>1, <1>3, ProcsAssumption DEF InCallAt, ReaderPCs
<1> QED BY <1>1, <1>2, <1>4, InCallPreserved

LEMMA FetchType ==
  ASSUME TypeInv, NEW p \in Readers, Fetch(p)
  PROVE  TypeInv'
<1> DEFINE tl == Tl(p)
           result == PlacesAfter(tl, since[p])
<1>1. p \in Procs /\ pc[p] = "fetch" /\ tl \in Timelines
  BY TlType DEF Fetch, Procs
<1>2. \A pl \in result : MessageAt(tl, pl) \in Messages
  BY <1>1, PlaceType DEF PlacesAfter, TypeInv
<1>3. /\ delivered' = [delivered EXCEPT ![tl] =
                          delivered[tl] \cup {MessageAt(tl, pl) : pl \in result}]
      /\ UNCHANGED <<seqGenerator, currentCapacity, storeMu, loaded, blocks,
                     lastSeqID, checkpoints, blockFile, metaFile, msg, targets,
                     pos, blk, capRead, since, calls, reads, acked, crashes,
                     faults>>
  BY DEF Fetch, memVars, diskVars
<1>4. delivered' \in [Users -> SUBSET Messages]
  <2>1. delivered \in [Users -> SUBSET Messages]
    BY DEF TypeInv, TypeOK
  <2>2. {MessageAt(tl, pl) : pl \in result} \in SUBSET Messages
    BY <1>2
  <2> HIDE DEF tl, result
  <2> QED BY Zenon, <1>3, <2>1, <2>2
<1>5. PICK to \in {"idle", "update"} :
        /\ pc' = [pc EXCEPT ![p] = to]
        /\ fetched' \in [Procs -> Nat]
  <2>1. CASE pc' = [pc EXCEPT ![p] = "idle"] /\ UNCHANGED fetched
    BY <2>1 DEF TypeInv, TypeOK
  <2>2. CASE \E last \in result :
               /\ fetched' = [fetched EXCEPT ![p] = MessageAt(tl, last).seq]
               /\ pc' = [pc EXCEPT ![p] = "update"]
    <3>1. PICK last \in result :
               /\ fetched' = [fetched EXCEPT ![p] = MessageAt(tl, last).seq]
               /\ pc' = [pc EXCEPT ![p] = "update"]
      BY Zenon, <2>2
    <3>2. MessageAt(tl, last).seq \in Nat
      BY <1>2 DEF Messages
    <3>3. fetched' \in [Procs -> Nat]
      BY <3>1, <3>2, <1>1 DEF TypeInv, TypeOK
    <3> QED BY <3>1, <3>3
  <2> QED BY <2>1, <2>2 DEF Fetch
<1>6. TypeOK'
  BY Zenon, <1>3, <1>4, <1>5 DEF TypeInv, TypeOK, ReaderPCs
<1> QED BY Zenon, <1>1, <1>3, <1>5, <1>6, ReaderStays

LEMMA UpdateUserCheckpointType ==
  ASSUME TypeInv, NEW p \in Readers, UpdateUserCheckpoint(p)
  PROVE  TypeInv'
<1>1. fetched[p] \in Nat
  BY DEF TypeInv, TypeOK, Procs
<1>2. TypeOK'
  BY Zenon, <1>1 DEF UpdateUserCheckpoint, TypeInv, TypeOK, ReaderPCs, diskVars, histVars
<1> QED BY Zenon, <1>2, ReaderStays DEF UpdateUserCheckpoint

LEMMA CrashType ==
  ASSUME TypeInv, Crash
  PROVE  TypeInv'
<1> USE DEF TypeInv
<1>1. blockFile' \in [BlockIds -> BlockFiles]
  <2>1. PICK left :
          /\ \A p \in SavingProcs :
               left[p] \in Interrupted(SavedBlock(p).msgs)
          /\ blockFile' =
               [b \in BlockIds |->
                  IF b \in SavingIds
                    THEN left[CHOOSE p \in SavingProcs :
                                b = <<Tl(p), SavedBlock(p).id>>]
                    ELSE blockFile[b]]
    BY DEF Crash
  <2>2. \A p \in SavingProcs : left[p] \in BlockFiles
    BY Zenon, <2>1, SavedBlockType, InterruptedType DEF SavingProcs
  <2>3. \A b \in SavingIds :
          (CHOOSE p \in SavingProcs : b = <<Tl(p), SavedBlock(p).id>>)
            \in SavingProcs
    BY DEF SavingIds
  <2>4. ASSUME NEW b \in BlockIds PROVE blockFile'[b] \in BlockFiles
    BY Zenon, <2>1, <2>2, <2>3 DEF TypeOK
  <2>5. blockFile' = [b \in BlockIds |-> blockFile'[b]]
    BY <2>1
  <2> QED BY <2>4, <2>5
<1>2. metaFile' \in [Timelines -> MetaFiles]
  <2>1. BadMetaFile \in MetaFiles
    BY DEF BadMetaFile, MetaFiles, FileStatus
  <2>2. PICK torn :
          metaFile' = [tl \in Timelines |->
                         IF tl \in torn THEN BadMetaFile ELSE metaFile[tl]]
    BY Zenon DEF Crash
  <2> QED BY <2>1, <2>2 DEF TypeOK
<1>6. faults' \in 0..MaxFaults
  <2>1. faults' = faults \/ (faults < MaxFaults /\ faults' = faults + 1)
    BY DEF Crash
  <2> QED BY <2>1, BoundsAssumption DEF TypeOK
<1>0. crashes' \in 0..MaxCrashes
  <2>1. crashes < MaxCrashes /\ crashes' = crashes + 1
    BY DEF Crash
  <2> QED BY <2>1, BoundsAssumption DEF TypeOK
<1>3. /\ seqGenerator' = 0 /\ currentCapacity' = 0 /\ storeMu' = NoProc
      /\ loaded' = {}
      /\ blocks' = [tl \in Timelines |-> << >>]
      /\ lastSeqID' = [tl \in Timelines |-> 0]
      /\ checkpoints' = [u \in Users |-> 0]
      /\ pc' = [p \in Procs |-> "idle"]
      /\ msg' = [p \in Procs |-> NoMessage]
      /\ targets' = [p \in Procs |-> << >>]
      /\ pos' = [p \in Procs |-> 0] /\ blk' = [p \in Procs |-> 0]
      /\ capRead' = [p \in Procs |-> 0]
      /\ since' = [p \in Procs |-> 0] /\ fetched' = [p \in Procs |-> 0]
      /\ UNCHANGED <<calls, reads, acked, delivered>>
  BY Zenon DEF Crash
<1>4. TypeOK'
  <2>1. /\ blocks' \in [Timelines -> Seq(Blocks)]
        /\ targets' \in [Procs -> Seq(Timelines)]
    BY <1>3, SeqEmpty
  <2> QED BY <1>0, <1>1, <1>2, <1>3, <1>6, <2>1 DEF TypeOK, WriterPCs
<1>5. InCall'
  BY <1>3 DEF InCall, InCallAt, WriterPCs, ReaderPCs
<1> QED BY <1>4, <1>5

LEMMA StutterType ==
  ASSUME TypeInv, UNCHANGED vars
  PROVE  TypeInv'
<1>1. TypeOK'
  BY Zenon DEF TypeInv, TypeOK, vars, memVars, diskVars, goVars, histVars
<1>2. InCall'
  <2> SUFFICES ASSUME NEW p \in Procs PROVE InCallAt(p)'
    BY DEF InCall
  <2>1. InCallAt(p)
    BY DEF TypeInv, InCall
  <2> QED BY <2>1 DEF InCallAt, Tl, vars, memVars, goVars
<1> QED BY <1>1, <1>2 DEF TypeInv

LEMMA NextType ==
  ASSUME TypeInv, [Next]_vars
  PROVE  TypeInv'
<1>1. ASSUME NEW p \in Writers, AddMessage(p) PROVE TypeInv'
  BY <1>1, AddMessageType
<1>2. ASSUME NEW p \in Writers, WriterStep(p) PROVE TypeInv'
  BY <1>2, AppendMessageType, AppendAndFillType, AppendRefusedType,
     SaveBlockType, AddCapacityType, RelockType, SaveMetadataType
     DEF WriterStep
<1>3. ASSUME NEW p \in Writers, Fault(p) PROVE TypeInv'
  BY <1>3, SaveBlockFailsType, SaveMetadataFailsType DEF Fault
<1>4. ASSUME NEW p \in Procs, TimelineStep(p) PROVE TypeInv'
  BY <1>4, GetTimelineType, LoadTimelineType, DecideRaiseType, RaiseAndLoadType
     DEF TimelineStep
<1>5. ASSUME NEW p \in Readers, StartSync(p) \/ ReaderStep(p) PROVE TypeInv'
  BY <1>5, StartSyncType, FetchType, UpdateUserCheckpointType DEF ReaderStep
<1>6. CASE Crash
  BY <1>6, CrashType
<1>7. CASE UNCHANGED vars
  BY <1>7, StutterType
<1> QED BY <1>1, <1>2, <1>3, <1>4, <1>5, <1>6, <1>7 DEF Next

\* The Store, its files and its goroutines keep their types, whatever the
\* interleaving, write errors and restarts of timeline.go.
THEOREM TypeCorrect == Spec => []TypeOK
<1>1. Init => TypeInv
  BY InitType
<1>2. TypeInv /\ [Next]_vars => TypeInv'
  BY NextType
<1>3. TypeInv => TypeOK
  BY DEF TypeInv
<1> QED BY <1>1, <1>2, <1>3, PTL DEF Spec

-----------------------------------------------------------------------------

FilesBounded ==
  \A b \in BlockIds : Len(blockFile[b].msgs) <= TimelineMaxSize

BlockInv == BlocksWellFormed /\ SaverOwnsBlock /\ FilesBounded

Saving(p) == pc[p] \in {"saveBlock", "addCapacity"}

LEMMA OneMore ==
  ASSUME NEW n \in Nat
  PROVE  /\ n <= n + 1 /\ n <= n
         /\ \A i \in 1..n : i < n + 1 /\ (i < n \/ i = n)
         /\ \A i \in 1..(n + 1) : i < n + 1 => i \in 1..n
OBVIOUS

LEMMA AppendWellFormed ==
  ASSUME TypeOK, NEW tl \in Timelines, NEW m \in Messages,
         WellFormed(blocks[tl])
  PROVE  WellFormed(WithMessage(tl, m))
<1> DEFINE bs == WithMessage(tl, m)
           n == Len(blocks[tl])
<1> USE SizesAssumption
<1>1. /\ bs \in Seq(Blocks)
      /\ Len(bs) = IF NeedsBlock(tl) THEN n + 1 ELSE n
      /\ Len(bs) >= 1
      /\ \A i \in 1..n : i < Len(bs) => bs[i] = blocks[tl][i]
      /\ ~NeedsBlock(tl) => bs[n].msgs = Append(blocks[tl][n].msgs, m)
      /\ ~NeedsBlock(tl) => bs[n].id = blocks[tl][n].id
      /\ ~NeedsBlock(tl) => n >= 1 /\ ~blocks[tl][n].full
      /\ NeedsBlock(tl) => bs[Len(bs)].msgs = <<m>>
      /\ bs[Len(bs)].full = (Len(bs[Len(bs)].msgs) >= TimelineMaxSize)
  BY WithMessageProperties, ZenonT(40)
<1> HIDE DEF bs
<1>a. /\ bs \in Seq(Blocks)
      /\ Len(bs) = IF NeedsBlock(tl) THEN n + 1 ELSE n
      /\ \A i \in 1..n : i < Len(bs) => bs[i] = blocks[tl][i]
      /\ ~NeedsBlock(tl) => n >= 1
  BY <1>1, Zenon
<1>2. n \in Nat /\ blocks[tl] \in Seq(Blocks)
  BY SeqLength DEF TypeOK
<1> SUFFICES ASSUME NEW i \in 1..Len(bs)
             PROVE  /\ Len(bs[i].msgs) <= TimelineMaxSize
                    /\ ~bs[i].full =>
                         /\ i = Len(bs)
                         /\ Len(bs[i].msgs) \in 1..(TimelineMaxSize - 1)
  BY DEF WellFormed, bs
<1>3. ~bs[Len(bs)].full => ~(Len(bs[Len(bs)].msgs) >= TimelineMaxSize)
  BY <1>1, Zenon
<1>4. CASE i < Len(bs)
  <2>0. n \in Nat /\ Len(bs) \in {n, n + 1}
    BY Zenon, <1>a, <1>2
  <2>a. i \in 1..n
    BY Zenon, <2>0, <1>4, OneMore
  <2>1. i \in 1..n /\ bs[i] = blocks[tl][i]
    BY Zenon, <1>a, <2>a, <1>4
  <2>2. Len(blocks[tl][i].msgs) <= TimelineMaxSize
    BY <2>1 DEF WellFormed
  <2>3. CASE i < n
    BY <2>1, <2>2, <2>3, <1>2 DEF WellFormed
  <2>4. CASE i = n
    <3>0. (~NeedsBlock(tl) => Len(bs) = n) /\ n \in Nat /\ n \in 1..n
      BY Zenon, <1>a, <1>2, <2>1, <2>4
    <3>1. NeedsBlock(tl) /\ n >= 1
      BY <2>4, <3>0, <1>4
    <3>2. blocks[tl] # << >>
      BY <3>1, <1>2, SeqEmpty
    <3>3. blocks[tl][n].full
      BY <3>1, <3>2 DEF NeedsBlock
    <3> QED BY <2>1, <2>2, <2>4, <3>3
  <2>5. i < n \/ i = n
    BY <2>0, <2>1
  <2> QED BY Zenon, <2>3, <2>4, <2>5
<1>5. CASE i = Len(bs)
  <2>1. CASE NeedsBlock(tl)
    <3>1. Len(bs[i].msgs) = 1
      BY Zenon, <1>1, <1>5, <2>1
    <3> QED BY <1>5, <1>3, <3>1
  <2>2. CASE ~NeedsBlock(tl)
    <3> DEFINE old == blocks[tl][n].msgs
    <3>1. n \in 1..n /\ blocks[tl][n] \in Blocks
      BY <1>a, <1>2, <2>2, SeqElement
    <3>2. old \in Seq(Messages) /\ Len(old) \in Nat
      BY <3>1, SeqLength DEF Blocks
    <3>3. Len(old) \in 1..(TimelineMaxSize - 1)
      BY <3>1, <1>1, <2>2 DEF WellFormed
    <3>4. Len(bs[i].msgs) = Len(old) + 1
      <4>1. i = n
        BY <1>a, <1>5, <2>2
      <4>2. bs[i].msgs = Append(old, m)
        BY <1>1, <2>2, <4>1, Zenon
      <4> HIDE DEF old
      <4> QED BY <3>2, <4>2, SeqAppend
    <3> HIDE DEF old
    <3> QED BY <1>5, <1>3, <3>3, <3>4
  <2> QED BY Zenon, <2>1, <2>2
<1>6. Len(bs) \in Nat
  BY <1>a, <1>2
<1>7. i < Len(bs) \/ i = Len(bs)
  BY <1>6
<1> QED BY Zenon, <1>4, <1>5, <1>7

LEMMA LoadWellFormed ==
  ASSUME TypeOK, FilesBounded, NEW tl \in Timelines,
         NEW order \in LoadOrders(tl)
  PROVE  WellFormed(LoadedBlocks(tl, order))
<1> SUFFICES ASSUME NEW i \in 1..Len(LoadedBlocks(tl, order))
             PROVE  /\ LoadedBlocks(tl, order)[i].full
                    /\ Len(LoadedBlocks(tl, order)[i].msgs) <= TimelineMaxSize
  BY DEF WellFormed
<1>1. /\ LoadedBlocks(tl, order)[i].full
      /\ \E b \in CallIds :
           LoadedBlocks(tl, order)[i].msgs = blockFile[<<tl, b>>].msgs
  BY Zenon, LoadedBlocksProperties
<1>2. \A b \in CallIds : <<tl, b>> \in BlockIds
  BY DEF BlockIds
<1> QED BY <1>1, <1>2 DEF FilesBounded

\* A step that keeps the full blocks full, and after which only writers that
\* were saving are saving, and what they were saving.
LEMMA SaversKept ==
  ASSUME TypeInv, SaverOwnsBlock,
         \A q \in Writers : Saving(q)' =>
           Saving(q) /\ Tl(q)' = Tl(q) /\ blk'[q] = blk[q],
         \A tl \in loaded : \A i \in 1..Len(blocks[tl]) : blocks[tl][i].full =>
           i \in 1..Len(blocks'[tl]) /\ blocks'[tl][i].full
  PROVE  SaverOwnsBlock'
<1> SUFFICES ASSUME NEW p \in Writers, Saving(p)'
             PROVE  /\ blk'[p] \in 1..Len(blocks'[Tl(p)'])
                    /\ SavedBlock(p)'.full
                    /\ \A q \in Writers \ {p} :
                         Saving(q)' /\ Tl(q)' = Tl(p)' => blk'[q] # blk'[p]
  BY DEF SaverOwnsBlock, Saving
<1>1. /\ Saving(p) /\ Tl(p)' = Tl(p) /\ blk'[p] = blk[p] /\ Tl(p) \in loaded
      /\ blk[p] \in 1..Len(blocks[Tl(p)]) /\ SavedBlock(p).full
      /\ \A q \in Writers \ {p} :
           Saving(q) /\ Tl(q) = Tl(p) => blk[q] # blk[p]
  BY DEF SaverOwnsBlock, Saving, TypeInv, InCall, InCallAt, Procs
<1>2. blk[p] \in 1..Len(blocks'[Tl(p)]) /\ blocks'[Tl(p)][blk[p]].full
  BY <1>1 DEF SavedBlock
<1>3. SavedBlock(p)' = blocks'[Tl(p)][blk[p]]
  BY <1>1 DEF SavedBlock
<1>4. ASSUME NEW q \in Writers \ {p}, Saving(q)', Tl(q)' = Tl(p)'
      PROVE  blk'[q] # blk'[p]
  <2>1. Saving(q) /\ Tl(q)' = Tl(q) /\ blk'[q] = blk[q]
    BY <1>4
  <2> QED BY <1>1, <1>4, <2>1
<1> QED BY <1>1, <1>2, <1>3, <1>4

\* The steps of p that touch neither the blocks nor their files and do not
\* start a save.
LEMMA QuietStep ==
  ASSUME TypeInv, BlockInv, NEW p \in Procs, OnlyAt(p),
         UNCHANGED <<blocks, loaded, blockFile>>,
         ~Saving(p)'
  PROVE  BlockInv'
<1>1. BlocksWellFormed'
  BY DEF BlockInv, BlocksWellFormed
<1>2. FilesBounded'
  BY DEF BlockInv, FilesBounded
<1>3. ASSUME NEW q \in Writers, Saving(q)'
      PROVE  Saving(q) /\ Tl(q)' = Tl(q) /\ blk'[q] = blk[q]
  <2>1. q \in Procs \ {p}
    BY <1>3 DEF Procs
  <2>2. /\ pc'[q] = pc[q] /\ pos'[q] = pos[q] /\ targets'[q] = targets[q]
        /\ blk'[q] = blk[q]
    BY <2>1 DEF OnlyAt
  <2> QED BY <1>3, <2>2 DEF Saving, Tl
<1>4. SaverOwnsBlock'
  BY <1>3, SaversKept DEF BlockInv
<1> QED BY <1>1, <1>2, <1>4 DEF BlockInv

LEMMA AddMessageBlocks ==
  ASSUME TypeInv, BlockInv, NEW p \in Writers, AddMessage(p)
  PROVE  BlockInv'
<1>1. p \in Procs /\ pc'[p] = "getTimeline"
  BY DEF AddMessage, TypeInv, TypeOK, Procs
<1>2. UNCHANGED <<blocks, loaded, blockFile>>
  BY DEF AddMessage, diskVars
<1>3. OnlyAt(p)
  BY <1>1 DEF AddMessage, OnlyAt, TypeInv, TypeOK
<1> QED BY <1>1, <1>2, <1>3, QuietStep DEF Saving

LEMMA GetTimelineBlocks ==
  ASSUME TypeInv, BlockInv, NEW p \in Procs, GetTimeline(p)
  PROVE  BlockInv'
<1>1. pc'[p] \in {"append", "fetch"}
  BY DEF GetTimeline, AfterGet, TypeInv, TypeOK
<1>2. UNCHANGED <<blocks, loaded, blockFile>>
  BY DEF GetTimeline, memVars, diskVars
<1>3. OnlyAt(p)
  BY DEF GetTimeline, OnlyAt, TypeInv, TypeOK
<1> QED BY <1>1, <1>2, <1>3, QuietStep DEF Saving

LEMMA DecideRaiseBlocks ==
  ASSUME TypeInv, BlockInv, NEW p \in Procs, DecideRaise(p)
  PROVE  BlockInv'
<1>1. pc'[p] = "raise"
  BY DEF DecideRaise, TypeInv, TypeOK
<1>2. UNCHANGED <<blocks, loaded, blockFile>>
  BY DEF DecideRaise, diskVars
<1>3. OnlyAt(p)
  BY DEF DecideRaise, OnlyAt, TypeInv, TypeOK
<1> QED BY <1>1, <1>2, <1>3, QuietStep DEF Saving

\* Steps of a writer that end the call or go on to the relock.
LEMMA LeavingBlocks ==
  ASSUME TypeInv, BlockInv, NEW p \in Writers,
         AppendRefused(p) \/ AddCapacity(p) \/ SaveMetadataFails(p)
  PROVE  BlockInv'
<1>1. p \in Procs /\ pc'[p] \in {"idle", "relock"}
  BY DEF AppendRefused, AddCapacity, SaveMetadataFails, TypeInv, TypeOK, Procs
<1>2. UNCHANGED <<blocks, loaded, blockFile>>
  BY DEF AppendRefused, AddCapacity, SaveMetadataFails, memVars, diskVars
<1>3. OnlyAt(p)
  BY Zenon, <1>1 DEF AppendRefused, AddCapacity, SaveMetadataFails, OnlyAt, TypeInv,
     TypeOK
<1> QED BY <1>1, <1>2, <1>3, QuietStep DEF Saving

LEMMA RelockBlocks ==
  ASSUME TypeInv, BlockInv, NEW p \in Writers, Relock(p)
  PROVE  BlockInv'
<1>1. p \in Procs /\ pc[p] # "idle" /\ Advance(p)
  BY DEF Relock, Procs
<1>2. /\ pc'[p] \in {"saveMeta", "getTimeline"}
      /\ \A q \in Procs \ {p} : pc'[q] = pc[q] /\ pos'[q] = pos[q]
  BY <1>1, AdvanceType
<1>3. UNCHANGED <<blocks, loaded, blockFile, msg, targets, blk>>
  BY DEF Relock, diskVars
<1>4. OnlyAt(p)
  BY <1>2, <1>3 DEF OnlyAt
<1> QED BY <1>1, <1>2, <1>3, <1>4, QuietStep DEF Saving

LEMMA SaveMetadataBlocks ==
  ASSUME TypeInv, BlockInv, NEW p \in Writers, SaveMetadata(p)
  PROVE  BlockInv'
<1>1. p \in Procs /\ pc'[p] \in {"idle", "saveMeta"}
  BY DEF SaveMetadata, TypeInv, TypeOK, Procs
<1>2. UNCHANGED <<blocks, loaded, blockFile>>
  BY DEF SaveMetadata, memVars
<1>3. OnlyAt(p)
  BY Zenon, <1>1 DEF SaveMetadata, OnlyAt, TypeInv, TypeOK
<1> QED BY <1>1, <1>2, <1>3, QuietStep DEF Saving

LEMMA ReaderBlocks ==
  ASSUME TypeInv, BlockInv, NEW p \in Readers,
         StartSync(p) \/ Fetch(p) \/ UpdateUserCheckpoint(p)
  PROVE  BlockInv'
<1>1. p \in Procs /\ pc'[p] \in {"getTimeline", "idle", "update"}
  BY DEF StartSync, Fetch, UpdateUserCheckpoint, TypeInv, TypeOK, Procs
<1>2. UNCHANGED <<blocks, loaded, blockFile>>
  BY DEF StartSync, Fetch, UpdateUserCheckpoint, memVars, diskVars
<1>3. OnlyAt(p)
  BY Zenon, <1>1 DEF StartSync, Fetch, UpdateUserCheckpoint, OnlyAt, TypeInv, TypeOK
<1> QED BY <1>1, <1>2, <1>3, QuietStep DEF Saving

\* Loading gives a timeline that was not in memory, so nobody is saving one
\* of its blocks.
LEMMA InsertBlocks ==
  ASSUME TypeInv, BlockInv, NEW p \in Procs, OnlyAt(p),
         Tl(p) \in Timelines, Tl(p) \notin loaded,
         InsertTimeline(Tl(p)), blockFile' = blockFile, ~Saving(p)'
  PROVE  BlockInv'
<1> DEFINE tl == Tl(p)
<1>1. PICK order \in LoadOrders(tl) :
        blocks' = [blocks EXCEPT ![tl] = LoadedBlocks(tl, order)]
  BY Zenon DEF InsertTimeline
<1>2. loaded' = loaded \cup {tl}
  BY DEF InsertTimeline
<1>3. WellFormed(LoadedBlocks(tl, order))
  BY LoadWellFormed DEF TypeInv, BlockInv
<1> HIDE DEF tl
<1>4. blocks \in [Timelines -> Seq(Blocks)]
  BY DEF TypeInv, TypeOK
<1>5. \A t \in Timelines : blocks'[t] =
        IF t = tl THEN LoadedBlocks(tl, order) ELSE blocks[t]
  BY <1>1, <1>4
<1>6. BlocksWellFormed'
  <2> SUFFICES ASSUME NEW t \in Timelines
               PROVE  /\ t \notin loaded' => blocks'[t] = << >>
                      /\ WellFormed(blocks'[t])
    BY DEF BlocksWellFormed, WellFormed
  <2>1. CASE t = tl
    BY <1>2, <1>3, <1>5, <2>1
  <2>2. CASE t # tl
    BY <1>2, <1>5, <2>2 DEF BlockInv, BlocksWellFormed
  <2> QED BY <2>1, <2>2
<1>7. FilesBounded'
  BY DEF BlockInv, FilesBounded
<1>8. ASSUME NEW q \in Writers, Saving(q)'
      PROVE  Saving(q) /\ Tl(q)' = Tl(q) /\ blk'[q] = blk[q]
  <2>1. q \in Procs \ {p}
    BY <1>8 DEF Procs
  <2>2. /\ pc'[q] = pc[q] /\ pos'[q] = pos[q] /\ targets'[q] = targets[q]
        /\ blk'[q] = blk[q]
    BY <2>1 DEF OnlyAt
  <2> QED BY <1>8, <2>2 DEF Saving, Tl
<1>9. \A t \in loaded : blocks'[t] = blocks[t]
  BY <1>5 DEF tl, TypeInv, TypeOK
<1>10. SaverOwnsBlock'
  BY <1>8, <1>9, SaversKept DEF BlockInv
<1> QED BY <1>6, <1>7, <1>10 DEF BlockInv

LEMMA LoadTimelineBlocks ==
  ASSUME TypeInv, BlockInv, NEW p \in Procs, LoadTimeline(p)
  PROVE  BlockInv'
<1>1. /\ pc[p] # "idle" /\ Tl(p) \notin loaded /\ InsertTimeline(Tl(p))
      /\ blockFile' = blockFile
  BY DEF LoadTimeline, diskVars
<1>2. pc'[p] \in {"append", "fetch"}
  BY DEF LoadTimeline, AfterGet, TypeInv, TypeOK
<1>3. OnlyAt(p)
  BY DEF LoadTimeline, OnlyAt, TypeInv, TypeOK
<1> QED BY <1>1, <1>2, <1>3, TlType, InsertBlocks DEF Saving

LEMMA RaiseAndLoadBlocks ==
  ASSUME TypeInv, BlockInv, NEW p \in Procs, RaiseAndLoad(p)
  PROVE  BlockInv'
<1>1. /\ pc[p] = "raise" /\ InsertTimeline(Tl(p)) /\ blockFile' = blockFile
  BY DEF RaiseAndLoad, diskVars
<1>2. pc'[p] \in {"append", "fetch"}
  BY DEF RaiseAndLoad, AfterGet, TypeInv, TypeOK
<1>3. OnlyAt(p)
  BY DEF RaiseAndLoad, OnlyAt, TypeInv, TypeOK
<1>4. Tl(p) \notin loaded
  BY <1>1 DEF TypeInv, InCall, InCallAt
<1> QED BY <1>1, <1>2, <1>3, <1>4, TlType, InsertBlocks DEF Saving

LEMMA InLonger ==
  ASSUME NEW n \in Nat, NEW i \in 1..n
  PROVE  i \in 1..(n + 1) /\ i # n + 1
OBVIOUS

\* Appending: the blocks of the other timelines, and the full blocks of this
\* one, stay as they are.
LEMMA AppendKeeps ==
  ASSUME TypeInv, BlockInv, NEW p \in Writers, pc[p] = "append",
         blocks' = [blocks EXCEPT ![Tl(p)] = WithMessage(Tl(p), msg[p])],
         loaded' = loaded
  PROVE  /\ BlocksWellFormed'
         /\ \A tl \in loaded : \A i \in 1..Len(blocks[tl]) :
              blocks[tl][i].full =>
                /\ i \in 1..Len(blocks'[tl]) /\ blocks'[tl][i].full
                /\ tl = Tl(p) => i # Len(blocks'[tl])
<1> DEFINE tl == Tl(p)
           bs == WithMessage(tl, msg[p])
<1>1. p \in Procs /\ msg[p] \in Messages /\ tl \in Timelines /\ tl \in loaded
  BY TlType DEF TypeInv, InCall, InCallAt, Procs
<1>2. /\ bs \in Seq(Blocks)
      /\ Len(bs) = IF NeedsBlock(tl) THEN Len(blocks[tl]) + 1
                                     ELSE Len(blocks[tl])
      /\ \A i \in 1..Len(blocks[tl]) : i < Len(bs) => bs[i] = blocks[tl][i]
      /\ ~NeedsBlock(tl) => ~blocks[tl][Len(blocks[tl])].full
  BY <1>1, WithMessageProperties DEF TypeInv
<1>3. WellFormed(bs)
  BY <1>1, AppendWellFormed DEF TypeInv, BlockInv, BlocksWellFormed
<1>4. Len(blocks[tl]) \in Nat
  BY <1>1, SeqLength DEF TypeInv, TypeOK
<1>5. \A t \in Timelines : blocks'[t] = IF t = tl THEN bs ELSE blocks[t]
  BY DEF TypeInv, TypeOK
<1> HIDE DEF tl, bs
<1>6. ASSUME NEW i \in 1..Len(blocks[tl]), blocks[tl][i].full
      PROVE  i \in 1..Len(bs) /\ bs[i].full /\ i # Len(bs)
  <2>1. i \in 1..Len(bs) /\ i # Len(bs)
    <3>1. CASE NeedsBlock(tl)
      BY Zenon, <1>2, <1>4, <3>1, InLonger
    <3>2. CASE ~NeedsBlock(tl)
      BY Zenon, <1>2, <1>6, <3>2
    <3> QED BY Zenon, <3>1, <3>2
  <2>2. bs[i] = blocks[tl][i]
    <3>1. Len(bs) \in Nat
      BY Zenon, <1>2, SeqLength
    <3>2. i < Len(bs)
      BY <2>1, <3>1
    <3> QED BY Zenon, <1>2, <3>2
  <2> QED BY <1>6, <2>1, <2>2
<1>7. BlocksWellFormed'
  <2> SUFFICES ASSUME NEW t \in Timelines
               PROVE  /\ t \notin loaded' => blocks'[t] = << >>
                      /\ WellFormed(blocks'[t])
    BY DEF BlocksWellFormed, WellFormed
  <2>1. CASE t = tl
    BY <1>1, <1>3, <1>5, <2>1
  <2>2. CASE t # tl
    BY <1>5, <2>2 DEF BlockInv, BlocksWellFormed
  <2> QED BY <2>1, <2>2
<1>8. ASSUME NEW t \in loaded, NEW i \in 1..Len(blocks[t]), blocks[t][i].full
      PROVE  /\ i \in 1..Len(blocks'[t]) /\ blocks'[t][i].full
             /\ t = tl => i # Len(blocks'[t])
  <2>1. t \in Timelines
    BY DEF TypeInv, TypeOK
  <2>2. CASE t = tl
    BY <1>6, <1>5, <1>8, <2>1, <2>2
  <2>3. CASE t # tl
    BY <1>5, <1>8, <2>1, <2>3
  <2> QED BY <2>2, <2>3
<1> QED BY <1>7, <1>8 DEF tl

LEMMA AppendMessageBlocks ==
  ASSUME TypeInv, BlockInv, NEW p \in Writers, AppendMessage(p)
  PROVE  BlockInv'
<1>1. /\ pc[p] = "append" /\ p \in Procs
      /\ blocks' = [blocks EXCEPT ![Tl(p)] = WithMessage(Tl(p), msg[p])]
      /\ Advance(p)
      /\ UNCHANGED <<loaded, blockFile, msg, targets, blk>>
  BY DEF AppendMessage, diskVars, Procs
<1>2. /\ pc'[p] \in {"saveMeta", "getTimeline"}
      /\ \A q \in Procs \ {p} : pc'[q] = pc[q] /\ pos'[q] = pos[q]
  BY <1>1, AdvanceType
<1>3. BlocksWellFormed'
  BY Zenon, <1>1, AppendKeeps
<1>4. FilesBounded'
  BY <1>1 DEF BlockInv, FilesBounded
<1>5. ASSUME NEW q \in Writers, Saving(q)'
      PROVE  Saving(q) /\ Tl(q)' = Tl(q) /\ blk'[q] = blk[q]
  <2>1. q \in Procs \ {p}
    BY <1>2, <1>5 DEF Procs, Saving
  <2> QED BY <1>1, <1>2, <1>5, <2>1 DEF Saving, Tl
<1>6. SaverOwnsBlock'
  BY Zenon, <1>1, <1>5, AppendKeeps, SaversKept DEF BlockInv
<1> QED BY <1>3, <1>4, <1>6 DEF BlockInv

\* The writer that fills a block starts to save it: no block that was full
\* before is the one it saves.
LEMMA AppendAndFillBlocks ==
  ASSUME TypeInv, BlockInv, NEW p \in Writers, AppendAndFill(p)
  PROVE  BlockInv'
<1> DEFINE tl == Tl(p)
           bs == WithMessage(tl, msg[p])
<1>1. /\ pc[p] = "append" /\ p \in Procs /\ bs[Len(bs)].full
      /\ blocks' = [blocks EXCEPT ![tl] = bs]
      /\ blk' = [blk EXCEPT ![p] = Len(bs)]
      /\ pc' = [pc EXCEPT ![p] = "saveBlock"]
      /\ UNCHANGED <<loaded, blockFile, msg, targets, pos>>
  BY DEF AppendAndFill, diskVars, Procs
<1>2. /\ BlocksWellFormed'
      /\ \A t \in loaded : \A i \in 1..Len(blocks[t]) :
           blocks[t][i].full =>
             /\ i \in 1..Len(blocks'[t]) /\ blocks'[t][i].full
             /\ t = tl => i # Len(blocks'[t])
  BY Zenon, <1>1, AppendKeeps
<1>3. msg[p] \in Messages /\ tl \in Timelines /\ tl \in loaded
  BY <1>1, TlType DEF TypeInv, InCall, InCallAt
<1>4. bs \in Seq(Blocks) /\ Len(bs) >= 1
  BY <1>3, WithMessageProperties DEF TypeInv
<1> HIDE DEF tl, bs
<1>5. /\ blk'[p] = Len(bs) /\ Len(bs) \in 1..Len(bs) /\ blocks'[tl] = bs
      /\ \A q \in Procs \ {p} : pc'[q] = pc[q] /\ blk'[q] = blk[q]
  <2>1. DOMAIN blk = Procs /\ DOMAIN pc = Procs /\ DOMAIN blocks = Timelines
    BY DEF TypeInv, TypeOK
  <2>2. Len(bs) \in Nat
    BY <1>4, SeqLength
  <2>3. Len(bs) \in 1..Len(bs)
    BY <1>4, <2>2
  <2> QED BY Zenon, <1>1, <1>3, <2>1, <2>3
<1>6. \A q \in Procs : Tl(q)' = Tl(q)
  BY <1>1 DEF Tl
<1>7. ASSUME NEW q \in Writers \ {p}, Saving(q)'
      PROVE  /\ Saving(q) /\ Tl(q)' = Tl(q) /\ blk'[q] = blk[q]
             /\ Tl(q) \in loaded
             /\ blk[q] \in 1..Len(blocks[Tl(q)]) /\ blocks[Tl(q)][blk[q]].full
             /\ \A r \in Writers \ {q} :
                  Saving(r) /\ Tl(r) = Tl(q) => blk[r] # blk[q]
  <2>1. q \in Procs \ {p}
    BY DEF Procs
  <2>2. Saving(q) /\ Tl(q)' = Tl(q) /\ blk'[q] = blk[q]
    BY <1>5, <1>6, <1>7, <2>1 DEF Saving
  <2>3. Tl(q) \in loaded
    BY <2>1, <2>2 DEF Saving, TypeInv, InCall, InCallAt
  <2> QED BY <2>2, <2>3 DEF BlockInv, SaverOwnsBlock, Saving, SavedBlock
<1>8. ASSUME NEW q \in Writers \ {p}, Saving(q)', Tl(q)' = tl
      PROVE  blk'[q] # Len(bs)
  BY <1>2, <1>3, <1>5, <1>7, <1>8
<1>9. ASSUME NEW q \in Writers, Saving(q)'
      PROVE  /\ blk'[q] \in 1..Len(blocks'[Tl(q)'])
             /\ SavedBlock(q)'.full
             /\ \A r \in Writers \ {q} :
                  Saving(r)' /\ Tl(r)' = Tl(q)' => blk'[r] # blk'[q]
  <2>1. CASE q = p
    <3>1. Tl(q)' = tl /\ SavedBlock(q)' = bs[Len(bs)]
      BY <1>1, <1>5, <1>6, <2>1 DEF SavedBlock, tl
    <3> QED BY <1>1, <1>5, <1>8, <2>1, <3>1
  <2>2. CASE q # p
    <3>1. /\ blk'[q] \in 1..Len(blocks'[Tl(q)'])
          /\ blocks'[Tl(q)'][blk'[q]].full
      BY <1>2, <1>7, <1>9, <2>2
    <3>2. ASSUME NEW r \in Writers \ {q}, Saving(r)', Tl(r)' = Tl(q)'
          PROVE  blk'[r] # blk'[q]
      <4>1. CASE r = p
        <5>1. Tl(q)' = tl
          BY <1>1, <1>6, <3>2, <4>1 DEF tl
        <5> QED BY <1>5, <1>8, <1>9, <2>2, <4>1, <5>1
      <4>2. CASE r # p
        <5>1. Saving(r) /\ Tl(r)' = Tl(r) /\ blk'[r] = blk[r]
          BY <1>7, <3>2, <4>2
        <5>2. /\ Saving(q) /\ Tl(q)' = Tl(q) /\ blk'[q] = blk[q]
              /\ \A w \in Writers \ {q} :
                   Saving(w) /\ Tl(w) = Tl(q) => blk[w] # blk[q]
          BY <1>7, <1>9, <2>2
        <5> QED BY Zenon, <3>2, <5>1, <5>2
      <4> QED BY <4>1, <4>2
    <3> QED BY <3>1, <3>2 DEF SavedBlock
  <2> QED BY <2>1, <2>2
<1>10. SaverOwnsBlock'
  BY <1>9 DEF SaverOwnsBlock, Saving
<1>11. FilesBounded'
  BY <1>1 DEF BlockInv, FilesBounded
<1> QED BY <1>2, <1>10, <1>11 DEF BlockInv

\* The block a writer saves fits in a block.
LEMMA SavedBlockFits ==
  ASSUME TypeInv, BlockInv, NEW p \in Writers, Saving(p)
  PROVE  Len(SavedBlock(p).msgs) <= TimelineMaxSize
<1>1. Tl(p) \in Timelines /\ blk[p] \in 1..Len(blocks[Tl(p)])
  BY Zenon, SavedBlockType DEF Saving, BlockInv, SaverOwnsBlock
<1>2. WellFormed(blocks[Tl(p)])
  BY <1>1 DEF BlockInv, BlocksWellFormed
<1> QED BY <1>1, <1>2 DEF WellFormed, SavedBlock

\* Writing one block file, whole or in part.
LEMMA FileWritten ==
  ASSUME TypeInv, BlockInv, NEW p \in Writers, Saving(p),
         NEW f \in BlockFiles, Len(f.msgs) <= TimelineMaxSize,
         blockFile' = [blockFile EXCEPT ![<<Tl(p), SavedBlock(p).id>>] = f]
  PROVE  FilesBounded'
<1>1. blockFile \in [BlockIds -> BlockFiles]
  BY DEF TypeInv, TypeOK
<1>2. ASSUME NEW b \in BlockIds
      PROVE  Len(blockFile'[b].msgs) <= TimelineMaxSize
  <2>1. blockFile'[b] = f \/ blockFile'[b] = blockFile[b]
    BY <1>1
  <2>2. Len(blockFile[b].msgs) <= TimelineMaxSize
    BY DEF BlockInv, FilesBounded
  <2>3. CASE blockFile'[b] = f
    BY <2>3
  <2>4. CASE blockFile'[b] = blockFile[b]
    BY <2>2, <2>4
  <2> QED BY <2>1, <2>3, <2>4
<1> QED BY <1>2 DEF FilesBounded

LEMMA SaveBlockBlocks ==
  ASSUME TypeInv, BlockInv, NEW p \in Writers,
         SaveBlock(p) \/ SaveBlockFails(p)
  PROVE  BlockInv'
<1>1. /\ pc[p] = "saveBlock" /\ Saving(p) /\ p \in Procs
      /\ UNCHANGED <<blocks, loaded, msg, targets, pos, blk>>
      /\ \A q \in Procs \ {p} : pc'[q] = pc[q]
  BY DEF SaveBlock, SaveBlockFails, memVars, Saving, Procs, TypeInv, TypeOK
<1>2. BlocksWellFormed'
  BY <1>1 DEF BlockInv, BlocksWellFormed
<1>3. ASSUME NEW q \in Writers, Saving(q)'
      PROVE  Saving(q) /\ Tl(q)' = Tl(q) /\ blk'[q] = blk[q]
  <2>1. q \in Procs /\ Tl(q)' = Tl(q) /\ blk'[q] = blk[q]
    BY <1>1 DEF Procs, Tl
  <2>2. CASE q = p
    BY <1>1, <2>1, <2>2
  <2>3. CASE q # p
    BY <1>1, <1>3, <2>1, <2>3 DEF Saving
  <2> QED BY <2>2, <2>3
<1>4. SaverOwnsBlock'
  BY <1>1, <1>3, SaversKept DEF BlockInv
<1>5. /\ Len(SavedBlock(p).msgs) <= TimelineMaxSize
      /\ SavedBlock(p).msgs \in Seq(Messages)
      /\ Len(SavedBlock(p).msgs) \in Nat
  BY Zenon, <1>1, SavedBlockFits, SavedBlockType
<1>6. CASE SaveBlock(p)
  <2> DEFINE f == Encoded(SavedBlock(p))
  <2>1. f \in BlockFiles /\ f.msgs = SavedBlock(p).msgs
    BY <1>5 DEF Encoded, BlockFiles, FileStatus
  <2>2. blockFile' = [blockFile EXCEPT ![<<Tl(p), SavedBlock(p).id>>] = f]
    BY <1>6 DEF SaveBlock
  <2> HIDE DEF f
  <2>3. FilesBounded'
    BY Zenon, <1>1, <1>5, <2>1, <2>2, FileWritten
  <2> QED BY <1>2, <1>4, <2>3 DEF BlockInv
<1>7. CASE SaveBlockFails(p)
  <2>1. PICK f \in Interrupted(SavedBlock(p).msgs) :
          blockFile' = [blockFile EXCEPT ![<<Tl(p), SavedBlock(p).id>>] = f]
    BY Zenon, <1>7 DEF SaveBlockFails
  <2>2. /\ f \in BlockFiles /\ Len(f.msgs) \in Nat
        /\ Len(f.msgs) <= Len(SavedBlock(p).msgs)
    BY <1>5, InterruptedType
  <2>3. Len(f.msgs) <= TimelineMaxSize
    BY <1>5, <2>2, SizesAssumption
  <2>4. FilesBounded'
    BY Zenon, <1>1, <2>1, <2>2, <2>3, FileWritten
  <2> QED BY <1>2, <1>4, <2>4 DEF BlockInv
<1> QED BY <1>6, <1>7

\* A restart finds the files as the interrupted saves left them.
LEMMA CrashBlocks ==
  ASSUME TypeInv, BlockInv, Crash
  PROVE  BlockInv'
<1>1. /\ blocks' = [tl \in Timelines |-> << >>]
      /\ pc' = [p \in Procs |-> "idle"]
  BY DEF Crash
<1>2. BlocksWellFormed'
  <2>1. \A tl \in Timelines : blocks'[tl] = << >>
    BY <1>1
  <2>2. WellFormed(<< >>)
    BY DEF WellFormed
  <2> QED BY <2>1, <2>2 DEF BlocksWellFormed, WellFormed
<1>3. SaverOwnsBlock'
  BY <1>1 DEF SaverOwnsBlock, Procs
<1>4. PICK left \in [SavingProcs ->
                  UNION {Interrupted(SavedBlock(p).msgs) : p \in SavingProcs}] :
       /\ \A p \in SavingProcs : left[p] \in Interrupted(SavedBlock(p).msgs)
       /\ blockFile' =
            [b \in BlockIds |->
               IF b \in SavingIds
                 THEN left[CHOOSE p \in SavingProcs :
                             b = <<Tl(p), SavedBlock(p).id>>]
                 ELSE blockFile[b]]
  BY DEF Crash
<1>5. ASSUME NEW p \in SavingProcs PROVE Len(left[p].msgs) <= TimelineMaxSize
  <2>1. p \in Writers /\ Saving(p) /\ pc[p] \in {"saveBlock", "addCapacity"}
    BY DEF SavingProcs, Saving
  <2>2. /\ SavedBlock(p).msgs \in Seq(Messages)
        /\ Len(SavedBlock(p).msgs) \in Nat
        /\ Len(SavedBlock(p).msgs) <= TimelineMaxSize
    BY Zenon, <2>1, SavedBlockType, SavedBlockFits
  <2>3. /\ Len(left[p].msgs) \in Nat
        /\ Len(left[p].msgs) <= Len(SavedBlock(p).msgs)
    BY <1>4, <2>2, InterruptedType
  <2> QED BY <2>2, <2>3, SizesAssumption
<1>6. ASSUME NEW b \in BlockIds
      PROVE  Len(blockFile'[b].msgs) <= TimelineMaxSize
  <2>1. CASE b \notin SavingIds
    <3>1. blockFile'[b] = blockFile[b]
      BY <1>4, <2>1
    <3> QED BY <3>1 DEF BlockInv, FilesBounded
  <2>2. CASE b \in SavingIds
    <3> DEFINE w == CHOOSE p \in SavingProcs : b = <<Tl(p), SavedBlock(p).id>>
    <3>1. w \in SavingProcs
      BY <2>2 DEF SavingIds
    <3>2. blockFile'[b] = left[w]
      BY <1>4, <2>2
    <3> HIDE DEF w
    <3> QED BY <1>5, <3>1, <3>2
  <2> QED BY <2>1, <2>2
<1>7. FilesBounded'
  BY <1>6 DEF FilesBounded
<1> QED BY <1>2, <1>3, <1>7 DEF BlockInv

LEMMA InitBlocks == Init => BlockInv
<1> SUFFICES ASSUME Init PROVE BlockInv
  OBVIOUS
<1>1. WellFormed(<< >>)
  BY DEF WellFormed
<1>2. BlocksWellFormed
  BY <1>1 DEF Init, BlocksWellFormed
<1>3. SaverOwnsBlock
  BY DEF Init, SaverOwnsBlock, Procs
<1>4. NoBlockFile.msgs = << >> /\ Len(NoBlockFile.msgs) = 0
  BY SeqEmpty DEF NoBlockFile
<1>5. FilesBounded
  <2> SUFFICES ASSUME NEW b \in BlockIds
               PROVE  Len(blockFile[b].msgs) <= TimelineMaxSize
    BY DEF FilesBounded
  <2>1. blockFile[b] = NoBlockFile
    BY Zenon DEF Init
  <2>2. Len(blockFile[b].msgs) = 0
    BY Zenon, <1>4, <2>1
  <2> QED BY <2>2, SizesAssumption
<1> QED BY <1>2, <1>3, <1>5 DEF BlockInv

LEMMA NextBlocks ==
  ASSUME TypeInv, BlockInv, [Next]_vars
  PROVE  BlockInv'
<1>1. ASSUME NEW p \in Writers, AddMessage(p) \/ WriterStep(p) \/ Fault(p)
      PROVE  BlockInv'
  BY <1>1, AddMessageBlocks, AppendMessageBlocks, AppendAndFillBlocks,
     LeavingBlocks, SaveBlockBlocks, RelockBlocks, SaveMetadataBlocks
     DEF WriterStep, Fault
<1>2. ASSUME NEW p \in Procs, TimelineStep(p) PROVE BlockInv'
  BY <1>2, GetTimelineBlocks, LoadTimelineBlocks, DecideRaiseBlocks,
     RaiseAndLoadBlocks DEF TimelineStep
<1>3. ASSUME NEW p \in Readers, StartSync(p) \/ ReaderStep(p) PROVE BlockInv'
  BY <1>3, ReaderBlocks DEF ReaderStep
<1>4. CASE Crash
  BY <1>4, CrashBlocks
<1>5. CASE UNCHANGED vars
  <2>1. UNCHANGED <<blocks, loaded, blockFile, pc, blk, targets, pos>>
    BY <1>5 DEF vars, memVars, diskVars, goVars
  <2> QED BY <2>1 DEF BlockInv, BlocksWellFormed, FilesBounded, SaverOwnsBlock,
                      SavedBlock, Tl
<1> QED BY <1>1, <1>2, <1>3, <1>4, <1>5 DEF Next

\* Every block of every timeline stays within TimelineMaxSize, and only the
\* last block of a timeline takes messages, whatever writers append to it
\* while others save a full block of it with tl.mu released, and whatever
\* was left on the disk when it is loaded.
THEOREM BlocksStayWellFormed == Spec => []BlocksWellFormed
<1>1. Init => TypeInv /\ BlockInv
  BY InitType, InitBlocks
<1>2. TypeInv /\ BlockInv /\ [Next]_vars => (TypeInv /\ BlockInv)'
  BY NextType, NextBlocks
<1>3. BlockInv => BlocksWellFormed
  BY DEF BlockInv
<1> QED BY <1>1, <1>2, <1>3, PTL DEF Spec

\* A block that saveTimelineBlock is writing with tl.mu released is full, so
\* that no append changes it, and is written by one goroutine.
THEOREM SaversOwnTheirBlock == Spec => []SaverOwnsBlock
<1>1. Init => TypeInv /\ BlockInv
  BY InitType, InitBlocks
<1>2. TypeInv /\ BlockInv /\ [Next]_vars => (TypeInv /\ BlockInv)'
  BY NextType, NextBlocks
<1>3. BlockInv => SaverOwnsBlock
  BY DEF BlockInv
<1> QED BY <1>1, <1>2, <1>3, PTL DEF Spec

-----------------------------------------------------------------------------
\* The blocks cs are the blocks bs with more messages at the end.
Grown(bs, cs) ==
  /\ Len(bs) <= Len(cs)
  /\ \A i \in 1..Len(bs) :
       /\ cs[i].id = bs[i].id
       /\ \E n \in 0..Len(cs[i].msgs) : bs[i].msgs = SubSeq(cs[i].msgs, 1, n)

LogsGrow == \A tl \in loaded : Grown(blocks[tl], blocks'[tl])

LEMMA SeqBegins ==
  ASSUME NEW S, NEW s \in Seq(S), NEW e \in S
  PROVE  /\ Len(s) \in 0..Len(s) /\ s = SubSeq(s, 1, Len(s))
         /\ Len(s) \in 0..Len(Append(s, e))
         /\ s = SubSeq(Append(s, e), 1, Len(s))
OBVIOUS

LEMMA SeqWhole ==
  ASSUME NEW S, NEW s \in Seq(S)
  PROVE  \E n \in 0..Len(s) : s = SubSeq(s, 1, n)
<1>1. Len(s) \in 0..Len(s) /\ s = SubSeq(s, 1, Len(s))
  OBVIOUS
<1> QED BY Zenon, <1>1

LEMMA BlockMessages ==
  ASSUME NEW b \in Blocks PROVE b.msgs \in Seq(Messages)
BY DEF Blocks

LEMMA GrownSame ==
  ASSUME NEW bs \in Seq(Blocks) PROVE Grown(bs, bs)
<1>1. Len(bs) <= Len(bs)
  BY SeqLength
<1>2. ASSUME NEW i \in 1..Len(bs)
      PROVE  \E n \in 0..Len(bs[i].msgs) : bs[i].msgs = SubSeq(bs[i].msgs, 1, n)
  BY SeqElement, BlockMessages, SeqWhole
<1> QED BY Zenon, <1>1, <1>2 DEF Grown

LEMMA GrownByMessage ==
  ASSUME TypeOK, NEW tl \in Timelines, NEW m \in Messages
  PROVE  Grown(blocks[tl], WithMessage(tl, m))
<1> DEFINE bs == WithMessage(tl, m)
           n == Len(blocks[tl])
<1>1. /\ Len(bs) = IF NeedsBlock(tl) THEN n + 1 ELSE n
      /\ \A i \in 1..n : i < Len(bs) => bs[i] = blocks[tl][i]
      /\ ~NeedsBlock(tl) => bs[n].msgs = Append(blocks[tl][n].msgs, m)
      /\ ~NeedsBlock(tl) => bs[n].id = blocks[tl][n].id
  BY WithMessageProperties, ZenonT(40)
<1> HIDE DEF bs
<1>2. blocks[tl] \in Seq(Blocks) /\ n \in Nat
  BY SeqLength DEF TypeOK
<1>3. n <= Len(bs) /\ \A i \in 1..n : i < Len(bs) \/ (i = n /\ ~NeedsBlock(tl))
  BY Zenon, <1>1, <1>2, OneMore
<1>4. ASSUME NEW i \in 1..n
      PROVE  /\ bs[i].id = blocks[tl][i].id
             /\ \E k \in 0..Len(bs[i].msgs) :
                  blocks[tl][i].msgs = SubSeq(bs[i].msgs, 1, k)
  <2>1. blocks[tl][i].msgs \in Seq(Messages)
    BY <1>2, SeqElement, BlockMessages
  <2>2. CASE i < Len(bs)
    <3>1. bs[i] = blocks[tl][i]
      BY Zenon, <1>1, <2>2
    <3> QED BY Zenon, <2>1, <3>1, SeqWhole
  <2>3. CASE i = n /\ ~NeedsBlock(tl)
    <3>1. /\ bs[i].msgs = Append(blocks[tl][i].msgs, m)
          /\ bs[i].id = blocks[tl][i].id
      BY Zenon, <1>1, <2>3
    <3>2. \A ms \in Seq(Messages) : /\ Len(ms) \in 0..Len(Append(ms, m))
                                    /\ ms = SubSeq(Append(ms, m), 1, Len(ms))
      BY SeqBegins
    <3>3. \E k \in 0..Len(Append(blocks[tl][i].msgs, m)) :
            blocks[tl][i].msgs = SubSeq(Append(blocks[tl][i].msgs, m), 1, k)
      BY Zenon, <2>1, <3>2
    <3> QED BY Zenon, <3>1, <3>3
  <2> QED BY Zenon, <1>3, <2>2, <2>3
<1> QED BY Zenon, <1>3, <1>4 DEF Grown, bs

LEMMA LogsSame ==
  ASSUME TypeOK, UNCHANGED blocks PROVE LogsGrow
<1>1. \A tl \in loaded : blocks[tl] \in Seq(Blocks)
  BY DEF TypeOK
<1> QED BY Zenon, <1>1, GrownSame DEF LogsGrow

LEMMA LogsAppend ==
  ASSUME TypeInv, NEW p \in Writers, AppendMessage(p) \/ AppendAndFill(p)
  PROVE  LogsGrow
<1>1. blocks' = [blocks EXCEPT ![Tl(p)] = WithMessage(Tl(p), msg[p])]
      /\ pc[p] = "append"
  BY Zenon DEF AppendMessage, AppendAndFill
<1>2. p \in Procs /\ msg[p] \in Messages /\ Tl(p) \in Timelines
  BY <1>1, TlType DEF TypeInv, InCall, InCallAt, Procs
<1>3. blocks \in [Timelines -> Seq(Blocks)] /\ loaded \subseteq Timelines /\ TypeOK
  BY Zenon DEF TypeInv, TypeOK
<1>4. ASSUME NEW tl \in loaded PROVE Grown(blocks[tl], blocks'[tl])
  <2>1. CASE tl = Tl(p)
    <3>1. blocks'[tl] = WithMessage(tl, msg[p])
      BY Zenon, <1>1, <1>2, <1>3, <2>1
    <3> QED BY Zenon, <1>2, <1>3, <2>1, <3>1, GrownByMessage
  <2>2. CASE tl # Tl(p)
    <3>1. blocks'[tl] = blocks[tl] /\ blocks[tl] \in Seq(Blocks)
      BY Zenon, <1>1, <1>3, <2>2
    <3> QED BY Zenon, <3>1, GrownSame
  <2> QED BY Zenon, <2>1, <2>2
<1> QED BY Zenon, <1>4 DEF LogsGrow

LEMMA LogsInsert ==
  ASSUME TypeInv, NEW p \in Procs, LoadTimeline(p) \/ RaiseAndLoad(p)
  PROVE  LogsGrow
<1>1. InsertTimeline(Tl(p)) /\ Tl(p) \notin loaded
  BY Zenon DEF LoadTimeline, RaiseAndLoad, TypeInv, InCall, InCallAt
<1>2. blocks \in [Timelines -> Seq(Blocks)] /\ loaded \subseteq Timelines
  BY Zenon DEF TypeInv, TypeOK
<1>3. ASSUME NEW tl \in loaded PROVE Grown(blocks[tl], blocks'[tl])
  <2>1. blocks'[tl] = blocks[tl] /\ blocks[tl] \in Seq(Blocks)
    BY Zenon, <1>1, <1>2 DEF InsertTimeline
  <2> QED BY Zenon, <2>1, GrownSame
<1> QED BY Zenon, <1>3 DEF LogsGrow

LEMMA NextGrows ==
  ASSUME TypeInv, Next, crashes' = crashes PROVE LogsGrow
<1>0. TypeOK
  BY DEF TypeInv
<1>1. ASSUME NEW p \in Writers, AddMessage(p) \/ WriterStep(p) \/ Fault(p)
      PROVE  LogsGrow
  <2>1. CASE AppendMessage(p) \/ AppendAndFill(p)
    BY Zenon, <2>1, LogsAppend
  <2>2. CASE ~(AppendMessage(p) \/ AppendAndFill(p))
    <3>1. UNCHANGED blocks
      BY Zenon, <1>1, <2>2 DEF WriterStep, Fault, AddMessage, AppendRefused, SaveBlock,
         AddCapacity, Relock, SaveMetadata, SaveBlockFails, SaveMetadataFails, memVars
    <3> QED BY Zenon, <1>0, <3>1, LogsSame
  <2> QED BY Zenon, <2>1, <2>2
<1>2. ASSUME NEW p \in Procs, TimelineStep(p) PROVE LogsGrow
  <2>1. GetTimeline(p) \/ DecideRaise(p) => UNCHANGED blocks
    BY Zenon DEF GetTimeline, DecideRaise, memVars
  <2> QED BY Zenon, <1>0, <1>2, <2>1, LogsSame, LogsInsert DEF TimelineStep
<1>3. ASSUME NEW p \in Readers, StartSync(p) \/ ReaderStep(p) PROVE LogsGrow
  <2>1. UNCHANGED blocks
    BY Zenon, <1>3 DEF StartSync, ReaderStep, Fetch, UpdateUserCheckpoint, memVars
  <2> QED BY Zenon, <1>0, <2>1, LogsSame
<1>4. ~Crash
  <2>1. \A n \in 0..MaxCrashes : n # n + 1
    BY BoundsAssumption
  <2>2. crashes \in 0..MaxCrashes
    BY Zenon DEF TypeInv, TypeOK
  <2> QED BY Zenon, <2>1, <2>2 DEF Crash
<1> QED BY Zenon, <1>1, <1>2, <1>3, <1>4 DEF Next

\* While the process lives, a message stays where it was put: no append, load
\* or save moves, changes or drops a message of a timeline in memory.
THEOREM LogsOnlyGrow == Spec => AppendOnly
<1>1. TypeInv /\ [Next]_vars =>
        [crashes' = crashes => \A tl \in loaded : Grown(blocks[tl], blocks'[tl])]_vars
  BY Zenon, NextGrows DEF LogsGrow
<1>2. Init => TypeInv
  BY InitType
<1>3. TypeInv /\ [Next]_vars => TypeInv'
  BY NextType
<1> QED BY <1>1, <1>2, <1>3, PTL DEF Spec, AppendOnly, Grown

=============================================================================
