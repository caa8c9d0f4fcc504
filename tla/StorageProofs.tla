--------------------------- MODULE StorageProofs ---------------------------
(***************************************************************************)
(* The lock manager, and the migrations between the stores that a store's  *)
(* accessor runs beside its callers.  The theorems hold for any number of  *)
(* callers, tasks, stores and messages and any time to live.               *)
(***************************************************************************)
EXTENDS LockManager, Migration, TLAPS

\* A caller has an owner id from its AcquireLock on, and no two have the same.
OwnerInv ==
  /\ \A p \in Procs : pc[p] \in {"fn", "done"} <=> handle[p].owner # 0
  /\ \A p, q \in Procs :
       handle[p].owner # 0 /\ handle[p].owner = handle[q].owner => p = q
  /\ \A p \in Procs : renewAt[p] # 0 => pc[p] \in {"fn", "done"}

\* Every entry is the copy of a caller that is running its function, and the
\* lock of such a caller stays in the table until it expires.
EntryInv ==
  /\ \A k \in Keys : Exists(locks, k) =>
       \E p \in Procs : KeyOf[p] = k /\ pc[p] = "fn" /\ locks[k] = handle[p]
  /\ \A p \in Procs : Holding(p) => locks[KeyOf[p]] = handle[p]

LockInvariant == LockTypeOK /\ OwnerInv /\ EntryInv

-----------------------------------------------------------------------------
LEMMA LockInitInv == LockInit => LockInvariant
<1> SUFFICES ASSUME LockInit PROVE LockInvariant
  BY Zenon
<1>1. late \in BOOLEAN /\ ended \subseteq Procs
  BY Zenon DEF LockInit
<1>2. /\ now \in 1..(MaxTime + 1) /\ owners \in Nat
      /\ locks \in [Keys -> [owner : 0..owners, expires : Nat]]
      /\ pc \in [Procs -> {"start", "acquire", "fn", "done"}]
      /\ handle \in [Procs -> [owner : 0..owners, expires : Nat]]
      /\ renewAt \in [Procs -> Nat]
  BY TimesAssumption DEF LockInit, NoLocks, NoEntry
<1>3. OwnerInv /\ EntryInv
  BY Zenon, ProcsAssumption
  DEF LockInit, OwnerInv, EntryInv, NoLocks, NoEntry, Exists, Holding
<1> QED BY Zenon, <1>1, <1>2, <1>3 DEF LockInvariant, LockTypeOK

LEMMA AcquireInv ==
  ASSUME LockInvariant, NEW p \in Procs, AcquireLock(p)
  PROVE  LockInvariant'
<1> DEFINE new == [owner |-> owners + 1, expires |-> now + TTL]
<1>1. /\ \A q \in Procs : handle'[q] = IF q = p THEN new ELSE handle[q]
      /\ \A q \in Procs : pc'[q] = IF q = p THEN "fn" ELSE pc[q]
      /\ \A k \in Keys : locks'[k] = IF k = KeyOf[p] THEN new ELSE locks[k]
      /\ \A q \in Procs : q # p => renewAt'[q] = renewAt[q]
      /\ now' = now /\ owners' = owners + 1 /\ late' = late
      /\ ended' = ended
      /\ pc[p] \in {"start", "acquire"}
  BY Zenon, ProcsAssumption DEF LockInvariant, LockTypeOK, AcquireLock, Acquire
<1>2. new.owner = owners + 1 /\ new.expires = now + TTL
  BY Zenon
<1>3. /\ \A q \in Procs : handle[q].owner \in 0..owners
      /\ \A k \in Keys : locks[k].owner \in 0..owners /\ locks[k].expires \in Nat
      /\ owners \in Nat /\ now \in Nat /\ KeyOf[p] \in Keys
      /\ \A q \in Procs : KeyOf[q] \in Keys
  BY ProcsAssumption, TimesAssumption DEF LockInvariant, LockTypeOK
<1>4. Exists(locks, KeyOf[p]) => now >= locks[KeyOf[p]].expires
  BY Zenon DEF AcquireLock, Acquirable
<1>5. LockTypeOK'
  <2> DEFINE E(n) == [owner : 0..n, expires : Nat]
  <2>1. new \in E(owners') /\ E(owners) \subseteq E(owners')
    BY <1>1, <1>3, TimesAssumption
  <2>2. locks \in [Keys -> E(owners)] /\ handle \in [Procs -> E(owners)]
    BY Zenon DEF LockInvariant, LockTypeOK
  <2>3. locks' = [locks EXCEPT ![KeyOf[p]] = new] /\ handle' = [handle EXCEPT ![p] = new]
    BY Zenon DEF AcquireLock, Acquire
  <2> HIDE DEF new, E
  <2>4. locks' \in [Keys -> E(owners')] /\ handle' \in [Procs -> E(owners')]
    BY Zenon, <2>1, <2>2, <2>3
  <2>5. renewAt' \in [Procs -> Nat] /\ pc' \in [Procs -> {"start", "acquire", "fn", "done"}]
    BY <1>3, TimesAssumption DEF LockInvariant, LockTypeOK, AcquireLock
  <2> QED BY <1>1, <1>3, <2>4, <2>5 DEF LockTypeOK, LockInvariant, E
<1> HIDE DEF new
<1>6. OwnerInv'
  <2>1. \A q \in Procs : pc'[q] \in {"fn", "done"} <=> handle'[q].owner # 0
    BY <1>1, <1>2, <1>3 DEF LockInvariant, OwnerInv
  <2>2. \A q \in Procs : q # p => handle'[q].owner # handle'[p].owner
    BY <1>1, <1>2, <1>3
  <2>3. \A q, r \in Procs :
          handle'[q].owner # 0 /\ handle'[q].owner = handle'[r].owner => q = r
    BY <1>1, <2>2 DEF LockInvariant, OwnerInv
  <2>4. \A q \in Procs : renewAt'[q] # 0 => pc'[q] \in {"fn", "done"}
    BY Zenon, <1>1 DEF LockInvariant, OwnerInv
  <2> QED BY Zenon, <2>1, <2>3, <2>4 DEF OwnerInv
<1>7. \A k \in Keys : Exists(locks, k)' =>
        \E q \in Procs : KeyOf[q] = k /\ pc'[q] = "fn" /\ locks'[k] = handle'[q]
  BY <1>1, <1>2, <1>3 DEF LockInvariant, EntryInv, Exists
<1>8. \A q \in Procs : Holding(q)' => locks'[KeyOf[q]] = handle'[q]
  <2> SUFFICES ASSUME NEW q \in Procs, Holding(q)', q # p
               PROVE  locks'[KeyOf[q]] = handle'[q]
    BY Zenon, <1>1, <1>3
  <2>1. Holding(q) /\ handle'[q] = handle[q]
    BY Zenon, <1>1 DEF Holding
  <2>2. locks[KeyOf[q]] = handle[q] /\ Exists(locks, KeyOf[q])
    BY Zenon, <2>1 DEF LockInvariant, EntryInv, OwnerInv, Holding, Exists
  <2>3. KeyOf[q] # KeyOf[p]
    BY <1>3, <1>4, <2>1, <2>2 DEF Holding
  <2> QED BY Zenon, <1>1, <1>3, <2>1, <2>2, <2>3
<1> QED BY Zenon, <1>5, <1>6, <1>7, <1>8 DEF LockInvariant, EntryInv

LEMMA RenewInv ==
  ASSUME LockInvariant, NEW p \in Procs, RenewLock(p)
  PROVE  LockInvariant'
<1> DEFINE k0 == KeyOf[p]
           new == [owner |-> handle[p].owner, expires |-> now + TTL]
<1>1. /\ k0 \in Keys /\ \A q \in Procs : KeyOf[q] \in Keys
      /\ \A q \in Procs : handle[q].owner \in 0..owners
      /\ \A k \in Keys : locks[k] = [owner |-> locks[k].owner,
                                     expires |-> locks[k].expires]
      /\ now \in Nat /\ handle[p] = [owner |-> handle[p].owner,
                                     expires |-> handle[p].expires]
  BY ProcsAssumption, TimesAssumption DEF LockInvariant, LockTypeOK
<1>2. CASE Renewable(locks, k0, handle[p].owner, now)
  <2>1. /\ locks[k0].owner = handle[p].owner /\ Exists(locks, k0)
        /\ now' = now /\ owners' = owners /\ pc' = pc /\ late' = late
        /\ ended' = ended
        /\ locks' = [locks EXCEPT ![k0] = new]
        /\ handle' = [handle EXCEPT ![p] = new]
        /\ renewAt' = [renewAt EXCEPT ![p] = @ + RenewInterval]
        /\ renewAt[p] # 0
    BY <1>1, <1>2 DEF RenewLock, Renewable, LockInvariant, LockTypeOK
  <2>2. new \in [owner : 0..owners, expires : Nat] /\ new.owner = handle[p].owner
    BY <1>1, TimesAssumption
  <2> HIDE DEF new
  <2>3. /\ \A q \in Procs : handle'[q] = IF q = p THEN new ELSE handle[q]
        /\ \A k \in Keys : locks'[k] = IF k = k0 THEN new ELSE locks[k]
        /\ \A q \in Procs : q # p => renewAt'[q] = renewAt[q]
    BY Zenon, <1>1, <2>1 DEF LockInvariant, LockTypeOK
  <2>4. LockTypeOK'
    BY <1>1, <2>1, <2>2, TimesAssumption DEF LockInvariant, LockTypeOK
  <2>5. OwnerInv'
    BY <2>1, <2>2, <2>3 DEF LockInvariant, OwnerInv
  <2>6. PICK q \in Procs : KeyOf[q] = k0 /\ pc[q] = "fn" /\ locks[k0] = handle[q]
    BY Zenon, <1>1, <2>1 DEF LockInvariant, EntryInv
  <2>7. q = p
    BY Zenon, <2>1, <2>6 DEF LockInvariant, OwnerInv, Exists
  <2>8. \A k \in Keys : Exists(locks, k)' =>
          \E r \in Procs : KeyOf[r] = k /\ pc'[r] = "fn" /\ locks'[k] = handle'[r]
    <3> SUFFICES ASSUME NEW k \in Keys, Exists(locks, k)', k # k0
                 PROVE  \E r \in Procs : /\ KeyOf[r] = k /\ pc'[r] = "fn"
                                         /\ locks'[k] = handle'[r]
      BY <1>1, <2>1, <2>3, <2>6, <2>7
    <3> QED BY <2>1, <2>3 DEF LockInvariant, EntryInv, Exists
  <2>9. \A r \in Procs : Holding(r)' => locks'[KeyOf[r]] = handle'[r]
    <3> SUFFICES ASSUME NEW r \in Procs, Holding(r)', r # p
                 PROVE  locks'[KeyOf[r]] = handle'[r]
      BY <1>1, <2>3
    <3>1. Holding(r) /\ locks[KeyOf[r]] = handle[r] /\ handle'[r] = handle[r]
      BY <2>1, <2>3 DEF Holding, LockInvariant, EntryInv
    <3>2. KeyOf[r] # k0
      BY <2>1, <3>1 DEF LockInvariant, OwnerInv, Exists
    <3> QED BY Zenon, <1>1, <2>3, <3>1, <3>2
  <2> QED BY Zenon, <2>4, <2>5, <2>8, <2>9 DEF LockInvariant, EntryInv
<1>3. CASE ~Renewable(locks, k0, handle[p].owner, now)
  <2>1. UNCHANGED <<now, locks, owners, pc, handle, late, ended>>
    BY Zenon, <1>3 DEF RenewLock
  <2>2. renewAt' = [renewAt EXCEPT ![p] = 0]
    BY Zenon, <1>3 DEF RenewLock
  <2> QED BY <2>1, <2>2 DEF LockInvariant, LockTypeOK, OwnerInv, EntryInv, Exists, Holding
<1> QED BY Zenon, <1>2, <1>3

LEMMA ReleaseInv ==
  ASSUME LockInvariant, NEW p \in Procs, ReleaseLock(p)
  PROVE  LockInvariant'
<1> DEFINE k0 == KeyOf[p]
<1>1. /\ k0 \in Keys /\ \A q \in Procs : KeyOf[q] \in Keys
      /\ NoEntry \in [owner : 0..owners, expires : Nat] /\ NoEntry.owner = 0
  BY ProcsAssumption DEF LockInvariant, LockTypeOK, NoEntry
<1>2. /\ UNCHANGED <<now, owners, handle, renewAt>> /\ pc[p] = "fn"
      /\ \A q \in Procs : pc'[q] = IF q = p THEN "done" ELSE pc[q]
      /\ \A k \in Keys : locks'[k] =
           IF k = k0 /\ locks[k].owner = handle[p].owner THEN NoEntry ELSE locks[k]
  BY Zenon DEF ReleaseLock, Release, LockInvariant, LockTypeOK
<1> HIDE DEF k0
<1>3. LockTypeOK'
  BY Zenon, ProcsAssumption, <1>1
  DEF LockInvariant, LockTypeOK, ReleaseLock, Release
<1>4. OwnerInv'
  BY Zenon, <1>2 DEF LockInvariant, OwnerInv
<1>5. \A k \in Keys : Exists(locks, k)' =>
        \E q \in Procs : KeyOf[q] = k /\ pc'[q] = "fn" /\ locks'[k] = handle'[q]
  <2> SUFFICES ASSUME NEW k \in Keys, Exists(locks, k)'
               PROVE  \E q \in Procs : /\ KeyOf[q] = k /\ pc'[q] = "fn"
                                       /\ locks'[k] = handle'[q]
    BY Zenon
  <2>1. locks'[k] = locks[k] /\ ~(k = k0 /\ locks[k].owner = handle[p].owner)
    BY Zenon, <1>1, <1>2 DEF Exists
  <2>2. PICK q \in Procs : KeyOf[q] = k /\ pc[q] = "fn" /\ locks[k] = handle[q]
    BY <2>1 DEF LockInvariant, EntryInv, Exists
  <2>3. q # p
    BY Zenon, <2>1, <2>2 DEF k0
  <2> QED BY Zenon, <1>2, <2>1, <2>2, <2>3
<1>6. \A q \in Procs : Holding(q)' => locks'[KeyOf[q]] = handle'[q]
  <2> SUFFICES ASSUME NEW q \in Procs, Holding(q)'
               PROVE  locks'[KeyOf[q]] = handle'[q]
    BY Zenon
  <2>1. Holding(q) /\ q # p /\ locks[KeyOf[q]] = handle[q]
    BY Zenon, <1>2 DEF Holding, LockInvariant, EntryInv
  <2>2. handle[q].owner # handle[p].owner
    BY Zenon, <1>2, <2>1 DEF LockInvariant, OwnerInv
  <2> QED BY <1>1, <1>2, <2>1, <2>2
<1> QED BY Zenon, <1>3, <1>4, <1>5, <1>6 DEF LockInvariant, EntryInv

LEMMA CleanupInv ==
  ASSUME LockInvariant, CleanupExpiredLocks
  PROVE  LockInvariant'
<1>1. LockTypeOK'
  BY ProcsAssumption, TimesAssumption
  DEF LockInvariant, LockTypeOK, CleanupExpiredLocks, Cleaned, NoEntry
<1>2. OwnerInv'
  BY Zenon DEF LockInvariant, OwnerInv, CleanupExpiredLocks
<1>3. EntryInv'
  BY ProcsAssumption, TimesAssumption
  DEF LockInvariant, LockTypeOK, OwnerInv, EntryInv, CleanupExpiredLocks, Cleaned, NoEntry,
      Exists, Holding
<1> QED BY Zenon, <1>1, <1>2, <1>3 DEF LockInvariant

\* The remaining actions leave the table and the copies alone.
LEMMA LockOtherInv ==
  ASSUME LockInvariant,
         \/ Tick \/ UNCHANGED lockVars
         \/ \E p \in Procs : TryWithLock(p) \/ AcquireFails(p) \/ CancelRenew(p)
  PROVE  LockInvariant'
<1>1. UNCHANGED <<locks, handle, owners>>
  BY Zenon DEF Tick, lockVars, TryWithLock, AcquireFails, CancelRenew
<1>2. LockTypeOK'
  <2>1. late' \in BOOLEAN /\ ended' \subseteq Procs
    BY Zenon DEF LockInvariant, LockTypeOK, Tick, lockVars, TryWithLock, AcquireFails, CancelRenew
  <2>2. /\ now' \in 1..(MaxTime + 1)
        /\ pc' \in [Procs -> {"start", "acquire", "fn", "done"}]
        /\ renewAt' \in [Procs -> Nat]
    BY TimesAssumption
    DEF LockInvariant, LockTypeOK, Tick, lockVars, TryWithLock, AcquireFails, CancelRenew
  <2> QED BY Zenon, <1>1, <2>1, <2>2 DEF LockInvariant, LockTypeOK
<1>3. now' \in Int /\ now \in Int /\ now <= now'
  BY TimesAssumption
  DEF LockInvariant, LockTypeOK, Tick, lockVars, TryWithLock, AcquireFails, CancelRenew
<1>4. \A q \in Procs : /\ (pc'[q] \in {"fn", "done"}) <=> (pc[q] \in {"fn", "done"})
                       /\ pc'[q] = "fn" <=> pc[q] = "fn"
                       /\ renewAt'[q] # 0 => renewAt[q] # 0
  BY Zenon DEF LockInvariant, LockTypeOK, Tick, lockVars, TryWithLock, AcquireFails, CancelRenew
<1>5. OwnerInv'
  BY Zenon, <1>1, <1>4 DEF LockInvariant, OwnerInv
<1>6. EntryInv'
  <2>1. \A k \in Keys : Exists(locks, k)' =>
          \E p \in Procs : KeyOf[p] = k /\ pc'[p] = "fn" /\ locks'[k] = handle'[p]
    BY <1>1, <1>4 DEF LockInvariant, EntryInv, Exists
  <2>2. \A p \in Procs : Holding(p)' => Holding(p)
    BY <1>1, <1>3, <1>4 DEF LockInvariant, LockTypeOK, Holding
  <2> QED BY Zenon, <1>1, <2>1, <2>2 DEF LockInvariant, EntryInv
<1> QED BY Zenon, <1>2, <1>5, <1>6 DEF LockInvariant

LEMMA LockNextInv == LockInvariant /\ [LockNext]_lockVars => LockInvariant'
  BY Zenon, AcquireInv, RenewInv, ReleaseInv, CleanupInv, LockOtherInv DEF LockNext

LEMMA LocksInductive == LockSpec => []LockInvariant
  BY LockInitInv, LockNextInv, PTL DEF LockSpec

-----------------------------------------------------------------------------
\* Every variable of the lock manager keeps its type.
THEOREM LockTypeCorrect == LockSpec => []LockTypeOK
<1>1. LockInvariant => LockTypeOK
  BY Zenon DEF LockInvariant
<1> QED BY <1>1, LocksInductive, PTL

\* WithLock, TryWithLock and WithAutoRenewLock exclude each other on a key
\* until a lock expires.
THEOREM LocksExclude == LockSpec => []ExclusiveUntilExpiry
<1>1. LockInvariant => ExclusiveUntilExpiry
  BY DEF LockInvariant, OwnerInv, EntryInv, ExclusiveUntilExpiry, Holding
<1> QED BY <1>1, LocksInductive, PTL

\* A lock in force ends only by the Release of its owner.
THEOREM OwnerEndsLock == LockSpec => OnlyOwnerEnds
<1> DEFINE OwnerEnds ==
      \A k \in Keys :
        LET e == locks[k] IN
        Exists(locks, k) /\ now < e.expires /\ locks'[k].owner # e.owner
          => \E p \in Procs : handle[p].owner = e.owner /\ pc'[p] = "done"
<1>1. LockInvariant /\ [LockNext]_lockVars => [OwnerEnds]_lockVars
  <2> SUFFICES ASSUME LockInvariant, LockNext, NEW k \in Keys,
                      Exists(locks, k), now < locks[k].expires,
                      locks'[k].owner # locks[k].owner
               PROVE  \E p \in Procs : handle[p].owner = locks[k].owner /\ pc'[p] = "done"
    BY Zenon
  <2>1. CASE \E p \in Procs : AcquireLock(p)
    BY <2>1, ProcsAssumption, TimesAssumption
    DEF LockInvariant, LockTypeOK, AcquireLock, Acquire, Acquirable
  <2>2. CASE \E p \in Procs : RenewLock(p)
    BY <2>2, ProcsAssumption DEF LockInvariant, LockTypeOK, RenewLock
  <2>3. CASE \E p \in Procs : ReleaseLock(p)
    BY <2>3, ProcsAssumption DEF LockInvariant, LockTypeOK, ReleaseLock, Release
  <2>4. CASE CleanupExpiredLocks
    BY <2>4, TimesAssumption DEF LockInvariant, LockTypeOK, CleanupExpiredLocks, Cleaned
  <2>5. CASE \/ Tick
             \/ \E p \in Procs : TryWithLock(p) \/ AcquireFails(p) \/ CancelRenew(p)
    BY Zenon, <2>5 DEF Tick, TryWithLock, AcquireFails, CancelRenew
  <2> QED BY Zenon, <2>1, <2>2, <2>3, <2>4, <2>5 DEF LockNext
<1> QED BY <1>1, LocksInductive, PTL DEF LockSpec, OnlyOwnerEnds

-----------------------------------------------------------------------------
\* The renewing goroutine of a running caller whose context has not ended is
\* alive, its next tick is not overdue, and the lock outlives that tick.
RenewInTime ==
  ~late /\ RenewInterval < TTL =>
    \A p \in Renewing \ ended : pc[p] = "fn" =>
      /\ renewAt[p] # 0 /\ now <= renewAt[p]
      /\ renewAt[p] + TTL <= handle[p].expires + RenewInterval

\* A caller in RenewInTime holds its lock.
LEMMA InTimeHolds ==
  ASSUME LockInvariant, RenewInTime, ~late, RenewInterval < TTL,
         NEW p \in Renewing \ ended, pc[p] = "fn"
  PROVE  /\ now < handle[p].expires
         /\ locks[KeyOf[p]] = handle[p] /\ handle[p].owner # 0
<1>1. p \in Procs /\ now \in Nat /\ renewAt[p] \in Nat /\ handle[p].expires \in Nat
  BY ProcsAssumption, TimesAssumption DEF LockInvariant, LockTypeOK
<1>2. now < handle[p].expires
  BY <1>1, TimesAssumption DEF RenewInTime
<1>3. locks[KeyOf[p]] = handle[p]
  BY Zenon, <1>1, <1>2 DEF LockInvariant, EntryInv, Holding
<1>4. handle[p].owner # 0
  BY Zenon, <1>1 DEF LockInvariant, OwnerInv
<1> QED BY Zenon, <1>2, <1>3, <1>4

LEMMA RenewInTimeStep ==
  ASSUME LockInvariant, RenewInTime, [LockNext]_lockVars
  PROVE  RenewInTime'
<1> SUFFICES ASSUME ~late', RenewInterval < TTL, NEW p \in Renewing \ ended',
                    pc'[p] = "fn"
             PROVE  /\ renewAt'[p] # 0 /\ now' <= renewAt'[p]
                    /\ renewAt'[p] + TTL <= handle'[p].expires + RenewInterval
  BY Zenon DEF RenewInTime
<1>1. /\ p \in Procs /\ now \in Nat /\ renewAt[p] \in Nat
      /\ handle[p].expires \in Nat
  BY ProcsAssumption, TimesAssumption DEF LockInvariant, LockTypeOK
<1>2. ~late /\ p \in Renewing \ ended
  <2>1. ended \subseteq ended'
    BY Zenon DEF LockNext, lockVars, Tick, CleanupExpiredLocks, TryWithLock,
           AcquireLock, AcquireFails, RenewLock, ReleaseLock, CancelRenew
  <2>2. ~late
    BY Zenon DEF LockNext, lockVars, Tick, CleanupExpiredLocks, TryWithLock,
           AcquireLock, AcquireFails, RenewLock, ReleaseLock, CancelRenew
  <2> QED BY Zenon, <2>1, <2>2
<1>3. CASE \E q \in Procs : AcquireLock(q)
  <2>1. PICK q \in Procs : AcquireLock(q)
    BY Zenon, <1>3
  <2>2. CASE q = p
    BY <1>1, <2>1, <2>2, TimesAssumption DEF AcquireLock, LockInvariant, LockTypeOK
  <2>3. CASE q # p
    <3>1. /\ pc[p] = "fn" /\ renewAt'[p] = renewAt[p] /\ now' = now
          /\ handle'[p] = handle[p]
      BY Zenon, <1>1, <2>1, <2>3 DEF AcquireLock, LockInvariant, LockTypeOK
    <3> QED BY Zenon, <1>2, <3>1 DEF RenewInTime
  <2> QED BY Zenon, <2>2, <2>3
<1>4. CASE \E q \in Procs : RenewLock(q)
  <2>1. PICK q \in Procs : RenewLock(q)
    BY Zenon, <1>4
  <2>2. pc[p] = "fn" /\ now' = now
    BY Zenon, <2>1 DEF RenewLock
  <2>3. CASE q = p
    <3>1. Renewable(locks, KeyOf[p], handle[p].owner, now)
      BY <1>1, <1>2, <2>2, InTimeHolds DEF Renewable, Exists
    <3>2. /\ handle'[p].expires = now + TTL /\ now >= renewAt[p]
          /\ renewAt'[p] = renewAt[p] + RenewInterval
      <4>1. /\ handle' = [handle EXCEPT ![p].expires = now + TTL] /\ now >= renewAt[p]
            /\ renewAt' = [renewAt EXCEPT ![p] = @ + RenewInterval]
        BY Zenon, <2>1, <2>3, <3>1 DEF RenewLock
      <4> QED BY Zenon, <1>1, <4>1 DEF LockInvariant, LockTypeOK
    <3>3. now = renewAt[p]
      BY <1>1, <1>2, <2>2, <3>2 DEF RenewInTime
    <3> QED BY <1>1, <2>2, <3>2, <3>3, TimesAssumption
  <2>4. CASE q # p
    <3>1. renewAt'[p] = renewAt[p] /\ handle'[p] = handle[p]
      BY Zenon, <1>1, <2>1, <2>4 DEF RenewLock, LockInvariant, LockTypeOK
    <3> QED BY Zenon, <1>2, <2>2, <3>1 DEF RenewInTime
  <2> QED BY Zenon, <2>3, <2>4
<1>5. CASE Tick
  <2>1. ~(renewAt[p] # 0 /\ now >= renewAt[p])
    BY <1>1, <1>5, Zenon DEF Tick
  <2>2. now' = now + 1 /\ UNCHANGED <<pc, handle, renewAt>>
    BY Zenon, <1>5 DEF Tick
  <2> QED BY <1>1, <1>2, <2>1, <2>2 DEF RenewInTime
<1>6. CASE \/ CleanupExpiredLocks \/ UNCHANGED lockVars
           \/ \E q \in Procs : TryWithLock(q) \/ AcquireFails(q) \/ ReleaseLock(q)
  <2>1. pc[p] = "fn" /\ UNCHANGED <<now, handle, renewAt>>
    BY Zenon, <1>1, <1>6 DEF CleanupExpiredLocks, lockVars, TryWithLock, AcquireFails,
                      ReleaseLock, LockInvariant, LockTypeOK
  <2> QED BY Zenon, <1>2, <2>1 DEF RenewInTime
<1>7. CASE \E q \in Procs : CancelRenew(q)
  <2>1. PICK q \in Procs : CancelRenew(q)
    BY Zenon, <1>7
  <2>2. pc[p] = "fn" /\ UNCHANGED <<now, handle>> /\ q # p
    BY Zenon, <2>1 DEF CancelRenew
  <2>3. renewAt'[p] = renewAt[p]
    BY Zenon, <1>1, <2>1, <2>2 DEF CancelRenew, LockInvariant, LockTypeOK
  <2> QED BY Zenon, <1>2, <2>2, <2>3 DEF RenewInTime
<1> QED BY Zenon, <1>3, <1>4, <1>5, <1>6, <1>7 DEF LockNext

\* WithAutoRenewLock keeps its lock for as long as its function runs, whatever
\* the other callers of the key and the cleanup do, if no tick is handled late,
\* the interval is shorter than the TTL and its context does not end before.
THEOREM AutoRenewHolds == LockSpec => []AutoRenewKeepsLock
<1>1. LockInit => RenewInTime
  BY Zenon, ProcsAssumption DEF LockInit, RenewInTime
<1>2. LockInvariant /\ RenewInTime /\ [LockNext]_lockVars => RenewInTime'
  BY Zenon, RenewInTimeStep
<1>3. LockInvariant /\ RenewInTime => AutoRenewKeepsLock
  BY Zenon, InTimeHolds DEF AutoRenewKeepsLock
<1> QED BY <1>1, <1>2, <1>3, LocksInductive, PTL DEF LockSpec

-----------------------------------------------------------------------------
(***************************************************************************)
(* The migrations.                                                         *)
(***************************************************************************)
Entries == [block : AllBlocks, store : Stores, size : Nat]

TaskPlaces == {"idle", "start", "lock", "get", "create", "fetch", "copy", "add",
               "move", "delete", "unlock", "finish", "done"}
TaskStatuses == {"none", "pending", "running", "completed", "failed", "cancelled"}
TaskRecords ==
  [status : TaskStatuses, pc : TaskPlaces, source : Stores, target : Stores,
   snap : Seq(Nat), i : Nat \ {0}, err : BOOLEAN, listed : BOOLEAN,
   running : BOOLEAN, over : BOOLEAN, late : BOOLEAN, after : Nat,
   moved : BOOLEAN, long : BOOLEAN]

\* The places before the first look at the messages, and those with the lock.
Early  == {"idle", "start", "lock", "get", "create", "fetch"}
Locked == {"get", "create", "fetch", "copy", "add", "move", "delete", "unlock"}

\* What a task has done, at each place; and what is left to do once its context
\* is over.
Outcome(r) ==
  /\ r.pc = "idle" => ~r.long /\ ~r.listed
  /\ r.pc \in Early => ~r.moved /\ ~r.err /\ r.i = 1 /\ r.after = 0
  /\ r.pc \in {"copy", "add", "move"} => ~r.moved /\ ~r.err
  /\ r.pc = "delete" => r.moved /\ ~r.err
  /\ r.pc \in {"unlock", "finish", "done"} => (r.err <=> ~r.moved)
  /\ r.pc = "done" /\ r.listed => r.status = IF r.err THEN "failed" ELSE "completed"

Honours(r) ==
  /\ r.after <= 1
  /\ ~r.over => r.after = 0
  /\ r.pc = "add" => r.after = 0 /\ r.i <= Len(r.snap)
  /\ r.over /\ r.pc = "copy" => r.late \/ r.snap = <<>> \/ r.i <= Len(r.snap)
  /\ r.over /\ r.pc = "add" => r.late \/ r.i < Len(r.snap)
  /\ r.over /\ (r.pc = "move" \/ r.moved) => r.late \/ r.snap = <<>>

ValidTask(r) == r \in TaskRecords /\ Outcome(r) /\ Honours(r)

MigrationTypes ==
  /\ stored \in Seq(Nat) /\ fetched \in Seq(Nat) /\ added \in Nat
  /\ lock \in Tasks \cup {Nobody}
  /\ DOMAIN task = Tasks

TasksInv == \A k \in Tasks : ValidTask(task[k])

\* The list of blocks of the timeline.
BlocksInv ==
  /\ DOMAIN located = Timelines
  /\ {"blocks", "storeMap", "size", "count"} \subseteq DOMAIN located[Key]
  /\ located[Key].blocks \in Seq(Entries)
  /\ located[Key].count = Len(located[Key].blocks)

-----------------------------------------------------------------------------
\* The fields a step leaves alone: all but the place and the status; and those
\* that only the start of a task and the expiry of its lock change.
Kept(q, r) ==
  /\ q.source = r.source /\ q.target = r.target /\ q.snap = r.snap /\ q.i = r.i
  /\ q.err = r.err /\ q.listed = r.listed /\ q.over = r.over /\ q.late = r.late
  /\ q.after = r.after /\ q.moved = r.moved /\ q.long = r.long

Alike(q, r) == q.source = r.source /\ q.target = r.target /\ q.long = r.long

\* The first place of a sequence of messages, and any other.
LEMMA FirstOf ==
  ASSUME NEW s \in Seq(Nat)
  PROVE  (s = <<>> \/ 1 <= Len(s)) /\ (s # <<>> => ~(1 > Len(s)))
OBVIOUS

LEMMA PlaceOf ==
  ASSUME NEW s \in Seq(Nat), NEW i \in Nat \ {0}, i <= Len(s)
  PROVE  i \in DOMAIN s /\ s[i] \in Nat
OBVIOUS

\* r with another place and what updateTaskStatus makes of its status.
LEMMA StatusFields ==
  ASSUME NEW r \in TaskRecords, NEW status \in TaskStatuses
  PROVE  /\ WithStatus(r, status) \in TaskRecords
         /\ Kept(WithStatus(r, status), r) /\ WithStatus(r, status).pc = r.pc
         /\ r.listed => WithStatus(r, status).status = status
BY Zenon DEF TaskRecords, WithStatus, Kept

LEMMA PlaceFields ==
  ASSUME NEW r \in TaskRecords, NEW place \in TaskPlaces
  PROVE  /\ [r EXCEPT !.pc = place] \in TaskRecords
         /\ Kept([r EXCEPT !.pc = place], r) /\ [r EXCEPT !.pc = place].pc = place
BY Zenon DEF TaskRecords, Kept

LEMMA GoesFields ==
  ASSUME NEW r \in TaskRecords, NEW place \in TaskPlaces
  PROVE  /\ WithStatus([r EXCEPT !.pc = place], "running") \in TaskRecords
         /\ Kept(WithStatus([r EXCEPT !.pc = place], "running"), r)
         /\ WithStatus([r EXCEPT !.pc = place], "running").pc = place
<1>1. "running" \in TaskStatuses
  BY Zenon DEF TaskStatuses
<1> DEFINE p == [r EXCEPT !.pc = place]
<1>2. p \in TaskRecords /\ Kept(p, r) /\ p.pc = place
  BY Zenon, PlaceFields
<1> HIDE DEF p
<1>3. /\ WithStatus(p, "running") \in TaskRecords
      /\ Kept(WithStatus(p, "running"), p) /\ WithStatus(p, "running").pc = p.pc
  BY Zenon, <1>1, <1>2, StatusFields
<1>4. Kept(WithStatus(p, "running"), r)
  BY Zenon, <1>2, <1>3 DEF Kept
<1> QED BY Zenon, <1>2, <1>3, <1>4 DEF p

Started(source, target) ==
  [NewTask EXCEPT !.status = "pending", !.pc = "start",
                  !.source = source, !.target = target, !.listed = TRUE]

AtStart(q, source, target) ==
  /\ ValidTask(q) /\ q.pc = "start" /\ ~q.long /\ ~q.moved
  /\ q.source = source /\ q.target = target

LEMMA NewTaskFields ==
  /\ NewTask \in TaskRecords /\ NewTask.pc = "idle" /\ ~NewTask.moved
  /\ ~NewTask.err /\ NewTask.i = 1 /\ NewTask.after = 0 /\ ~NewTask.over
  /\ ~NewTask.long /\ ~NewTask.listed
BY MigrationAssumption DEF NewTask, TaskRecords, TaskPlaces, TaskStatuses

LEMMA NewTaskValid == ValidTask(NewTask)
BY NewTaskFields DEF ValidTask, Outcome, Honours, Early

LEMMA StartValid ==
  ASSUME NEW source \in Stores, NEW target \in Stores
  PROVE  AtStart(Started(source, target), source, target)
<1> DEFINE q == Started(source, target)
<1>1. /\ q \in TaskRecords /\ q.pc = "start" /\ ~q.moved
      /\ ~q.err /\ q.i = 1 /\ q.after = 0
      /\ ~q.over /\ q.source = source /\ q.target = target
      /\ ~q.long
  <2>1. /\ q \in TaskRecords /\ q.pc = "start" /\ q.moved = NewTask.moved
        /\ q.err = NewTask.err /\ q.i = NewTask.i /\ q.after = NewTask.after
        /\ q.over = NewTask.over /\ q.source = source /\ q.target = target
        /\ q.long = NewTask.long
    BY NewTaskFields DEF Started, TaskRecords, TaskPlaces, TaskStatuses
  <2> HIDE DEF q
  <2> QED BY Zenon, <2>1, NewTaskFields
<1> HIDE DEF q
<1>2. Outcome(q) /\ Honours(q)
  BY <1>1 DEF Outcome, Honours, Early
<1> QED BY Zenon, <1>1, <1>2 DEF ValidTask, AtStart, q

\* A step that goes on.
LEMMA GoesValid ==
  ASSUME NEW r, ValidTask(r), NEW place \in TaskPlaces,
         \/ r.pc \in Early /\ place \in Early \ {"idle"}
         \/ r.pc = "copy" /\ place = "move" /\ r.i > Len(r.snap)
         \/ r.pc = "copy" /\ place = "add" /\ ~(r.i > Len(r.snap)) /\ ~r.over
         \/ r.pc = "delete" /\ place = "unlock"
  PROVE  /\ ValidTask(WithStatus([r EXCEPT !.pc = place], "running"))
         /\ Kept(WithStatus([r EXCEPT !.pc = place], "running"), r)
         /\ WithStatus([r EXCEPT !.pc = place], "running").pc = place
<1> DEFINE q == WithStatus([r EXCEPT !.pc = place], "running")
<1>1. q \in TaskRecords /\ Kept(q, r) /\ q.pc = place
  <2>1. r \in TaskRecords
    BY Zenon DEF ValidTask
  <2> QED BY Zenon, <2>1, GoesFields
<1> HIDE DEF q
<1>2. r.i \in Nat \ {0} /\ Len(r.snap) \in Nat
  BY DEF ValidTask, TaskRecords
<1>3. Outcome(q)
  BY Zenon, <1>1 DEF ValidTask, Outcome, Early, Kept
<1>4. Honours(q)
  BY <1>1, <1>2 DEF ValidTask, Outcome, Honours, Early, Kept
<1> QED BY Zenon, <1>1, <1>3, <1>4 DEF ValidTask, q

LEMMA ExecuteValid ==
  ASSUME NEW r, ValidTask(r), r.pc = "start"
  PROVE  LET q == WithStatus([[r EXCEPT !.running = TRUE] EXCEPT !.pc = "lock"], "running")
         IN  ValidTask(q) /\ Kept(q, r) /\ q.pc = "lock"
<1> DEFINE p == [r EXCEPT !.running = TRUE]
<1>1. p \in TaskRecords /\ Kept(p, r) /\ p.pc = r.pc
  BY Zenon DEF ValidTask, TaskRecords, Kept
<1> HIDE DEF p
<1>2. ValidTask(p) /\ p.pc \in Early /\ "lock" \in TaskPlaces /\ "lock" \in Early \ {"idle"}
  BY Zenon, <1>1 DEF ValidTask, Outcome, Honours, Kept, Early, TaskPlaces
<1> DEFINE q == WithStatus([p EXCEPT !.pc = "lock"], "running")
<1>3. ValidTask(q) /\ Kept(q, p) /\ q.pc = "lock"
  BY Zenon, <1>2, GoesValid
<1>4. Kept(q, r)
  BY Zenon, <1>1, <1>3 DEF Kept
<1> QED BY Zenon, <1>3, <1>4 DEF p, q

LEMMA FetchValid ==
  ASSUME NEW r, ValidTask(r), r.pc = "fetch", NEW s \in Seq(Nat)
  PROVE  LET q == WithStatus([[r EXCEPT !.snap = s] EXCEPT !.pc = "copy"], "running")
         IN  /\ ValidTask(q) /\ Alike(q, r) /\ q.pc = "copy"
             /\ q.snap = s /\ q.i = 1 /\ ~q.moved
<1> DEFINE p == [r EXCEPT !.snap = s]
<1>1. /\ p \in TaskRecords /\ p.snap = s /\ p.i = r.i /\ p.err = r.err
      /\ p.after = r.after /\ p.moved = r.moved /\ Alike(p, r)
  BY Zenon DEF ValidTask, TaskRecords, Alike
<1> HIDE DEF p
<1> DEFINE q == WithStatus([p EXCEPT !.pc = "copy"], "running")
<1>2. q \in TaskRecords /\ Kept(q, p) /\ q.pc = "copy"
  <2>1. "copy" \in TaskPlaces
    BY Zenon DEF TaskPlaces
  <2> QED BY Zenon, <1>1, <2>1, GoesFields
<1> HIDE DEF q
<1>3. q.snap = s /\ q.i = 1 /\ ~q.err /\ ~q.moved /\ q.after = 0 /\ Alike(q, r)
  BY Zenon, <1>1, <1>2 DEF Kept, Alike, ValidTask, Outcome, Early
<1>4. q.snap = <<>> \/ q.i <= Len(q.snap)
  BY Zenon, <1>3, FirstOf
<1>5. Outcome(q) /\ Honours(q)
  BY <1>2, <1>3, <1>4 DEF Outcome, Honours, Early
<1> QED BY Zenon, <1>2, <1>3, <1>5 DEF ValidTask, p, q

LEMMA AppendedFields ==
  ASSUME NEW r, ValidTask(r), r.pc = "add"
  PROVE  LET p == Appended(r)
         IN  /\ p \in TaskRecords /\ p.snap = r.snap /\ p.i = r.i /\ p.err = r.err
             /\ p.after = (IF r.over THEN 1 ELSE 0)
             /\ p.moved = r.moved /\ p.over = r.over /\ p.late = r.late /\ Alike(p, r)
<1> DEFINE after == IF r.over THEN r.after + 1 ELSE r.after
<1>1. /\ after \in Nat /\ r \in TaskRecords /\ after = (IF r.over THEN 1 ELSE 0)
  BY DEF ValidTask, TaskRecords, Honours
<1>2. Appended(r) = [r EXCEPT !.after = after]
  BY Zenon DEF Appended
<1> HIDE DEF after
<1> DEFINE p == Appended(r)
<1>3. /\ p \in TaskRecords /\ p.snap = r.snap /\ p.i = r.i /\ p.err = r.err
      /\ p.after = after
      /\ p.moved = r.moved /\ p.over = r.over /\ p.late = r.late /\ Alike(p, r)
  BY Zenon, <1>1, <1>2 DEF TaskRecords, Alike
<1> QED BY Zenon, <1>1, <1>3

LEMMA CopyValid ==
  ASSUME NEW r, ValidTask(r), r.pc = "add"
  PROVE  LET q == WithStatus([[Appended(r) EXCEPT !.i = @ + 1] EXCEPT !.pc = "copy"],
                             "running")
         IN  /\ ValidTask(q) /\ Alike(q, r) /\ q.pc = "copy" /\ ~q.moved
<1> DEFINE a == Appended(r)
           p == [a EXCEPT !.i = @ + 1]
           q == WithStatus([p EXCEPT !.pc = "copy"], "running")
<1>1. /\ a \in TaskRecords /\ a.snap = r.snap /\ a.i = r.i /\ a.err = r.err
      /\ a.after = (IF r.over THEN 1 ELSE 0)
      /\ a.moved = r.moved /\ a.over = r.over /\ a.late = r.late /\ Alike(a, r)
  BY Zenon, AppendedFields
<1> HIDE DEF a
<1>2. /\ p \in TaskRecords /\ p.snap = r.snap /\ p.i = r.i + 1 /\ p.err = r.err
      /\ p.after = (IF r.over THEN 1 ELSE 0)
      /\ p.moved = r.moved /\ p.over = r.over /\ p.late = r.late /\ Alike(p, r)
  <2> DEFINE next == r.i + 1
  <2>1. next \in Nat \ {0}
    BY DEF ValidTask, TaskRecords
  <2>2. p = [a EXCEPT !.i = next]
    BY Zenon, <1>1
  <2> HIDE DEF next, p
  <2>3. /\ p \in TaskRecords /\ p.snap = a.snap /\ p.i = next /\ p.err = a.err
        /\ p.after = a.after
        /\ p.moved = a.moved /\ p.over = a.over /\ p.late = a.late /\ Alike(p, a)
    BY Zenon, <1>1, <2>1, <2>2 DEF TaskRecords, Alike
  <2> QED BY Zenon, <1>1, <2>3 DEF next, Alike
<1> HIDE DEF p
<1>3. q \in TaskRecords /\ Kept(q, p) /\ q.pc = "copy"
  <2>1. "copy" \in TaskPlaces
    BY Zenon DEF TaskPlaces
  <2> QED BY Zenon, <1>2, <2>1, GoesFields
<1> HIDE DEF q
<1>4. /\ q.snap = r.snap /\ q.i = r.i + 1 /\ ~q.err /\ ~q.moved
      /\ q.over = r.over /\ q.late = r.late /\ Alike(q, r)
      /\ q.after = (IF r.over THEN 1 ELSE 0)
  BY Zenon, <1>2, <1>3 DEF Kept, Alike, ValidTask, Outcome
<1>5. r.i \in Nat /\ Len(r.snap) \in Nat
  BY DEF ValidTask, TaskRecords
<1>6. Outcome(q)
  BY Zenon, <1>3, <1>4 DEF Outcome, Early
<1>7. Honours(q)
  BY <1>3, <1>4, <1>5 DEF Honours, ValidTask
<1> QED BY Zenon, <1>3, <1>4, <1>6, <1>7 DEF ValidTask, a, p, q

LEMMA CopyFailedValid ==
  ASSUME NEW r, ValidTask(r), r.pc = "add"
  PROVE  LET q == WithStatus([[Appended(r) EXCEPT !.err = TRUE] EXCEPT !.pc = "unlock"],
                             "running")
         IN  /\ ValidTask(q) /\ Alike(q, r) /\ q.pc = "unlock" /\ ~q.moved
<1> DEFINE a == Appended(r)
           p == [a EXCEPT !.err = TRUE]
           q == WithStatus([p EXCEPT !.pc = "unlock"], "running")
<1>1. /\ a \in TaskRecords /\ a.after = (IF r.over THEN 1 ELSE 0)
      /\ a.moved = r.moved /\ a.over = r.over /\ Alike(a, r)
  BY Zenon, AppendedFields
<1> HIDE DEF a
<1>2. /\ p \in TaskRecords /\ p.err /\ p.after = a.after
      /\ p.moved = a.moved /\ p.over = a.over /\ Alike(p, a)
  BY Zenon, <1>1 DEF TaskRecords, Alike
<1> HIDE DEF p
<1>3. q \in TaskRecords /\ Kept(q, p) /\ q.pc = "unlock"
  <2>1. "unlock" \in TaskPlaces
    BY Zenon DEF TaskPlaces
  <2> QED BY Zenon, <1>2, <2>1, GoesFields
<1> HIDE DEF q
<1>4. /\ q.err /\ ~q.moved /\ q.after = (IF r.over THEN 1 ELSE 0)
      /\ q.over = r.over /\ Alike(q, r)
  BY Zenon, <1>1, <1>2, <1>3 DEF Kept, Alike, ValidTask, Outcome, Early
<1>5. q.after \in Nat /\ q.after <= 1 /\ (q.after # 0 => q.over)
  BY <1>4
<1>6. Outcome(q) /\ Honours(q)
  BY Zenon, <1>3, <1>4, <1>5 DEF Outcome, Honours, Early, ValidTask
<1> QED BY Zenon, <1>3, <1>4, <1>6 DEF ValidTask, a, p, q

LEMMA MoveValid ==
  ASSUME NEW r, ValidTask(r), r.pc = "move"
  PROVE  LET q == WithStatus([[r EXCEPT !.moved = TRUE] EXCEPT !.pc = "delete"], "running")
         IN  ValidTask(q) /\ Alike(q, r) /\ q.pc = "delete" /\ q.moved
<1> DEFINE p == [r EXCEPT !.moved = TRUE]
<1>1. /\ p \in TaskRecords /\ p.snap = r.snap /\ p.i = r.i /\ p.err = r.err
      /\ p.after = r.after /\ p.moved /\ p.over = r.over /\ p.late = r.late
      /\ Alike(p, r)
  BY Zenon DEF ValidTask, TaskRecords, Alike
<1> HIDE DEF p
<1> DEFINE q == WithStatus([p EXCEPT !.pc = "delete"], "running")
<1>2. q \in TaskRecords /\ Kept(q, p) /\ q.pc = "delete"
  <2>1. "delete" \in TaskPlaces
    BY Zenon DEF TaskPlaces
  <2> QED BY Zenon, <1>1, <2>1, GoesFields
<1> HIDE DEF q
<1>3. /\ q.snap = r.snap /\ ~q.err /\ q.moved /\ q.after = r.after
      /\ q.over = r.over /\ q.late = r.late /\ Alike(q, r)
  BY Zenon, <1>1, <1>2 DEF Kept, Alike, ValidTask, Outcome
<1>4. Outcome(q) /\ Honours(q)
  BY Zenon, <1>2, <1>3 DEF Outcome, Honours, Early, ValidTask
<1> QED BY Zenon, <1>2, <1>3, <1>4 DEF ValidTask, p, q

LEMMA FailsValid ==
  ASSUME NEW r, ValidTask(r), r.pc \in {"get", "create", "fetch", "copy", "add"}
  PROVE  LET q == WithStatus([r EXCEPT !.err = TRUE, !.pc = "unlock"], "running")
         IN  ValidTask(q) /\ Alike(q, r) /\ q.pc = "unlock" /\ ~q.moved
<1> DEFINE p == [r EXCEPT !.err = TRUE, !.pc = "unlock"]
<1>1. /\ p \in TaskRecords /\ p.err /\ p.pc = "unlock"
      /\ p.after = r.after /\ p.moved = r.moved /\ p.over = r.over /\ Alike(p, r)
  BY Zenon DEF ValidTask, TaskRecords, TaskPlaces, Alike
<1> HIDE DEF p
<1> DEFINE q == WithStatus(p, "running")
<1>2. q \in TaskRecords /\ Kept(q, p) /\ q.pc = p.pc
  <2>1. "running" \in TaskStatuses
    BY Zenon DEF TaskStatuses
  <2> QED BY Zenon, <1>1, <2>1, StatusFields
<1> HIDE DEF q
<1>3. /\ q.err /\ ~q.moved /\ q.after = r.after /\ q.over = r.over /\ Alike(q, r)
      /\ q.pc = "unlock"
  BY Zenon, <1>1, <1>2 DEF Kept, Alike, ValidTask, Outcome, Early
<1>4. Outcome(q) /\ Honours(q)
  BY Zenon, <1>2, <1>3 DEF Outcome, Honours, Early, ValidTask
<1> QED BY Zenon, <1>2, <1>3, <1>4 DEF ValidTask, p, q

LEMMA BusyValid ==
  ASSUME NEW r, ValidTask(r), r.pc = "lock"
  PROVE  LET q == [r EXCEPT !.pc = "finish", !.err = TRUE]
         IN  ValidTask(q) /\ Alike(q, r) /\ q.pc = "finish" /\ ~q.moved
<1> DEFINE q == [r EXCEPT !.pc = "finish", !.err = TRUE]
<1>1. /\ q \in TaskRecords /\ q.err /\ q.pc = "finish"
      /\ q.after = r.after /\ q.moved = r.moved /\ q.over = r.over /\ Alike(q, r)
  BY Zenon DEF ValidTask, TaskRecords, TaskPlaces, Alike
<1> HIDE DEF q
<1>2. ~q.moved
  BY Zenon, <1>1 DEF ValidTask, Outcome, Early
<1>3. Outcome(q) /\ Honours(q)
  BY Zenon, <1>1, <1>2 DEF Outcome, Honours, Early, ValidTask
<1> QED BY Zenon, <1>1, <1>2, <1>3 DEF ValidTask, q

LEMMA UnlockValid ==
  ASSUME NEW r, ValidTask(r), r.pc = "unlock"
  PROVE  LET q == [r EXCEPT !.pc = "finish"]
         IN  ValidTask(q) /\ Kept(q, r) /\ q.pc = "finish"
<1> DEFINE q == [r EXCEPT !.pc = "finish"]
<1>1. q \in TaskRecords /\ Kept(q, r) /\ q.pc = "finish"
  <2>1. r \in TaskRecords /\ "finish" \in TaskPlaces
    BY Zenon DEF ValidTask, TaskPlaces
  <2> QED BY Zenon, <2>1, PlaceFields
<1> HIDE DEF q
<1>2. Outcome(q) /\ Honours(q)
  BY Zenon, <1>1 DEF Outcome, Honours, Early, ValidTask, Kept
<1> QED BY Zenon, <1>1, <1>2 DEF ValidTask, q

LEMMA FinishValid ==
  ASSUME NEW r, ValidTask(r), r.pc = "finish"
  PROVE  LET q == WithStatus([r EXCEPT !.pc = "done", !.running = FALSE],
                             IF r.err THEN "failed" ELSE "completed")
         IN  ValidTask(q) /\ Kept(q, r) /\ q.pc = "done"
<1> DEFINE p == [r EXCEPT !.pc = "done", !.running = FALSE]
           status == IF r.err THEN "failed" ELSE "completed"
<1>1. p \in TaskRecords /\ Kept(p, r) /\ p.pc = "done"
  BY Zenon DEF ValidTask, TaskRecords, TaskPlaces, Kept
<1> HIDE DEF p
<1> DEFINE q == WithStatus(p, status)
<1>2. /\ q \in TaskRecords /\ Kept(q, p) /\ q.pc = p.pc
      /\ p.listed => q.status = status
  <2>1. status \in TaskStatuses
    BY Zenon DEF TaskStatuses
  <2> HIDE DEF status
  <2> QED BY Zenon, <1>1, <2>1, StatusFields
<1> HIDE DEF q
<1>3. Kept(q, r) /\ q.pc = "done" /\ (q.listed => q.status = status)
  BY Zenon, <1>1, <1>2 DEF Kept
<1>4. Outcome(q) /\ Honours(q)
  BY <1>3 DEF Outcome, Honours, Early, ValidTask, Kept
<1> QED BY Zenon, <1>2, <1>3, <1>4 DEF ValidTask, p, q, status

\* The context of a task that has not ended may be over at any time.
LEMMA OverValid ==
  ASSUME NEW r, ValidTask(r), r.pc # "done"
  PROVE  /\ ValidTask(Over(r)) /\ Alike(Over(r), r) /\ Over(r).pc = r.pc
         /\ Over(r).moved = r.moved /\ Over(r).snap = r.snap /\ Over(r).i = r.i
<1> DEFINE q == Over(r)
           tooLate == \/ r.pc \in {"move", "delete", "unlock", "finish"}
                      \/ r.pc = "add" /\ r.i = Len(r.snap)
                      \/ r.pc = "copy" /\ r.i > Len(r.snap)
<1>1. /\ q \in TaskRecords /\ q.pc = r.pc /\ q.snap = r.snap /\ q.i = r.i
      /\ q.err = r.err /\ q.after = r.after /\ q.moved = r.moved /\ q.over
      /\ q.listed = r.listed
      /\ q.late = IF r.over THEN r.late ELSE tooLate
      /\ Alike(q, r)
  BY DEF ValidTask, TaskRecords, Alike, Over
<1> HIDE DEF q
<1>2. r.i \in Nat \ {0} /\ Len(r.snap) \in Nat /\ r.pc \in TaskPlaces
  BY DEF ValidTask, TaskRecords
<1>3. Outcome(q)
  BY Zenon, <1>1 DEF Outcome, Early, ValidTask, Alike
<1>4. r.moved => r.pc \in {"delete", "unlock", "finish"}
  BY Zenon, <1>2 DEF ValidTask, Outcome, Early, TaskPlaces
<1>5. Honours(q)
  <2>1. CASE r.over
    BY Zenon, <1>1, <2>1 DEF Honours, ValidTask
  <2>2. CASE ~r.over
    BY <1>1, <1>2, <1>4, <2>2 DEF Honours, ValidTask
  <2> QED BY Zenon, <2>1, <2>2
<1> QED BY Zenon, <1>1, <1>3, <1>5 DEF ValidTask, q

LEMMA CancelValid ==
  ASSUME NEW r, ValidTask(r), r.listed, r.status \in {"pending", "running"}
  PROVE  LET q == [(IF r.running THEN Over(r) ELSE r) EXCEPT !.status = "cancelled"]
         IN  /\ ValidTask(q) /\ Alike(q, r) /\ q.pc = r.pc
             /\ q.moved = r.moved /\ q.snap = r.snap /\ q.i = r.i
<1> DEFINE p == IF r.running THEN Over(r) ELSE r
<1>1. r.pc # "done"
  BY Zenon DEF ValidTask, Outcome
<1>2. /\ ValidTask(p) /\ Alike(p, r) /\ p.pc = r.pc
      /\ p.moved = r.moved /\ p.snap = r.snap /\ p.i = r.i
  BY Zenon, <1>1, OverValid DEF Alike
<1> HIDE DEF p
<1> DEFINE q == [p EXCEPT !.status = "cancelled"]
<1>3. q \in TaskRecords /\ Kept(q, p) /\ q.pc = p.pc
  BY Zenon, <1>2 DEF ValidTask, TaskRecords, TaskStatuses, Kept
<1> HIDE DEF q
<1>4. Outcome(q) /\ Honours(q)
  BY <1>1, <1>2, <1>3 DEF Outcome, Honours, ValidTask, Kept
<1>5. /\ Alike(q, r) /\ q.pc = r.pc
      /\ q.moved = r.moved /\ q.snap = r.snap /\ q.i = r.i
  BY Zenon, <1>2, <1>3 DEF Kept, Alike
<1> QED BY Zenon, <1>3, <1>4, <1>5 DEF ValidTask, p, q

LEMMA CleanupValid ==
  ASSUME NEW r, ValidTask(r)
  PROVE  LET q == [r EXCEPT !.listed = FALSE]
         IN  /\ ValidTask(q) /\ Alike(q, r) /\ q.pc = r.pc
             /\ q.moved = r.moved /\ q.snap = r.snap /\ q.i = r.i
<1> DEFINE q == [r EXCEPT !.listed = FALSE]
<1>1. /\ q \in TaskRecords /\ q.pc = r.pc /\ q.snap = r.snap /\ q.i = r.i
      /\ q.err = r.err /\ q.after = r.after /\ q.moved = r.moved
      /\ q.over = r.over /\ q.late = r.late /\ ~q.listed /\ Alike(q, r)
  BY Zenon DEF ValidTask, TaskRecords, Alike
<1> HIDE DEF q
<1>2. Outcome(q) /\ Honours(q)
  BY Zenon, <1>1 DEF Outcome, Honours, ValidTask, Alike
<1> QED BY Zenon, <1>1, <1>2 DEF ValidTask, q

LEMMA LongValid ==
  ASSUME NEW r, ValidTask(r), r.pc # "idle"
  PROVE  /\ ValidTask([r EXCEPT !.long = TRUE]) /\ [r EXCEPT !.long = TRUE].long
         /\ [r EXCEPT !.long = TRUE].pc = r.pc
<1> DEFINE q == [r EXCEPT !.long = TRUE]
<1>1. /\ q \in TaskRecords /\ q.pc = r.pc /\ q.snap = r.snap /\ q.i = r.i
      /\ q.err = r.err /\ q.after = r.after /\ q.moved = r.moved
      /\ q.over = r.over /\ q.late = r.late /\ q.listed = r.listed
      /\ q.status = r.status /\ q.long
  BY Zenon DEF ValidTask, TaskRecords
<1> HIDE DEF q
<1>2. Outcome(q) /\ Honours(q)
  BY Zenon, <1>1 DEF Outcome, Honours, ValidTask
<1> QED BY Zenon, <1>1, <1>2 DEF ValidTask, q

-----------------------------------------------------------------------------
\* A task that runs with the lock has it, unless it expired under it, and no
\* other task has it.
LockedInv ==
  \A k \in Tasks :
    /\ task[k].pc \in Locked /\ ~task[k].long => lock = k
    /\ lock = k => task[k].pc \in Locked

Away   == located[Key].count > 0 /\ Primary # Local
NoLong == \A k \in Tasks : ~task[k].long

\* As long as no lock has expired: the timeline leaves the local store at most
\* once, and for good; a task that was started while it was there would move it
\* away; and one that is about to move it finds it there.
AboutToMove(r) == r.pc = "move" \/ (r.pc = "copy" /\ r.i > Len(r.snap))
HomeInv ==
  \A k \in Tasks :
    /\ task[k].moved => Away /\ Primary = task[k].target
    /\ task[k].pc # "idle" =>
         (task[k].source = Local /\ task[k].target # Local) \/ Away
    /\ AboutToMove(task[k]) => OnLocal

MigrationInv ==
  /\ MigrationTypes /\ TasksInv /\ BlocksInv /\ LockedInv
  /\ NoLong => HomeInv

IndexKept == (OnLocal => OnLocal') /\ (Away => Away' /\ Primary' = Primary)

LEMMA SameIndex ==
  ASSUME BlocksInv, UNCHANGED located
  PROVE  BlocksInv' /\ IndexKept
BY Zenon DEF BlocksInv, IndexKept, OnLocal, Away, Primary

LEMMA AddBlocks ==
  ASSUME BlocksInv, AddIndex(Key, CreatedEntry(Local))
  PROVE  BlocksInv' /\ IndexKept
<1> DEFINE e == CreatedEntry(Local)
           bs == located[Key].blocks
<1>1. e \in Entries
  BY Zenon, MigrationAssumption DEF CreatedEntry, Entries, AllBlocks
<1> HIDE DEF e
<1>2. PICK sm, sz : located' = [located EXCEPT ![Key] =
        [blocks |-> Append(bs, e), storeMap |-> sm, size |-> sz,
         count |-> located[Key].count + 1]]
  BY Zenon DEF AddIndex, e
<1>3. /\ DOMAIN located' = Timelines /\ located'[Key].blocks = Append(bs, e)
      /\ {"blocks", "storeMap", "size", "count"} \subseteq DOMAIN located'[Key]
      /\ located'[Key].count = located[Key].count + 1
  BY Zenon, <1>2, MigrationAssumption DEF BlocksInv
<1>4. bs \in Seq(Entries) /\ located[Key].count = Len(bs)
  BY Zenon DEF BlocksInv
<1> HIDE DEF bs
<1>5. /\ Append(bs, e) \in Seq(Entries) /\ Len(Append(bs, e)) = Len(bs) + 1
      /\ Len(bs) \in Nat /\ (Len(bs) > 0 => Append(bs, e)[1] = bs[1])
  BY <1>1, <1>4
<1>6. BlocksInv'
  BY Zenon, <1>3, <1>4, <1>5 DEF BlocksInv
<1>7. /\ located'[Key].count > 0
      /\ located[Key].count > 0 => located'[Key].blocks[1] = located[Key].blocks[1]
  BY <1>3, <1>4, <1>5 DEF bs
<1>8. IndexKept
  BY Zenon, <1>7 DEF IndexKept, OnLocal, Away, Primary
<1> QED BY Zenon, <1>6, <1>8

MovedAll(bs, from, to) == [i \in DOMAIN bs |-> MovedEntry(bs[i], from, to)]

LEMMA MovedEntries ==
  ASSUME NEW from \in Stores, NEW to \in Stores, NEW bs \in Seq(Entries)
  PROVE  /\ MovedAll(bs, from, to) \in Seq(Entries)
         /\ Len(MovedAll(bs, from, to)) = Len(bs) /\ Len(bs) \in Nat
         /\ Len(bs) > 0 /\ bs[1].store = from => MovedAll(bs, from, to)[1].store = to
<1>1. \A e \in Entries : /\ MovedEntry(e, from, to) \in Entries
                         /\ e.store = from => MovedEntry(e, from, to).store = to
  BY Zenon DEF MovedEntry, Entries
<1>2. /\ Len(bs) \in Nat /\ DOMAIN bs = 1..Len(bs)
      /\ \A i \in 1..Len(bs) : bs[i] \in Entries
  OBVIOUS
<1> DEFINE f == MovedAll(bs, from, to)
           n == Len(bs)
<1>3. f \in [1..n -> Entries] /\ \A i \in 1..n : f[i] = MovedEntry(bs[i], from, to)
  BY Zenon, <1>1, <1>2 DEF MovedAll
<1> HIDE DEF f, n
<1>4. n \in Nat
  BY Zenon, <1>2 DEF n
<1>5. f \in Seq(Entries) /\ Len(f) = n
  BY <1>3, <1>4
<1>6. ASSUME n > 0, bs[1].store = from PROVE f[1].store = to
  <2>1. 1 \in 1..n
    BY <1>4, <1>6
  <2>2. bs[1] \in Entries /\ f[1] = MovedEntry(bs[1], from, to)
    BY Zenon, <1>2, <1>3, <2>1 DEF n
  <2> QED BY Zenon, <1>1, <1>6, <2>2
<1> QED BY Zenon, <1>4, <1>5, <1>6 DEF f, n

LEMMA MoveBlocks ==
  ASSUME BlocksInv, NEW from \in Stores, NEW to \in Stores,
         MigrateIndex(Key, from, to)
  PROVE  /\ BlocksInv' /\ located'[Key].count = located[Key].count
         /\ located[Key].count > 0 /\ Primary = from => Primary' = to
<1> DEFINE bs == located[Key].blocks
           moved == MovedAll(bs, from, to)
<1>1. PICK sm : located' = [located EXCEPT ![Key] =
                  [located[Key] EXCEPT !.blocks = moved, !.storeMap = sm]]
  BY Zenon DEF MigrateIndex, MovedAll
<1>2. /\ bs \in Seq(Entries) /\ located[Key].count = Len(bs)
      /\ {"blocks", "storeMap", "size", "count"} \subseteq DOMAIN located[Key]
  BY Zenon DEF BlocksInv
<1>3. /\ moved \in Seq(Entries) /\ Len(moved) = Len(bs) /\ Len(bs) \in Nat
      /\ Len(bs) > 0 /\ bs[1].store = from => moved[1].store = to
  BY Zenon, <1>2, MovedEntries
<1> HIDE DEF moved
<1>4. /\ DOMAIN located' = Timelines /\ located'[Key].blocks = moved
      /\ {"blocks", "storeMap", "size", "count"} \subseteq DOMAIN located'[Key]
      /\ located'[Key].count = located[Key].count
  BY Zenon, <1>1, <1>2, MigrationAssumption DEF BlocksInv
<1>5. BlocksInv'
  BY Zenon, <1>2, <1>3, <1>4 DEF BlocksInv
<1> QED BY Zenon, <1>2, <1>3, <1>4, <1>5 DEF Primary

-----------------------------------------------------------------------------
\* A step of one task.
StepOf(k, q) ==
  /\ DOMAIN task' = Tasks /\ task'[k] = q
  /\ \A j \in Tasks : j # k => task'[j] = task[j]

LEMMA TaskStep ==
  ASSUME MigrationTypes, NEW k \in Tasks, NEW q, task' = [task EXCEPT ![k] = q]
  PROVE  StepOf(k, q)
BY Zenon DEF StepOf, MigrationTypes

\* What a step of one task keeps: it moves no lock but its own, and the index
\* only grows.
LEMMA StepKeeps ==
  ASSUME MigrationInv, NEW k \in Tasks, NEW q, StepOf(k, q), ValidTask(q),
         Alike(q, task[k]), q.moved => task[k].moved, task[k].pc # "idle",
         stored' \in Seq(Nat), fetched' \in Seq(Nat), added' \in Nat,
         lock' \in Tasks \cup {Nobody},
         \A j \in Tasks : j # k => (lock = j <=> lock' = j),
         q.pc \in Locked => lock' = k \/ task[k].long,
         lock' = k => q.pc \in Locked,
         BlocksInv', IndexKept,
         NoLong /\ AboutToMove(q) => OnLocal
  PROVE  MigrationInv'
<1>1. MigrationTypes' /\ BlocksInv'
  BY Zenon DEF MigrationTypes, StepOf
<1>2. TasksInv'
  BY Zenon DEF MigrationInv, TasksInv, StepOf
<1>3. LockedInv'
  <2> SUFFICES ASSUME NEW j \in Tasks
               PROVE  /\ task'[j].pc \in Locked /\ ~task'[j].long => lock' = j
                      /\ lock' = j => task'[j].pc \in Locked
    BY Zenon DEF LockedInv
  <2>1. CASE j = k
    BY Zenon, <2>1 DEF StepOf, Alike
  <2>2. CASE j # k
    BY Zenon, <2>2 DEF StepOf, MigrationInv, LockedInv
  <2> QED BY Zenon, <2>1, <2>2
<1>4. ASSUME NoLong' PROVE HomeInv'
  <2>1. NoLong
    <3> SUFFICES ASSUME NEW j \in Tasks PROVE ~task[j].long
      BY Zenon DEF NoLong
    <3>1. ~task'[j].long
      BY Zenon, <1>4 DEF NoLong
    <3> QED BY Zenon, <3>1 DEF StepOf, Alike
  <2>2. HomeInv
    BY Zenon, <2>1 DEF MigrationInv
  <2> SUFFICES ASSUME NEW j \in Tasks
               PROVE  /\ task'[j].moved => Away' /\ Primary' = task'[j].target
                      /\ task'[j].pc # "idle" =>
                           (task'[j].source = Local /\ task'[j].target # Local) \/ Away'
                      /\ AboutToMove(task'[j]) => OnLocal'
    BY Zenon DEF HomeInv
  <2>3. CASE j = k
    BY Zenon, <2>1, <2>2, <2>3 DEF HomeInv, StepOf, Alike, IndexKept
  <2>4. CASE j # k
    BY Zenon, <2>2, <2>4 DEF HomeInv, StepOf, IndexKept
  <2> QED BY Zenon, <2>3, <2>4
<1> QED BY Zenon, <1>1, <1>2, <1>3, <1>4 DEF MigrationInv

\* A step of a caller of the accessor.
LEMMA CallKeeps ==
  ASSUME MigrationInv, UNCHANGED <<task, lock>>,
         stored' \in Seq(Nat), fetched' \in Seq(Nat), added' \in Nat,
         BlocksInv', IndexKept
  PROVE  MigrationInv'
<1>1. MigrationTypes' /\ TasksInv' /\ LockedInv'
  BY Zenon DEF MigrationInv, MigrationTypes, TasksInv, LockedInv
<1>2. ASSUME NoLong' PROVE HomeInv'
  <2>1. HomeInv
    BY Zenon, <1>2 DEF MigrationInv, NoLong
  <2> SUFFICES ASSUME NEW j \in Tasks
               PROVE  /\ task[j].moved => Away' /\ Primary' = task[j].target
                      /\ task[j].pc # "idle" =>
                           (task[j].source = Local /\ task[j].target # Local) \/ Away'
                      /\ AboutToMove(task[j]) => OnLocal'
    BY Zenon DEF HomeInv
  <2> QED BY Zenon, <2>1 DEF HomeInv, IndexKept
<1> QED BY Zenon, <1>1, <1>2 DEF MigrationInv

LEMMA QuietMigrationStep ==
  ASSUME MigrationInv, NEW k \in Tasks, NEW q, StepOf(k, q), ValidTask(q),
         Alike(q, task[k]), q.moved => task[k].moved, task[k].pc # "idle",
         stored' \in Seq(Nat), fetched' \in Seq(Nat), UNCHANGED <<added, lock, located>>,
         q.pc \in Locked <=> task[k].pc \in Locked,
         NoLong /\ AboutToMove(q) => OnLocal
  PROVE  MigrationInv'
<1>1. BlocksInv' /\ IndexKept
  BY Zenon, SameIndex DEF MigrationInv
<1>2. added' \in Nat /\ lock' \in Tasks \cup {Nobody}
  BY Zenon DEF MigrationInv, MigrationTypes
<1>3. (q.pc \in Locked => lock' = k \/ task[k].long) /\ (lock' = k => q.pc \in Locked)
  BY Zenon DEF MigrationInv, LockedInv
<1>4. \A j \in Tasks : j # k => (lock = j <=> lock' = j)
  BY Zenon
<1> QED BY Zenon, <1>1, <1>2, <1>3, <1>4, StepKeeps

\* The record of a task, before the steps that change it.
LEMMA TaskIsValid ==
  ASSUME MigrationInv, NEW k \in Tasks
  PROVE  /\ ValidTask(task[k])
         /\ task[k].pc \in Early => ~task[k].moved
         /\ task[k].pc \in {"copy", "add", "move"} => ~task[k].moved
         /\ stored \in Seq(Nat) /\ fetched \in Seq(Nat)
         /\ MigrationTypes
BY Zenon DEF MigrationInv, TasksInv, MigrationTypes, ValidTask, Outcome

LEMMA InitMigration == IndexInit /\ MigrationInit => MigrationInv
<1> SUFFICES ASSUME IndexInit, MigrationInit PROVE MigrationInv
  BY Zenon
<1>1. ValidTask(NewTask) /\ NewTask.pc = "idle" /\ ~NewTask.moved
  BY Zenon, NewTaskFields, NewTaskValid
<1>2. DOMAIN task = Tasks /\ \A k \in Tasks : task[k] = NewTask
  BY Zenon DEF MigrationInit
<1>3. MigrationTypes
  BY <1>2 DEF MigrationInit, MigrationTypes
<1>4. BlocksInv
  <2>1. DOMAIN located = Timelines /\ located[Key] = NoLocation
    BY Zenon, MigrationAssumption DEF IndexInit
  <2>2. /\ NoLocation.blocks = <<>> /\ NoLocation.count = 0
        /\ {"blocks", "storeMap", "size", "count"} \subseteq DOMAIN NoLocation
    BY Zenon DEF NoLocation
  <2>3. <<>> \in Seq(Entries) /\ Len(<<>>) = 0
    OBVIOUS
  <2> QED BY Zenon, <2>1, <2>2, <2>3 DEF BlocksInv
<1>5. TasksInv
  BY Zenon, <1>1, <1>2 DEF TasksInv
<1>6. LockedInv
  <2>1. "idle" \notin Locked /\ lock = Nobody
    BY Zenon DEF Locked, MigrationInit
  <2> QED BY Zenon, <1>1, <1>2, <2>1, TasksAssumption DEF LockedInv
<1>7. HomeInv
  <2>1. ~AboutToMove(NewTask)
    BY Zenon, <1>1 DEF AboutToMove
  <2> QED BY Zenon, <1>1, <1>2, <2>1 DEF HomeInv
<1> QED BY Zenon, <1>3, <1>4, <1>5, <1>6, <1>7 DEF MigrationInv

LEMMA AccessorKeeps ==
  ASSUME MigrationInv, CreateTimeline \/ AddMessage \/ GetTimeline \/ SecondPasses
  PROVE  MigrationInv'
<1>1. stored \in Seq(Nat) /\ fetched \in Seq(Nat) /\ added \in Nat /\ BlocksInv
  BY Zenon DEF MigrationInv, MigrationTypes
<1>2. UNCHANGED <<task, lock>>
  BY Zenon DEF CreateTimeline, AddMessage, GetTimeline, SecondPasses
<1>3. stored' \in Seq(Nat) /\ fetched' \in Seq(Nat) /\ added' \in Nat
  <2>1. CASE AddMessage
    BY <1>1, <2>1 DEF AddMessage
  <2>2. CASE SecondPasses
    BY <1>1, <2>2 DEF SecondPasses
  <2>3. CASE CreateTimeline \/ GetTimeline
    BY Zenon, <1>1, <2>3 DEF CreateTimeline, GetTimeline
  <2> QED BY Zenon, <2>1, <2>2, <2>3
<1>4. BlocksInv' /\ IndexKept
  <2>1. CASE CreateTimeline
    BY Zenon, <1>1, <2>1, AddBlocks DEF CreateTimeline
  <2>2. CASE AddMessage \/ GetTimeline \/ SecondPasses
    <3>1. UNCHANGED located
      BY Zenon, <2>2 DEF AddMessage, GetTimeline, SecondPasses, indexVars
    <3> QED BY Zenon, <1>1, <3>1, SameIndex
  <2> QED BY Zenon, <2>1, <2>2
<1> QED BY Zenon, <1>2, <1>3, <1>4, CallKeeps

LEMMA StartKeeps ==
  ASSUME MigrationInv, NEW k \in Tasks, StartMigration(k)
  PROVE  MigrationInv'
<1>1. PICK target \in Stores \ {Primary} :
        task' = [task EXCEPT ![k] = Started(Primary, target)]
  BY Zenon DEF StartMigration, Started
<1>2. /\ task[k].pc = "idle" /\ located[Key].count > 0
      /\ UNCHANGED <<stored, added, fetched, lock, located>>
  BY Zenon DEF StartMigration, indexVars
<1>3. Primary \in Stores
  <2>1. located[Key].blocks \in Seq(Entries) /\ Len(located[Key].blocks) > 0
    BY Zenon, <1>2 DEF MigrationInv, BlocksInv
  <2>2. located[Key].blocks[1] \in Entries
    BY <2>1
  <2> QED BY Zenon, <2>2 DEF Primary, Entries
<1> DEFINE q == Started(Primary, target)
<1>4. StepOf(k, q)
  BY Zenon, <1>1, TaskStep DEF MigrationInv
<1>5. /\ ValidTask(q) /\ q.pc = "start" /\ ~q.long /\ ~q.moved
      /\ q.source = Primary /\ q.target = target
  <2>1. AtStart(q, Primary, target)
    BY Zenon, <1>1, <1>3, StartValid
  <2> QED BY Zenon, <2>1 DEF AtStart
<1> HIDE DEF q
<1>7. BlocksInv' /\ IndexKept
  BY Zenon, <1>2, SameIndex DEF MigrationInv
<1>8. MigrationTypes'
  BY Zenon, <1>2, <1>4 DEF MigrationInv, MigrationTypes, StepOf
<1>9. TasksInv'
  BY Zenon, <1>4, <1>5 DEF MigrationInv, TasksInv, StepOf
<1>10. LockedInv'
  <2>1. "start" \notin Locked /\ "idle" \notin Locked
    BY Zenon DEF Locked
  <2> QED BY Zenon, <1>2, <1>4, <1>5, <2>1 DEF MigrationInv, LockedInv, StepOf
<1>11. ASSUME NoLong' PROVE HomeInv'
  <2>1. NoLong
    <3> SUFFICES ASSUME NEW j \in Tasks PROVE ~task[j].long
      BY Zenon DEF NoLong
    <3>1. CASE j = k
      BY Zenon, <1>2, <3>1, TaskIsValid DEF ValidTask, Outcome
    <3>2. CASE j # k
      BY Zenon, <1>4, <1>11, <3>2 DEF NoLong, StepOf
    <3> QED BY Zenon, <3>1, <3>2
  <2>2. HomeInv
    BY Zenon, <2>1 DEF MigrationInv
  <2> SUFFICES ASSUME NEW j \in Tasks
               PROVE  /\ task'[j].moved => Away' /\ Primary' = task'[j].target
                      /\ task'[j].pc # "idle" =>
                           (task'[j].source = Local /\ task'[j].target # Local) \/ Away'
                      /\ AboutToMove(task'[j]) => OnLocal'
    BY Zenon DEF HomeInv
  <2>3. CASE j = k
    <3>1. ~AboutToMove(q)
      BY Zenon, <1>5 DEF AboutToMove
    <3>2. (Primary = Local /\ target # Local) \/ Away
      BY Zenon, <1>1, <1>2 DEF Away
    <3> QED BY Zenon, <1>4, <1>5, <1>7, <2>3, <3>1, <3>2 DEF StepOf, IndexKept
  <2>4. CASE j # k
    BY Zenon, <1>4, <1>7, <2>2, <2>4 DEF HomeInv, StepOf, IndexKept
  <2> QED BY Zenon, <2>3, <2>4
<1> QED BY Zenon, <1>7, <1>8, <1>9, <1>10, <1>11 DEF MigrationInv

LEMMA ExecuteKeeps ==
  ASSUME MigrationInv, NEW k \in Tasks, Execute(k)
  PROVE  MigrationInv'
<1> DEFINE q == WithStatus([[task[k] EXCEPT !.running = TRUE] EXCEPT !.pc = "lock"],
                           "running")
<1>1. /\ task[k].pc = "start" /\ task' = [task EXCEPT ![k] = q]
      /\ UNCHANGED <<stored, added, fetched, lock, located>>
  BY Zenon DEF Execute, Goes, indexVars
<1>2. ValidTask(q) /\ Kept(q, task[k]) /\ q.pc = "lock"
  BY Zenon, <1>1, TaskIsValid, ExecuteValid
<1> HIDE DEF q
<1>3. StepOf(k, q) /\ stored' \in Seq(Nat) /\ fetched' \in Seq(Nat)
  BY Zenon, <1>1, TaskStep, TaskIsValid
<1>4. /\ Alike(q, task[k]) /\ (q.moved => task[k].moved) /\ task[k].pc # "idle"
      /\ q.pc \notin Locked /\ task[k].pc \notin Locked /\ ~AboutToMove(q)
  BY Zenon, <1>1, <1>2 DEF Kept, Alike, Locked, AboutToMove
<1> QED BY Zenon, <1>1, <1>2, <1>3, <1>4, QuietMigrationStep

LEMMA AcquireKeeps ==
  ASSUME MigrationInv, NEW k \in Tasks, AcquireMigrationLock(k)
  PROVE  MigrationInv'
<1>1. /\ task[k].pc = "lock"
      /\ UNCHANGED <<stored, added, fetched, located>>
  BY Zenon DEF AcquireMigrationLock, indexVars
<1>2. /\ ValidTask(task[k]) /\ ~task[k].moved /\ task[k].pc \in Early
      /\ task[k].pc \notin Locked /\ task[k].pc # "idle"
  BY Zenon, <1>1, TaskIsValid DEF Early, Locked
<1>3. stored' \in Seq(Nat) /\ fetched' \in Seq(Nat) /\ MigrationTypes
  BY Zenon, <1>1, TaskIsValid
<1>4. CASE lock = Nobody
  <2> DEFINE q == WithStatus([task[k] EXCEPT !.pc = "get"], "running")
  <2>1. lock' = k /\ task' = [task EXCEPT ![k] = q]
    BY Zenon, <1>4 DEF AcquireMigrationLock, Goes
  <2>2. ValidTask(q) /\ Kept(q, task[k]) /\ q.pc = "get"
    <3>1. "get" \in TaskPlaces /\ "get" \in Early \ {"idle"}
      BY Zenon DEF TaskPlaces, Early
    <3> QED BY Zenon, <1>2, <3>1, GoesValid
  <2> HIDE DEF q
  <2>3. StepOf(k, q)
    BY Zenon, <1>3, <2>1, TaskStep
  <2>4. /\ Alike(q, task[k]) /\ (q.moved => task[k].moved)
        /\ q.pc \in Locked /\ ~AboutToMove(q)
    BY Zenon, <2>2 DEF Kept, Alike, Locked, AboutToMove
  <2>5. \A j \in Tasks : j # k => (lock = j <=> lock' = j)
    BY Zenon, <1>4, <2>1, TasksAssumption
  <2>6. BlocksInv' /\ IndexKept /\ added' \in Nat /\ lock' \in Tasks \cup {Nobody}
    BY Zenon, <1>1, <2>1, SameIndex DEF MigrationInv, MigrationTypes
  <2> QED BY Zenon, <1>2, <1>3, <2>1, <2>2, <2>3, <2>4, <2>5, <2>6, StepKeeps
<1>5. CASE lock # Nobody
  <2> DEFINE q == [task[k] EXCEPT !.pc = "finish", !.err = TRUE]
  <2>1. UNCHANGED lock /\ task' = [task EXCEPT ![k] = q]
    BY Zenon, <1>3, <1>5 DEF AcquireMigrationLock, MigrationTypes
  <2>2. ValidTask(q) /\ Alike(q, task[k]) /\ q.pc = "finish" /\ ~q.moved
    BY Zenon, <1>1, <1>2, BusyValid
  <2> HIDE DEF q
  <2>4. StepOf(k, q)
    BY Zenon, <1>3, <2>1, TaskStep
  <2>5. q.pc \notin Locked /\ ~AboutToMove(q)
    BY Zenon, <2>2 DEF Locked, AboutToMove
  <2> QED BY Zenon, <1>1, <1>2, <1>3, <2>1, <2>2, <2>4, <2>5, QuietMigrationStep
<1> QED BY Zenon, <1>4, <1>5

LEMMA ExpiryKeeps ==
  ASSUME MigrationInv, LockExpires
  PROVE  MigrationInv'
<1> DEFINE k == lock
           q == [task[k] EXCEPT !.long = TRUE]
<1>1. /\ k \in Tasks /\ lock' = Nobody /\ task' = [task EXCEPT ![k] = q]
      /\ UNCHANGED <<stored, added, fetched, located>>
  BY Zenon DEF LockExpires, MigrationInv, MigrationTypes, indexVars
<1>2. ValidTask(task[k]) /\ task[k].pc \in Locked /\ task[k].pc # "idle"
  BY Zenon, <1>1, TaskIsValid DEF MigrationInv, LockedInv, Locked
<1>3. ValidTask(q) /\ q.long /\ q.pc = task[k].pc
  BY Zenon, <1>2, LongValid
<1>4. StepOf(k, q)
  BY Zenon, <1>1, TaskStep DEF MigrationInv
<1> HIDE DEF q
<1>6. MigrationTypes' /\ TasksInv'
  BY Zenon, <1>1, <1>3, <1>4 DEF MigrationInv, MigrationTypes, TasksInv, StepOf
<1>7. LockedInv'
  <2> SUFFICES ASSUME NEW j \in Tasks
               PROVE  /\ task'[j].pc \in Locked /\ ~task'[j].long => lock' = j
                      /\ lock' = j => task'[j].pc \in Locked
    BY Zenon DEF LockedInv
  <2>1. lock' # j
    BY Zenon, <1>1, TasksAssumption
  <2>2. CASE j = k
    BY Zenon, <1>3, <1>4, <2>1, <2>2 DEF StepOf
  <2>3. CASE j # k
    BY Zenon, <1>4, <2>1, <2>3 DEF StepOf, MigrationInv, LockedInv
  <2> QED BY Zenon, <2>2, <2>3
<1>8. ~NoLong' /\ BlocksInv'
  BY Zenon, <1>1, <1>3, <1>4, SameIndex DEF NoLong, StepOf, MigrationInv
<1> QED BY Zenon, <1>6, <1>7, <1>8 DEF MigrationInv

\* A task that gives up.
LEMMA FailsKeeps ==
  ASSUME MigrationInv, NEW k \in Tasks, Fails(k),
         task[k].pc \in {"get", "create", "fetch", "copy", "add"},
         stored' \in Seq(Nat), fetched' \in Seq(Nat),
         UNCHANGED <<stored, fetched, added>>, UNCHANGED <<added, lock, located>>
  PROVE  MigrationInv'
<1> DEFINE q == WithStatus([task[k] EXCEPT !.err = TRUE, !.pc = "unlock"], "running")
<1>1. task' = [task EXCEPT ![k] = q]
  BY Zenon DEF Fails
<1>2. ValidTask(q) /\ Alike(q, task[k]) /\ q.pc = "unlock" /\ ~q.moved
  BY Zenon, TaskIsValid, FailsValid
<1> HIDE DEF q
<1>4. StepOf(k, q)
  BY Zenon, <1>1, TaskStep, TaskIsValid
<1>5. /\ task[k].pc # "idle" /\ q.pc \in Locked /\ task[k].pc \in Locked
      /\ ~AboutToMove(q)
  BY Zenon, <1>2 DEF Locked, AboutToMove
<1> QED BY Zenon, <1>1, <1>2, <1>4, <1>5, QuietMigrationStep

\* A task that goes on from one place to the next, with the lock.
LEMMA GoesKeeps ==
  ASSUME MigrationInv, NEW k \in Tasks, NEW place \in Locked \ {"copy"},
         Goes(k, task[k], place), task[k].pc \in Locked,
         \/ task[k].pc \in Early /\ place \in Early \ {"idle"}
         \/ task[k].pc = "copy" /\ place = "move" /\ task[k].i > Len(task[k].snap)
         \/ /\ task[k].pc = "copy" /\ place = "add"
            /\ ~(task[k].i > Len(task[k].snap)) /\ ~task[k].over
         \/ task[k].pc = "delete" /\ place = "unlock",
         UNCHANGED <<stored, fetched, added, lock>>, BlocksInv', IndexKept,
         NoLong /\ place = "move" => OnLocal
  PROVE  MigrationInv'
<1> DEFINE q == WithStatus([task[k] EXCEPT !.pc = place], "running")
<1>1. task' = [task EXCEPT ![k] = q]
  BY Zenon DEF Goes
<1>2. ValidTask(q) /\ Kept(q, task[k]) /\ q.pc = place
  <2>1. place \in TaskPlaces
    BY Zenon DEF Locked, TaskPlaces
  <2>2. ValidTask(task[k])
    BY Zenon, TaskIsValid
  <2> QED BY Zenon, <2>1, <2>2, GoesValid
<1> HIDE DEF q
<1>3. StepOf(k, q) /\ stored' \in Seq(Nat) /\ fetched' \in Seq(Nat)
  BY Zenon, <1>1, TaskStep, TaskIsValid
<1>4. /\ Alike(q, task[k]) /\ (q.moved => task[k].moved) /\ task[k].pc # "idle"
      /\ q.pc \in Locked /\ (NoLong /\ AboutToMove(q) => OnLocal)
  BY Zenon, <1>2 DEF Kept, Alike, Locked, AboutToMove
<1>5. added' \in Nat /\ lock' \in Tasks \cup {Nobody}
  BY Zenon DEF MigrationInv, MigrationTypes
<1>6. lock' = k \/ task[k].long
  BY Zenon DEF MigrationInv, LockedInv
<1>7. \A j \in Tasks : j # k => (lock = j <=> lock' = j)
  BY Zenon
<1> QED BY Zenon, <1>2, <1>3, <1>4, <1>5, <1>6, <1>7, StepKeeps

LEMMA GetSourceKeeps ==
  ASSUME MigrationInv, NEW k \in Tasks, GetSource(k)
  PROVE  MigrationInv'
<1>1. /\ task[k].pc = "get" /\ UNCHANGED <<stored, fetched, added, lock, located>>
      /\ Goes(k, task[k], "create") \/ Fails(k)
  BY Zenon DEF GetSource, indexVars
<1>2. /\ "create" \in Locked \ {"copy"} /\ "create" \in Early \ {"idle"} /\ "create" # "move"
      /\ task[k].pc \in Locked /\ task[k].pc \in Early
      /\ task[k].pc \in {"get", "create", "fetch", "copy", "add"}
  BY Zenon, <1>1 DEF Locked, Early
<1>3. stored' \in Seq(Nat) /\ fetched' \in Seq(Nat) /\ BlocksInv' /\ IndexKept
  BY Zenon, <1>1, TaskIsValid, SameIndex DEF MigrationInv
<1>4. CASE Goes(k, task[k], "create")
  BY Zenon, <1>1, <1>2, <1>3, <1>4, GoesKeeps
<1>5. CASE Fails(k)
  BY Zenon, <1>1, <1>2, <1>3, <1>5, FailsKeeps
<1> QED BY Zenon, <1>1, <1>4, <1>5

LEMMA CreateTargetKeeps ==
  ASSUME MigrationInv, NEW k \in Tasks, CreateTarget(k)
  PROVE  MigrationInv'
<1>1. /\ task[k].pc = "create" /\ UNCHANGED <<stored, fetched, added, lock>>
      /\ \/ AddIndex(Key, CreatedEntry(Local)) /\ Goes(k, task[k], "fetch")
         \/ Fails(k) /\ UNCHANGED located
  BY Zenon DEF CreateTarget, indexVars
<1>2. /\ "fetch" \in Locked \ {"copy"} /\ "fetch" \in Early \ {"idle"} /\ "fetch" # "move"
      /\ task[k].pc \in Locked /\ task[k].pc \in Early
      /\ task[k].pc \in {"get", "create", "fetch", "copy", "add"}
  BY Zenon, <1>1 DEF Locked, Early
<1>3. stored' \in Seq(Nat) /\ fetched' \in Seq(Nat)
  BY Zenon, <1>1, TaskIsValid
<1>4. CASE AddIndex(Key, CreatedEntry(Local)) /\ Goes(k, task[k], "fetch")
  <2>1. BlocksInv' /\ IndexKept
    BY Zenon, <1>4, AddBlocks DEF MigrationInv
  <2> QED BY Zenon, <1>1, <1>2, <1>4, <2>1, GoesKeeps
<1>5. CASE Fails(k) /\ UNCHANGED located
  BY Zenon, <1>1, <1>2, <1>3, <1>5, FailsKeeps
<1> QED BY Zenon, <1>1, <1>4, <1>5

LEMMA FetchKeepsTask ==
  ASSUME MigrationInv, NEW k \in Tasks, FetchMessages(k)
  PROVE  MigrationInv'
<1>1. task[k].pc = "fetch" /\ UNCHANGED <<stored, added, lock, located>>
  BY Zenon DEF FetchMessages, indexVars
<1>2. /\ task[k].pc \in Locked /\ task[k].pc \in Early /\ task[k].pc # "idle"
      /\ task[k].pc \in {"get", "create", "fetch", "copy", "add"}
  BY Zenon, <1>1 DEF Locked, Early
<1>3. /\ stored \in Seq(Nat) /\ fetched \in Seq(Nat) /\ MigrationTypes
      /\ ValidTask(task[k]) /\ ~task[k].moved
  BY Zenon, <1>2, TaskIsValid
<1>4. ASSUME NEW s \in Seq(Nat), Goes(k, [task[k] EXCEPT !.snap = s], "copy"),
             s # <<>> \/ OnLocal, fetched' \in Seq(Nat)
      PROVE  MigrationInv'
  <2> DEFINE q == WithStatus([[task[k] EXCEPT !.snap = s] EXCEPT !.pc = "copy"],
                             "running")
  <2>1. task' = [task EXCEPT ![k] = q]
    BY Zenon, <1>4 DEF Goes
  <2>2. /\ ValidTask(q) /\ Alike(q, task[k]) /\ q.pc = "copy"
        /\ q.snap = s /\ q.i = 1 /\ ~q.moved
    BY Zenon, <1>1, <1>3, FetchValid
  <2> HIDE DEF q
  <2>3. StepOf(k, q)
    BY Zenon, <1>3, <2>1, TaskStep
  <2>4. AboutToMove(q) => OnLocal
    <3>1. s # <<>> => ~(1 > Len(s))
      BY Zenon, FirstOf
    <3> QED BY Zenon, <1>4, <2>2, <3>1 DEF AboutToMove
  <2>5. q.pc \in Locked /\ stored' \in Seq(Nat)
    BY Zenon, <1>1, <1>3, <2>2 DEF Locked
  <2> QED BY Zenon, <1>1, <1>2, <1>4, <2>2, <2>3, <2>4, <2>5, QuietMigrationStep
<1>5. \/ /\ fetched # <<>> /\ UNCHANGED fetched
         /\ Goes(k, [task[k] EXCEPT !.snap = fetched], "copy")
      \/ /\ OnLocal /\ fetched' = stored
         /\ Goes(k, [task[k] EXCEPT !.snap = stored], "copy")
      \/ Fails(k) /\ UNCHANGED fetched
  BY Zenon DEF FetchMessages
<1>7. CASE /\ fetched # <<>> /\ UNCHANGED fetched
           /\ Goes(k, [task[k] EXCEPT !.snap = fetched], "copy")
  <2>1. fetched' \in Seq(Nat)
    BY Zenon, <1>3, <1>7
  <2> QED BY Zenon, <1>3, <1>4, <1>7, <2>1
<1>8. CASE /\ OnLocal /\ fetched' = stored
           /\ Goes(k, [task[k] EXCEPT !.snap = stored], "copy")
  <2>1. fetched' \in Seq(Nat)
    BY Zenon, <1>3, <1>8
  <2> QED BY Zenon, <1>3, <1>4, <1>8, <2>1
<1>9. CASE Fails(k) /\ UNCHANGED fetched
  <2>1. stored' \in Seq(Nat) /\ fetched' \in Seq(Nat)
    BY Zenon, <1>1, <1>3, <1>9
  <2> QED BY Zenon, <1>1, <1>2, <1>9, <2>1, FailsKeeps
<1> QED BY Zenon, <1>5, <1>7, <1>8, <1>9

LEMMA CheckContextKeeps ==
  ASSUME MigrationInv, NEW k \in Tasks, CheckContext(k)
  PROVE  MigrationInv'
<1>1. /\ task[k].pc = "copy" /\ UNCHANGED <<stored, fetched, added, lock, located>>
      /\ \/ task[k].i > Len(task[k].snap) /\ Goes(k, task[k], "move")
         \/ /\ ~(task[k].i > Len(task[k].snap)) /\ ~task[k].over
            /\ Goes(k, task[k], "add")
         \/ Fails(k)
  BY Zenon DEF CheckContext, indexVars
<1>2. /\ "move" \in Locked \ {"copy"} /\ "add" \in Locked \ {"copy"} /\ "add" # "move"
      /\ task[k].pc \in Locked
      /\ task[k].pc \in {"get", "create", "fetch", "copy", "add"}
  BY Zenon, <1>1 DEF Locked
<1>3. stored' \in Seq(Nat) /\ fetched' \in Seq(Nat) /\ BlocksInv' /\ IndexKept
  BY Zenon, <1>1, TaskIsValid, SameIndex DEF MigrationInv
<1>4. CASE task[k].i > Len(task[k].snap) /\ Goes(k, task[k], "move")
  <2>1. NoLong => OnLocal
    BY Zenon, <1>1, <1>4 DEF MigrationInv, HomeInv, AboutToMove
  <2> QED BY Zenon, <1>1, <1>2, <1>3, <1>4, <2>1, GoesKeeps
<1>5. CASE /\ ~(task[k].i > Len(task[k].snap)) /\ ~task[k].over
           /\ Goes(k, task[k], "add")
  BY Zenon, <1>1, <1>2, <1>3, <1>5, GoesKeeps
<1>6. CASE Fails(k)
  BY Zenon, <1>1, <1>2, <1>3, <1>6, FailsKeeps
<1> QED BY Zenon, <1>1, <1>4, <1>5, <1>6

LEMMA CopyMessageKeeps ==
  ASSUME MigrationInv, NEW k \in Tasks, CopyMessage(k)
  PROVE  MigrationInv'
<1>1. task[k].pc = "add" /\ UNCHANGED <<fetched, added, lock, located>>
  BY Zenon DEF CopyMessage, indexVars
<1>2. /\ task[k].pc \in Locked /\ task[k].pc # "idle"
      /\ task[k].pc \in {"get", "create", "fetch", "copy", "add"}
      /\ task[k].pc \in {"copy", "add", "move"}
  BY Zenon, <1>1 DEF Locked
<1>3. /\ stored \in Seq(Nat) /\ fetched' \in Seq(Nat) /\ MigrationTypes
      /\ ValidTask(task[k]) /\ ~task[k].moved
  BY Zenon, <1>1, <1>2, TaskIsValid
<1>4. CASE OnLocal
  <2> DEFINE q == WithStatus([[Appended(task[k]) EXCEPT !.i = @ + 1] EXCEPT !.pc = "copy"],
                             "running")
             f == WithStatus([[Appended(task[k]) EXCEPT !.err = TRUE] EXCEPT !.pc = "unlock"],
                             "running")
  <2>1. task' = [task EXCEPT ![k] = q] \/ task' = [task EXCEPT ![k] = f]
    BY Zenon, <1>4 DEF CopyMessage, Goes
  <2>2. ValidTask(q) /\ Alike(q, task[k]) /\ q.pc = "copy" /\ ~q.moved
    BY Zenon, <1>1, <1>3, CopyValid
  <2>3. ValidTask(f) /\ Alike(f, task[k]) /\ f.pc = "unlock" /\ ~f.moved
    BY Zenon, <1>1, <1>3, CopyFailedValid
  <2> HIDE DEF q, f
  <2>4. StepOf(k, q) \/ StepOf(k, f)
    BY Zenon, <1>3, <2>1, TaskStep
  <2>5. stored' \in Seq(Nat)
    <3>1. /\ task[k].i \in Nat \ {0} /\ task[k].snap \in Seq(Nat)
          /\ task[k].i <= Len(task[k].snap)
      BY Zenon, <1>1, <1>3 DEF ValidTask, TaskRecords, Honours
    <3>2. task[k].snap[task[k].i] \in Nat
      BY Zenon, <3>1, PlaceOf
    <3>3. stored' = Append(stored, task[k].snap[task[k].i])
      BY Zenon, <1>4 DEF CopyMessage
    <3> QED BY <1>3, <3>2, <3>3
  <2>6. q.pc \in Locked /\ f.pc \in Locked /\ ~AboutToMove(f)
    BY Zenon, <2>2, <2>3 DEF Locked, AboutToMove
  <2>7. CASE StepOf(k, q)
    BY Zenon, <1>1, <1>2, <1>3, <1>4, <2>2, <2>5, <2>6, <2>7, QuietMigrationStep
  <2>8. CASE StepOf(k, f)
    BY Zenon, <1>1, <1>2, <1>3, <2>3, <2>5, <2>6, <2>8, QuietMigrationStep
  <2> QED BY Zenon, <2>4, <2>7, <2>8
<1>5. CASE ~OnLocal
  <2>1. Fails(k) /\ UNCHANGED stored
    BY Zenon, <1>5 DEF CopyMessage
  <2>2. stored' \in Seq(Nat)
    BY Zenon, <1>3, <2>1
  <2> QED BY Zenon, <1>1, <1>2, <1>3, <2>1, <2>2, FailsKeeps
<1> QED BY Zenon, <1>4, <1>5

LEMMA MoveIndexKeeps ==
  ASSUME MigrationInv, NEW k \in Tasks, MoveIndex(k)
  PROVE  MigrationInv'
<1> DEFINE q == WithStatus([[task[k] EXCEPT !.moved = TRUE] EXCEPT !.pc = "delete"],
                           "running")
<1>1. /\ task[k].pc = "move" /\ task' = [task EXCEPT ![k] = q]
      /\ MigrateIndex(Key, task[k].source, task[k].target)
      /\ UNCHANGED <<stored, fetched, added, lock>>
  BY Zenon DEF MoveIndex, Goes
<1>2. ValidTask(q) /\ Alike(q, task[k]) /\ q.pc = "delete" /\ q.moved
  BY Zenon, <1>1, TaskIsValid, MoveValid
<1>3. StepOf(k, q)
  BY Zenon, <1>1, TaskStep, TaskIsValid
<1> HIDE DEF q
<1>5. task[k].source \in Stores /\ task[k].target \in Stores
  BY Zenon, TaskIsValid DEF ValidTask, TaskRecords
<1>6. /\ BlocksInv' /\ located'[Key].count = located[Key].count
      /\ located[Key].count > 0 /\ Primary = task[k].source => Primary' = task[k].target
  BY Zenon, <1>1, <1>5, MoveBlocks DEF MigrationInv
<1>7. /\ task[k].pc \in Locked /\ q.pc \in Locked /\ task[k].pc # "idle"
      /\ AboutToMove(task[k]) /\ ~AboutToMove(q) /\ q.pc # "idle"
  BY Zenon, <1>1, <1>2 DEF Locked, AboutToMove
<1>8. MigrationTypes' /\ TasksInv'
  BY Zenon, <1>1, <1>2, <1>3 DEF MigrationInv, MigrationTypes, TasksInv, StepOf
<1>9. LockedInv'
  <2> SUFFICES ASSUME NEW j \in Tasks
               PROVE  /\ task'[j].pc \in Locked /\ ~task'[j].long => lock' = j
                      /\ lock' = j => task'[j].pc \in Locked
    BY Zenon DEF LockedInv
  <2>1. CASE j = k
    BY Zenon, <1>1, <1>2, <1>3, <1>7, <2>1 DEF StepOf, Alike, MigrationInv, LockedInv
  <2>2. CASE j # k
    BY Zenon, <1>1, <1>3, <2>2 DEF StepOf, MigrationInv, LockedInv
  <2> QED BY Zenon, <2>1, <2>2
<1>10. ASSUME NoLong' PROVE HomeInv'
  <2>1. NoLong
    <3> SUFFICES ASSUME NEW j \in Tasks PROVE ~task[j].long
      BY Zenon DEF NoLong
    <3>1. ~task'[j].long
      BY Zenon, <1>10 DEF NoLong
    <3> QED BY Zenon, <1>2, <1>3, <3>1 DEF StepOf, Alike
  <2>2. HomeInv
    BY Zenon, <2>1 DEF MigrationInv
  <2>3. OnLocal /\ ~Away
    BY Zenon, <1>7, <2>2 DEF HomeInv, OnLocal, Away
  <2>4. task[k].source = Local /\ task[k].target # Local
    BY Zenon, <1>7, <2>2, <2>3 DEF HomeInv
  <2>5. Away' /\ Primary' = task[k].target
    BY Zenon, <1>6, <2>3, <2>4 DEF OnLocal, Away
  <2> SUFFICES ASSUME NEW j \in Tasks
               PROVE  /\ task'[j].moved => Away' /\ Primary' = task'[j].target
                      /\ task'[j].pc # "idle" =>
                           (task'[j].source = Local /\ task'[j].target # Local) \/ Away'
                      /\ AboutToMove(task'[j]) => OnLocal'
    BY Zenon DEF HomeInv
  <2>6. CASE j = k
    BY Zenon, <1>2, <1>3, <1>7, <2>5, <2>6 DEF StepOf, Alike
  <2>7. CASE j # k
    <3>1. ~task[j].moved
      BY Zenon, <2>2, <2>3 DEF HomeInv
    <3>2. lock = k
      BY Zenon, <1>7, <2>1 DEF MigrationInv, LockedInv, NoLong
    <3>3. task[j].pc \notin Locked
      BY Zenon, <2>1, <2>7, <3>2 DEF MigrationInv, LockedInv, NoLong
    <3>4. ~AboutToMove(task[j])
      BY Zenon, <3>3 DEF AboutToMove, Locked
    <3> QED BY Zenon, <1>3, <2>5, <2>7, <3>1, <3>4 DEF StepOf
  <2> QED BY Zenon, <2>6, <2>7
<1> QED BY Zenon, <1>6, <1>8, <1>9, <1>10 DEF MigrationInv

LEMMA DeleteSourceKeeps ==
  ASSUME MigrationInv, NEW k \in Tasks, DeleteSource(k)
  PROVE  MigrationInv'
<1>1. /\ task[k].pc = "delete" /\ UNCHANGED <<stored, fetched, added, lock, located>>
      /\ Goes(k, task[k], "unlock")
  BY Zenon DEF DeleteSource, indexVars
<1>2. "unlock" \in Locked \ {"copy"} /\ "unlock" # "move" /\ task[k].pc \in Locked
  BY Zenon, <1>1 DEF Locked
<1>3. BlocksInv' /\ IndexKept
  BY Zenon, <1>1, SameIndex DEF MigrationInv
<1> QED BY Zenon, <1>1, <1>2, <1>3, GoesKeeps

LEMMA ReleaseKeeps ==
  ASSUME MigrationInv, NEW k \in Tasks, ReleaseMigrationLock(k)
  PROVE  MigrationInv'
<1> DEFINE q == [task[k] EXCEPT !.pc = "finish"]
<1>1. /\ task[k].pc = "unlock" /\ lock' = (IF lock = k THEN Nobody ELSE lock)
      /\ UNCHANGED <<stored, fetched, added, located>>
      /\ task' = [task EXCEPT ![k] = q]
  BY Zenon DEF ReleaseMigrationLock, indexVars
<1>2. ValidTask(q) /\ Kept(q, task[k]) /\ q.pc = "finish"
  BY Zenon, <1>1, TaskIsValid, UnlockValid
<1>3. StepOf(k, q) /\ stored' \in Seq(Nat) /\ fetched' \in Seq(Nat)
  BY Zenon, <1>1, TaskStep, TaskIsValid
<1> HIDE DEF q
<1>4. /\ Alike(q, task[k]) /\ (q.moved => task[k].moved) /\ task[k].pc # "idle"
      /\ q.pc \notin Locked /\ ~AboutToMove(q)
  BY Zenon, <1>1, <1>2 DEF Kept, Alike, Locked, AboutToMove
<1>5. added' \in Nat /\ lock' \in Tasks \cup {Nobody} /\ BlocksInv' /\ IndexKept
  BY Zenon, <1>1, SameIndex DEF MigrationInv, MigrationTypes
<1>6. lock' # k /\ \A j \in Tasks : j # k => (lock = j <=> lock' = j)
  BY Zenon, <1>1, TasksAssumption
<1> QED BY Zenon, <1>2, <1>3, <1>4, <1>5, <1>6, StepKeeps

LEMMA FinishKeeps ==
  ASSUME MigrationInv, NEW k \in Tasks, Finish(k)
  PROVE  MigrationInv'
<1> DEFINE q == WithStatus([task[k] EXCEPT !.pc = "done", !.running = FALSE],
                           IF task[k].err THEN "failed" ELSE "completed")
<1>1. /\ task[k].pc = "finish" /\ task' = [task EXCEPT ![k] = q]
      /\ UNCHANGED <<stored, added, fetched, lock, located>>
  BY Zenon DEF Finish, indexVars
<1>2. ValidTask(q) /\ Kept(q, task[k]) /\ q.pc = "done"
  BY Zenon, <1>1, TaskIsValid, FinishValid
<1>3. StepOf(k, q) /\ stored' \in Seq(Nat) /\ fetched' \in Seq(Nat)
  BY Zenon, <1>1, TaskStep, TaskIsValid
<1> HIDE DEF q
<1>4. /\ Alike(q, task[k]) /\ (q.moved => task[k].moved) /\ task[k].pc # "idle"
      /\ q.pc \notin Locked /\ task[k].pc \notin Locked /\ ~AboutToMove(q)
  BY Zenon, <1>1, <1>2 DEF Kept, Alike, Locked, AboutToMove
<1> QED BY Zenon, <1>1, <1>2, <1>3, <1>4, QuietMigrationStep

\* CancelMigration, the end of the caller's context and the clean-up leave a task
\* where it is.
LEMMA InPlaceKeeps ==
  ASSUME MigrationInv, NEW k \in Tasks, NEW q, task' = [task EXCEPT ![k] = q],
         ValidTask(q), Alike(q, task[k]), q.pc = task[k].pc, q.moved = task[k].moved,
         q.snap = task[k].snap, q.i = task[k].i, task[k].pc # "idle",
         UNCHANGED <<stored, added, fetched, lock, located>>
  PROVE  MigrationInv'
<1>1. StepOf(k, q) /\ stored' \in Seq(Nat) /\ fetched' \in Seq(Nat)
  BY Zenon, TaskStep, TaskIsValid
<1>2. NoLong /\ AboutToMove(q) => OnLocal
  BY Zenon DEF MigrationInv, HomeInv, AboutToMove
<1> QED BY Zenon, <1>1, <1>2, QuietMigrationStep

LEMMA IdleTask ==
  ASSUME MigrationInv, NEW k \in Tasks, task[k].listed
  PROVE  task[k].pc # "idle"
BY Zenon, TaskIsValid DEF ValidTask, Outcome

LEMMA OutsideKeeps ==
  ASSUME MigrationInv, NEW k \in Tasks,
         CancelMigration(k) \/ CallerEnds(k) \/ CleanupCompletedMigrations(k)
  PROVE  MigrationInv'
<1>1. UNCHANGED <<stored, added, fetched, lock, located>>
  BY Zenon DEF CancelMigration, CallerEnds, CleanupCompletedMigrations, indexVars
<1>2. ValidTask(task[k])
  BY Zenon, TaskIsValid
<1>3. CASE CancelMigration(k)
  <2> DEFINE q == [(IF task[k].running THEN Over(task[k]) ELSE task[k])
                     EXCEPT !.status = "cancelled"]
  <2>1. /\ task' = [task EXCEPT ![k] = q]
        /\ task[k].listed /\ task[k].status \in {"pending", "running"}
    BY Zenon, <1>3 DEF CancelMigration
  <2>2. /\ ValidTask(q) /\ Alike(q, task[k]) /\ q.pc = task[k].pc
        /\ q.moved = task[k].moved /\ q.snap = task[k].snap /\ q.i = task[k].i
    BY Zenon, <1>2, <2>1, CancelValid
  <2> HIDE DEF q
  <2> QED BY Zenon, <1>1, <2>1, <2>2, IdleTask, InPlaceKeeps
<1>4. CASE CallerEnds(k)
  <2>1. task' = [task EXCEPT ![k] = Over(task[k])] /\ task[k].pc # "idle" /\ task[k].pc # "done"
    BY Zenon, <1>4 DEF CallerEnds
  <2> DEFINE q == Over(task[k])
  <2>2. /\ ValidTask(q) /\ Alike(q, task[k]) /\ q.pc = task[k].pc
        /\ q.moved = task[k].moved /\ q.snap = task[k].snap /\ q.i = task[k].i
    BY Zenon, <1>2, <2>1, OverValid
  <2> QED BY Zenon, <1>1, <2>1, <2>2, InPlaceKeeps
<1>5. CASE CleanupCompletedMigrations(k)
  <2> DEFINE q == [task[k] EXCEPT !.listed = FALSE]
  <2>1. task' = [task EXCEPT ![k] = q] /\ task[k].listed
    BY Zenon, <1>5 DEF CleanupCompletedMigrations
  <2>2. /\ ValidTask(q) /\ Alike(q, task[k]) /\ q.pc = task[k].pc
        /\ q.moved = task[k].moved /\ q.snap = task[k].snap /\ q.i = task[k].i
    BY Zenon, <1>2, CleanupValid
  <2> HIDE DEF q
  <2> QED BY Zenon, <1>1, <2>1, <2>2, IdleTask, InPlaceKeeps
<1> QED BY Zenon, <1>3, <1>4, <1>5

LEMMA NextMigration ==
  MigrationInv /\ [MigrationNext]_<<indexVars, migrationVars>> => MigrationInv'
<1> SUFFICES ASSUME MigrationInv, [MigrationNext]_<<indexVars, migrationVars>>
             PROVE  MigrationInv'
  BY Zenon
<1>1. CASE MigrationNext
  <2>1. CASE CreateTimeline \/ AddMessage \/ GetTimeline \/ SecondPasses
    BY Zenon, <2>1, AccessorKeeps
  <2>2. CASE LockExpires
    BY Zenon, <2>2, ExpiryKeeps
  <2>3. ASSUME NEW k \in Tasks,
               \/ StartMigration(k) \/ Execute(k) \/ AcquireMigrationLock(k)
               \/ GetSource(k) \/ CreateTarget(k) \/ FetchMessages(k)
        PROVE  MigrationInv'
    BY Zenon, <2>3, StartKeeps, ExecuteKeeps, AcquireKeeps, GetSourceKeeps,
       CreateTargetKeeps, FetchKeepsTask
  <2>4. ASSUME NEW k \in Tasks,
               \/ CheckContext(k) \/ CopyMessage(k) \/ MoveIndex(k) \/ DeleteSource(k)
               \/ ReleaseMigrationLock(k) \/ Finish(k)
        PROVE  MigrationInv'
    BY Zenon, <2>4, CheckContextKeeps, CopyMessageKeeps, MoveIndexKeeps,
       DeleteSourceKeeps, ReleaseKeeps, FinishKeeps
  <2>5. ASSUME NEW k \in Tasks,
               CancelMigration(k) \/ CallerEnds(k) \/ CleanupCompletedMigrations(k)
        PROVE  MigrationInv'
    BY Zenon, <2>5, OutsideKeeps
  <2> QED BY Zenon, <1>1, <2>1, <2>2, <2>3, <2>4, <2>5 DEF MigrationNext
<1>2. CASE UNCHANGED <<indexVars, migrationVars>>
  <2>1. UNCHANGED <<stored, fetched, added, lock, task, located>>
    BY Zenon, <1>2 DEF indexVars, migrationVars
  <2>2. stored' \in Seq(Nat) /\ fetched' \in Seq(Nat) /\ added' \in Nat
    BY Zenon, <2>1 DEF MigrationInv, MigrationTypes
  <2>3. BlocksInv' /\ IndexKept
    BY Zenon, <2>1, SameIndex DEF MigrationInv
  <2> QED BY Zenon, <2>1, <2>2, <2>3, CallKeeps
<1> QED BY Zenon, <1>1, <1>2

LEMMA MigrationInductive == MigrationSpec => []MigrationInv
BY InitMigration, NextMigration, PTL DEF MigrationSpec

\* A task whose context is done adds at most the message it was at, and moves the
\* index only if no message was left to add: for any number of tasks, messages
\* and stores.
THEOREM CancelIsHonoured == MigrationSpec => []CancelHonoured
<1>1. MigrationInv => CancelHonoured
  BY Zenon DEF MigrationInv, TasksInv, ValidTask, Honours, CancelHonoured
<1> QED BY <1>1, MigrationInductive, PTL

\* However cancellations, clean-ups and status updates interleave, a task that
\* has ended is Completed if and only if it moved the index; and as long as no
\* lock expires, a task that moved the index made its target the primary store
\* for good.
THEOREM OutcomesAreTrue == MigrationSpec => []OutcomeIsTrue
<1>1. ASSUME MigrationInv PROVE OutcomeIsTrue
  <2> SUFFICES ASSUME NEW k \in Tasks
               PROVE  /\ task[k].pc = "done" /\ task[k].listed =>
                           task[k].status = IF task[k].moved THEN "completed" ELSE "failed"
                      /\ task[k].moved /\ (\A j \in Tasks : ~task[j].long) =>
                           Primary = task[k].target
    BY Zenon DEF OutcomeIsTrue
  <2>1. task[k].pc = "done" /\ task[k].listed =>
          task[k].status = IF task[k].moved THEN "completed" ELSE "failed"
    BY Zenon, <1>1, TaskIsValid DEF ValidTask, Outcome
  <2>2. task[k].moved /\ (\A j \in Tasks : ~task[j].long) => Primary = task[k].target
    BY Zenon, <1>1 DEF MigrationInv, NoLong, HomeInv
  <2> QED BY Zenon, <2>1, <2>2
<1> QED BY <1>1, MigrationInductive, PTL

=============================================================================
