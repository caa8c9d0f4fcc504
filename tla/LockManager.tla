----------------------------- MODULE LockManager -----------------------------
(***************************************************************************)
(* Goroutines that run a function under a key of the lock manager: with    *)
(* WithLock, TryWithLock or WithAutoRenewLock.  Each makes one call that   *)
(* gets the lock; a call that fails to get it changes nothing and may be   *)
(* made again.  The function takes any time, also longer than the lock     *)
(* lives.                                                                  *)
(***************************************************************************)
EXTENDS LockTable

CONSTANTS Procs, KeyOf,
          Trying, Renewing,  \* the callers of TryWithLock, WithAutoRenewLock
          TTL, RenewInterval,
          MaxTime            \* bound on the clock

ASSUME ProcsAssumption ==
  /\ KeyOf \in [Procs -> Keys]
  /\ Trying \subseteq Procs /\ Renewing \subseteq Procs
  /\ Trying \cap Renewing = {}
ASSUME TimesAssumption ==
  TTL \in Nat \ {0} /\ RenewInterval \in Nat \ {0} /\ MaxTime \in Nat

VARIABLES now, locks,
          owners,     \* how many owner ids have been given out
          pc,         \* place of each caller
          handle,     \* its DistributedLock
          renewAt,    \* next tick of its renewing goroutine, 0 when it has none
          late,       \* history: time has moved on over a due tick
          ended       \* history: callers whose renewing ended while fn ran,
                      \* with the context of the call

lockVars == <<now, locks, owners, pc, handle, renewAt, late, ended>>

LockInit ==
  /\ now = 1 /\ locks = NoLocks /\ owners = 0
  /\ pc = [p \in Procs |-> "start"]
  /\ handle = [p \in Procs |-> NoEntry]
  /\ renewAt = [p \in Procs |-> 0] /\ late = FALSE
  /\ ended = {}

-----------------------------------------------------------------------------
\* TryWithLock finds the key unlocked.
TryWithLock(p) ==
  /\ pc[p] = "start" /\ p \in Trying
  /\ ~IsLocked(locks, KeyOf[p], now)
  /\ pc' = [pc EXCEPT ![p] = "acquire"]
  /\ UNCHANGED <<now, locks, owners, handle, renewAt, late, ended>>

\* AcquireLock succeeds; WithAutoRenewLock starts its renewing goroutine.
AcquireLock(p) ==
  /\ pc[p] = IF p \in Trying THEN "acquire" ELSE "start"
  /\ Acquirable(locks, KeyOf[p], now)
  /\ owners' = owners + 1
  /\ locks' = Acquire(locks, KeyOf[p], owners + 1, now + TTL)
  /\ handle' = [handle EXCEPT ![p] = [owner |-> owners + 1,
                                      expires |-> now + TTL]]
  /\ pc' = [pc EXCEPT ![p] = "fn"]
  /\ renewAt' = [renewAt EXCEPT ![p] = IF p \in Renewing
                                         THEN now + RenewInterval ELSE 0]
  /\ UNCHANGED <<now, late, ended>>

\* TryWithLock fails in AcquireLock after all.
AcquireFails(p) ==
  /\ pc[p] = "acquire" /\ ~Acquirable(locks, KeyOf[p], now)
  /\ pc' = [pc EXCEPT ![p] = "start"]
  /\ UNCHANGED <<now, locks, owners, handle, renewAt, late, ended>>

\* Mutant: only the caller's copy of the lock gets the new expiry.
RenewHandleOnly(p) ==
  /\ renewAt[p] # 0 /\ now >= renewAt[p]
  /\ IF Renewable(locks, KeyOf[p], handle[p].owner, now)
       THEN /\ handle' = [handle EXCEPT ![p].expires = now + TTL]
            /\ renewAt' = [renewAt EXCEPT ![p] = @ + RenewInterval]
       ELSE /\ renewAt' = [renewAt EXCEPT ![p] = 0]
            /\ UNCHANGED handle
  /\ UNCHANGED <<now, locks, owners, pc, late, ended>>

\* Mutant: RenewLock does not compare the owners.
RenewAnyOwner(p) ==
  /\ renewAt[p] # 0 /\ now >= renewAt[p]
  /\ IF IsLocked(locks, KeyOf[p], now)
       THEN /\ locks' = [locks EXCEPT ![KeyOf[p]].expires = now + TTL]
            /\ handle' = [handle EXCEPT ![p].expires = now + TTL]
            /\ renewAt' = [renewAt EXCEPT ![p] = @ + RenewInterval]
       ELSE /\ renewAt' = [renewAt EXCEPT ![p] = 0]
            /\ UNCHANGED <<locks, handle>>
  /\ UNCHANGED <<now, owners, pc, late, ended>>

\* A tick of the renewing goroutine: RenewLock, and the goroutine ends when it
\* fails.
RenewLock(p) ==
  /\ renewAt[p] # 0 /\ now >= renewAt[p]
  /\ IF Renewable(locks, KeyOf[p], handle[p].owner, now)
       THEN /\ locks' = [locks EXCEPT ![KeyOf[p]].expires = now + TTL]
            /\ handle' = [handle EXCEPT ![p].expires = now + TTL]
            /\ renewAt' = [renewAt EXCEPT ![p] = @ + RenewInterval]
       ELSE /\ renewAt' = [renewAt EXCEPT ![p] = 0]
            /\ UNCHANGED <<locks, handle>>
  /\ UNCHANGED <<now, owners, pc, late, ended>>

\* fn has returned and the deferred Release runs, before cancelRenew.
ReleaseLock(p) ==
  /\ pc[p] = "fn"
  /\ locks' = Release(locks, KeyOf[p], handle[p].owner)
  /\ pc' = [pc EXCEPT ![p] = "done"]
  /\ UNCHANGED <<now, owners, handle, renewAt, late, ended>>

\* renewCtx is done: by cancelRenew when the call is over, or before, because
\* the context of the caller, from which it derives, has ended while fn runs.
\* The goroutine may still handle a due tick first.
CancelRenew(p) ==
  /\ pc[p] \in {"fn", "done"} /\ renewAt[p] # 0
  /\ renewAt' = [renewAt EXCEPT ![p] = 0]
  /\ ended' = IF pc[p] = "fn" THEN ended \cup {p} ELSE ended
  /\ UNCHANGED <<now, locks, owners, pc, handle, late>>

CleanupExpiredLocks ==
  /\ locks' = Cleaned(locks, now)
  /\ UNCHANGED <<now, owners, pc, handle, renewAt, late, ended>>

Tick ==
  /\ now < MaxTime
  /\ now' = now + 1
  /\ late' = (late \/ \E p \in Procs : renewAt[p] # 0 /\ now >= renewAt[p])
  /\ UNCHANGED <<locks, owners, pc, handle, renewAt, ended>>

LockNext ==
  \/ Tick \/ CleanupExpiredLocks
  \/ \E p \in Procs :
       \/ TryWithLock(p) \/ AcquireLock(p) \/ AcquireFails(p)
       \/ RenewLock(p) \/ ReleaseLock(p) \/ CancelRenew(p)

LockSpec == LockInit /\ [][LockNext]_lockVars

-----------------------------------------------------------------------------
\* The lock table and the handles of the callers keep their types: every entry
\* has an owner id that was given out (AcquireLock).
LockTypeOK ==
  /\ now \in 1..(MaxTime + 1) /\ owners \in Nat
  /\ locks \in [Keys -> [owner : 0..owners, expires : Nat]]
  /\ pc \in [Procs -> {"start", "acquire", "fn", "done"}]
  /\ handle \in [Procs -> [owner : 0..owners, expires : Nat]]
  /\ renewAt \in [Procs -> Nat] /\ late \in BOOLEAN /\ ended \subseteq Procs

Holding(p) == pc[p] = "fn" /\ now < handle[p].expires

\* Two callers never run their functions on one key while the locks of both are
\* in force: whatever expires, is taken over, renewed late, released late or
\* cleaned up in between (AcquireLock, RenewLock, ReleaseLock).
ExclusiveUntilExpiry ==
  \A p, q \in Procs :
    Holding(p) /\ Holding(q) /\ KeyOf[p] = KeyOf[q] => p = q

\* A lock in force ends only by its owner's own Release: neither the cleanup,
\* nor a caller whose lock was taken over, nor a late tick of the renewing
\* goroutine of a finished call removes or replaces it.
OnlyOwnerEnds ==
  [][\A k \in Keys :
       LET e == locks[k] IN
       Exists(locks, k) /\ now < e.expires /\ locks'[k].owner # e.owner
         => \E p \in Procs : handle[p].owner = e.owner /\ pc'[p] = "done"]_lockVars

\* While WithAutoRenewLock runs its function it never loses the lock, as long
\* as ticks are handled in time, the interval is shorter than the TTL and the
\* context of the call has not ended: fn runs on without it, and then the
\* renewing is over and the lock is lost when it expires.
AutoRenewKeepsLock ==
  ~late /\ RenewInterval < TTL =>
    \A p \in Renewing \ ended :
      pc[p] = "fn" => /\ locks[KeyOf[p]].owner = handle[p].owner
                      /\ now < locks[KeyOf[p]].expires
=============================================================================
