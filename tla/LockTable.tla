----------------------------- MODULE LockTable -----------------------------
(***************************************************************************)
(* The table of InMemoryDistributedLockManager and what its operations,    *)
(* which all run under m.mu, do to it.  An entry is the owner and the      *)
(* instant ExpiresAt; time.Now is a number.                                *)
(***************************************************************************)
EXTENDS Integers

CONSTANT Keys

NoEntry == [owner |-> 0, expires |-> 0]

NoLocks == [k \in Keys |-> NoEntry]

Exists(locks, k) == locks[k].owner # 0

\* AcquireLock succeeds: no entry, or an expired one.
Acquirable(locks, k, now) ==
  Exists(locks, k) => now >= locks[k].expires

Acquire(locks, k, owner, expires) ==
  [locks EXCEPT ![k] = [owner |-> owner, expires |-> expires]]

\* Mutant: any caller may release.
ReleaseByAnyone(locks, k, owner) ==
  [locks EXCEPT ![k] = NoEntry]

\* ReleaseLock: nothing happens unless the entry is the caller's.
Release(locks, k, owner) ==
  [locks EXCEPT ![k] = IF @.owner = owner THEN NoEntry ELSE @]

\* RenewLock succeeds: an entry of the caller's that has not expired.
Renewable(locks, k, owner, now) ==
  /\ Exists(locks, k)
  /\ locks[k].owner = owner
  /\ now <= locks[k].expires

\* One round of cleanupExpiredLocks.
Cleaned(locks, now) ==
  [k \in Keys |-> IF now > locks[k].expires THEN NoEntry ELSE locks[k]]

\* IsLocked.
IsLocked(locks, k, now) ==
  Exists(locks, k) /\ now <= locks[k].expires
=============================================================================
