--------------------------- MODULE TxnCoordinator ---------------------------
(***************************************************************************)
(* InMemoryTransactionCoordinator and the callers of ExecuteTransaction.   *)
(* Each caller takes its transaction through begin, prepare and commit or  *)
(* abort; the cleanup goroutine looks for overdue ones.                    *)
(*                                                                         *)
(* A participant is a record of a store and a lock key (generateLockKeys). *)
(* Its handler may fail in Prepare and in Commit.  The lock keys of a      *)
(* transaction live as long as its timeout.                                *)
(***************************************************************************)
EXTENDS LockTable, Sequences, FiniteSets

CONSTANTS Txns,
          Participants,  \* of each transaction: a sequence of [store, key]
          Handlers,      \* the stores with a registered handler
          Timeout,
          MaxTime        \* bound on the clock

ASSUME TxnsAssumption ==
  \A t \in Txns :
    /\ Len(Participants[t]) \in Nat
    /\ DOMAIN Participants[t] = 1..Len(Participants[t])
    /\ \A i \in DOMAIN Participants[t] : Participants[t][i].key \in Keys
ASSUME TimesAssumption == Timeout \in Nat \ {0} /\ MaxTime \in Nat

VARIABLES now, locks,
          owners, ownerTxn,  \* owner ids given out, and for whom (history)
          cleaner,           \* place of the cleanup goroutine
          scan,              \* its now, transactions to look at, overdue ones
          status, created, held,  \* of each transaction: Status, CreatedAt, Locks
          part,              \* Status of its participants
          pc, at,            \* place of its caller, participant it is at
          failed,            \* len(commitErrors) > 0
          applied,           \* history: participants whose Commit succeeded
          overran            \* history: a transaction outlived its timeout

txnVars == <<status, created, held, part, pc, at, failed, applied>>
cleanVars == <<cleaner, scan>>
vars    == <<now, locks, owners, ownerTxn, cleanVars, txnVars, overran>>

NoScan == [now |-> 0, todo |-> {}, overdue |-> {}]

Indices(t)  == DOMAIN Participants[t]
LockKeys(t) == {Participants[t][i].key : i \in Indices(t)}
HasHandler(t, i) == Participants[t][i].store \in Handlers

Init ==
  /\ now = 1 /\ locks = NoLocks /\ owners = 0 /\ ownerTxn = << >>
  /\ cleaner = "wait" /\ scan = NoScan
  /\ status = [t \in Txns |-> "none"] /\ created = [t \in Txns |-> 0]
  /\ held = [t \in Txns |-> {}]
  /\ part = [t \in Txns |-> [i \in Indices(t) |-> "pending"]]
  /\ pc = [t \in Txns |-> "begin"] /\ at = [t \in Txns |-> 1]
  /\ failed = [t \in Txns |-> FALSE] /\ applied = [t \in Txns |-> {}]
  /\ overran = FALSE

\* c.mu and txn.mu.  The cleanup holds c.mu from its scan on; a caller holds
\* txn.mu while it goes through the participants.
CoordinatorFree == cleaner = "wait"
TxnFree(t)      == pc[t] \notin {"preparing", "committing"}

Overdue(t) == now - created[t] > Timeout

-----------------------------------------------------------------------------
\* BeginTransaction under c.mu: all the locks, or an error.  On an error the
\* locks taken so far are released, so that only owner ids are spent.
BeginTransaction(t) ==
  /\ pc[t] = "begin" /\ CoordinatorFree
  /\ \A k \in LockKeys(t) : Acquirable(locks, k, now)
  /\ owners' = owners + 1 /\ ownerTxn' = Append(ownerTxn, t)
  /\ locks' = [k \in Keys |-> IF k \in LockKeys(t)
                                THEN [owner |-> owners + 1, expires |-> now + Timeout]
                                ELSE locks[k]]
  /\ status' = [status EXCEPT ![t] = "pending"]
  /\ created' = [created EXCEPT ![t] = now]
  /\ held' = [held EXCEPT ![t] = LockKeys(t)]
  /\ pc' = [pc EXCEPT ![t] = "prepare"]
  /\ UNCHANGED <<now, cleanVars, part, at, failed, applied, overran>>

\* The keys taken before the refused one may have held expired entries, which
\* are gone afterwards.
BeginFails(t) ==
  /\ pc[t] = "begin" /\ CoordinatorFree
  /\ \E k \in LockKeys(t) : ~Acquirable(locks, k, now)
  /\ \E taken \in SUBSET {k \in LockKeys(t) : Acquirable(locks, k, now)} :
       locks' = [k \in Keys |-> IF k \in taken THEN NoEntry ELSE locks[k]]
  /\ pc' = [pc EXCEPT ![t] = "done"]
  /\ UNCHANGED <<now, owners, ownerTxn, cleanVars, status, created, held, part, at,
                 failed, applied, overran>>

\* releaseLocks: each key is released in the name of its current owner.
ReleaseLocks(ks) ==
  locks' = [k \in Keys |-> IF k \in ks THEN NoEntry ELSE locks[k]]

-----------------------------------------------------------------------------
\* The lookup under c.mu that PrepareTransaction, CommitTransaction and
\* AbortTransaction begin with.
Lookup(t) ==
  /\ CoordinatorFree
  /\ \/ pc[t] = "prepare" /\ pc' = [pc EXCEPT ![t] = "toPrepare"]
     \/ pc[t] = "commit" /\ pc' = [pc EXCEPT ![t] = "toCommit"]
     \/ pc[t] = "abort" /\ pc' = [pc EXCEPT ![t] = "toAbort"]
  /\ UNCHANGED <<now, locks, owners, ownerTxn, cleanVars, status, created, held,
                 part, at, failed, applied, overran>>

\* PrepareTransaction up to the loop.  The only caller finds it pending.
PrepareTransaction(t) ==
  /\ pc[t] = "toPrepare"
  /\ IF Overdue(t)
       THEN /\ status' = [status EXCEPT ![t] = "timeout"]
            /\ pc' = [pc EXCEPT ![t] = "abort"]
       ELSE /\ pc' = [pc EXCEPT ![t] = "preparing"]
            /\ UNCHANGED status
  /\ at' = [at EXCEPT ![t] = 1]
  /\ UNCHANGED <<now, locks, owners, ownerTxn, cleanVars, created, held, part,
                 failed, applied, overran>>

\* One participant: no handler, prepared, or refused.
PrepareParticipant(t) ==
  /\ pc[t] = "preparing" /\ at[t] \in Indices(t)
  /\ \/ /\ ~HasHandler(t, at[t])
        /\ part' = [part EXCEPT ![t][at[t]] = "aborted"]
        /\ at' = [at EXCEPT ![t] = @ + 1] /\ UNCHANGED pc
     \/ /\ HasHandler(t, at[t])
        /\ part' = [part EXCEPT ![t][at[t]] = "prepared"]
        /\ at' = [at EXCEPT ![t] = @ + 1] /\ UNCHANGED pc
     \/ /\ HasHandler(t, at[t])
        /\ part' = [part EXCEPT ![t][at[t]] = "aborted"]
        /\ pc' = [pc EXCEPT ![t] = "abort"] /\ UNCHANGED at
  /\ UNCHANGED <<now, locks, owners, ownerTxn, cleanVars, status, created, held,
                 failed, applied, overran>>

Prepared(t) ==
  /\ pc[t] = "preparing" /\ at[t] \notin Indices(t)
  /\ status' = [status EXCEPT ![t] = "prepared"]
  /\ pc' = [pc EXCEPT ![t] = "commit"]
  /\ UNCHANGED <<now, locks, owners, ownerTxn, cleanVars, created, held, part, at,
                 failed, applied, overran>>

-----------------------------------------------------------------------------
\* CommitTransaction up to the loop.  It does not look at the timeout.
CommitTransaction(t) ==
  /\ pc[t] = "toCommit"
  /\ pc' = [pc EXCEPT ![t] = "committing"]
  /\ at' = [at EXCEPT ![t] = 1]
  /\ UNCHANGED <<now, locks, owners, ownerTxn, cleanVars, status, created, held,
                 part, failed, applied, overran>>

\* One participant: skipped unless prepared, committed, or failed.
CommitParticipant(t) ==
  /\ pc[t] = "committing" /\ at[t] \in Indices(t)
  /\ \/ /\ part[t][at[t]] # "prepared"
        /\ UNCHANGED <<part, applied, failed>>
     \/ /\ part[t][at[t]] = "prepared"
        /\ part' = [part EXCEPT ![t][at[t]] = "committed"]
        /\ applied' = [applied EXCEPT ![t] = @ \cup {at[t]}]
        /\ UNCHANGED failed
     \/ /\ part[t][at[t]] = "prepared"
        /\ failed' = [failed EXCEPT ![t] = TRUE]
        /\ UNCHANGED <<part, applied>>
  /\ at' = [at EXCEPT ![t] = @ + 1]
  /\ UNCHANGED <<now, locks, owners, ownerTxn, cleanVars, status, created, held,
                 pc, overran>>

\* Mutant: errors of the participants are only counted.
CommittedAnyway(t) ==
  /\ pc[t] = "committing" /\ at[t] \notin Indices(t)
  /\ status' = [status EXCEPT ![t] = "committed"]
  /\ ReleaseLocks(held[t]) /\ held' = [held EXCEPT ![t] = {}]
  /\ pc' = [pc EXCEPT ![t] = "done"]
  /\ UNCHANGED <<now, owners, ownerTxn, cleanVars, created, part, at, failed,
                 applied, overran>>

\* Mutant: CommitTransaction calls AbortTransaction with txn.mu held.
CommittedHoldingMutex(t) ==
  /\ pc[t] = "committing" /\ at[t] \notin Indices(t) /\ ~failed[t]
  /\ status' = [status EXCEPT ![t] = "committed"]
  /\ ReleaseLocks(held[t]) /\ held' = [held EXCEPT ![t] = {}]
  /\ pc' = [pc EXCEPT ![t] = "done"]
  /\ UNCHANGED <<now, owners, ownerTxn, cleanVars, created, part, at, failed,
                 applied, overran>>

\* CommitTransaction after the loop; after errors ExecuteTransaction aborts.
Committed(t) ==
  /\ pc[t] = "committing" /\ at[t] \notin Indices(t)
  /\ IF failed[t]
       THEN /\ status' = [status EXCEPT ![t] = "aborted"]
            /\ pc' = [pc EXCEPT ![t] = "abort"]
            /\ UNCHANGED <<locks, held>>
       ELSE /\ status' = [status EXCEPT ![t] = "committed"]
            /\ ReleaseLocks(held[t]) /\ held' = [held EXCEPT ![t] = {}]
            /\ pc' = [pc EXCEPT ![t] = "done"]
  /\ UNCHANGED <<now, owners, ownerTxn, cleanVars, created, part, at, failed,
                 applied, overran>>

-----------------------------------------------------------------------------
\* Mutant: a transaction that CommitTransaction has marked aborted is left
\* alone.
AbortOnce(t) ==
  /\ pc[t] = "toAbort"
  /\ pc' = [pc EXCEPT ![t] = "done"]
  /\ IF status[t] = "aborted"
       THEN UNCHANGED <<locks, held, part, status>>
       ELSE /\ part' = [part EXCEPT ![t] = [i \in Indices(t) |->
                          IF @[i] # "pending" /\ HasHandler(t, i)
                            THEN "aborted" ELSE @[i]]]
            /\ status' = [status EXCEPT ![t] = "aborted"]
            /\ ReleaseLocks(held[t]) /\ held' = [held EXCEPT ![t] = {}]
  /\ UNCHANGED <<now, owners, ownerTxn, cleanVars, created, at, failed, applied,
                 overran>>

\* AbortTransaction: every participant that is not pending and has a handler
\* gets Abort, which undoes nothing, and is marked aborted.
AbortTransaction(t) ==
  /\ pc[t] = "toAbort"
  /\ part' = [part EXCEPT ![t] = [i \in Indices(t) |->
                IF @[i] # "pending" /\ HasHandler(t, i) THEN "aborted" ELSE @[i]]]
  /\ status' = [status EXCEPT ![t] = "aborted"]
  /\ ReleaseLocks(held[t]) /\ held' = [held EXCEPT ![t] = {}]
  /\ pc' = [pc EXCEPT ![t] = "done"]
  /\ UNCHANGED <<now, owners, ownerTxn, cleanVars, created, at, failed, applied,
                 overran>>

-----------------------------------------------------------------------------
\* CleanupTimeoutTransactions takes c.mu.
CleanupTimeoutTransactions ==
  /\ cleaner = "wait"
  /\ cleaner' = "scan"
  /\ scan' = [now |-> now, todo |-> {t \in Txns : status[t] # "none"},
              overdue |-> {}]
  /\ UNCHANGED <<now, locks, owners, ownerTxn, txnVars, overran>>

\* It reads a transaction under txn.mu.
ScanTransaction(t) ==
  /\ cleaner = "scan" /\ t \in scan.todo /\ TxnFree(t)
  /\ scan' = [scan EXCEPT
       !.todo = @ \ {t},
       !.overdue = IF /\ status[t] \in {"pending", "prepared"}
                      /\ scan.now - created[t] > Timeout
                     THEN @ \cup {t} ELSE @]
  /\ UNCHANGED <<now, locks, owners, ownerTxn, cleaner, txnVars, overran>>

\* With an overdue transaction it calls AbortTransaction, which waits for the
\* c.mu that the cleanup itself holds.
ScanEnds ==
  /\ cleaner = "scan" /\ scan.todo = {}
  /\ cleaner' = IF scan.overdue = {} THEN "wait" ELSE "stuck"
  /\ scan' = NoScan
  /\ UNCHANGED <<now, locks, owners, ownerTxn, txnVars, overran>>

\* cleanupExpiredLocks of the lock manager.
CleanupExpiredLocks ==
  /\ locks' = Cleaned(locks, now)
  /\ UNCHANGED <<now, owners, ownerTxn, cleanVars, txnVars, overran>>

Tick ==
  /\ now < MaxTime
  /\ now' = now + 1
  /\ overran' = (overran \/ \E t \in Txns :
                   held[t] # {} /\ now + 1 >= created[t] + Timeout)
  /\ UNCHANGED <<locks, owners, ownerTxn, cleanVars, txnVars>>

ExecuteTransaction(t) ==
  \/ BeginTransaction(t) \/ BeginFails(t) \/ Lookup(t)
  \/ PrepareTransaction(t) \/ PrepareParticipant(t) \/ Prepared(t)
  \/ CommitTransaction(t) \/ CommitParticipant(t) \/ Committed(t)
  \/ AbortTransaction(t)

Cleanup == \/ CleanupTimeoutTransactions \/ ScanEnds
           \/ \E t \in Txns : ScanTransaction(t)

Next ==
  \/ Tick \/ CleanupExpiredLocks \/ Cleanup
  \/ \E t \in Txns : ExecuteTransaction(t)

Spec == Init /\ [][Next]_vars

\* Every goroutine that can run does.  The mutexes c.mu and txn.mu are handed
\* to waiting goroutines in turn.
FairSpec ==
  /\ Spec
  /\ WF_vars(Tick) /\ SF_vars(Cleanup)
  /\ \A t \in Txns : SF_vars(ExecuteTransaction(t))

-----------------------------------------------------------------------------
\* A transaction counts as committed only if the Commit of every participant
\* that has a handler succeeded (CommitTransaction).
CommittedIsApplied ==
  \A t \in Txns : status[t] = "committed" =>
    applied[t] = {i \in Indices(t) : HasHandler(t, i)}

\* A transaction has its keys exactly as long as it runs.  As long as none
\* outlives its timeout, one that has begun has every one of its keys, so that
\* no two on one key run at once; and a finished one has no lock left, whichever
\* of the error paths it took: refused or failed begin, timeout, refused
\* prepare, failed commit (releaseLocks).
KeysWhileRunning ==
  /\ ~overran => \A t \in Txns : \A k \in held[t] :
       Exists(locks, k) /\ ownerTxn[locks[k].owner] = t
  /\ \A t \in Txns : pc[t] = "done" =>
       \A k \in Keys : Exists(locks, k) => ownerTxn[locks[k].owner] # t

\* ExecuteTransaction returns, unless the cleanup has stopped with c.mu.
ExecuteReturns ==
  \A t \in Txns : pc[t] # "done" ~> pc[t] = "done" \/ cleaner = "stuck"
=============================================================================
