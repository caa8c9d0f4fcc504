----------------------------- MODULE Migration -----------------------------
(***************************************************************************)
(* Migrations of one timeline (migration_manager.go), through the accessor *)
(* of the local store (cross_store_access.go), the global index and the    *)
(* migration lock.                                                         *)
(*                                                                         *)
(* executeMigration runs in a goroutine of its own; a step here is what it *)
(* does between two points where another task, a caller of the accessor,   *)
(* CancelMigration or the end of the caller's context can come in.  Every  *)
(* operation of the accessor on another store returns an error, because    *)
(* its remote half is not implemented: only errors are modelled there.     *)
(* DeleteTimeline asks the index for a block named after the store, which  *)
(* no entry is, so it always returns an error and changes nothing.         *)
(***************************************************************************)
EXTENDS GlobalIndex

CONSTANTS
  Key,          \* the timeline
  Local,        \* the store of this process
  Tasks,
  MaxMessages,  \* bounds on the calls of the accessor by others
  MaxCreates

ASSUME MigrationAssumption ==
  /\ Key \in Timelines /\ Local \in Stores
  /\ MaxMessages \in Nat /\ MaxCreates \in Nat

VARIABLES
  stored,     \* the messages of the timeline in the local store
  added,      \* how many messages callers of AddMessage added
  creates,    \* CreateTimeline calls so far
  cached,     \* the accessor has the local timeline in its cache
  fetched,    \* the message cache: a list obtained within the same second
  lock,       \* who has the lock "migration:" + key
  task        \* the tasks, with the locals of their goroutines

migrationVars == <<stored, added, creates, cached, fetched, lock, task>>

-----------------------------------------------------------------------------
Nobody == "nobody"

ASSUME TasksAssumption == Nobody \notin Tasks

\* listed: in tasks; running: in runningTasks; over: ctx is done; late: it was
\* done when the last look at it had passed; after: messages added since; long:
\* the lock expired under it.
NewTask == [status |-> "none", pc |-> "idle", source |-> Local, target |-> Local,
            snap |-> <<>>, i |-> 1, err |-> FALSE, listed |-> FALSE,
            running |-> FALSE, over |-> FALSE, late |-> FALSE, after |-> 0,
            moved |-> FALSE, long |-> FALSE]

Primary == located[Key].blocks[1].store
OnLocal == located[Key].count > 0 /\ Primary = Local

CreatedEntry(s) == [block |-> NoBlock, store |-> s, size |-> 0]

\* updateTaskStatus, which overwrites whatever the status was.
WithStatus(r, status) == [r EXCEPT !.status = IF r.listed THEN status ELSE @]

\* performMigration goes on, or returns an error.
Goes(k, r, pc) == task' = [task EXCEPT ![k] = WithStatus([r EXCEPT !.pc = pc], "running")]
Fails(k) ==
  task' = [task EXCEPT ![k] = WithStatus([@ EXCEPT !.err = TRUE, !.pc = "unlock"],
                                         "running")]

MigrationInit ==
  /\ stored = <<>> /\ added = 0 /\ creates = 0
  /\ cached = FALSE /\ fetched = <<>> /\ lock = Nobody
  /\ task = [k \in Tasks |-> NewTask]

-----------------------------------------------------------------------------
\* The accessor, called by others.  A call for another store changes nothing.
CreateTimeline ==
  /\ creates < MaxCreates
  /\ creates' = creates + 1
  /\ AddIndex(Key, CreatedEntry(Local))
  /\ UNCHANGED <<stored, added, cached, fetched, lock, task>>

\* The message is in the store from here on, also when an error is returned.
AddMessage ==
  /\ added < MaxMessages /\ OnLocal
  /\ added' = added + 1
  /\ stored' = Append(stored, added + 1)
  /\ UNCHANGED <<creates, cached, fetched, lock, task, indexVars>>

GetTimeline ==
  /\ ~cached /\ OnLocal
  /\ cached' = TRUE
  /\ UNCHANGED <<stored, added, creates, fetched, lock, task, indexVars>>

\* The key of the message cache has the second in it.
SecondPasses ==
  /\ fetched # <<>>
  /\ fetched' = <<>>
  /\ UNCHANGED <<stored, added, creates, cached, lock, task, indexVars>>

-----------------------------------------------------------------------------
StartMigration(k) ==
  /\ task[k].pc = "idle" /\ located[Key].count > 0
  /\ \E target \in Stores \ {Primary} :
       task' = [task EXCEPT ![k] = [NewTask EXCEPT !.status = "pending",
         !.pc = "start", !.source = Primary, !.target = target, !.listed = TRUE]]
  /\ UNCHANGED <<stored, added, creates, cached, fetched, lock, indexVars>>

Execute(k) ==
  /\ task[k].pc = "start"
  /\ Goes(k, [task[k] EXCEPT !.running = TRUE], "lock")
  /\ UNCHANGED <<stored, added, creates, cached, fetched, lock, indexVars>>

\* WithLock: AcquireLock does not wait.
AcquireMigrationLock(k) ==
  /\ task[k].pc = "lock"
  /\ IF lock = Nobody
       THEN lock' = k /\ Goes(k, task[k], "get")
       ELSE /\ task' = [task EXCEPT ![k].pc = "finish", ![k].err = TRUE]
            /\ UNCHANGED lock
  /\ UNCHANGED <<stored, added, creates, cached, fetched, indexVars>>

\* 30 minutes have passed since the lock was taken; nobody renews it.
LockExpires ==
  /\ lock # Nobody
  /\ lock' = Nobody
  /\ task' = [task EXCEPT ![lock].long = TRUE]
  /\ UNCHANGED <<stored, added, creates, cached, fetched, indexVars>>

GetSource(k) ==
  /\ task[k].pc = "get"
  /\ IF cached \/ OnLocal
       THEN cached' = TRUE /\ Goes(k, task[k], "create")
       ELSE Fails(k) /\ UNCHANGED cached
  /\ UNCHANGED <<stored, added, creates, fetched, lock, indexVars>>

\* CreateTimeline goes to the store that the router names now, whatever the
\* target of the task.
CreateTarget(k) ==
  /\ task[k].pc = "create"
  /\ \/ /\ AddIndex(Key, CreatedEntry(Local))
        /\ Goes(k, task[k], "fetch")
     \/ /\ Stores # {Local}
        /\ Fails(k)
        /\ UNCHANGED indexVars
  /\ UNCHANGED <<stored, added, creates, cached, fetched, lock>>

\* GetMessages; an empty list is not cached.
FetchMessages(k) ==
  /\ task[k].pc = "fetch"
  /\ \/ /\ fetched # <<>>
        /\ Goes(k, [task[k] EXCEPT !.snap = fetched], "copy")
        /\ UNCHANGED <<cached, fetched>>
     \/ /\ fetched = <<>> /\ OnLocal
        /\ Goes(k, [task[k] EXCEPT !.snap = stored], "copy")
        /\ cached' = TRUE /\ fetched' = stored
     \/ /\ fetched = <<>> /\ ~OnLocal
        /\ Fails(k)
        /\ UNCHANGED <<cached, fetched>>
  /\ UNCHANGED <<stored, added, creates, lock, indexVars>>

\* Mutant: the loop does not look at the context.
CheckContextNever(k) ==
  /\ task[k].pc = "copy"
  /\ Goes(k, task[k], IF task[k].i > Len(task[k].snap) THEN "move" ELSE "add")
  /\ UNCHANGED <<stored, added, creates, cached, fetched, lock, indexVars>>

\* The head of the loop over the messages.
CheckContext(k) ==
  /\ task[k].pc = "copy"
  /\ IF task[k].i > Len(task[k].snap) THEN Goes(k, task[k], "move")
     ELSE IF task[k].over THEN Fails(k)
     ELSE Goes(k, task[k], "add")
  /\ UNCHANGED <<stored, added, creates, cached, fetched, lock, indexVars>>

Appended(r) == [r EXCEPT !.after = IF r.over THEN @ + 1 ELSE @]

\* AddMessage of the accessor, which goes to the store the index names.  The
\* local store may append the message and still return an error.
CopyMessage(k) ==
  /\ task[k].pc = "add"
  /\ \/ /\ OnLocal
        /\ stored' = Append(stored, task[k].snap[task[k].i])
        /\ \/ Goes(k, [Appended(task[k]) EXCEPT !.i = @ + 1], "copy")
           \/ Goes(k, [Appended(task[k]) EXCEPT !.err = TRUE], "unlock")
     \/ ~OnLocal /\ Fails(k) /\ UNCHANGED stored
  /\ UNCHANGED <<added, creates, cached, fetched, lock, indexVars>>

\* Mutant: the target is added to the index and the source stays.
MoveIndexAdding(k) ==
  /\ task[k].pc = "move"
  /\ AddIndex(Key, CreatedEntry(task[k].target))
  /\ Goes(k, [task[k] EXCEPT !.moved = TRUE], "delete")
  /\ UNCHANGED <<stored, added, creates, cached, fetched, lock>>

MoveIndex(k) ==
  /\ task[k].pc = "move"
  /\ MigrateIndex(Key, task[k].source, task[k].target)
  /\ Goes(k, [task[k] EXCEPT !.moved = TRUE], "delete")
  /\ UNCHANGED <<stored, added, creates, cached, fetched, lock>>

\* DeleteTimeline returns an error, which is only printed.
DeleteSource(k) ==
  /\ task[k].pc = "delete"
  /\ Goes(k, task[k], "unlock")
  /\ UNCHANGED <<stored, added, creates, cached, fetched, lock, indexVars>>

\* The deferred Release; it fails when the lock is no longer this task's.
ReleaseMigrationLock(k) ==
  /\ task[k].pc = "unlock"
  /\ lock' = IF lock = k THEN Nobody ELSE lock
  /\ task' = [task EXCEPT ![k].pc = "finish"]
  /\ UNCHANGED <<stored, added, creates, cached, fetched, indexVars>>

Finish(k) ==
  /\ task[k].pc = "finish"
  /\ task' = [task EXCEPT ![k] =
       WithStatus([@ EXCEPT !.pc = "done", !.running = FALSE],
                  IF task[k].err THEN "failed" ELSE "completed")]
  /\ UNCHANGED <<stored, added, creates, cached, fetched, lock, indexVars>>

-----------------------------------------------------------------------------
\* The context of the task is done from now on.
Over(r) ==
  [r EXCEPT !.over = TRUE,
            !.late = IF r.over THEN @
                     ELSE \/ r.pc \in {"move", "delete", "unlock", "finish"}
                          \/ r.pc = "add" /\ r.i = Len(r.snap)
                          \/ r.pc = "copy" /\ r.i > Len(r.snap)]

\* The cancel function is called only if executeMigration has stored it.
CancelMigration(k) ==
  /\ task[k].listed /\ task[k].status \in {"pending", "running"}
  /\ task' = [task EXCEPT ![k] =
       [(IF @.running THEN Over(@) ELSE @) EXCEPT !.status = "cancelled"]]
  /\ UNCHANGED <<stored, added, creates, cached, fetched, lock, indexVars>>

\* The context that StartMigration was called with ends.
CallerEnds(k) ==
  /\ task[k].pc \notin {"idle", "done"} /\ ~task[k].over
  /\ task' = [task EXCEPT ![k] = Over(@)]
  /\ UNCHANGED <<stored, added, creates, cached, fetched, lock, indexVars>>

CleanupCompletedMigrations(k) ==
  /\ task[k].listed /\ task[k].status \in {"completed", "failed", "cancelled"}
  /\ task' = [task EXCEPT ![k].listed = FALSE]
  /\ UNCHANGED <<stored, added, creates, cached, fetched, lock, indexVars>>

MigrationNext ==
  \/ CreateTimeline \/ AddMessage \/ GetTimeline \/ SecondPasses \/ LockExpires
  \/ \E k \in Tasks :
       \/ StartMigration(k) \/ Execute(k) \/ AcquireMigrationLock(k)
       \/ GetSource(k) \/ CreateTarget(k) \/ FetchMessages(k)
       \/ CheckContext(k) \/ CopyMessage(k) \/ MoveIndex(k) \/ DeleteSource(k)
       \/ ReleaseMigrationLock(k) \/ Finish(k)
       \/ CancelMigration(k) \/ CallerEnds(k) \/ CleanupCompletedMigrations(k)

MigrationSpec ==
  IndexInit /\ MigrationInit /\ [][MigrationNext]_<<indexVars, migrationVars>>

-----------------------------------------------------------------------------
\* The end of a task is what its status says, and lasts.  However cancellations,
\* clean-ups and status updates interleave, a task that has ended and is still
\* listed is Completed if it moved the index and Failed if it did not: it is
\* never left Cancelled, Running or Pending.  As long as no lock expires, a
\* task that moved the index made its target the primary store for good,
\* although the source was read before the lock was taken.
OutcomeIsTrue ==
  \A k \in Tasks :
    /\ task[k].pc = "done" /\ task[k].listed =>
         task[k].status = IF task[k].moved THEN "completed" ELSE "failed"
    /\ task[k].moved /\ (\A j \in Tasks : ~task[j].long) =>
         Primary = task[k].target

\* Once its context is done, by CancelMigration or by the end of the caller's
\* context, a task adds at most the message it was at, and moves the index only
\* if it had no message left to add, or none at all.
CancelHonoured ==
  \A k \in Tasks :
    /\ task[k].after <= 1
    /\ task[k].moved /\ task[k].over => task[k].late \/ task[k].snap = <<>>
=============================================================================
