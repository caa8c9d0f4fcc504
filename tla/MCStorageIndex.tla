--------------------------- MODULE MCStorageIndex ---------------------------
\* Three parts of the distributed store, of which a behaviour exercises one:
\* the global index alone, with every call and its watcher; the index under the
\* migrations and accesses of one timeline; and the lock manager.
EXTENDS Migration, LockManager, TLC

CONSTANTS p1, p2, p3, k1

VARIABLE part

MCTimelines == {<<"a">>, <<"p", "x">>}
MCKey == <<"a">>
OneKey == [p \in Procs |-> k1]

\* Bounds: of the two tasks one loses its lock, and one is interrupted.
MaxExpired == 1
MaxOver == 1
WithinBounds ==
  /\ Cardinality({k \in Tasks : task[k].long}) <= MaxExpired
  /\ Cardinality({k \in Tasks : task[k].over}) <= MaxOver

Init ==
  /\ part \in {"index", "migration", "locks"}
  /\ IndexInit /\ MigrationInit /\ LockInit

Next ==
  \/ part = "index" /\ IndexNext /\ UNCHANGED <<part, migrationVars, lockVars>>
  \/ part = "migration" /\ MigrationNext /\ WithinBounds' /\ UNCHANGED <<part, lockVars>>
  \/ part = "locks" /\ LockNext /\ UNCHANGED <<part, indexVars, migrationVars>>

Spec == Init /\ [][Next]_<<part, indexVars, migrationVars, lockVars>>

Symmetry == Permutations(Tasks)
=============================================================================
