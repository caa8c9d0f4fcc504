-------------------------- MODULE MCTxnCoordinator --------------------------
EXTENDS TxnCoordinator, TLC

CONSTANTS t1, t2, s1, s2, k1, k2

\* Two transactions that share a key; one has a second participant, whose store
\* has no handler.
TwoSharing ==
  t1 :> <<[store |-> s1, key |-> k1], [store |-> s2, key |-> k2]>>
  @@ t2 :> <<[store |-> s1, key |-> k1]>>
=============================================================================
