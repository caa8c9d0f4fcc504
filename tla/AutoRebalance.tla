---------------------------- MODULE AutoRebalance ----------------------------
(***************************************************************************)
(* The shard manager's background rebalancing: StartAutoRebalance makes a  *)
(* stop channel and a goroutine, StopAutoRebalance closes the channel.     *)
(* The goroutine reads the field autoRebalanceStop again, without tsm.mu,  *)
(* each time around its loop.                                              *)
(***************************************************************************)
EXTENDS Integers

CONSTANTS MaxStarts,      \* bound on successful starts
          MaxRebalances   \* bound on migrations the loops start

ASSUME RebalanceAssumption == MaxStarts \in Nat /\ MaxRebalances \in Nat

Loops == 1..MaxStarts     \* the n-th start makes loop n and channel n

VARIABLES
  autoRebalanceRunning,
  autoRebalanceStop,   \* the channel in the field, 0 for nil
  closedStops,              \* closed channels
  loopAt,              \* per loop: "none", "top", "select", "busy" or "done"
  waitsOn,             \* per loop: the channel it read for its select
  ctxDone,             \* loops whose context has ended
  rebalanceCount       \* stats.RebalanceCount

rebalanceVars == <<autoRebalanceRunning, autoRebalanceStop, closedStops, loopAt,
                   waitsOn, ctxDone, rebalanceCount>>

Started == autoRebalanceStop
LoopGoes(n, to) == loopAt' = [loopAt EXCEPT ![n] = to]

MakeLoop ==
  /\ Started < MaxStarts
  /\ autoRebalanceStop' = Started + 1
  /\ autoRebalanceRunning' = TRUE
  /\ LoopGoes(Started + 1, "top")
  /\ UNCHANGED <<closedStops, waitsOn, ctxDone, rebalanceCount>>

\* Mutant: a second start is not refused.
StartAutoRebalanceAlways == MakeLoop

StartAutoRebalance == ~autoRebalanceRunning /\ MakeLoop

CloseStop ==
  /\ autoRebalanceRunning
  /\ closedStops' = closedStops \cup {autoRebalanceStop}
  /\ UNCHANGED <<autoRebalanceStop, loopAt, waitsOn, ctxDone, rebalanceCount>>

StopAutoRebalance == CloseStop /\ autoRebalanceRunning' = FALSE

\* The loop evaluates the channels of its select.  The field is read with no
\* lock, so the read may return any value it had since the loop's last read,
\* or since the go statement that made the loop.
ReadStop(n) ==
  /\ loopAt[n] = "top"
  /\ \E c \in waitsOn[n]..autoRebalanceStop :
       /\ c >= n
       /\ waitsOn' = [waitsOn EXCEPT ![n] = c]
  /\ LoopGoes(n, "select")
  /\ UNCHANGED <<autoRebalanceRunning, autoRebalanceStop, closedStops, ctxDone,
                 rebalanceCount>>

\* select takes any case that is ready: the ticker, the channel, the context.
TickerFires(n) ==
  /\ loopAt[n] = "select"
  /\ LoopGoes(n, "busy")
  /\ UNCHANGED <<autoRebalanceRunning, autoRebalanceStop, closedStops, waitsOn,
                 ctxDone, rebalanceCount>>

LoopEnds(n) ==
  /\ loopAt[n] = "select"
  /\ waitsOn[n] \in closedStops \/ n \in ctxDone
  /\ LoopGoes(n, "done")
  /\ UNCHANGED <<autoRebalanceRunning, autoRebalanceStop, closedStops, waitsOn,
                 ctxDone, rebalanceCount>>

\* performAutoRebalance: an error or nothing to recommend, or a migration
\* started and counted.
performAutoRebalance(n) ==
  /\ loopAt[n] = "busy"
  /\ \/ UNCHANGED rebalanceCount
     \/ rebalanceCount < MaxRebalances /\ rebalanceCount' = rebalanceCount + 1
  /\ LoopGoes(n, "top")
  /\ UNCHANGED <<autoRebalanceRunning, autoRebalanceStop, closedStops, waitsOn,
                 ctxDone>>

ContextEnds(n) ==
  /\ n <= Started /\ n \notin ctxDone
  /\ ctxDone' = ctxDone \cup {n}
  /\ UNCHANGED <<autoRebalanceRunning, autoRebalanceStop, closedStops, loopAt,
                 waitsOn, rebalanceCount>>

RebalanceInit ==
  /\ autoRebalanceRunning = FALSE /\ autoRebalanceStop = 0 /\ closedStops = {}
  /\ loopAt = [n \in Loops |-> "none"] /\ waitsOn = [n \in Loops |-> 0]
  /\ ctxDone = {} /\ rebalanceCount = 0

RebalanceNext ==
  \/ StartAutoRebalance
  \/ StopAutoRebalance
  \/ \E n \in Loops : \/ ReadStop(n)
                      \/ TickerFires(n)
                      \/ LoopEnds(n)
                      \/ performAutoRebalance(n)
                      \/ ContextEnds(n)

RebalanceSpec == RebalanceInit /\ [][RebalanceNext]_rebalanceVars

-----------------------------------------------------------------------------
Live(n) == loopAt[n] \notin {"none", "done"}

\* StopAutoRebalance reaches every loop there is, also one that an earlier
\* stop missed because it was busy and that now serves beside a new one: no
\* loop ever waits on a channel that nobody will close.  And there is a loop
\* to stop whenever the manager says it is rebalancing, unless the context of
\* that loop has ended: then the flag stays, and the next start is refused
\* until someone calls StopAutoRebalance.
StopReachesEveryLoop ==
  /\ \A n \in Loops :
       loopAt[n] = "select" => waitsOn[n] \in closedStops \cup {autoRebalanceStop}
  /\ autoRebalanceRunning =>
       Live(autoRebalanceStop) \/ autoRebalanceStop \in ctxDone
=============================================================================
