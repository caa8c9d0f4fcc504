----------------------------- MODULE MessageLog -----------------------------
(***************************************************************************)
(* What the timelines promise: append-only logs of messages.  A message is *)
(* added once, and only a restart of the store may lose messages, which    *)
(* neither invents, repeats nor reorders any.                              *)
(***************************************************************************)
EXTENDS Naturals, Sequences, SequencesExt

CONSTANTS Timelines, Messages

VARIABLES log,       \* the messages of each timeline
          restarts   \* restarts of the store so far

Init == log = [tl \in Timelines |-> << >>] /\ restarts = 0

\* The message is the one at the end of the new log.
Add(tl) ==
  LET old == log[tl]
      m   == Last(log'[tl])
  IN  /\ log'[tl] # << >> /\ m \in Messages
      /\ \A i \in DOMAIN old : old[i].id # m.id
      /\ log' = [log EXCEPT ![tl] = Append(old, m)]
      /\ UNCHANGED restarts

\* The logs may change only as the number of restarts does.
Restart ==
  /\ restarts' = restarts + 1
  /\ DOMAIN log' = Timelines
  /\ \A tl \in Timelines :
       LET kept == Range(log'[tl])
       IN  log'[tl] = SelectSeq(log[tl], LAMBDA m : m \in kept)

Next == Restart \/ \E tl \in Timelines : Add(tl)

Spec == Init /\ [][Next]_<<log, restarts>>
=============================================================================
