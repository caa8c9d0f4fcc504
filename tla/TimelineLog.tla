---------------------------- MODULE TimelineLog ----------------------------
(***************************************************************************)
(* The block store implements MessageLog.  The log of a timeline is what a *)
(* reader of it would find: its blocks when it is in memory, and what      *)
(* loadTimeline would bring back from the files when it is not, so that    *)
(* loading changes nothing and a crash is the abstract Restart.            *)
(***************************************************************************)
EXTENDS TimelineStore, SequencesExt

MessagesOf(bs) == FlattenSeq([i \in 1..Len(bs) |-> bs[i].msgs])

\* The block list a reader finds, in memory or after loadTimeline.
Readable(tl) ==
  IF tl \in loaded THEN {blocks[tl]}
                   ELSE {LoadedBlocks(tl, order) : order \in LoadOrders(tl)}

LogOf(tl) == CHOOSE l \in {MessagesOf(bs) : bs \in Readable(tl)} : TRUE

Log == INSTANCE MessageLog
         WITH log <- [tl \in Timelines |-> LogOf(tl)],
              restarts <- crashes,
              Messages <- [id : CallIds, seq : CallIds]

\* Every step of the goroutines of timeline.go either leaves every timeline's
\* log alone or appends one new message to one of them.  Messages are lost
\* only in the step in which the process stops, even where that tears files,
\* and none is then invented, repeated or moved.  What a restart may lose is
\* the subject of SavedSurvives.
ImplementsMessageLog == Log!Spec
=============================================================================
