------------------------------- MODULE EventLog -------------------------------
(***************************************************************************)
(* pkg/sessionlog/eventlog.go: what an append does to the log of one       *)
(* session and what a cursor is replayed, for the stores that keep the log *)
(* in a shared blob (SessionLog) and in a file (WebStream).  An event is   *)
(* the start or the final of a message.                                    *)
(***************************************************************************)
EXTENDS Integers, Sequences

CONSTANT MaxRetained     \* MemoryEventLogConfig.MaxEvents

\* Anything else is taken for the default (NewMemoryEventLog).
ASSUME EventLogAssumption == MaxRetained \in Nat \ {0}

EmptyLog(gen) == [gen |-> gen, seq |-> 0, events |-> <<>>, proj |-> <<>>, final |-> {}]

LastOf(s, n) == SubSeq(s, IF Len(s) > n THEN Len(s) - n + 1 ELSE 1, Len(s))

\* Mutant: only a started message enters the projection.
ProjectStarted(proj, event) ==
    IF event[1] = "start" THEN LastOf(Append(proj, event[2]), MaxRetained) ELSE proj

\* streamMessageID: a start and a final event name their message; a message
\* unknown to this generation is added, the oldest one leaves.
Project(proj, event) ==
    IF \E i \in DOMAIN proj : proj[i] = event[2] THEN proj
    ELSE LastOf(Append(proj, event[2]), MaxRetained)

Extended(l, event) ==
    LET proj == Project(l.proj, event)
    IN  [gen |-> l.gen, seq |-> l.seq + 1, proj |-> proj,
         events |-> LastOf(Append(l.events, <<l.seq + 1, event>>), MaxRetained),
         final |-> {m \in l.final \cup (IF event[1] = "final" THEN {event[2]} ELSE {}) :
                       \E i \in DOMAIN proj : proj[i] = m}]

\* replayLocked: a status and the events.
Replay(l, after) ==
    IF after[1] # l.gen \/ after[2] > l.seq THEN <<"unavailable", {}>>
    ELSE IF after[2] = l.seq THEN <<"complete", {}>>
    ELSE <<IF l.events # <<>> /\ after[2] + 1 < l.events[1][1]
           THEN "partial" ELSE "complete",
           {l.events[i] : i \in {j \in DOMAIN l.events : l.events[j][1] > after[2]}}>>
=============================================================================
