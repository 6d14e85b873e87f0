----------------------------- MODULE SessionLog -----------------------------
(***************************************************************************)
(* pkg/sessionlog and the subscribers of channels/aether/channel.go: the   *)
(* replay log of one session, shared by worker processes through a blob    *)
(* that is read and compare-and-swapped, the publishers that append to it  *)
(* and notify the subscribers of their own process, the attach of a client *)
(* and the clear control, which resets the log and deletes the transcript. *)
(*                                                                         *)
(* Each publisher streams one assistant message, a start and a final       *)
(* event, and then saves the transcript as its turn knows it.  A swap that *)
(* fails and the read that follows it are one step, and the number of      *)
(* retries has no limit: giving up is the failed commit of SessFault.      *)
(***************************************************************************)
EXTENDS EventLog, FiniteSets

CONSTANTS
    SessPublisher,   \* the streaming turns, and their messages
    SessPlacements,  \* where they may run: a set of [SessPublisher -> process]
    SessClientAt,    \* the process the client is attached to
    AttachBuffer,    \* sessionAttachBuffer
    MaxSessEvents    \* bound: clear controls, failed commits and further attaches

ASSUME SessAssumption == AttachBuffer \in Nat

VARIABLES
    log,         \* the blob: [gen, seq, events, proj, final]
    transcript,  \* the durable history: saved messages
    publisher,   \* [SessPublisher -> [pc, prev, mem]]
    client,      \* the client's subscription, its attach and what it was sent
    clearing,    \* the clear control: [pc, prev]
    past,        \* ghost: applied events as <<generation, sequence, event>>
    missed,      \* ghost: cursors of applied events the client's process did not publish
    replicaOf,   \* [SessPublisher -> worker process]
    sessEvents   \* clears, failed commits and further attaches so far

sessVars == <<log, transcript, publisher, client, clearing, past, missed,
              replicaOf, sessEvents>>

NoClient == [pc |-> "off", history |-> {}, view |-> {}, gen |-> 0, seq |-> 0,
             pending |-> <<>>, overflow |-> FALSE, sent |-> <<>>,
             resume |-> <<0, 0>>, replay |-> <<"none", {}>>]

SessInit ==
    /\ log = EmptyLog(1)
    /\ transcript = {}
    /\ publisher = [p \in SessPublisher |-> [pc |-> "begin", prev |-> EmptyLog(1), mem |-> {}]]
    /\ client = NoClient
    /\ clearing = [pc |-> "idle", prev |-> EmptyLog(1)]
    /\ past = {} /\ missed = {}
    /\ replicaOf \in SessPlacements /\ sessEvents = 0

SessEvent == sessEvents < MaxSessEvents /\ sessEvents' = sessEvents + 1

-----------------------------------------------------------------------------
(* RecordingPublisher. *)

EventOf(p) == <<IF publisher[p].pc \in {"start", "start_swap", "start_notify"}
                THEN "start" ELSE "final", p>>

Swapping(p) == publisher[p].pc \in {"start_swap", "final_swap"}
Notifying(p) == publisher[p].pc \in {"start_notify", "final_notify"}

\* Mutant: the lane is left before the subscribers are notified.
LaneLeftEarly(p) ==
    \A q \in SessPublisher \ {p} : replicaOf[q] = replicaOf[p] => ~Swapping(q)

\* lockRef: the publishers of one process append and notify one at a time.
LaneFree(p) ==
    \A q \in SessPublisher \ {p} :
        replicaOf[q] = replicaOf[p] => ~Swapping(q) /\ ~Notifying(q)

To(p, pc) == publisher' = [publisher EXCEPT ![p].pc = pc]

\* NewSession: the turn loads the transcript.
SessBegin(p) ==
    /\ publisher[p].pc = "begin"
    /\ publisher' = [publisher EXCEPT ![p].pc = "start", ![p].mem = transcript]
    /\ UNCHANGED <<log, transcript, client, clearing, past, missed, replicaOf, sessEvents>>

\* Append takes the lane and reads the blob.
SessRead(p) ==
    /\ publisher[p].pc \in {"start", "final"} /\ LaneFree(p)
    /\ publisher' = [publisher EXCEPT ![p].prev = log,
                       ![p].pc = IF @ = "start" THEN "start_swap" ELSE "final_swap"]
    /\ UNCHANGED <<log, transcript, client, clearing, past, missed, replicaOf, sessEvents>>

Applied(p) ==
    LET next == Extended(publisher[p].prev, EventOf(p))
    IN  /\ log' = next
        /\ past' = past \cup {<<next.gen, next.seq, EventOf(p)>>}

NextNotify(p) == IF publisher[p].pc = "start_swap" THEN "start_notify" ELSE "final_notify"

\* Mutant: the blob is written whatever it holds.
SwapBlindly(p) ==
    /\ Swapping(p) /\ Applied(p) /\ To(p, NextNotify(p))
    /\ missed' = IF replicaOf[p] = SessClientAt THEN missed
                 ELSE missed \cup {<<log'.gen, log'.seq>>}
    /\ UNCHANGED <<transcript, client, clearing, replicaOf, sessEvents>>

\* The compare-and-swap of commit, and the read of the next attempt.
SessSwap(p) ==
    /\ Swapping(p)
    /\ IF log = publisher[p].prev
       THEN /\ Applied(p) /\ To(p, NextNotify(p))
            /\ missed' = IF replicaOf[p] = SessClientAt THEN missed
                         ELSE missed \cup {<<log'.gen, log'.seq>>}
       ELSE publisher' = [publisher EXCEPT ![p].prev = log] /\ UNCHANGED <<log, past, missed>>
    /\ UNCHANGED <<transcript, client, clearing, replicaOf, sessEvents>>

\* The commit reports an error, applied or not: the event is not published
\* and the turn fails.
SessFault(p) ==
    /\ Swapping(p) /\ SessEvent
    /\ \/ log = publisher[p].prev /\ Applied(p) /\ missed' = missed \cup {<<log'.gen, log'.seq>>}
       \/ UNCHANGED <<log, past, missed>>
    /\ To(p, "failed")
    /\ UNCHANGED <<transcript, client, clearing, replicaOf>>

\* PublishSessionEvent: buffered while the attach is assembled, sent after it.
Published(c, cursor) ==
    CASE c.pc = "live" -> [c EXCEPT !.sent = Append(@, cursor)]
      [] c.pc \in {"subscribed", "loaded", "captured"} ->
            IF Len(c.pending) < AttachBuffer THEN [c EXCEPT !.pending = Append(@, cursor)]
            ELSE [c EXCEPT !.overflow = TRUE]
      [] OTHER -> c

SessNotify(p) ==
    /\ Notifying(p)
    /\ client' = IF replicaOf[p] = SessClientAt
                 THEN Published(client, <<publisher[p].prev.gen, publisher[p].prev.seq + 1>>)
                 ELSE client
    /\ To(p, IF publisher[p].pc = "start_notify" THEN "final" ELSE "save")
    /\ UNCHANGED <<log, transcript, clearing, past, missed, replicaOf, sessEvents>>

\* Session.Append saves the transcript the turn holds, the new message at its
\* end.
SessSave(p) ==
    /\ publisher[p].pc = "save"
    /\ transcript' = publisher[p].mem \cup {p}
    /\ To(p, "done")
    /\ UNCHANGED <<log, client, clearing, past, missed, replicaOf, sessEvents>>

-----------------------------------------------------------------------------
(* Coordinator.Attach between addSessionSubscriber and activate. *)

\* A client attaches, again after a gap, from the cursor it has reached.
SessSubscribe ==
    /\ \/ client.pc = "off" /\ UNCHANGED sessEvents
       \/ client.pc \in {"live", "refused"} /\ SessEvent
    /\ client' = [NoClient EXCEPT !.pc = "subscribed", !.resume = <<client.gen, client.seq>>]
    /\ UNCHANGED <<log, transcript, publisher, clearing, past, missed, replicaOf>>

SessLoad ==
    /\ client.pc = "subscribed"
    /\ client' = [client EXCEPT !.pc = "loaded", !.history = transcript]
    /\ UNCHANGED <<log, transcript, publisher, clearing, past, missed, replicaOf, sessEvents>>

\* Capture: projection, cursor and replay from one read of the log.
SessCapture ==
    /\ client.pc = "loaded"
    /\ client' = [client EXCEPT !.pc = "captured", !.gen = log.gen, !.seq = log.seq,
                    !.view = client.history \cup log.final,
                    !.replay = IF client.resume[1] = 0 THEN @ ELSE Replay(log, client.resume)]
    /\ UNCHANGED <<log, transcript, publisher, clearing, past, missed, replicaOf, sessEvents>>

\* activateSessionSubscriber: the result, then what was buffered meanwhile.
SessActivate ==
    /\ client.pc = "captured"
    /\ client' = IF client.overflow THEN [client EXCEPT !.pc = "refused"]
                 ELSE [client EXCEPT !.pc = "live", !.sent = client.pending, !.pending = <<>>]
    /\ UNCHANGED <<log, transcript, publisher, clearing, past, missed, replicaOf, sessEvents>>

-----------------------------------------------------------------------------
(* The clear control: ResetSession, then deleteAddressHistory. *)

SessClear ==
    /\ clearing.pc = "idle" /\ SessEvent
    /\ clearing' = [pc |-> "swap", prev |-> log]
    /\ UNCHANGED <<log, transcript, publisher, client, past, missed, replicaOf>>

SessReset ==
    /\ clearing.pc = "swap"
    /\ IF log = clearing.prev
       THEN log' = EmptyLog(log.gen + 1) /\ clearing' = [clearing EXCEPT !.pc = "delete"]
       ELSE clearing' = [clearing EXCEPT !.prev = log] /\ UNCHANGED log
    /\ UNCHANGED <<transcript, publisher, client, past, missed, replicaOf, sessEvents>>

SessDelete ==
    /\ clearing.pc = "delete"
    /\ transcript' = {}
    /\ clearing' = [pc |-> "idle", prev |-> EmptyLog(1)]
    /\ UNCHANGED <<log, publisher, client, past, missed, replicaOf, sessEvents>>

-----------------------------------------------------------------------------
SessNext ==
    \/ \E p \in SessPublisher :
          \/ SessBegin(p) \/ SessRead(p) \/ SessSwap(p) \/ SessFault(p)
          \/ SessNotify(p) \/ SessSave(p)
    \/ SessSubscribe \/ SessLoad \/ SessCapture \/ SessActivate
    \/ SessClear \/ SessReset \/ SessDelete

SessSpec == SessInit /\ [][SessNext]_sessVars

-----------------------------------------------------------------------------
SessTypeOK ==
    /\ transcript \subseteq SessPublisher /\ client.view \subseteq SessPublisher
    /\ Len(log.events) <= MaxRetained /\ Len(log.proj) <= MaxRetained
    /\ Len(log.events) <= log.seq /\ Len(client.pending) <= AttachBuffer

\* "multiple replicas cannot assign the same cursor or overwrite one another"
\* (cas_eventlog.go:40): no cursor is given to two events, the cursors of a
\* generation have no holes, and the log retains the last of its events.
SessCursorsUnique ==
    /\ \A a, b \in past : a[1] = b[1] /\ a[2] = b[2] => a = b
    /\ \A a \in past : a[2] > 1 => \E b \in past : b[1] = a[1] /\ b[2] = a[2] - 1
    /\ \A i \in DOMAIN log.events :
          /\ log.events[i][1] = log.seq - Len(log.events) + i
          /\ <<log.gen, log.events[i][1], log.events[i][2]>> \in past

\* A snapshot of an attach has every message that was final at its cursor,
\* from the transcript or from the projection, though they are read one after
\* the other and a message is saved some time after it is final.
SessSnapshotComplete ==
    client.pc \in {"captured", "live"} =>
        \A e \in past : e[1] = client.gen /\ e[2] <= client.seq /\ e[3][1] = "final"
            => e[3][2] \in client.view

Earlier(a, b) == a[1] < b[1] \/ (a[1] = b[1] /\ a[2] < b[2])

\* "each subscriber's subsequent sends remain cursor ordered" (channel.go:1080):
\* what an attached client is sent grows, and from its snapshot on has no hole
\* but for events its process did not publish.
SessSendsGapless ==
    client.pc = "live" =>
        LET snapshot == <<client.gen, client.seq>>
            Before(i) == IF i > 1 /\ Earlier(snapshot, client.sent[i - 1])
                         THEN client.sent[i - 1] ELSE snapshot
        IN  /\ \A i \in 2 .. Len(client.sent) : Earlier(client.sent[i - 1], client.sent[i])
            /\ \A i \in DOMAIN client.sent :
                  client.sent[i][1] = client.gen =>
                      \A k \in Before(i)[2] + 1 .. client.sent[i][2] - 1 :
                          <<client.gen, k>> \in missed

\* A replay called complete has exactly the events after the client's cursor.
SessReplayExact ==
    client.replay[1] = "complete" =>
        /\ client.resume[1] = client.gen
        /\ {<<client.gen, e[1], e[2]>> : e \in client.replay[2]}
             = {e \in past : e[1] = client.gen /\ client.resume[2] < e[2] /\ e[2] <= client.seq}

\* An attached client misses nothing: its snapshot is whole, what follows is in
\* order, and a cursor it resumes from names one event for good.
SessSound == SessSnapshotComplete /\ SessSendsGapless /\ SessCursorsUnique /\ SessReplayExact
=============================================================================
