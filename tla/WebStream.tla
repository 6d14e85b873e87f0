------------------------------- MODULE WebStream -------------------------------
(***************************************************************************)
(* The web mode of the worker: pkg/channels/web and the event log it keeps *)
(* in a file (pkg/sessionlog/file_eventlog.go).  A browser posts messages  *)
(* of one session, follows it through a stream it opens again after every  *)
(* end, from the cursor it has reached, and deletes it; the process        *)
(* stops and starts again; a file cannot be written.                       *)
(*                                                                         *)
(* A turn publishes the start and the final of one message and then saves  *)
(* the transcript it holds; the turns of a session run one after another.  *)
(* An append changes the log in memory and the file under one lock, and a  *)
(* crash between the two leaves what a crash before or after them leaves.  *)
(* The workspace of a session, titles and the encoding are left out.       *)
(***************************************************************************)
EXTENDS EventLog, FiniteSets

CONSTANTS
    WsPlans,      \* what one run does: turns, streams, troubles
    WsTurn,       \* the turns, and their messages
    WsBuffer,     \* subscriberBuffer
    WsInbox,      \* inboxBuffer
    NoLog

VARIABLES
    wsPlan,       \* the plan of this run
    wsFile,       \* the file: fileEventLogState, or NoLog
    wsMem,        \* MemoryEventLog's session, or NoLog
    wsLoaded,     \* FileEventLog.loaded
    wsGens,       \* generations made so far
    wsInbox,      \* Channel.inbox
    wsTurn,       \* [turn -> [pc, mem]]
    wsHistory,    \* the stored transcript: saved messages
    wsListed,     \* threadindex lists the session
    wsStream,     \* the request that streams: [pc, buf, history, result, gen, seq]
    wsBrowser,    \* what the browser has: [gen, seq, view]
    wsDelete,     \* handleDeleteSession
    wsPast        \* what has been shown, what the code lets happen, and bounds

wsVars == <<wsPlan, wsFile, wsMem, wsLoaded, wsGens, wsInbox, wsTurn, wsHistory, wsListed,
            wsStream, wsBrowser, wsDelete, wsPast>>

WsFresh == [gen |-> 0, seq |-> 0, view |-> {}]
WsClosed == [pc |-> "closed", buf |-> <<>>, history |-> {}, result |-> WsFresh, gen |-> 0, seq |-> 0]

WsInit ==
    /\ wsPlan \in WsPlans
    /\ wsFile = NoLog /\ wsMem = NoLog /\ wsLoaded = FALSE /\ wsGens = 0
    /\ wsInbox = <<>>
    /\ wsTurn = [t \in WsTurn |-> [pc |-> "none", mem |-> {}]]
    /\ wsHistory = {} /\ wsListed = FALSE
    /\ wsStream = WsClosed /\ wsBrowser = WsFresh
    /\ wsDelete = "idle"
    /\ wsPast = [streams |-> 0, troubles |-> 0, deletes |-> 0, named |-> {}, applied |-> {},
                 dropped |-> FALSE, mixed |-> FALSE]

WsWorking == {t \in WsTurn : wsTurn[t].pc \notin {"none", "over"}}
WsTrouble(k) == k \in wsPlan.troubles /\ wsPast.troubles < 1

-----------------------------------------------------------------------------
(* FileEventLog. *)

\* A log is read only if it holds the last events of its generation, no more of
\* them and of messages than are retained, and every message once.
decodeEventLogState(l) ==
    /\ Len(l.events) <= MaxRetained /\ Len(l.events) <= l.seq
    /\ l.seq > 0 => l.events # <<>>
    /\ \A i \in DOMAIN l.events : l.events[i][1] = l.seq - Len(l.events) + i
    /\ Len(l.proj) <= MaxRetained
    /\ \A i, j \in DOMAIN l.proj : l.proj[i] = l.proj[j] => i = j

\* loadLocked: without that, every operation on the session is an error.
CanLoad == ~wsLoaded /\ wsFile # NoLog => decodeEventLogState(wsFile)

\* prepareLocked: the file is read once, and a session nobody saw is made.
SeenLog == IF wsLoaded THEN wsMem ELSE wsFile
PreparedLog == IF SeenLog = NoLog THEN EmptyLog(wsGens + 1) ELSE SeenLog
GensMade == IF SeenLog = NoLog THEN wsGens + 1 ELSE wsGens

\* restoreLocked.
AfterFailedWrite(before, next) == before

\* The file takes what memory holds, or memory goes back to what it was.
persistLocked(before, next) ==
    \/ wsFile' = next /\ wsMem' = next /\ wsLoaded' = TRUE
    \/ /\ WsTrouble("fault")
       /\ wsMem' = AfterFailedWrite(before, next)
       /\ wsLoaded' = (before # NoLog)
       /\ UNCHANGED wsFile

-----------------------------------------------------------------------------
(* Turns. *)
WsMove(t, pc) == wsTurn' = [wsTurn EXCEPT ![t].pc = pc]

\* handleChat lists the session, then waits for room in the inbox.
WsTouch(t) ==
    /\ wsTurn[t].pc = "none" /\ \A u \in WsTurn : u < t => wsTurn[u].pc # "none"
    /\ wsListed' = TRUE
    /\ WsMove(t, "touched")
    /\ wsPast' = [wsPast EXCEPT !.mixed = @ \/ wsDelete # "idle"]
    /\ UNCHANGED <<wsPlan, wsFile, wsMem, wsLoaded, wsGens, wsInbox, wsHistory, wsStream, wsBrowser, wsDelete>>

WsEnqueue(t) ==
    /\ wsTurn[t].pc = "touched"
    /\ \/ Len(wsInbox) < WsInbox /\ wsInbox' = Append(wsInbox, t) /\ WsMove(t, "queued")
       \/ Len(wsInbox) = WsInbox /\ UNCHANGED wsInbox /\ WsMove(t, "over")
    /\ UNCHANGED <<wsPlan, wsFile, wsMem, wsLoaded, wsGens, wsHistory, wsListed, wsStream, wsBrowser,
                   wsDelete, wsPast>>

WsFetch ==
    /\ wsInbox # <<>> /\ \A u \in WsTurn : wsTurn[u].pc \in {"none", "touched", "queued", "over"}
    /\ wsInbox' = Tail(wsInbox)
    /\ wsTurn' = [wsTurn EXCEPT ![Head(wsInbox)] = [pc |-> "start", mem |-> wsHistory]]
    /\ UNCHANGED <<wsPlan, wsFile, wsMem, wsLoaded, wsGens, wsHistory, wsListed, wsStream, wsBrowser,
                   wsDelete, wsPast>>

\* RecordingPublisher appends the event; when that fails, so does the turn.
WsAppend(t) ==
    /\ wsTurn[t].pc \in {"start", "final"} /\ CanLoad
    /\ LET next == Extended(PreparedLog, <<wsTurn[t].pc, t>>) IN
       /\ persistLocked(SeenLog, next)
       /\ wsGens' = GensMade
       /\ IF wsFile' = next
          THEN /\ WsMove(t, IF wsTurn[t].pc = "start" THEN "started" ELSE "finished")
               /\ wsPast' = [wsPast EXCEPT !.applied = @ \cup {<<next.gen, next.seq, <<wsTurn[t].pc, t>>>>}]
          ELSE /\ WsMove(t, "over")
               /\ wsPast' = [wsPast EXCEPT !.troubles = @ + 1]
    /\ UNCHANGED <<wsPlan, wsInbox, wsHistory, wsListed, wsStream, wsBrowser, wsDelete>>

\* PublishSessionEvent: a full buffer loses the event.  The lane is kept from
\* the append on: the event that was recorded is the last one.
WsPublish(t) ==
    /\ wsTurn[t].pc \in {"started", "finished"}
    /\ LET e == CHOOSE e \in wsPast.applied : e[3] = <<IF wsTurn[t].pc = "started" THEN "start" ELSE "final", t>>
           room == Len(wsStream.buf) < WsBuffer IN
       IF wsStream.pc = "closed" THEN UNCHANGED <<wsStream, wsPast>>
       ELSE /\ wsStream' = IF room THEN [wsStream EXCEPT !.buf = Append(@, e)] ELSE wsStream
            /\ wsPast' = [wsPast EXCEPT !.dropped = @ \/ ~room]
    /\ WsMove(t, IF wsTurn[t].pc = "started" THEN "final" ELSE "save")
    /\ UNCHANGED <<wsPlan, wsFile, wsMem, wsLoaded, wsGens, wsInbox, wsHistory, wsListed, wsBrowser, wsDelete>>

WsSave(t) ==
    /\ wsTurn[t].pc = "save"
    /\ wsHistory' = wsTurn[t].mem \cup {t}
    /\ WsMove(t, "over")
    /\ UNCHANGED <<wsPlan, wsFile, wsMem, wsLoaded, wsGens, wsInbox, wsListed, wsStream, wsBrowser,
                   wsDelete, wsPast>>

-----------------------------------------------------------------------------
(* handleSessionStream. *)

\* The subscription comes before the attach; the browser resumes from its cursor.
SubscribeSession ==
    /\ wsStream.pc = "closed" /\ wsPast.streams < wsPlan.streams
    /\ wsStream' = [WsClosed EXCEPT !.pc = "subscribed"]
    /\ wsPast' = [wsPast EXCEPT !.streams = @ + 1, !.dropped = FALSE]
    /\ UNCHANGED <<wsPlan, wsFile, wsMem, wsLoaded, wsGens, wsInbox, wsTurn, wsHistory, wsListed,
                   wsBrowser, wsDelete>>

WsLoad ==
    /\ wsStream.pc = "subscribed"
    /\ wsStream' = [wsStream EXCEPT !.pc = "loaded", !.history = wsHistory]
    /\ UNCHANGED <<wsPlan, wsFile, wsMem, wsLoaded, wsGens, wsInbox, wsTurn, wsHistory, wsListed,
                   wsBrowser, wsDelete, wsPast>>

\* What the browser has after an attach: a replay that is complete is added to
\* what it had, otherwise the snapshot takes its place.
WsAttached(l) ==
    LET resumed == wsBrowser.gen # 0
        replay == Replay(l, <<wsBrowser.gen, wsBrowser.seq>>)
        finals == {e[2][2] : e \in {x \in replay[2] : x[2][1] = "final"}}
    IN  [gen |-> l.gen, seq |-> l.seq,
         view |-> IF resumed /\ replay[1] = "complete" THEN wsBrowser.view \cup finals
                  ELSE wsStream.history \cup l.final]

NamedBy(l) == {<<l.gen, l.events[i][1], l.events[i][2]>> : i \in DOMAIN l.events}

\* Capture; a session made by it is written.
WsCapture ==
    /\ wsStream.pc = "loaded" /\ CanLoad
    /\ IF GensMade = wsGens
       THEN /\ wsMem' = PreparedLog /\ wsLoaded' = TRUE /\ UNCHANGED <<wsFile, wsGens>>
       ELSE persistLocked(NoLog, PreparedLog) /\ wsGens' = GensMade
    /\ IF wsLoaded'
       THEN /\ wsStream' = [wsStream EXCEPT !.pc = "captured", !.result = WsAttached(wsMem')]
            /\ wsPast' = [wsPast EXCEPT !.named = @ \cup NamedBy(wsMem')]
       ELSE /\ wsStream' = WsClosed
            /\ wsPast' = [wsPast EXCEPT !.troubles = @ + 1]
    /\ UNCHANGED <<wsPlan, wsInbox, wsTurn, wsHistory, wsListed, wsBrowser, wsDelete>>

\* session_attached: from here on the stream shows its buffer.
WsAttach ==
    /\ wsStream.pc = "captured"
    /\ wsBrowser' = wsStream.result
    /\ wsStream' = [wsStream EXCEPT !.pc = "live", !.gen = wsStream.result.gen, !.seq = wsStream.result.seq,
                        !.result = WsFresh, !.history = {}]
    /\ UNCHANGED <<wsPlan, wsFile, wsMem, wsLoaded, wsGens, wsInbox, wsTurn, wsHistory, wsListed,
                   wsDelete, wsPast>>

\* One event of the buffer: another generation and a hole end the stream.
WsShow ==
    /\ wsStream.pc = "live" /\ wsStream.buf # <<>>
    /\ LET e == Head(wsStream.buf) IN
       CASE e[1] # wsStream.gen \/ e[2] > wsStream.seq + 1 ->
               wsStream' = WsClosed /\ UNCHANGED <<wsBrowser, wsPast>>
         [] e[1] = wsStream.gen /\ e[2] <= wsStream.seq ->
               wsStream' = [wsStream EXCEPT !.buf = Tail(@)] /\ UNCHANGED <<wsBrowser, wsPast>>
         [] OTHER ->
               /\ wsStream' = [wsStream EXCEPT !.buf = Tail(@), !.seq = e[2]]
               /\ wsBrowser' = [wsBrowser EXCEPT !.seq = e[2],
                                   !.view = IF e[3][1] = "final" THEN @ \cup {e[3][2]} ELSE @]
               /\ wsPast' = [wsPast EXCEPT !.named = @ \cup {e}]
    /\ UNCHANGED <<wsPlan, wsFile, wsMem, wsLoaded, wsGens, wsInbox, wsTurn, wsHistory, wsListed, wsDelete>>

WsDisconnect ==
    /\ wsStream.pc # "closed" /\ WsTrouble("disconnect")
    /\ wsStream' = WsClosed
    /\ wsPast' = [wsPast EXCEPT !.troubles = @ + 1]
    /\ UNCHANGED <<wsPlan, wsFile, wsMem, wsLoaded, wsGens, wsInbox, wsTurn, wsHistory, wsListed,
                   wsBrowser, wsDelete>>

-----------------------------------------------------------------------------
(* handleDeleteSession: the log, the list, the transcript. *)
ResetSession ==
    /\ wsDelete = "idle" /\ wsPast.deletes < wsPlan.deletes /\ CanLoad
    /\ persistLocked(SeenLog, EmptyLog(wsGens + 1))
    /\ wsGens' = wsGens + 1
    /\ LET done == wsFile' # wsFile /\ wsFile' = EmptyLog(wsGens + 1) IN
       /\ wsDelete' = IF done THEN "reset" ELSE "idle"
       /\ wsPast' = [wsPast EXCEPT !.deletes = @ + 1, !.mixed = @ \/ WsWorking # {},
                                   !.troubles = IF done THEN @ ELSE @ + 1]
    /\ UNCHANGED <<wsPlan, wsInbox, wsTurn, wsHistory, wsListed, wsStream, wsBrowser>>

WsUnlist ==
    /\ wsDelete = "reset"
    /\ \/ wsListed' = FALSE /\ wsDelete' = "unlisted" /\ UNCHANGED wsPast
       \/ /\ WsTrouble("fault") /\ wsDelete' = "idle" /\ UNCHANGED wsListed
          /\ wsPast' = [wsPast EXCEPT !.troubles = @ + 1]
    /\ UNCHANGED <<wsPlan, wsFile, wsMem, wsLoaded, wsGens, wsInbox, wsTurn, wsHistory, wsStream, wsBrowser>>

WsErase ==
    /\ wsDelete = "unlisted"
    /\ \/ wsHistory' = {} /\ UNCHANGED wsPast
       \/ /\ WsTrouble("fault") /\ UNCHANGED wsHistory
          /\ wsPast' = [wsPast EXCEPT !.troubles = @ + 1, !.mixed = TRUE]
    /\ wsDelete' = "idle"
    /\ UNCHANGED <<wsPlan, wsFile, wsMem, wsLoaded, wsGens, wsInbox, wsTurn, wsListed, wsStream, wsBrowser>>

\* The process stops and starts again: the files stay.
WsRestart ==
    /\ WsTrouble("crash")
    /\ wsMem' = NoLog /\ wsLoaded' = FALSE
    /\ wsInbox' = <<>>
    /\ wsTurn' = [t \in WsTurn |-> IF t \in WsWorking THEN [pc |-> "over", mem |-> {}] ELSE wsTurn[t]]
    /\ wsStream' = WsClosed /\ wsDelete' = "idle"
    /\ wsPast' = [wsPast EXCEPT !.troubles = @ + 1, !.mixed = @ \/ wsDelete # "idle"]
    /\ UNCHANGED <<wsPlan, wsFile, wsGens, wsHistory, wsListed, wsBrowser>>

WsNext ==
    \/ \E t \in WsTurn : WsTouch(t) \/ WsEnqueue(t) \/ WsAppend(t) \/ WsPublish(t) \/ WsSave(t)
    \/ WsFetch
    \/ SubscribeSession \/ WsLoad \/ WsCapture \/ WsAttach \/ WsShow \/ WsDisconnect
    \/ ResetSession \/ WsUnlist \/ WsErase \/ WsRestart

WsSpec == WsInit /\ [][WsNext]_wsVars

-----------------------------------------------------------------------------
WsTypeOK ==
    /\ Len(wsInbox) <= WsInbox /\ Len(wsStream.buf) <= WsBuffer
    /\ wsHistory \subseteq WsTurn /\ wsBrowser.view \subseteq WsTurn
    /\ wsStream.pc \in {"closed", "subscribed", "loaded", "captured", "live"}
    /\ wsDelete \in {"idle", "reset", "unlisted"}

\* A cursor the browser was shown names one event for good, and what it names is
\* in the file: no write that failed and no restart takes it back, and what was
\* written can always be read again.
WsCursorsKept ==
    /\ CanLoad
    /\ \A a, b \in wsPast.named : a[1] = b[1] /\ a[2] = b[2] => a = b
    /\ wsFile # NoLog /\ wsBrowser.gen = wsFile.gen => wsBrowser.seq <= wsFile.seq

\* However its streams ended, the browser has every message that was final at
\* the cursor it has reached.
WsNothingMissed ==
    \A e \in wsPast.applied :
        e[1] = wsBrowser.gen /\ e[2] <= wsBrowser.seq /\ e[3][1] = "final" => e[3][2] \in wsBrowser.view

\* A stream that has shown everything it was given is at the end of the log,
\* unless an event did not fit in its buffer or the session was deleted since.
WsCaughtUp ==
    wsStream.pc = "live" /\ wsStream.buf = <<>> /\ wsMem.gen = wsStream.gen
    /\ (\A t \in WsTurn : wsTurn[t].pc \notin {"started", "finished"})
        => wsStream.seq = wsMem.seq \/ wsPast.dropped

\* A transcript belongs to a session that is listed, unless a delete met a turn
\* of the session, or stopped half way.
WsListedOrGone == wsHistory # {} /\ ~wsListed => wsPast.mixed \/ wsDelete = "unlisted"

\* Who follows a session whose log is a file of one worker misses nothing, however
\* often the stream ends or the process stops, and keeps what it was shown.
WsSound == WsCursorsKept /\ WsNothingMissed /\ WsCaughtUp /\ WsListedOrGone
=============================================================================
