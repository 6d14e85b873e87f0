------------------------------ MODULE McpServers ------------------------------
(***************************************************************************)
(* A tool server run as a child process and spoken to in JSON-RPC over its *)
(* pipes, shared by the turns of a process: it is started on demand, one   *)
(* request is in flight at a time, and a tool call that meets a dead       *)
(* server restarts it and is sent once more.                               *)
(*                                                                         *)
(* A process is named by its generation, its index in msProc.  "deaf"      *)
(* stands for a process that takes requests and never answers: it hangs,   *)
(* or its leader is gone and a helper holds the pipes.                     *)
(***************************************************************************)
LOCAL INSTANCE Integers
LOCAL INSTANCE Sequences
LOCAL INSTANCE FiniteSets

CONSTANTS
    MsTurn,            \* the turns that use the server
    MsPlans,           \* plans: the operations of each turn, whether the schemas are
                       \* known, and how often things go wrong
    NoOne, NoMsReply

VARIABLES
    msPlan,
    msProc,            \* the processes there have been
    msServer,          \* serverState: the process in use, the handshake, the request waiting
    msMu, msRpc,       \* who holds the manager's lock and the server's
    msTurns,           \* how far each turn has come
    msRan,             \* the tool calls the processes have executed
    msLeft             \* faults still to come

msVars == <<msPlan, msProc, msServer, msMu, msRpc, msTurns, msRan, msLeft>>

MsInit ==
    /\ msPlan \in MsPlans
    /\ msProc = <<>>
    /\ msServer = [gen |-> 0, initialized |-> FALSE, nextID |-> 0, pending |-> 0,
                   schemas |-> msPlan.known]
    /\ msMu = NoOne /\ msRpc = NoOne
    /\ msTurns = [t \in MsTurn |->
          [pc |-> "ready", op |-> 1, listing |-> FALSE, attempt |-> 1, id |-> 0, sentTo |-> 0,
           chan |-> NoMsReply, live |-> TRUE]]
    /\ msRan = {}
    /\ msLeft = msPlan.faults

MsOp(t) == msPlan.ops[t][msTurns[t].op]
MethodOf(t) == IF msTurns[t].listing THEN "tools/list" ELSE MsOp(t)
Retried(t) == MethodOf(t) \in {"tools/list", "tools/call"}
MsAt(t, pc) == [msTurns EXCEPT ![t].pc = pc]

MsUp(p) == msProc[p].life # "dead"
Dies(p) == msProc' = [msProc EXCEPT ![p].life = "dead", ![p].in = <<>>, ![p].asked = FALSE]
\* The exit status of the process in use is there to be read.
ExitKnown == msServer.gen # 0 /\ msProc[msServer.gen].waited # "no"

-----------------------------------------------------------------------------
\* The life of the process: clearProcessLocked forgets it, startLocked replaces it.
Cleared == [msServer EXCEPT !.gen = 0, !.initialized = FALSE, !.pending = 0]

Process(t) == [life |-> "up", by |-> t, asked |-> FALSE, in |-> <<>>, out |-> <<>>,
               reading |-> TRUE, waited |-> "no"]

\* The command runs under the context of the turn that starts it, and is not
\* started when that is over.
startLocked(t, server) ==
    /\ msTurns[t].live
    /\ msProc' = Append(msProc, Process(t))
    /\ msServer' = [server EXCEPT !.gen = Len(msProc) + 1, !.initialized = FALSE, !.pending = 0]

\* Ids go on over restarts, so that no two requests ever share one.
Numbered(server) == [server EXCEPT !.nextID = @ + 1, !.pending = server.nextID + 1]

\* An exit that was noticed is cleared away.
refreshed == IF ExitKnown THEN Cleared ELSE msServer

\* An operation has ended; whatever its outcome the turn goes on to the next.
MsNextOp(t) ==
    IF msTurns[t].op = Len(msPlan.ops[t])
    THEN [msTurns EXCEPT ![t].pc = "over", ![t].live = FALSE, ![t].id = 0, ![t].sentTo = 0,
                         ![t].chan = NoMsReply]
    ELSE [msTurns EXCEPT ![t].pc = "ready", ![t].op = @ + 1, ![t].listing = FALSE,
                         ![t].attempt = 1, ![t].id = 0, ![t].sentTo = 0, ![t].chan = NoMsReply]

\* A listing made for the schemas of a call is followed by the call, listed or not.
MsEnded(t) ==
    IF msTurns[t].listing
    THEN [msTurns EXCEPT ![t].pc = "ensure", ![t].listing = FALSE, ![t].attempt = 1,
                         ![t].id = 0, ![t].sentTo = 0, ![t].chan = NoMsReply]
    ELSE MsNextOp(t)

\* EnsureStarted for an operation; a call first fetches the schemas if they are
\* not known.
Begun(t) ==
    [msTurns EXCEPT ![t].pc = "hello",
        ![t].listing = IF msTurns[t].pc = "ready" THEN MsOp(t) = "tools/call" /\ ~msServer.schemas
                       ELSE FALSE]

MsEnsureStarted(t) ==
    /\ msTurns[t].pc = "ensure" \/ (msTurns[t].pc = "ready" /\ MsOp(t) # "stop")
    /\ msMu = NoOne
    /\ refreshed.gen = 0 => msRpc = NoOne
    /\ \/ refreshed.gen # 0 /\ UNCHANGED <<msProc, msServer>> /\ msTurns' = Begun(t)
       \/ refreshed.gen = 0 /\ startLocked(t, refreshed) /\ msTurns' = Begun(t)
       \/ refreshed.gen = 0 /\ ~msTurns[t].live /\ msServer' = refreshed /\ UNCHANGED msProc
          /\ msTurns' = MsEnded(t)
    /\ UNCHANGED <<msPlan, msMu, msRpc, msRan, msLeft>>

-----------------------------------------------------------------------------
\* Requests, one at a time under the server's lock.

\* A request that met a dead process is sent once more after a restart.
Exited(t) ==
    IF Retried(t) /\ msTurns[t].attempt = 1
    THEN [msTurns EXCEPT ![t].pc = "restart", ![t].chan = NoMsReply]
    ELSE MsEnded(t)

Gone == IF msServer.gen = 0 THEN TRUE ELSE ~MsUp(msServer.gen)

\* requestLocked: the answer is awaited under a new id; there is no server to
\* write to, or it is gone.
requestLocked(t, what, next) ==
    \/ /\ ~Gone
       /\ msServer' = Numbered(msServer)
       /\ msProc' = [msProc EXCEPT ![msServer.gen].in =
             Append(@, [id |-> Numbered(msServer).nextID, turn |-> t, op |-> msTurns[t].op,
                        attempt |-> msTurns[t].attempt, what |-> what])]
       /\ msRpc' = t
       /\ msTurns' = [msTurns EXCEPT ![t].pc = next, ![t].id = Numbered(msServer).nextID,
                                     ![t].sentTo = msServer.gen, ![t].chan = NoMsReply]
    \/ /\ Gone
       /\ msServer' = IF msServer.gen = 0 THEN msServer
                      ELSE [msServer EXCEPT !.nextID = @ + 1]
       /\ msTurns' = Exited(t)
       /\ UNCHANGED <<msProc, msRpc>>

\* ensureInitialized, then the request itself; the lock is free in between.
MsHello(t) ==
    /\ msTurns[t].pc = "hello" /\ msRpc = NoOne
    /\ \/ msServer.initialized /\ msTurns' = MsAt(t, "ask") /\ UNCHANGED <<msServer, msProc, msRpc>>
       \/ ~msServer.initialized /\ requestLocked(t, "initialize", "greeting")
    /\ UNCHANGED <<msPlan, msMu, msRan, msLeft>>

MsAsk(t) ==
    /\ msTurns[t].pc = "ask" /\ msRpc = NoOne
    /\ requestLocked(t, MethodOf(t), "waiting")
    /\ UNCHANGED <<msPlan, msMu, msRan, msLeft>>

\* The waiting request ends: with its answer, because the process has gone, or
\* because the turn was cancelled.
MsAnswer(t) ==
    /\ msTurns[t].pc \in {"greeting", "waiting"} /\ msTurns[t].chan # NoMsReply
    /\ msRpc' = NoOne
    /\ \/ /\ msTurns[t].chan.what = "exit"
          /\ msTurns' = Exited(t) /\ UNCHANGED msServer
       \/ /\ msTurns[t].chan.what # "exit" /\ msTurns[t].pc = "greeting"
          /\ \/ msServer' = [msServer EXCEPT !.initialized = TRUE] /\ msTurns' = MsAt(t, "ask")
             \/ Gone /\ UNCHANGED msServer /\ msTurns' = Exited(t)
       \/ /\ msTurns[t].chan.what # "exit" /\ msTurns[t].pc = "waiting"
          /\ msServer' = [msServer EXCEPT !.schemas = @ \/ MethodOf(t) = "tools/list"]
          /\ msTurns' = MsEnded(t)
    /\ UNCHANGED <<msPlan, msProc, msMu, msRan, msLeft>>

MsGiveUp(t) ==
    /\ msTurns[t].pc \in {"greeting", "waiting"} /\ ~msTurns[t].live
    /\ msRpc' = NoOne
    /\ msServer' = [msServer EXCEPT !.pending = IF @ = msTurns[t].id THEN 0 ELSE @]
    /\ msTurns' = MsEnded(t)
    /\ UNCHANGED <<msPlan, msProc, msMu, msRan, msLeft>>

-----------------------------------------------------------------------------
\* Stop and restartServer hold the manager's lock from here on, for every server.
MsLock(t) ==
    /\ msTurns[t].pc = "restart" \/ (msTurns[t].pc = "ready" /\ MsOp(t) = "stop")
    /\ msMu = NoOne
    /\ msMu' = t
    /\ msTurns' = MsAt(t, IF msTurns[t].pc = "ready" THEN "stopping" ELSE "restarting")
    /\ UNCHANGED <<msPlan, msProc, msServer, msRpc, msRan, msLeft>>

\* stopLocked asks the process to end ...
MsTerminate(t) ==
    /\ msTurns[t].pc \in {"stopping", "restarting"} /\ msRpc = NoOne /\ msServer.gen # 0
    /\ msRpc' = t
    /\ msProc' = [msProc EXCEPT ![msServer.gen].asked = TRUE]
    /\ msTurns' = [msTurns EXCEPT ![t].pc = IF @ = "stopping" THEN "ending" ELSE "replacing"]
    /\ UNCHANGED <<msPlan, msServer, msMu, msRan, msLeft>>

\* ... kills it after a while ...
MsKill(t) ==
    /\ msTurns[t].pc \in {"ending", "replacing"} /\ MsUp(msServer.gen)
    /\ Dies(msServer.gen)
    /\ UNCHANGED <<msPlan, msServer, msMu, msRpc, msTurns, msRan, msLeft>>

Restarted(t) == [msTurns EXCEPT ![t].pc = "hello", ![t].attempt = 2]

\* ... and is done when its exit was seen, when there was nothing to stop, or
\* when the turn ended meanwhile; a restart tries to start it whatever came of it.
StopEnded(t) ==
    \/ /\ msTurns[t].pc \in {"stopping", "restarting"} /\ msRpc = NoOne /\ msServer.gen = 0
    \/ /\ msTurns[t].pc \in {"ending", "replacing"} /\ (ExitKnown \/ ~msTurns[t].live)

AfterStop(t) ==
    IF msTurns[t].pc \in {"ending", "replacing"} /\ ~ExitKnown THEN msServer ELSE Cleared

MsStopped(t) ==
    /\ StopEnded(t)
    /\ msMu' = NoOne /\ msRpc' = NoOne
    /\ \/ /\ msTurns[t].pc \in {"stopping", "ending"}
          /\ msServer' = AfterStop(t) /\ msTurns' = MsEnded(t) /\ UNCHANGED msProc
       \/ /\ msTurns[t].pc \in {"restarting", "replacing"}
          /\ \/ startLocked(t, AfterStop(t)) /\ msTurns' = Restarted(t)
             \/ /\ ~msTurns[t].live
                /\ msServer' = AfterStop(t) /\ msTurns' = MsEnded(t) /\ UNCHANGED msProc
    /\ UNCHANGED <<msPlan, msRan, msLeft>>

-----------------------------------------------------------------------------
\* The process, and the two goroutines that watch it.
MsServe(p) ==
    /\ msProc[p].life = "up" /\ msProc[p].in # <<>>
    /\ LET r == Head(msProc[p].in)
       IN  /\ msProc' = [msProc EXCEPT ![p].in = Tail(@), ![p].out = Append(@, r)]
           /\ msRan' = IF r.what = "tools/call"
                       THEN msRan \cup {[turn |-> r.turn, op |-> r.op, attempt |-> r.attempt, gen |-> p]}
                       ELSE msRan
    /\ UNCHANGED <<msPlan, msServer, msMu, msRpc, msTurns, msLeft>>

\* It ends when asked to, when the turn that started it ends, or by itself.
MsExit(p) ==
    /\ MsUp(p)
    /\ \/ (msProc[p].asked \/ ~msTurns[msProc[p].by].live) /\ UNCHANGED msLeft
       \/ msLeft.crashes > 0 /\ msLeft' = [msLeft EXCEPT !.crashes = @ - 1]
    /\ Dies(p)
    /\ UNCHANGED <<msPlan, msServer, msMu, msRpc, msTurns, msRan>>

\* It stops answering, or says something that ends the reader of its output.
MsHang(p) ==
    /\ msProc[p].life = "up" /\ msLeft.hangs > 0
    /\ msLeft' = [msLeft EXCEPT !.hangs = @ - 1]
    /\ msProc' = [msProc EXCEPT ![p].life = "deaf"]
    /\ UNCHANGED <<msPlan, msServer, msMu, msRpc, msTurns, msRan>>

\* Whoever waits under this id is handed the message, and the id is free again.
HandTo(id, m) ==
    IF id # 0 /\ id = msServer.pending
    THEN [t \in MsTurn |->
             IF msTurns[t].pc \in {"greeting", "waiting"} /\ msTurns[t].id = id
             THEN [msTurns[t] EXCEPT !.chan = m] ELSE msTurns[t]]
    ELSE msTurns
Taken(id) == [msServer EXCEPT !.pending = IF @ = id THEN 0 ELSE @]

\* readLoop and deliver; what is in the reader's buffer outlives the process.
MsDeliver(p) ==
    /\ msProc[p].reading /\ msProc[p].out # <<>>
    /\ msTurns' = HandTo(Head(msProc[p].out).id, Head(msProc[p].out))
    /\ msServer' = Taken(Head(msProc[p].out).id)
    /\ msProc' = [msProc EXCEPT ![p].out = Tail(@)]
    /\ UNCHANGED <<msPlan, msMu, msRpc, msRan, msLeft>>

\* failPending: only the waiting request of the latest process is failed.
PendingOf(p) == IF p = Len(msProc) THEN msServer.pending ELSE 0

failPending(p) ==
    /\ msTurns' = HandTo(PendingOf(p), [what |-> "exit"])
    /\ msServer' = Taken(PendingOf(p))

\* The reader ends when the output does; answers may be lost when the process is
\* waited for first.
MsReaderEnds(p) ==
    /\ msProc[p].reading /\ (msProc[p].life = "deaf" \/ ~MsUp(p))
    /\ msProc[p].out = <<>> \/ msProc[p].waited # "no"
    /\ msProc' = [msProc EXCEPT ![p].reading = FALSE, ![p].out = <<>>]
    /\ failPending(p)
    /\ UNCHANGED <<msPlan, msMu, msRpc, msRan, msLeft>>

\* The goroutine that waits for the exit reports it, then fails what waits.
MsReap(p) ==
    /\ ~MsUp(p) /\ msProc[p].waited = "no"
    /\ msProc' = [msProc EXCEPT ![p].waited = "reported"]
    /\ UNCHANGED <<msPlan, msServer, msMu, msRpc, msTurns, msRan, msLeft>>

MsReaped(p) ==
    /\ msProc[p].waited = "reported"
    /\ msProc' = [msProc EXCEPT ![p].waited = "yes"]
    /\ failPending(p)
    /\ UNCHANGED <<msPlan, msMu, msRpc, msRan, msLeft>>

MsCancel(t) ==
    /\ msTurns[t].live /\ msTurns[t].pc # "ready" /\ msLeft.cancels > 0
    /\ msTurns' = [msTurns EXCEPT ![t].live = FALSE]
    /\ msLeft' = [msLeft EXCEPT !.cancels = @ - 1]
    /\ UNCHANGED <<msPlan, msProc, msServer, msMu, msRpc, msRan>>

MsNext ==
    \/ \E t \in MsTurn :
          \/ MsEnsureStarted(t) \/ MsHello(t) \/ MsAsk(t) \/ MsAnswer(t)
          \/ MsGiveUp(t) \/ MsLock(t) \/ MsTerminate(t) \/ MsKill(t) \/ MsStopped(t)
          \/ MsCancel(t)
    \/ \E p \in DOMAIN msProc :
          \/ MsServe(p) \/ MsExit(p) \/ MsHang(p) \/ MsDeliver(p) \/ MsReaderEnds(p)
          \/ MsReap(p) \/ MsReaped(p)

-----------------------------------------------------------------------------
MsTypeOK ==
    /\ msPlan \in MsPlans
    /\ msServer.gen \in 0..Len(msProc) /\ msServer.pending \in 0..msServer.nextID
    /\ msMu \in MsTurn \cup {NoOne} /\ msRpc \in MsTurn \cup {NoOne}
    /\ \A p \in DOMAIN msProc :
          /\ msProc[p].life \in {"up", "deaf", "dead"} /\ msProc[p].by \in MsTurn
          /\ msProc[p].waited \in {"no", "reported", "yes"}

\* No process is left behind: the only one that runs is the one in use, however
\* starts, stops, restarts and cancelled turns overlap.
MsOneProcess == \A p \in DOMAIN msProc : MsUp(p) => p = msServer.gen

\* An answer reaches the request it answers: not one sent later, to another
\* process, under the id of one that was given up.
MsOwnAnswer ==
    \A t \in MsTurn :
        /\ msTurns[t].pc \in {"greeting", "waiting"}
        /\ msTurns[t].chan # NoMsReply /\ msTurns[t].chan.what # "exit"
        => /\ msTurns[t].chan.turn = t /\ msTurns[t].chan.op = msTurns[t].op
           /\ msTurns[t].chan.attempt = msTurns[t].attempt
           /\ (msTurns[t].pc = "greeting") = (msTurns[t].chan.what = "initialize")

\* A request is told that its process has gone only when that one has: the end of
\* an earlier process does not fail a request to its successor.
MsFailedByOwn ==
    \A t \in MsTurn :
        msTurns[t].pc \in {"greeting", "waiting"} /\ msTurns[t].chan # NoMsReply
        /\ msTurns[t].chan.what = "exit"
        => LET p == msProc[msTurns[t].sentTo] IN p.life # "up" \/ ~p.reading

\* Nobody waits for a process that has gone: a request that waits is registered,
\* and the process it was sent to has a goroutine that will end the wait.
MsNoLostWait ==
    \A t \in MsTurn :
        msTurns[t].pc \in {"greeting", "waiting"} /\ msTurns[t].chan = NoMsReply
        => /\ msRpc = t /\ msServer.pending = msTurns[t].id
           /\ msTurns[t].sentTo = Len(msProc)
           /\ MsUp(Len(msProc)) \/ msProc[Len(msProc)].waited # "yes"

\* A call that is sent again may be executed again, but only by a later process,
\* after the one that had it first has ended.
MsRunsAgain ==
    \A a, b \in msRan :
        a # b /\ a.turn = b.turn /\ a.op = b.op
        => /\ {a.attempt, b.attempt} = {1, 2}
           /\ a.attempt < b.attempt => a.gen < b.gen /\ ~MsUp(a.gen)

McpSound == MsOneProcess /\ MsOwnAnswer /\ MsFailedByOwn /\ MsNoLostWait /\ MsRunsAgain
===============================================================================
