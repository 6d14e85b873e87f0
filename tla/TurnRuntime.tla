----------------------------- MODULE TurnRuntime -----------------------------
(***************************************************************************)
(* pkg/runtime: the loop that fetches messages and turns them into turns.  *)
(* Three kinds of actor interleave: the loop goroutine (runLoopConcurrent, *)
(* or RunLoop/RunOnce when Concurrency is 1), the dispatcher's workers,    *)
(* each inside runTask, and the out-of-band cancel control.  They share    *)
(* the dispatcher's queues, the steering inbox and the canceller.          *)
(*                                                                         *)
(* A message is fetched once and opens at most one runTask frame, so a     *)
(* frame is named by its message.  A shell result left over when its turn  *)
(* ends is run by a nested runTask: the outer frame waits in "child" for   *)
(* the head of its missed list.  A result is forgotten once its caller has *)
(* looked at it.                                                           *)
(***************************************************************************)
EXTENDS KeyedDispatcher, SteeringInbox, TurnCanceller

CONSTANTS MaxTurns,        \* cfg.MaxTurns, 0 for no limit
          MaxFetchErrors   \* bound: errors the serial loop may count

ASSUME LoopAssumption == MaxTurns \in Nat /\ MaxFetchErrors \in Nat

VARIABLES lpc,         \* where the loop goroutine is
          lcur,        \* the message the loop holds
          ctxDone,     \* the loop's context is cancelled
          unfetched,   \* messages the source has not delivered yet
          submitted,   \* messages handed to the dispatcher
          pc,          \* where each message's runTask frame is
          res,         \* what each frame returns
          batch,       \* drained messages still to be appended by a turn
          missed,      \* what a frame's close func returned and is left over
          delivered,   \* messages appended to a running turn's history
          rejected,    \* messages whose sender was told they missed
          dropped,     \* messages drained and then lost to a failed append
          asked,       \* task ids a cancel was ever asked for
          stats        \* LoopStats

frameVars == <<pc, res, batch, missed, delivered, rejected, dropped>>
loopVars  == <<lpc, lcur, ctxDone, unfetched, submitted, asked, stats>>
vars      == <<dispatcherVars, inboxVars, cancellerVars, frameVars, loopVars>>

LoopPC  == {"top", "fetching", "submit", "serial", "wait", "returned"}
FramePC == {"idle", "begin", "open", "exec", "deliver", "close", "missed",
            "child", "done", "returned"}
Result  == {"none", "ok", "cancelled", "error"}

LoopTypeOK ==
    /\ lpc \in LoopPC /\ lcur \in Msg \cup {None} /\ ctxDone \in BOOLEAN
    /\ unfetched \subseteq Msg /\ submitted \subseteq Msg
    /\ asked \subseteq Task
    /\ stats \in [turns : Nat, cancelled : Nat, errors : Nat]

FrameTypeOK ==
    /\ pc \in [Msg -> FramePC] /\ res \in [Msg -> Result]
    /\ batch \in [Msg -> Seq(Msg)] /\ missed \in [Msg -> Seq(Msg)]
    /\ delivered \subseteq Msg /\ rejected \subseteq Msg /\ dropped \subseteq Msg

TypeOK ==
    /\ DispatcherTypeOK /\ InboxTypeOK /\ CancellerTypeOK
    /\ LoopTypeOK /\ FrameTypeOK

Init ==
    /\ DispatcherInit /\ InboxInit /\ CancellerInit
    /\ lpc = "top" /\ lcur = None /\ ctxDone = FALSE
    /\ unfetched = Msg /\ submitted = {}
    /\ pc = [m \in Msg |-> "idle"] /\ res = [m \in Msg |-> "none"]
    /\ batch = [m \in Msg |-> <<>>] /\ missed = [m \in Msg |-> <<>>]
    /\ delivered = {} /\ rejected = {} /\ dropped = {}
    /\ asked = {}
    /\ stats = [turns |-> 0, cancelled |-> 0, errors |-> 0]

Serial == Concurrency = 1

\* record: what a returned turn adds to the stats.
record(s, r) ==
    [turns     |-> IF r \in {"ok", "cancelled"} THEN s.turns + 1 ELSE s.turns,
     cancelled |-> IF r = "cancelled" THEN s.cancelled + 1 ELSE s.cancelled,
     errors    |-> IF r \in {"ok", "cancelled"} THEN s.errors ELSE s.errors + 1]

-----------------------------------------------------------------------------
(* The loop goroutine.                                                     *)

\* A loop that never looks at its context.
LoopTopDeaf ==
    /\ lpc = "top"
    /\ lpc' = "fetching"
    /\ UNCHANGED <<dispatcherVars, inboxVars, cancellerVars, frameVars,
                   lcur, ctxDone, unfetched, submitted, asked, stats>>

LoopTop ==
    /\ lpc = "top"
    /\ lpc' = IF Serial
              THEN IF ctxDone THEN "returned" ELSE "fetching"
              ELSE IF ctxDone \/ (MaxTurns > 0 /\ Cardinality(submitted) >= MaxTurns)
                   THEN "wait" ELSE "fetching"
    /\ UNCHANGED <<dispatcherVars, inboxVars, cancellerVars, frameVars,
                   lcur, ctxDone, unfetched, submitted, asked, stats>>

\* FetchTask reports ErrNoTask, or in the concurrent loop any error: wait and
\* go round again.
FetchNothing ==
    /\ lpc = "fetching"
    /\ lpc' = "top"
    /\ UNCHANGED <<dispatcherVars, inboxVars, cancellerVars, frameVars,
                   lcur, ctxDone, unfetched, submitted, asked, stats>>

\* RunOnce returns FetchTask's error to the serial loop, which counts it.
FetchError ==
    /\ lpc = "fetching" /\ Serial
    /\ IF ctxDone
       THEN lpc' = "returned" /\ UNCHANGED stats
       ELSE /\ stats.errors < MaxFetchErrors
            /\ stats' = record(stats, "error")
            /\ lpc' = "top"
    /\ UNCHANGED <<dispatcherVars, inboxVars, cancellerVars, frameVars,
                   lcur, ctxDone, unfetched, submitted, asked>>

\* A fetched message that becomes a turn: plain input, or a shell result that
\* found no running turn.  The serial loop runs it itself.
FetchTurn(m) ==
    /\ lpc = "fetching" /\ m \in unfetched
    /\ IsSteering(m) => IsShell(m) /\ ~CanPark(m)
    /\ unfetched' = unfetched \ {m}
    /\ lcur' = m
    /\ IF Serial
       THEN lpc' = "serial" /\ pc' = [pc EXCEPT ![m] = "begin"]
       ELSE lpc' = "submit" /\ UNCHANGED pc
    /\ UNCHANGED <<dispatcherVars, inboxVars, cancellerVars, res, batch, missed,
                   delivered, rejected, dropped, ctxDone, submitted, asked, stats>>

\* classifySteering parks the message on the turn running for its address.
FetchParked(m) ==
    /\ lpc = "fetching" /\ m \in unfetched
    /\ IsSteering(m)
    /\ Park(m)
    /\ unfetched' = unfetched \ {m}
    /\ lpc' = IF Serial THEN "fetching" ELSE "top"
    /\ UNCHANGED <<dispatcherVars, cancellerVars, frameVars,
                   lcur, ctxDone, submitted, asked, stats>>

\* classifySteering found no running turn: rejectSteering tells the sender.
FetchMissed(m) ==
    /\ lpc = "fetching" /\ m \in unfetched
    /\ IsSteering(m) /\ ~IsShell(m) /\ ~CanPark(m)
    /\ unfetched' = unfetched \ {m}
    /\ rejected' = rejected \cup {m}
    /\ lpc' = IF Serial THEN "fetching" ELSE "top"
    /\ UNCHANGED <<dispatcherVars, inboxVars, cancellerVars, pc, res, batch,
                   missed, delivered, dropped, lcur, ctxDone, submitted, asked,
                   stats>>

LoopSubmit ==
    /\ lpc = "submit"
    /\ submit(lcur)
    /\ submitted' = submitted \cup {lcur}
    /\ lcur' = None
    /\ lpc' = "top"
    /\ UNCHANGED <<inboxVars, cancellerVars, frameVars, ctxDone, unfetched, asked,
                   stats>>

\* The serial loop looks at what its inline turn returned.
SerialReturn ==
    /\ lpc = "serial" /\ pc[lcur] = "returned"
    /\ lcur' = None
    /\ LET counted == res[lcur] = "ok" \/ (res[lcur] = "cancelled" /\ ~ctxDone)
           full == MaxTurns > 0 /\ stats.turns + 1 >= MaxTurns
       IN  IF counted
           THEN /\ stats' = record(stats, res[lcur])
                /\ lpc' = IF full THEN "returned" ELSE "top"
           ELSE IF ctxDone
                THEN lpc' = "returned" /\ UNCHANGED stats
                ELSE /\ stats' = record(stats, "error")
                     /\ lpc' = "top"
    /\ res' = [res EXCEPT ![lcur] = "none"]
    /\ UNCHANGED <<dispatcherVars, inboxVars, cancellerVars, pc, batch, missed,
                   delivered, rejected, dropped, ctxDone, unfetched, submitted,
                   asked>>

\* Returning without waiting for the workers.
LoopReturnEarly ==
    /\ lpc = "wait"
    /\ lpc' = "returned"
    /\ UNCHANGED <<dispatcherVars, inboxVars, cancellerVars, frameVars,
                   lcur, ctxDone, unfetched, submitted, asked, stats>>

LoopReturn ==
    /\ lpc = "wait" /\ allWorkersDone
    /\ lpc' = "returned"
    /\ UNCHANGED <<dispatcherVars, inboxVars, cancellerVars, frameVars,
                   lcur, ctxDone, unfetched, submitted, asked, stats>>

-----------------------------------------------------------------------------
(* Worker goroutines.                                                      *)

WorkerAcquire(w) ==
    /\ acquire(w)
    /\ pc' = [pc EXCEPT ![wcur[w]] = "begin"]
    /\ UNCHANGED <<inboxVars, cancellerVars, loopVars, res, batch, missed,
                   delivered, rejected, dropped>>

\* runTask has returned: record counts the result and the permit goes back.
WorkerRelease(w) ==
    /\ pc[wcur[w]] = "returned"
    /\ release(w)
    /\ stats' = record(stats, res[wcur[w]])
    /\ res' = [res EXCEPT ![wcur[w]] = "none"]
    /\ UNCHANGED <<inboxVars, cancellerVars, pc, batch, missed, delivered,
                   rejected, dropped, lpc, lcur, ctxDone, unfetched, submitted,
                   asked>>

WorkerNext(w) ==
    /\ popOrExit(w)
    /\ UNCHANGED <<inboxVars, cancellerVars, frameVars, loopVars>>

-----------------------------------------------------------------------------
(* runTask, one frame per message.                                         *)

TaskBegin(m) ==
    /\ pc[m] = "begin"
    /\ CancellerBegin(m)
    /\ pc' = [pc EXCEPT ![m] = "open"]
    /\ UNCHANGED <<dispatcherVars, inboxVars, loopVars, res, batch, missed,
                   delivered, rejected, dropped>>

TaskOpenLane(m) ==
    /\ pc[m] = "open"
    /\ InboxBegin(m)
    /\ pc' = [pc EXCEPT ![m] = "exec"]
    /\ UNCHANGED <<dispatcherVars, cancellerVars, loopVars, res, batch, missed,
                   delivered, rejected, dropped>>

\* deliverSteering at the top of a provider iteration: drain what is parked.
TurnDrain(m) ==
    /\ pc[m] = "exec"
    /\ Drained(DrainKey(m)) # <<>>
    /\ batch' = [batch EXCEPT ![m] = Drained(DrainKey(m))]
    /\ Drain(DrainKey(m))
    /\ pc' = [pc EXCEPT ![m] = "deliver"]
    /\ UNCHANGED <<dispatcherVars, cancellerVars, loopVars, res, missed,
                   delivered, rejected, dropped>>

\* Stopping after the first drained message.
TurnDeliverFirstOnly(m) ==
    /\ pc[m] = "deliver"
    /\ delivered' = delivered \cup {Head(batch[m])}
    /\ batch' = [batch EXCEPT ![m] = <<>>]
    /\ pc' = [pc EXCEPT ![m] = "exec"]
    /\ UNCHANGED <<dispatcherVars, inboxVars, cancellerVars, loopVars, res,
                   missed, rejected, dropped>>

TurnDeliver(m) ==
    /\ pc[m] = "deliver"
    /\ IF batch[m] = <<>>
       THEN pc' = [pc EXCEPT ![m] = "exec"] /\ UNCHANGED <<batch, delivered>>
       ELSE /\ delivered' = delivered \cup {Head(batch[m])}
            /\ batch' = [batch EXCEPT ![m] = Tail(@)]
            /\ UNCHANGED pc
    /\ UNCHANGED <<dispatcherVars, inboxVars, cancellerVars, loopVars, res,
                   missed, rejected, dropped>>

\* Rendering or appending the head fails: the turn ends with the error and the
\* rest of the drained batch goes with it.
TurnDeliverFails(m) ==
    /\ pc[m] = "deliver" /\ batch[m] # <<>>
    /\ dropped' = dropped \cup {batch[m][i] : i \in 1..Len(batch[m])}
    /\ batch' = [batch EXCEPT ![m] = <<>>]
    /\ res' = [res EXCEPT ![m] = "error"]
    /\ pc' = [pc EXCEPT ![m] = "close"]
    /\ UNCHANGED <<dispatcherVars, inboxVars, cancellerVars, loopVars, missed,
                   delivered, rejected>>

\* executor.Run returns.  context.Canceled needs a cancelled context.
TurnEnd(m, r) ==
    /\ pc[m] = "exec"
    /\ r = "cancelled" => m \in cancelled \/ ctxDone
    /\ res' = [res EXCEPT ![m] = r]
    /\ pc' = [pc EXCEPT ![m] = "close"]
    /\ UNCHANGED <<dispatcherVars, inboxVars, cancellerVars, loopVars, batch,
                   missed, delivered, rejected, dropped>>

\* A close after the error check: a failed turn returns at once.
TaskCloseOnSuccess(m) ==
    /\ pc[m] = "close"
    /\ IF res[m] = "ok"
       THEN InboxClose(m) /\ missed' = [missed EXCEPT ![m] = parked[m]]
       ELSE UNCHANGED <<inboxVars, missed>>
    /\ pc' = [pc EXCEPT ![m] = "missed"]
    /\ UNCHANGED <<dispatcherVars, cancellerVars, loopVars, res, batch,
                   delivered, rejected, dropped>>

TaskClose(m) ==
    /\ pc[m] = "close"
    /\ InboxClose(m)
    /\ missed' = [missed EXCEPT ![m] = parked[m]]
    /\ pc' = [pc EXCEPT ![m] = "missed"]
    /\ UNCHANGED <<dispatcherVars, cancellerVars, loopVars, res, batch,
                   delivered, rejected, dropped>>

\* The leftover loop: a shell result runs as a turn of its own, nested here;
\* any other message is rejected.
MissedFallback(m) ==
    /\ pc[m] = "missed" /\ missed[m] # <<>> /\ IsShell(Head(missed[m]))
    /\ pc' = [pc EXCEPT ![m] = "child", ![Head(missed[m])] = "begin"]
    /\ UNCHANGED <<dispatcherVars, inboxVars, cancellerVars, loopVars, res,
                   batch, missed, delivered, rejected, dropped>>

ChildReturn(m) ==
    /\ pc[m] = "child" /\ pc[Head(missed[m])] = "returned"
    /\ LET c == Head(missed[m]) IN
       res' = [res EXCEPT ![m] = IF @ = "ok" THEN res[c] ELSE @, ![c] = "none"]
    /\ missed' = [missed EXCEPT ![m] = Tail(@)]
    /\ pc' = [pc EXCEPT ![m] = "missed"]
    /\ UNCHANGED <<dispatcherVars, inboxVars, cancellerVars, loopVars, batch,
                   delivered, rejected, dropped>>

MissedReject(m) ==
    /\ pc[m] = "missed" /\ missed[m] # <<>> /\ ~IsShell(Head(missed[m]))
    /\ rejected' = rejected \cup {Head(missed[m])}
    /\ missed' = [missed EXCEPT ![m] = Tail(@)]
    /\ UNCHANGED <<dispatcherVars, inboxVars, cancellerVars, loopVars, pc, res,
                   batch, delivered, dropped>>

MissedEmpty(m) ==
    /\ pc[m] = "missed" /\ missed[m] = <<>>
    /\ pc' = [pc EXCEPT ![m] = "done"]
    /\ UNCHANGED <<dispatcherVars, inboxVars, cancellerVars, loopVars, res,
                   batch, missed, delivered, rejected, dropped>>

\* The deferred done func of the canceller.
TaskDone(m) ==
    /\ pc[m] = "done"
    /\ CancellerDone(m)
    /\ pc' = [pc EXCEPT ![m] = "returned"]
    /\ UNCHANGED <<dispatcherVars, inboxVars, loopVars, res, batch, missed,
                   delivered, rejected, dropped>>

-----------------------------------------------------------------------------
(* The environment.                                                        *)

CancelTask(t) ==
    /\ CancellerCancel(t)
    /\ asked' = asked \cup {t}
    /\ UNCHANGED <<dispatcherVars, inboxVars, frameVars, lpc, lcur, ctxDone,
                   unfetched, submitted, stats>>

CtxCancel ==
    /\ ~ctxDone
    /\ ctxDone' = TRUE
    /\ UNCHANGED <<dispatcherVars, inboxVars, cancellerVars, frameVars, lpc,
                   lcur, unfetched, submitted, asked, stats>>

Terminated == lpc = "returned" /\ UNCHANGED vars

LoopNext ==
    \/ LoopTop \/ FetchNothing \/ FetchError \/ LoopSubmit
    \/ SerialReturn \/ LoopReturn
    \/ \E m \in Msg : FetchTurn(m) \/ FetchParked(m) \/ FetchMissed(m)

WorkerStep(w) == WorkerAcquire(w) \/ WorkerRelease(w) \/ WorkerNext(w)

FrameStep(m) ==
    \/ TaskBegin(m) \/ TaskOpenLane(m)
    \/ TurnDrain(m) \/ TurnDeliver(m) \/ TurnDeliverFails(m)
    \/ \E r \in Result \ {"none"} : TurnEnd(m, r)
    \/ TaskClose(m) \/ MissedFallback(m) \/ ChildReturn(m) \/ MissedReject(m)
    \/ MissedEmpty(m) \/ TaskDone(m)

Next ==
    \/ LoopNext
    \/ \E m \in Msg : WorkerStep(m) \/ FrameStep(m)
    \/ \E t \in Task : CancelTask(t)
    \/ CtxCancel
    \/ Terminated

Spec == Init /\ [][Next]_vars

(***************************************************************************)
(* Goroutines that can run do run, and executor.Run returns.  A steering   *)
(* message may always arrive just before a turn's last drain, so nothing   *)
(* is assumed of drains; nothing is assumed of the task source, of cancels *)
(* or of the context.                                                      *)
(***************************************************************************)
Fairness ==
    /\ WF_vars(LoopTop) /\ WF_vars(FetchNothing) /\ WF_vars(LoopSubmit)
    /\ WF_vars(SerialReturn) /\ WF_vars(LoopReturn)
    /\ \A m \in Msg :
         /\ WF_vars(WorkerAcquire(m)) /\ WF_vars(WorkerRelease(m))
         /\ WF_vars(WorkerNext(m))
         /\ WF_vars(TaskBegin(m) \/ TaskOpenLane(m) \/ TurnDeliver(m))
         /\ WF_vars(\E r \in Result \ {"none"} : TurnEnd(m, r))
         /\ WF_vars(TaskClose(m) \/ MissedFallback(m) \/ ChildReturn(m)
                    \/ MissedReject(m) \/ MissedEmpty(m) \/ TaskDone(m))

FairSpec == Spec /\ Fairness

-----------------------------------------------------------------------------
(* Properties.                                                             *)

Started(m) == pc[m] \notin {"idle", "returned"}
InTurn(m)  == pc[m] \in {"exec", "deliver"}
LaneOpen(m) == pc[m] \in {"exec", "deliver", "close"}

\* Two addresses name one transcript: the same caller's thread, or the same
\* workspace-owned thread whoever calls.
SameTranscript(m, n) ==
    LET a == AddrOf[m]  b == AddrOf[n] IN
    /\ a.thread = b.thread /\ a.owner = b.owner
    /\ a.owner = "workspace" \/ a.user = b.user

(***************************************************************************)
(* Two turns never execute at once on one transcript: the dispatcher's     *)
(* lanes (dispatch.go), the key they are told apart by (ConversationKey)   *)
(* and the nested shell fallback of runTask keep its writers apart.        *)
(***************************************************************************)
LaneSerial ==
    \A m, n \in Msg : InTurn(m) /\ InTurn(n) /\ SameTranscript(m, n) => m = n

(***************************************************************************)
(* A message queued behind a lane always has a worker that will come back  *)
(* for it: submit's test of active and the worker's test of pending cannot *)
(* pass each other (dispatch.go, submit and launch).                       *)
(***************************************************************************)
QueuedHasWorker ==
    \A k \in Lane : pending[k] # <<>> =>
        \E w \in Msg : Live(w) /\ threadKey(w) = k

(***************************************************************************)
(* A turn that can drain or close owns the entry registered under its key: *)
(* Inbox.Begin never takes a lane away from a turn that is still open, so  *)
(* no turn ever drains another one's messages.                             *)
(***************************************************************************)
OpenLaneIsOwn ==
    \A m \in Msg : LaneOpen(m) => entry[InboxKey(m)] = m

(***************************************************************************)
(* Once Park has accepted a message there is an open turn left to deliver  *)
(* it or hand it back (run_once.go: "a failed turn must not strand a       *)
(* user's message in the inbox").                                          *)
(***************************************************************************)
ParkedHasTurn ==
    \A m \in Msg : parked[m] # <<>> => LaneOpen(m)

(***************************************************************************)
(* What a turn would drain under its resolved address is what is parked on *)
(* the lane the runtime opened for it (steering.go: "a message parked      *)
(* under one spelling and drained under another is silently never          *)
(* delivered").                                                            *)
(***************************************************************************)
DrainReachesParked ==
    \A m \in Msg : LaneOpen(m) => Drained(DrainKey(m)) = parked[m]

Occurs(s, m) == \E i \in 1..Len(s) : s[i] = m

\* Everywhere a fetched message can be.
Homes(m) ==
    (IF lcur = m /\ lpc = "submit" THEN {"hand"} ELSE {})
    \cup {<<"pending", k>> : k \in {k \in Lane : Occurs(pending[k], m)}}
    \cup {<<"worker", w>> : w \in {w \in Msg : wpc[w] = "acquire" /\ wcur[w] = m}}
    \cup {<<"parked", n>> : n \in {n \in Msg : Occurs(parked[n], m)}}
    \cup {<<"batch", n>> : n \in {n \in Msg : Occurs(batch[n], m)}}
    \cup {<<"missed", n>> : n \in {n \in Msg : Occurs(missed[n], m) /\ pc[m] = "idle"}}
    \cup (IF pc[m] # "idle" THEN {"run"} ELSE {})
    \cup (IF m \in delivered THEN {"delivered"} ELSE {})
    \cup (IF m \in rejected THEN {"rejected"} ELSE {})
    \cup (IF m \in dropped THEN {"dropped"} ELSE {})

(***************************************************************************)
(* No message is lost or handled twice: a fetched message is in exactly    *)
(* one place of the runtime, from FetchTask to its turn, its delivery, its *)
(* rejection or the failed append that drops it.                           *)
(***************************************************************************)
MessageHasOneHome ==
    \A m \in Msg : Cardinality(Homes(m)) = IF m \in unfetched THEN 0 ELSE 1

\* Open lanes and parked messages have their turn, and no message is without a
\* place.
SteeringIsKept == OpenLaneIsOwn /\ ParkedHasTurn /\ MessageHasOneHome

(***************************************************************************)
(* The semaphore is exactly the running workers: no permit leaks when a    *)
(* turn fails, and no more than Concurrency turns are inside run at once   *)
(* (dispatch.go, launch).                                                  *)
(***************************************************************************)
PermitsAreRunners ==
    Cardinality({w \in Msg : wpc[w] = "run"}) = sem

(***************************************************************************)
(* When the loop has returned, nothing it started is still going and the   *)
(* stats it returns count every submitted turn (loop.go: dispatcher.wait   *)
(* before every return).                                                   *)
(***************************************************************************)
ReturnIsQuiescent ==
    lpc = "returned" =>
        /\ \A m \in Msg : ~Started(m) /\ ~Live(m) /\ parked[m] = <<>>
        /\ ~Serial => stats.turns + stats.errors = Cardinality(submitted)

(***************************************************************************)
(* In the serial loop nothing is running when FetchTask returns, so no     *)
(* message is ever parked (run_once.go, RunOnce: "it is always the         *)
(* latter").                                                               *)
(***************************************************************************)
SerialNeverParks ==
    Serial => \A k \in Key : lpc = "fetching" => entry[k] = None

(***************************************************************************)
(* A turn that executes under a task id and has not been cancelled is the  *)
(* one a cancel for that id reaches (turncancel.go: the done func must not *)
(* clobber a newer turn).                                                  *)
(***************************************************************************)
CancelReachesTurn ==
    \A m \in Msg : InTurn(m) /\ m \notin cancelled /\ TaskOf(m) # NoTask =>
        registered[TaskOf(m)] = m

(***************************************************************************)
(* A turn's own context is cancelled while it executes only if a cancel    *)
(* was asked for its task: neither another turn's end nor another turn's   *)
(* registration aborts it (turncancel.go, Begin and done).                 *)
(***************************************************************************)
CancelOnlyOnRequest ==
    \A m \in Msg : InTurn(m) /\ m \in cancelled => TaskOf(m) \in asked

\* A cancel hits the turn it is for and no other.
CancelIsExact == CancelReachesTurn /\ CancelOnlyOnRequest

Settled(m) ==
    m \in delivered \cup rejected \cup dropped \/ pc[m] = "returned"

(***************************************************************************)
(* Every fetched message is settled in the end: its turn returns, or it is *)
(* delivered, rejected or dropped.  No lane, worker or nested fallback     *)
(* leaves it waiting for ever (run_once.go, runTask; dispatch.go, launch). *)
(***************************************************************************)
FetchedIsSettled ==
    \A m \in Msg : (m \notin unfetched) ~> Settled(m)

(***************************************************************************)
(* Cancelling the loop's context makes RunLoop return (loop.go).           *)
(***************************************************************************)
CancelledLoopReturns == ctxDone ~> (lpc = "returned")

\* What was begun ends: messages are settled, and a cancelled loop returns.
FetchedAndLoopEnd == FetchedIsSettled /\ CancelledLoopReturns

(***************************************************************************)
(* The dispatcher implements one FIFO queue per lane with one server: the  *)
(* head of a lane waits in its worker's hand or in pending.                *)
(***************************************************************************)
Waiting(k) ==
    (IF \E w \in Msg : wpc[w] = "acquire" /\ threadKey(w) = k
     THEN <<wcur[CHOOSE w \in Msg : wpc[w] = "acquire" /\ threadKey(w) = k]>>
     ELSE <<>>) \o pending[k]

Serving(k) ==
    IF \E w \in Msg : wpc[w] = "run" /\ threadKey(w) = k
    THEN wcur[CHOOSE w \in Msg : wpc[w] = "run" /\ threadKey(w) = k]
    ELSE None

LaneService == INSTANCE LaneQueue WITH
    queue <- [k \in Lane |-> Waiting(k)],
    serving <- [k \in Lane |-> Serving(k)],
    accepted <- submitted

(***************************************************************************)
(* The refinement itself: every step of the runtime is a step of LaneQueue *)
(* or leaves its queues and servers alone.                                 *)
(***************************************************************************)
ImplementsLaneQueue == LaneService!Spec

=============================================================================
