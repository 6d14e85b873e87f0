---------------------------- MODULE TurnRecovery ----------------------------
(***************************************************************************)
(* One managed parent turn across crashes and restarts.  The task host     *)
(* owns the task, the journal its checkpoint, the session its transcript;  *)
(* none of them is written together with another, and the process may stop *)
(* between any two writes.                                                 *)
(*                                                                         *)
(* The live turn is tasklifecycle.Executor around turn.Runner.Run and its  *)
(* provider loop; the recovered one is cmd/agent-harness's startup scan    *)
(* around Runner.ResumeTurn, which enters the same loop.  Streaming, hooks *)
(* and the context built for the model are left out.  Tool calls are named *)
(* <<n, i>>: the i-th call of the n-th assistant message.                  *)
(***************************************************************************)
EXTENDS Integers, Sequences, FiniteSets

CONSTANTS
  Response,      \* assistant messages: sequences of the kinds of their calls
  MaxToolIterations,
  MaxMessages,   \* bound: assistant messages of the turn
  MaxCrashes,    \* bound: crashes
  MaxFaults,     \* bound: failed journal, session and host operations
  LostReplies,   \* whether a failed operation may have been applied
  UserCancels,   \* whether a user may cancel the task
  MaxStops,      \* bound: times the process is told to stop
  None

Kind == {"tool", "safe", "spawn"}     \* safe: a parallel-safe tool

ASSUME RecoveryAssumption ==
  /\ Response \subseteq Seq(Kind)
  /\ MaxToolIterations \in Nat /\ MaxMessages \in Nat
  /\ MaxCrashes \in Nat /\ MaxFaults \in Nat /\ MaxStops \in Nat
  /\ {LostReplies, UserCancels} \subseteq BOOLEAN

INSTANCE JournalRecord

CallRef    == Nat \X Nat
Value      == {"output", "not_admitted", "not_awaited", "running", "completed", "failed", None}
Answer     == [call : CallRef, value : Value]
CallRecord == [id : CallRef, outcome : ToolOutcome, external : CallRef \cup {None},
               result : Answer \cup {None}]
Batch      == [assistant : Nat, calls : Seq(CallRecord)]
Record     == [rev : Nat, phase : Phase, iter : Nat, reason : BOOLEAN, batch : Batch \cup {None}]

ASSUME NoneIsNothingElse ==
  None \notin CallRef /\ None \notin Answer /\ None \notin Batch /\ None \notin Record

VARIABLES
  task,       \* the host's status of the turn's task
  rec,        \* the journal's record, or None
  asst,       \* the assistant messages of the transcript
  results,    \* the tool results of the transcript, in order: [call, value]
  child,      \* the host's tasks of spawned children: call -> status
  ran,        \* history: the calls whose body started
  pc, live,   \* where the process is; in the executor, or in startup recovery
  mem,        \* turnExecution.record: the record as this process last wrote it
  iter, cur,  \* toolIterations; the index of the call at hand
  value,      \* the result at hand
  left,       \* calls of a parallel batch whose bodies are still to run
  err,        \* how the turn ended
  info,       \* the task status recovery looked up
  ctxDone,    \* the turn's context is cancelled
  stopping,   \* the process was told to stop
  crashes, faults, stops

durable == <<task, rec, asst, results, child, ran>>
loop    == <<live, iter, cur, value, left>>
bounds  == <<crashes, faults, stops>>
vars    == <<durable, loop, pc, mem, err, info, ctxDone, stopping, bounds>>

Open         == rec # None /\ ~ Terminal(rec)     \* what ListActive returns
TaskActive   == task \in {"queued", "running"}
n            == Len(asst)
Calls        == asst[n]
Call(i)      == <<n, i>>
ParallelSafe == Len(Calls) >= 2 /\ \A i \in DOMAIN Calls : Calls[i] = "safe"
Answered(c)  == \E k \in DOMAIN results : results[k].call = c

\* An operation fails; lost: it is a journal update that was applied.
Failing(lost) ==
  /\ faults.count < MaxFaults
  /\ faults' = [count |-> faults.count + 1, lost |-> faults.lost \/ lost]

Fault == Failing(FALSE)

Init ==
  /\ task = "queued" /\ rec = None
  /\ asst = <<>> /\ results = <<>> /\ child = <<>> /\ ran = <<>>
  /\ pc = "claim" /\ live = TRUE /\ mem = None
  /\ iter = 0 /\ cur = 0 /\ value = None /\ left = {}
  /\ err = "none" /\ info = None /\ ctxDone = FALSE /\ stopping = FALSE
  /\ crashes = 0 /\ faults = [count |-> 0, lost |-> FALSE] /\ stops = 0

Goto(p) == pc' = p

(* The turn ends with error e. *)
Fail(e, p) == err' = e /\ Goto(p)

(***************************************************************************)
(* store.Update of record r.  It is written, or refused (a stale revision, *)
(* an invalid transition, a cancelled context), or fails, applied or not.  *)
(***************************************************************************)
Accepted(r) == rec # None /\ rec.rev = r.rev /\ Replaces(rec, r)

Written(r) ==
  /\ Accepted(r)
  /\ rec' = Stamped(r) /\ mem' = Stamped(r)
  /\ UNCHANGED faults

NotWritten(r, cancellable) ==
  /\ \/ ~ Accepted(r) /\ UNCHANGED <<rec, faults>>
     \/ cancellable /\ ctxDone /\ UNCHANGED <<rec, faults>>
     \/ Fault /\ UNCHANGED rec
     \/ LostReplies /\ Failing(TRUE) /\ Accepted(r) /\ rec' = Stamped(r)
  /\ UNCHANGED mem

(* The updates of the live loop use the turn's context. *)
Checkpoint(r, p, e, q) ==
  \/ ~ ctxDone /\ Written(r) /\ Goto(p) /\ UNCHANGED err
  \/ NotWritten(r, TRUE) /\ Fail(e, q)

(* confirmLifecycleOperation: the host moves an active task to status s; a  *)
(* task that has it already is confirmed, another terminal one is an error. *)
HostMoved(s) ==
  /\ TaskActive \/ task = s
  /\ task' = s
  /\ UNCHANGED faults

HostNotMoved(s) ==
  \/ ~ TaskActive /\ task # s /\ UNCHANGED <<task, faults>>
  \/ Fault /\ \/ UNCHANGED task
              \/ LostReplies /\ TaskActive /\ task' = s

-----------------------------------------------------------------------------
(* Executor.Run and Runner.Run up to the loop. *)

(* A claim that fails ends the assignment; a task that is running is not    *)
(* assigned again.                                                          *)
ClaimTask ==
  /\ pc = "claim"
  /\ \/ HostMoved("running") /\ Goto("create")
     \/ HostNotMoved("running") /\ Goto("idle")
  /\ UNCHANGED <<rec, asst, results, child, ran, loop, mem, err, info, ctxDone, stopping, crashes, stops>>

(* beginTurnExecution: without a record the turn has no execution to finish. *)
BeginExecution ==
  /\ pc = "create"
  /\ \/ /\ ~ ctxDone /\ rec = None
        /\ rec' = PreparedRecord /\ mem' = PreparedRecord
        /\ Goto("input") /\ UNCHANGED <<err, faults>>
     \/ /\ rec # None \/ ctxDone
        /\ Fail("error", "settle") /\ UNCHANGED <<rec, mem, faults>>
     \/ /\ Fault /\ Fail("error", "settle") /\ UNCHANGED mem
        /\ (UNCHANGED rec \/ (LostReplies /\ rec = None /\ rec' = PreparedRecord))
  /\ UNCHANGED <<task, asst, results, child, ran, loop, info, ctxDone, stopping, crashes, stops>>

(* The session is loaded and the user message appended.  An error here is   *)
(* returned as it is; a cancelled context is then an interruption.          *)
AppendInput ==
  /\ pc = "input"
  /\ \/ ~ ctxDone /\ Goto("provider") /\ UNCHANGED <<err, faults>>
     \/ ctxDone /\ Fail("canceled", "finish") /\ UNCHANGED faults
     \/ Fault /\ Fail("error", "finish")
  /\ UNCHANGED <<durable, loop, mem, info, ctxDone, stopping, crashes, stops>>

-----------------------------------------------------------------------------
(* runProviderLoop. *)

ProviderPending ==
  /\ pc = "provider"
  /\ Checkpoint([mem EXCEPT !.phase = "provider_pending", !.iter = iter],
                "model", "error", "return")
  /\ UNCHANGED <<task, asst, results, child, ran, loop, info, ctxDone, stopping, crashes, stops>>

(* The model answers and its message is appended to the transcript. *)
CallModel ==
  /\ pc = "model"
  /\ \/ /\ ~ ctxDone /\ n < MaxMessages
        /\ \E m \in Response : asst' = Append(asst, m)
        /\ Goto("persisted") /\ UNCHANGED <<err, faults>>
     \/ ctxDone /\ Fail("error", "return") /\ UNCHANGED <<asst, faults>>
     \/ n = MaxMessages /\ Fail("error", "return") /\ UNCHANGED <<asst, faults>>
     \/ Fault /\ Fail("error", "return")
        /\ \/ UNCHANGED asst
           \/ LostReplies /\ n < MaxMessages /\ \E m \in Response : asst' = Append(asst, m)
  /\ UNCHANGED <<task, rec, results, child, ran, loop, mem, info, ctxDone, stopping, crashes, stops>>

(* Mutant of Exhausted: one round too many. *)
ExhaustedLate == iter > MaxToolIterations

Exhausted == iter >= MaxToolIterations

(* assistantPersisted; then the turn is over, at its iteration limit, or    *)
(* has calls to make.                                                       *)
AssistantPersisted ==
  /\ pc = "persisted"
  /\ \/ /\ ~ ctxDone /\ Written([mem EXCEPT !.iter = iter])
        /\ CASE Calls = <<>> -> Goto("finalize") /\ UNCHANGED <<err, loop>>
             [] Calls # <<>> /\ Exhausted ->
                  Fail("error", "return") /\ UNCHANGED loop
             [] OTHER -> /\ Goto("pending") /\ iter' = iter + 1 /\ cur' = 1
                         /\ UNCHANGED <<err, live, value, left>>
     \/ NotWritten([mem EXCEPT !.iter = iter], TRUE) /\ Fail("error", "return") /\ UNCHANGED loop
  /\ UNCHANGED <<task, asst, results, child, ran, info, ctxDone, stopping, crashes, stops>>

(* toolsPending: a turn that resumes from a resolved child first leaves     *)
(* that phase, then records the calls about to run: one, or all of a        *)
(* parallel batch.                                                          *)
Requested(i) == [id |-> Call(i), outcome |-> "requested", external |-> None, result |-> None]

(* Mutant of Checkpointed: only the first call of a parallel batch. *)
CheckpointedFirst == <<Requested(cur)>>

Checkpointed == IF ParallelSafe THEN [i \in DOMAIN Calls |-> Requested(i)] ELSE <<Requested(cur)>>

ToolsPending ==
  /\ pc = "pending"
  /\ IF mem.phase = "child_resolved"
     THEN Checkpoint([mem EXCEPT !.phase = "provider_pending", !.iter = iter],
                     "pending", "error", "return")
     ELSE Checkpoint([mem EXCEPT !.phase = "tool_pending", !.iter = iter,
                                 !.batch = [assistant |-> n, calls |-> Checkpointed]],
                     IF ParallelSafe THEN "bodies" ELSE "call", "error", "return")
  /\ left' = IF ParallelSafe /\ pc' = "bodies" THEN DOMAIN Calls ELSE left
  /\ UNCHANGED <<task, asst, results, child, ran, live, iter, cur, value,
                 info, ctxDone, stopping, crashes, stops>>

(* A parallel batch: bodies run concurrently, denied calls have none, and   *)
(* results are recorded in source order when all are done.                  *)
ParallelBody ==
  /\ pc = "bodies" /\ left # {}
  /\ \E i \in left :
       /\ left' = left \ {i}
       /\ ran' = Append(ran, Call(i)) \/ UNCHANGED ran
  /\ UNCHANGED <<task, rec, asst, results, child, live, iter, cur, value,
                 pc, mem, err, info, ctxDone, stopping, bounds>>

ParallelDone ==
  /\ pc = "bodies" /\ left = {}
  /\ Goto("append") /\ value' = "output"
  /\ UNCHANGED <<durable, live, iter, cur, left, mem, err, info, ctxDone, stopping, bounds>>

(* Approval is denied: the call is answered without a body. *)
DenyTool ==
  /\ pc = "call"
  /\ Goto("append") /\ value' = "output"
  /\ UNCHANGED <<durable, live, iter, cur, left, mem, err, info, ctxDone, stopping, bounds>>

InvokeTool ==
  /\ pc = "call" /\ Calls[cur] # "spawn"
  /\ ran' = Append(ran, Call(cur))
  /\ Goto("append") /\ value' = "output"
  /\ UNCHANGED <<task, rec, asst, results, child, live, iter, cur, left,
                 mem, err, info, ctxDone, stopping, bounds>>

(* spawn_subagent admits a child task with the host; an admission that      *)
(* fails is an error result.                                                *)
SpawnChild ==
  LET c == Call(cur)
      admitted == [d \in DOMAIN child \cup {c} |-> IF d = c THEN "running" ELSE child[d]] IN
  /\ pc = "call" /\ Calls[cur] = "spawn"
  /\ \/ ~ ctxDone /\ child' = admitted /\ Goto("admitted") /\ UNCHANGED <<value, faults>>
     \/ /\ Fault /\ (UNCHANGED child \/ (LostReplies /\ child' = admitted))
        /\ Goto("append") /\ value' = "not_admitted"
     \/ ctxDone /\ Goto("append") /\ value' = "not_admitted" /\ UNCHANGED <<child, faults>>
  /\ UNCHANGED <<task, rec, asst, results, ran, live, iter, cur, left,
                 mem, err, info, ctxDone, stopping, crashes, stops>>

(* The batch with its k-th call replaced. *)
WithCall(k, call) ==
  [assistant |-> mem.batch.assistant, calls |-> [mem.batch.calls EXCEPT ![k] = call]]

(* externalAdmitted; when it fails the child may exist and the parent       *)
(* cannot know its checkpoint (ErrParentCheckpointUncertain).               *)
ExternalAdmitted ==
  /\ pc = "admitted"
  /\ Checkpoint([mem EXCEPT !.phase = "waiting_external_child",
                            !.batch = WithCall(1, [id |-> Call(cur), outcome |-> "admitted",
                                                   external |-> Call(cur), result |-> None])],
                "await", "uncertain", "return")
  /\ UNCHANGED <<task, asst, results, child, ran, loop, info, ctxDone, stopping, crashes, stops>>

(* The child's outcome, or the error of waiting for it, is the result. *)
AwaitChild ==
  /\ pc = "await"
  /\ \/ child[Call(cur)] # "running" /\ value' = child[Call(cur)] /\ UNCHANGED faults
     \/ ctxDone /\ value' = "not_awaited" /\ UNCHANGED faults
     \/ Fault /\ value' = "not_awaited"
  /\ Goto("append")
  /\ UNCHANGED <<durable, live, iter, cur, left, mem, err, info, ctxDone, stopping, crashes, stops>>

(* The result is appended to the transcript, then confirmed in the journal. *)
AppendResult ==
  LET appended == Append(results, [call |-> Call(cur), value |-> value]) IN
  /\ pc = "append"
  /\ \/ ~ ctxDone /\ results' = appended /\ Goto("confirm") /\ UNCHANGED <<err, faults>>
     \/ ctxDone /\ Fail("error", "return") /\ UNCHANGED <<results, faults>>
     \/ Fault /\ Fail("error", "return")
        /\ (UNCHANGED results \/ (LostReplies /\ results' = appended))
  /\ UNCHANGED <<task, rec, asst, child, ran, loop, mem, info, ctxDone, stopping, crashes, stops>>

(* toolConfirmed for the call c with result v. *)
PhaseConfirmed(k) ==
  LET calls  == mem.batch.calls
      others == {calls[j].outcome : j \in DOMAIN calls \ {k}} IN
  CASE calls[k].external # None                                     -> "child_resolved"
    [] calls[k].external = None /\ others \subseteq {"confirmed"} -> "provider_pending"
    [] OTHER                                                        -> "tool_pending"

Confirmed(c, v) ==
  LET k == CHOOSE k \in DOMAIN mem.batch.calls : mem.batch.calls[k].id = c IN
  [mem EXCEPT !.phase = PhaseConfirmed(k), !.iter = iter,
              !.batch = WithCall(k, [id |-> c, outcome |-> "confirmed",
                                     external |-> mem.batch.calls[k].external,
                                     result |-> [call |-> c, value |-> v]])]

(* Then comes the next call, or the next round of the loop. *)
ToolConfirmed ==
  LET last == cur = Len(Calls) IN
  /\ pc = "confirm"
  /\ Checkpoint(Confirmed(Call(cur), value),
                CASE last -> "provider"
                  [] ~ last /\ ParallelSafe -> "append"
                  [] OTHER -> "pending",
                "error", "return")
  /\ cur' = IF last THEN 0 ELSE cur + 1
  /\ UNCHANGED <<task, asst, results, child, ran, live, iter, value, left,
                 info, ctxDone, stopping, crashes, stops>>

(* The answer is finalized and published. *)
Finalize ==
  /\ pc = "finalize"
  /\ \/ Goto("finish") /\ UNCHANGED <<err, faults>>
     \/ ctxDone /\ Fail("canceled", "finish") /\ UNCHANGED faults
     \/ Fault /\ Fail("error", "finish")
  /\ UNCHANGED <<durable, loop, mem, info, ctxDone, stopping, crashes, stops>>

(* The loop returned an error: with the context cancelled it is reported    *)
(* as the user's cancellation, whoever cancelled it.                        *)
LoopFailed ==
  /\ pc = "return"
  /\ Fail(IF ctxDone THEN "turn_cancelled" ELSE err, "finish")
  /\ UNCHANGED <<durable, loop, mem, info, ctxDone, stopping, bounds>>

-----------------------------------------------------------------------------
(* finish: the turn's outcome goes to the journal, on a detached context,   *)
(* as an intent that the task host has still to acknowledge.                *)

markUncertain(b) ==
  IF b = None THEN None
  ELSE [b EXCEPT !.calls = [k \in DOMAIN b.calls |->
         IF b.calls[k].outcome = "requested"
         THEN [b.calls[k] EXCEPT !.outcome = "uncertain"] ELSE b.calls[k]]]

Interrupted(r, phase) ==
  [r EXCEPT !.phase = phase, !.reason = TRUE, !.batch = markUncertain(r.batch)]

Interrupts ==
  \/ err \in {"canceled", "turn_cancelled", "uncertain", "unsafe"}
  \/ mem.batch # None /\ CallsWith(mem.batch, "requested") # {}

(* Mutant of Finished: the phases of a turn no task host manages. *)
FinishedUnmanaged ==
  CASE err = "none"                 -> [mem EXCEPT !.phase = "completed", !.reason = FALSE]
    [] err # "none" /\ ~ Interrupts -> [mem EXCEPT !.phase = "failed", !.reason = TRUE]
    [] OTHER                        -> Interrupted(mem, "interrupted")

Finished ==
  CASE err = "none"             -> [mem EXCEPT !.phase = "completing", !.reason = FALSE]
    [] err # "none" /\ ~ Interrupts -> [mem EXCEPT !.phase = "failing", !.reason = TRUE]
    [] err = "turn_cancelled"   -> Interrupted(mem, "interrupted")
    [] OTHER                    -> Interrupted(mem, "interrupting")

(* A journal error becomes the error of the turn, beside its own. *)
FinishTurn ==
  /\ pc = "finish"
  /\ \/ Written(Finished) /\ UNCHANGED err
     \/ NotWritten(Finished, FALSE) /\ err' = IF err = "none" THEN "error" ELSE err
  /\ Goto("settle")
  /\ UNCHANGED <<task, asst, results, child, ran, loop, info, ctxDone, stopping, crashes, stops>>

(* The executor, or recovery, moves the task to the turn's outcome.  The    *)
(* executor leaves a cancelled task to the gateway.                         *)
SettleTask ==
  LET s == IF err = "none" THEN "completed" ELSE "failed" IN
  /\ pc = "settle"
  /\ IF live /\ err = "turn_cancelled"
     THEN Goto("idle") /\ UNCHANGED <<task, faults>>
     ELSE \/ HostMoved(s) /\ Goto(IF live \/ err = "none" THEN "ack" ELSE "interrupt")
          \/ HostNotMoved(s) /\ Goto("idle")
  /\ UNCHANGED <<rec, asst, results, child, ran, loop, mem, err, info, ctxDone, stopping, crashes, stops>>

(* AcknowledgeTaskTerminal re-reads the record and closes its intent. *)
AcknowledgeTask ==
  /\ pc = "ack"
  /\ IF rec # None /\ PendingTerminal(rec)
     THEN LET r == [rec EXCEPT !.phase = AcknowledgedPhase(rec.phase)] IN
          \/ Written(r)
          \/ NotWritten(r, FALSE)
     ELSE UNCHANGED <<rec, mem, faults>>
  /\ Goto("idle")
  /\ UNCHANGED <<task, asst, results, child, ran, loop, err, info, ctxDone, stopping, crashes, stops>>

-----------------------------------------------------------------------------
(* Startup recovery. *)

(* ListActive, then the task's status: it may be unavailable. *)
LookupTask ==
  /\ pc = "scan"
  /\ \/ Open /\ info' = task /\ Goto("decide") /\ UNCHANGED faults
     \/ ctxDone /\ Goto("idle") /\ UNCHANGED <<info, faults>>
     \/ ~ Open /\ Goto("idle") /\ UNCHANGED <<info, faults>>
     \/ Fault /\ Goto("idle") /\ UNCHANGED info
  /\ UNCHANGED <<durable, loop, mem, err, ctxDone, stopping, crashes, stops>>

InfoActive == info \in {"queued", "running"}

(* Mutant of ReconcilePending: nothing to do when the host has the outcome. *)
ReconcilePendingSkips ==
  LET desired == IF rec.phase = "completing" THEN "completed" ELSE "failed" IN
  /\ pc = "decide" /\ PendingTerminal(rec)
  /\ IF InfoActive
     THEN \/ HostMoved(desired) /\ Goto("ack")
          \/ HostNotMoved(desired) /\ Goto("idle")
     ELSE Goto(IF info = desired THEN "idle" ELSE "interrupt") /\ UNCHANGED <<task, faults>>
  /\ UNCHANGED <<rec, asst, results, child, ran, loop, mem, err, info, ctxDone, stopping, crashes, stops>>

(* A pending intent is carried out, unless the host has another outcome. *)
ReconcilePending ==
  LET desired == IF rec.phase = "completing" THEN "completed" ELSE "failed" IN
  /\ pc = "decide" /\ PendingTerminal(rec)
  /\ CASE info = desired -> Goto("ack") /\ UNCHANGED <<task, faults>>
       [] info # desired /\ ~ InfoActive -> Goto("interrupt") /\ UNCHANGED <<task, faults>>
       [] OTHER -> \/ HostMoved(desired) /\ Goto("ack")
                   \/ HostNotMoved(desired) /\ Goto("idle")
  /\ UNCHANGED <<rec, asst, results, child, ran, loop, mem, err, info, ctxDone, stopping, crashes, stops>>

(* A task that is over ends its turn; a turn whose recovery cannot be       *)
(* prepared or started fails its task first.                                *)
CloseUnrecoverable ==
  /\ pc = "decide" /\ ~ PendingTerminal(rec)
  /\ \/ ~ InfoActive /\ Goto("interrupt") /\ UNCHANGED <<err, faults>>
     \/ InfoActive /\ (Fault \/ (ctxDone /\ UNCHANGED faults)) /\ Fail("error", "settle")
  /\ UNCHANGED <<durable, loop, mem, info, ctxDone, stopping, crashes, stops>>

(* ResumeTurn: only a turn that waits for a child, or has its result, goes  *)
(* on; any other is interrupted.                                            *)
ResumePhase == {"waiting_external_child", "child_resolved"}

ResumeTurn ==
  /\ pc = "decide" /\ ~ PendingTerminal(rec) /\ InfoActive /\ ~ ctxDone
  /\ IF rec.phase \in ResumePhase
     THEN /\ mem' = rec /\ iter' = rec.iter
          /\ Goto(IF rec.phase = "child_resolved" THEN "provider" ELSE "recover")
          /\ UNCHANGED <<rec, err, faults>>
     ELSE /\ LET r == Interrupted(rec, "interrupting") IN Written(r) \/ NotWritten(r, FALSE)
          /\ Fail("unsafe", "settle") /\ UNCHANGED iter
  /\ UNCHANGED <<task, asst, results, child, ran, live, cur, value, left,
                 info, ctxDone, stopping, crashes, stops>>

RecoveredCall == mem.batch.calls[1].id

(* resolveRecoveredExternalTool: wait for the child, add its result to the  *)
(* transcript unless it is there, and confirm it.  A result that is there   *)
(* and differs is an error.                                                 *)
AwaitRecovered ==
  /\ pc = "recover"
  /\ \/ /\ child[RecoveredCall] # "running"
        /\ value' = child[RecoveredCall] /\ Goto("append_once") /\ UNCHANGED <<err, faults>>
     \/ ctxDone /\ Fail("canceled", "finish") /\ UNCHANGED <<value, faults>>
     \/ Fault /\ Fail("error", "finish") /\ UNCHANGED value
  /\ UNCHANGED <<durable, live, iter, cur, left, mem, info, ctxDone, stopping, crashes, stops>>

Present(c) == {results[k].value : k \in {j \in DOMAIN results : results[j].call = c}}

(* Mutant of AlreadyThere: the transcript is not searched. *)
AlreadyThereNever(c) == FALSE

(* Mutant of AlreadyThere: the transcript is taken to have it. *)
AlreadyThereAlways(c) == TRUE

AlreadyThere(c) == value \in Present(c)

AppendRecovered ==
  LET c        == RecoveredCall
      appended == Append(results, [call |-> c, value |-> value]) IN
  /\ pc = "append_once"
  /\ \/ AlreadyThere(c) /\ Goto("confirm_recovered") /\ UNCHANGED <<results, err, faults>>
     \/ /\ ~ AlreadyThere(c) /\ Present(c) \subseteq {value} /\ ~ ctxDone
        /\ results' = appended /\ Goto("confirm_recovered") /\ UNCHANGED <<err, faults>>
     \/ /\ ~ (Present(c) \subseteq {value})
        /\ Fail("error", "finish") /\ UNCHANGED <<results, faults>>
     \/ ctxDone /\ ~ AlreadyThere(c) /\ Fail("canceled", "finish") /\ UNCHANGED <<results, faults>>
     \/ Fault /\ Fail("error", "finish")
        /\ \/ UNCHANGED results
           \/ LostReplies /\ Present(c) = {} /\ results' = appended
  /\ UNCHANGED <<task, rec, asst, child, ran, loop, mem, info, ctxDone, stopping, crashes, stops>>

ConfirmRecovered ==
  /\ pc = "confirm_recovered"
  /\ Checkpoint(Confirmed(RecoveredCall, value), "provider",
                IF ctxDone THEN "canceled" ELSE "error", "finish")
  /\ UNCHANGED <<task, asst, results, child, ran, loop, info, ctxDone, stopping, crashes, stops>>

(* InterruptTurn, outside the managed context: a fresh read and a terminal  *)
(* record.                                                                  *)
InterruptTurn ==
  /\ pc = "interrupt"
  /\ IF Terminal(rec)
     THEN UNCHANGED <<rec, mem, faults>>
     ELSE LET r == Interrupted(rec, "interrupted") IN
          \/ Written(r)
          \/ NotWritten(r, err = "none" /\ ~ PendingTerminal(rec))
  /\ Goto("idle")
  /\ UNCHANGED <<task, asst, results, child, ran, loop, err, info, ctxDone, stopping, crashes, stops>>

-----------------------------------------------------------------------------
(* The environment. *)

InTurn == pc \notin {"claim", "idle", "down"}

(* A child task ends, whatever its parent does. *)
ChildEnds ==
  /\ \E c \in DOMAIN child, s \in {"completed", "failed"} :
       child[c] = "running" /\ child' = [child EXCEPT ![c] = s]
  /\ UNCHANGED <<task, rec, asst, results, ran, loop, pc, mem, err, info, ctxDone, stopping, bounds>>

(* The gateway cancels the task; the cancel control reaches a live turn     *)
(* later, or never.                                                         *)
UserCancel ==
  /\ UserCancels /\ TaskActive /\ task' = "cancelled"
  /\ UNCHANGED <<rec, asst, results, child, ran, loop, pc, mem, err, info, ctxDone, stopping, bounds>>

CancelArrives ==
  /\ task = "cancelled" /\ live /\ InTurn /\ ~ ctxDone /\ ctxDone' = TRUE
  /\ UNCHANGED <<durable, loop, pc, mem, err, info, stopping, bounds>>

(* A signal stops the process: every context ends, the turn winds up, and   *)
(* the process exits.                                                       *)
Shutdown ==
  /\ pc # "down" /\ ~ stopping /\ stops < MaxStops /\ stops' = stops + 1
  /\ stopping' = TRUE /\ ctxDone' = TRUE
  /\ UNCHANGED <<durable, loop, pc, mem, err, info, crashes, faults>>

Lose ==
  /\ pc' = "down" /\ live' = FALSE /\ mem' = None
  /\ iter' = 0 /\ cur' = 0 /\ value' = None /\ left' = {}
  /\ err' = "none" /\ info' = None /\ ctxDone' = FALSE /\ stopping' = FALSE

Exit == stopping /\ pc \in {"idle", "claim"} /\ Lose /\ UNCHANGED <<durable, bounds>>

Crash ==
  /\ pc # "down" /\ crashes < MaxCrashes /\ crashes' = crashes + 1
  /\ Lose
  /\ UNCHANGED <<durable, faults, stops>>

(* A restarted process is assigned a queued task, and otherwise scans. *)
Restart ==
  /\ pc = "down"
  /\ live' = (task = "queued")
  /\ Goto(IF task = "queued" THEN "claim" ELSE "scan")
  /\ UNCHANGED <<durable, iter, cur, value, left, mem, err, info, ctxDone, stopping, bounds>>

-----------------------------------------------------------------------------
LiveStep ==
  \/ ClaimTask \/ BeginExecution \/ AppendInput
  \/ ProviderPending \/ CallModel \/ AssistantPersisted
  \/ ToolsPending \/ ParallelBody \/ ParallelDone
  \/ DenyTool \/ InvokeTool \/ SpawnChild \/ ExternalAdmitted \/ AwaitChild
  \/ AppendResult \/ ToolConfirmed \/ Finalize \/ LoopFailed
  \/ FinishTurn \/ SettleTask \/ AcknowledgeTask

RecoveryStep ==
  \/ LookupTask \/ ReconcilePending \/ CloseUnrecoverable \/ ResumeTurn
  \/ AwaitRecovered \/ AppendRecovered \/ ConfirmRecovered \/ InterruptTurn

EnvStep == ChildEnds \/ UserCancel \/ CancelArrives \/ Shutdown \/ Exit \/ Crash \/ Restart

(* Nothing is left to do until the process restarts. *)
Quiet == pc = "idle" /\ UNCHANGED vars

Next == LiveStep \/ RecoveryStep \/ EnvStep \/ Quiet

Spec == Init /\ [][Next]_vars

(* The process is scheduled, children end, and a stopped process is         *)
(* restarted.  A turn may yet be cancelled, fail or crash at any point.     *)
FairSpec ==
  Spec /\ WF_vars(LiveStep) /\ WF_vars(RecoveryStep)
       /\ WF_vars(ChildEnds) /\ WF_vars(Exit) /\ WF_vars(Restart)

-----------------------------------------------------------------------------
CallId == (1..MaxMessages) \X Nat
ChildStatus == {"running", "completed", "failed"}
LivePC == {"claim", "create", "input", "provider", "model", "persisted", "pending", "bodies",
           "call", "admitted", "await", "append", "confirm", "return", "finalize", "finish",
           "settle", "ack", "idle", "down"}
RecoveryPC == {"scan", "decide", "recover", "append_once", "confirm_recovered", "interrupt"}

TypeOK ==
  /\ task \in {"queued", "running", "completed", "failed", "cancelled"}
  /\ rec # None => rec.phase \in Phase /\ Validate(rec)
  /\ \A m \in DOMAIN asst : asst[m] \in Response
  /\ \A c \in DOMAIN child : c \in CallId /\ child[c] \in ChildStatus
  /\ pc \in LivePC \cup RecoveryPC
  /\ iter \in 0..MaxToolIterations
  /\ faults \in [count : 0..MaxFaults, lost : BOOLEAN]
  /\ err \in {"none", "error", "canceled", "uncertain", "unsafe", "turn_cancelled"}

OnRecord(c) == rec # None /\ rec.batch # None
               /\ \E k \in DOMAIN rec.batch.calls : rec.batch.calls[k].id = c

(* turn_execution.go:299 "only after ... has confirmed the authoritative    *)
(* task terminal state": a record that says completed, or failed, belongs   *)
(* to a task the host has in that state.                                    *)
OutcomeMatchesTask ==
  rec # None => \A p \in {"completed", "failed"} : rec.phase = p => task = p

(* The same of every run in which no update was applied and yet reported as *)
(* failed: neither crashes nor the other faults part journal and task host. *)
OutcomeKept == faults.lost \/ OutcomeMatchesTask

(* turn_execution.go:113 "a crash cannot hide an unconfirmed invocation":   *)
(* a call whose body ever started has its result in the transcript or is a  *)
(* call of the durable record, whenever the process stops.                  *)
StartedIsOnRecord ==
  \A k \in DOMAIN ran : Answered(ran[k]) \/ OnRecord(ran[k])

(* A child the host has admitted is answered, or its call is on record; if  *)
(* the record says admitted, it names that child.                           *)
ChildIsOnRecord ==
  \A c \in DOMAIN child :
    \/ Answered(c)
    \/ OnRecord(c) /\ \A k \in DOMAIN rec.batch.calls :
         rec.batch.calls[k].id = c /\ rec.batch.calls[k].outcome = "admitted"
           => rec.batch.calls[k].external = c

(* journal.go:114 "Result is set only after the corresponding tool-result   *)
(* message is durable."                                                     *)
ConfirmedIsDurable ==
  rec # None /\ rec.batch # None =>
    \A k \in CallsWith(rec.batch, "confirmed") :
      \E j \in DOMAIN results : results[j] = rec.batch.calls[k].result

(* A call has at most one result, although recovery appends again what the  *)
(* crashed process may have appended.                                       *)
ResultOnce ==
  \A j, k \in DOMAIN results : results[j].call = results[k].call => j = k

(* No call is forgotten and none is repeated: what may have taken effect    *)
(* outside the process is on record or answered, what the record confirms   *)
(* is in the transcript, and recovery repeated none of it.                  *)
CallsKept == StartedIsOnRecord /\ ChildIsOnRecord /\ ConfirmedIsDurable /\ ResultOnce

(* The provider is called with every earlier call answered, also by a turn  *)
(* that resumed after a crash.                                              *)
ModelSeesAnswers ==
  pc = "model" => \A m \in DOMAIN asst : \A i \in DOMAIN asst[m] : Answered(<<m, i>>)

(* tool_loop.go:155: a turn has at most maxToolIterations rounds of tool    *)
(* calls.  A resumed turn goes on counting where the record left off        *)
(* (tool_loop.go:61), so that crashes and restarts buy it no more.          *)
Rounds ==
  {ran[k][1] : k \in DOMAIN ran} \cup {c[1] : c \in DOMAIN child}
    \cup {results[k].call[1] : k \in DOMAIN results}

RoundsBounded == Cardinality(Rounds) <= MaxToolIterations

(* aether_goal_recovery.go:48 "RUNNING records are resumed only at the      *)
(* journal's safe boundary, otherwise interrupted and failed closed": when  *)
(* the process has nothing left to do, a task the host still calls running  *)
(* has a record that the next startup scan will find.                       *)
NoStrandedTask ==
  pc = "idle" /\ task = "running" => Open

(* An active record becomes terminal: by the turn's own end, or by the      *)
(* recovery of some later start.                                            *)
RecordSettles ==
  Open ~> ~ Open
=============================================================================
