--------------------------- MODULE SubagentTasks ---------------------------
(***************************************************************************)
(* The child executions of one parent session.  The parent                 *)
(* (turn/subagent.go) admits a child at the task host, claims, runs and    *)
(* finishes it itself ("local") or waits for the executor of another       *)
(* worker (channels/aether/subagent_executor.go, "external"), and projects *)
(* every step into the registry (subagent/cas_registry.go), which a        *)
(* restarted parent reconciles with the host.                              *)
(*                                                                         *)
(* A host operation that is not acknowledged is confirmed by one read      *)
(* (confirmOperation).  An operation is named by the status it asks for.   *)
(* The compare-and-swap of a registry update is one step: a lost race      *)
(* reads and merges again.  The journal of the parent turn is in           *)
(* TurnRecovery.                                                           *)
(***************************************************************************)
EXTENDS Integers, FiniteSets

CONSTANTS
    SubExec,       \* the executions a parent admits
    SubThread,     \* child threads, which name the records
    ThreadOf,      \* [SubExec -> SubThread]: a later one may resume a thread
    SubModes,      \* modes of the backend, of {"local", "external"}
    SubInvalid,    \* executions whose assignment the executor rejects
    SubHandler,    \* deliveries that may be handled at the same time
    SubSlots,      \* MaxConcurrency
    SubFaults,     \* bound: failed operations and disconnects
    SubCrashes     \* bound: crashes of the parent and of the executor

ASSUME SubagentAssumption ==
    ThreadOf \in [SubExec -> SubThread] /\ SubModes \subseteq {"local", "external"}

SubTerminal == {"completed", "failed", "cancelled"}
SubOpen == {"admitted", "running"}

VARIABLES
    subMode,     \* ExecutesExternally
    hostTask,    \* [SubExec -> status of the task at the host]
    record,      \* [SubThread -> [status, of]]: the registry, keyed by child thread
    indexed,     \* the registry index knows the parent session
    recovering,  \* pendingRecover
    parent,      \* [SubExec -> frame of the goroutine of the execution]
    handler,     \* [SubHandler -> frame of HandleAssignment]
    bodies,      \* ghost: [SubExec -> how often its body was started]
    unseen,      \* ghost: executions one of whose observations was lost
    subFaults, subCrashes

subVars == <<subMode, hostTask, record, indexed, recovering, parent, handler, bodies,
             unseen, subFaults, subCrashes>>

hostVars == <<hostTask, bodies>>
registryVars == <<record, indexed, unseen>>

NoFrame == [pc |-> "idle", exec |-> 0, op |-> "none", next |-> "none"]

SubInit ==
    /\ subMode \in SubModes
    /\ hostTask = [e \in SubExec |-> "none"]
    /\ record = [c \in SubThread |-> [status |-> "none", of |-> 0]]
    /\ indexed = FALSE /\ recovering = FALSE
    /\ parent = [e \in SubExec |-> [NoFrame EXCEPT !.exec = e]]
    /\ handler = [h \in SubHandler |-> NoFrame]
    /\ bodies = [e \in SubExec |-> 0]
    /\ unseen = {} /\ subFaults = 0 /\ subCrashes = 0

SubFault == subFaults < SubFaults /\ subFaults' = subFaults + 1

-----------------------------------------------------------------------------
(* The task host, as TaskOperations use it. *)

HostAllows(e, op) ==
    IF op = "running" THEN hostTask[e] = "queued" ELSE hostTask[e] \in {"queued", "running"}

HostApplies(e, op) == hostTask' = [hostTask EXCEPT ![e] = op]

\* Steps of a frame f that is at an operation: acknowledged, refused or
\* failed with or without effect.
Acknowledged(f) == f.pc = "op" /\ HostAllows(f.exec, f.op) /\ HostApplies(f.exec, f.op)
                   /\ UNCHANGED subFaults
Refused(f) == f.pc = "op" /\ ~HostAllows(f.exec, f.op) /\ UNCHANGED <<hostTask, subFaults>>
Unanswered(f) == f.pc = "op" /\ SubFault
                 /\ (UNCHANGED hostTask \/ (HostAllows(f.exec, f.op) /\ HostApplies(f.exec, f.op)))

\* confirmOperation: the read after an operation that was not acknowledged.
Confirmed(f) == hostTask[f.exec] = f.op

-----------------------------------------------------------------------------
(* The goroutine of the parent. *)

Noting(f, status, next) == [f EXCEPT !.pc = "note", !.op = status, !.next = next]
Operating(f, op, next) == [f EXCEPT !.pc = "op", !.op = op, !.next = next]

\* Mutant: the terminal status is recorded whether or not the host has it.
ParentAfterUnconfirmed(f, ok) ==
    IF f.op = "running"
    THEN IF ok THEN Noting(f, "running", "run") ELSE Operating(f, "cancelled", "done")
    ELSE Noting(f, f.op, "done")

\* startSubagent after the claim; finishSubagent, and startSubagent after the
\* cancellation of a task it could not claim.
ParentAfter(f, ok) ==
    IF f.op = "running"
    THEN IF ok THEN Noting(f, "running", "run") ELSE Operating(f, "cancelled", "done")
    ELSE Noting(f, IF ok THEN f.op ELSE "interrupted", "done")

SetParent(e, f) == parent' = [parent EXCEPT ![e] = f]

SubAdmit(e) ==
    /\ parent[e].pc = "idle"
    /\ HostApplies(e, "queued")
    /\ SetParent(e, Noting(parent[e], "admitted", IF subMode = "local" THEN "start" ELSE "await"))
    /\ UNCHANGED <<subMode, registryVars, recovering, handler, bodies, subFaults, subCrashes>>

\* The retried creation fails, or the checkpoint of the parent turn does:
\* the caller gets an error, the task may be there.
SubAdmitFails(e) ==
    /\ parent[e].pc = "idle" /\ SubFault
    /\ UNCHANGED hostTask \/ HostApplies(e, "queued")
    /\ SetParent(e, [parent[e] EXCEPT !.pc = "done"])
    /\ UNCHANGED <<subMode, registryVars, recovering, handler, bodies, subCrashes>>

SubStart(e) ==
    /\ parent[e].pc = "start"
    /\ SetParent(e, Operating(parent[e], "running", "none"))
    /\ UNCHANGED <<subMode, hostVars, registryVars, recovering, handler, subFaults, subCrashes>>

SubRun(e) ==
    /\ parent[e].pc = "run"
    /\ bodies' = [bodies EXCEPT ![e] = @ + 1]
    /\ SetParent(e, [parent[e] EXCEPT !.pc = "body"])
    /\ UNCHANGED <<subMode, hostTask, registryVars, recovering, handler, subFaults, subCrashes>>

SubReturn(e) ==
    /\ parent[e].pc = "body"
    /\ \E outcome \in SubTerminal : SetParent(e, Operating(parent[e], outcome, "done"))
    /\ UNCHANGED <<subMode, hostVars, registryVars, recovering, handler, subFaults, subCrashes>>

SubOperate(e) ==
    /\ \/ Acknowledged(parent[e]) /\ SetParent(e, ParentAfter(parent[e], TRUE))
       \/ (Refused(parent[e]) \/ Unanswered(parent[e]))
          /\ SetParent(e, [parent[e] EXCEPT !.pc = "confirm"])
    /\ UNCHANGED <<subMode, registryVars, recovering, handler, bodies, subCrashes>>

SubConfirm(e) ==
    /\ parent[e].pc = "confirm"
    /\ \/ SetParent(e, ParentAfter(parent[e], Confirmed(parent[e]))) /\ UNCHANGED subFaults
       \/ SubFault /\ SetParent(e, ParentAfter(parent[e], FALSE))
    /\ UNCHANGED <<subMode, hostVars, registryVars, recovering, handler, subCrashes>>

\* Await and awaitExternalSubagent: running is projected when it is first
\* seen; the result of a completed child may not resolve.
SubAwait(e) ==
    LET f == parent[e] IN
    /\ f.pc = "await"
    /\ \/ /\ hostTask[e] = "running" /\ f.next # "again"
          /\ SetParent(e, Noting(f, "running", "await")) /\ UNCHANGED subFaults
       \/ /\ hostTask[e] \in SubTerminal
          /\ SetParent(e, Noting(f, hostTask[e], "done")) /\ UNCHANGED subFaults
       \/ SubFault /\ SetParent(e, Noting(f, "interrupted", "done"))
    /\ UNCHANGED <<subMode, hostVars, registryVars, recovering, handler, subCrashes>>

-----------------------------------------------------------------------------
(* The registry. *)

\* After its observation a goroutine goes on; one that has projected running
\* waits without projecting it again.
Noted(f) ==
    [f EXCEPT !.pc = f.next,
              !.next = IF f.next = "await" /\ f.op = "running" THEN "again" ELSE "none"]

\* ObserveSubagent, after ensureDeferredRecovery: ensureIndexed, then the merge.
SubIndex(e) ==
    /\ parent[e].pc = "note" /\ ~recovering /\ ~indexed
    /\ indexed' = TRUE
    /\ UNCHANGED <<subMode, hostVars, record, unseen, recovering, parent, handler, subFaults, subCrashes>>

SubNote(e) ==
    /\ parent[e].pc = "note" /\ ~recovering /\ indexed
    /\ record' = [record EXCEPT ![ThreadOf[e]] = [status |-> parent[e].op, of |-> e]]
    /\ SetParent(e, Noted(parent[e]))
    /\ UNCHANGED <<subMode, hostVars, indexed, unseen, recovering, handler, subFaults, subCrashes>>

\* observeSubagent logs the error and goes on.
SubNoteLost(e) ==
    /\ parent[e].pc = "note" /\ SubFault
    /\ unseen' = unseen \cup {e}
    /\ SetParent(e, Noted(parent[e]))
    /\ UNCHANGED <<subMode, hostVars, record, indexed, recovering, handler, subCrashes>>

\* SubagentTaskBackend.Recover: an open local task is failed.
Orphaned(e) == subMode = "local" /\ hostTask[e] \in {"queued", "running"}

RecoveredStatus(e, status) ==
    IF Orphaned(e) THEN "interrupted"
    ELSE IF hostTask[e] = "queued" THEN status ELSE hostTask[e]

OpenRecords == {c \in SubThread : record[c].status \in SubOpen}

\* ensureDeferredRecovery, by the first observation or listing after a
\* restart; recoverRef of the sessions the index has.
SubRecover ==
    /\ recovering /\ recovering' = FALSE
    /\ LET found == IF indexed THEN OpenRecords ELSE {} IN
       /\ record' = [c \in SubThread |->
             IF c \in found
             THEN [record[c] EXCEPT !.status = RecoveredStatus(record[c].of, record[c].status)]
             ELSE record[c]]
       /\ hostTask' = [e \in SubExec |->
             IF Orphaned(e) /\ \E c \in found : record[c].of = e THEN "failed" ELSE hostTask[e]]
    /\ UNCHANGED <<subMode, indexed, unseen, parent, handler, bodies, subFaults, subCrashes>>

\* A task operation fails: nothing is committed, the next call tries again.
SubRecoverFails ==
    /\ recovering /\ indexed /\ SubFault
    /\ \/ UNCHANGED hostTask
       \/ \E c \in OpenRecords : Orphaned(record[c].of) /\ HostApplies(record[c].of, "failed")
    /\ UNCHANGED <<subMode, registryVars, recovering, parent, handler, bodies, subCrashes>>

\* The goroutines of the parent end with its process.
SubParentCrash ==
    /\ subCrashes < SubCrashes /\ subCrashes' = subCrashes + 1
    /\ \E e \in SubExec : parent[e].pc \notin {"idle", "done", "lost"}
    /\ parent' = [e \in SubExec |->
          IF parent[e].pc \in {"idle", "done"} THEN parent[e] ELSE [parent[e] EXCEPT !.pc = "lost"]]
    /\ recovering' = TRUE
    /\ UNCHANGED <<subMode, hostVars, registryVars, handler, subFaults>>

-----------------------------------------------------------------------------
(* AssignedSubagentExecutor. *)

SetHandler(h, f) == handler' = [handler EXCEPT ![h] = f]

\* Mutant: concurrent deliveries of one task are not coalesced.
InflightIgnored(e) == FALSE

Inflight(e) == \E h \in SubHandler : handler[h].pc # "idle" /\ handler[h].exec = e

SlotsTaken == {h \in SubHandler : handler[h].pc \notin {"idle", "slot"}}

\* The host may deliver an open task again; a duplicate in flight is dropped.
SubDeliver(h, e) ==
    /\ subMode = "external" /\ hostTask[e] \in {"queued", "running"}
    /\ handler[h].pc = "idle" /\ ~Inflight(e)
    /\ SetHandler(h, [NoFrame EXCEPT !.pc = "slot", !.exec = e])
    /\ UNCHANGED <<subMode, hostVars, registryVars, recovering, parent, subFaults, subCrashes>>

SubSlot(h) ==
    /\ handler[h].pc = "slot" /\ Cardinality(SlotsTaken) < SubSlots
    /\ SetHandler(h, [handler[h] EXCEPT !.pc = "inspect"])
    /\ UNCHANGED <<subMode, hostVars, registryVars, recovering, parent, subFaults, subCrashes>>

\* The delivery is cancelled while it waits for a slot.
SubDisconnect(h) ==
    /\ handler[h].pc = "slot" /\ SubFault
    /\ SetHandler(h, Operating(handler[h], "cancelled", "done"))
    /\ UNCHANGED <<subMode, hostVars, registryVars, recovering, parent, subCrashes>>

\* Mutant: a running task is taken to be somebody else's.
InspectedTrusting(f, status) ==
    IF status \in SubTerminal \cup {"running"} THEN NoFrame
    ELSE IF f.exec \in SubInvalid THEN Operating(f, "failed", "done")
    ELSE Operating(f, "running", "none")

\* What HandleAssignment does with a task in this state.
Inspected(f, status) ==
    IF status \in SubTerminal THEN NoFrame
    ELSE IF status = "running" \/ f.exec \in SubInvalid THEN Operating(f, "failed", "done")
    ELSE Operating(f, "running", "none")

SubInspect(h) ==
    /\ handler[h].pc = "inspect"
    /\ \/ SetHandler(h, Inspected(handler[h], hostTask[handler[h].exec])) /\ UNCHANGED subFaults
       \/ SubFault /\ SetHandler(h, NoFrame)
    /\ UNCHANGED <<subMode, hostVars, registryVars, recovering, parent, subCrashes>>

\* A task that could not be claimed is not run; after finish the delivery ends.
HandlerAfter(f, ok) ==
    IF f.op = "running" /\ ok THEN [f EXCEPT !.pc = "run"] ELSE NoFrame

SubExecutorOperate(h) ==
    /\ \/ Acknowledged(handler[h]) /\ SetHandler(h, HandlerAfter(handler[h], TRUE))
       \/ (Refused(handler[h]) \/ Unanswered(handler[h]))
          /\ SetHandler(h, [handler[h] EXCEPT !.pc = "confirm"])
    /\ UNCHANGED <<subMode, registryVars, recovering, parent, bodies, subCrashes>>

SubExecutorConfirm(h) ==
    /\ handler[h].pc = "confirm"
    /\ \/ SetHandler(h, HandlerAfter(handler[h], Confirmed(handler[h]))) /\ UNCHANGED subFaults
       \/ SubFault /\ SetHandler(h, HandlerAfter(handler[h], FALSE))
    /\ UNCHANGED <<subMode, hostVars, registryVars, recovering, parent, subCrashes>>

SubExecute(h) ==
    /\ handler[h].pc = "run"
    /\ bodies' = [bodies EXCEPT ![handler[h].exec] = @ + 1]
    /\ SetHandler(h, [handler[h] EXCEPT !.pc = "body"])
    /\ UNCHANGED <<subMode, hostTask, registryVars, recovering, parent, subFaults, subCrashes>>

SubExecuted(h) ==
    /\ handler[h].pc = "body"
    /\ \E outcome \in SubTerminal : SetHandler(h, Operating(handler[h], outcome, "done"))
    /\ UNCHANGED <<subMode, hostVars, registryVars, recovering, parent, subFaults, subCrashes>>

SubExecutorCrash ==
    /\ subCrashes < SubCrashes /\ subCrashes' = subCrashes + 1
    /\ \E h \in SubHandler : handler[h].pc # "idle"
    /\ handler' = [h \in SubHandler |-> NoFrame]
    /\ UNCHANGED <<subMode, hostVars, registryVars, recovering, parent, subFaults>>

-----------------------------------------------------------------------------
\* The steps fairness is about: no operation has to fail.
ParentProgress(e) ==
    /\ \/ SubStart(e) \/ SubRun(e) \/ SubReturn(e) \/ SubOperate(e) \/ SubConfirm(e)
       \/ SubAwait(e) \/ SubIndex(e) \/ SubNote(e)
    /\ UNCHANGED subFaults

HandlerProgress(h) ==
    /\ \/ SubSlot(h) \/ SubInspect(h) \/ SubExecutorOperate(h) \/ SubExecutorConfirm(h)
       \/ SubExecute(h) \/ SubExecuted(h)
    /\ UNCHANGED subFaults

Redeliver(e) == \E h \in SubHandler : SubDeliver(h, e)

SubNext ==
    \/ \E e \in SubExec :
          \/ SubAdmit(e) \/ SubAdmitFails(e) \/ SubStart(e) \/ SubRun(e) \/ SubReturn(e)
          \/ SubOperate(e) \/ SubConfirm(e) \/ SubAwait(e) \/ SubIndex(e)
          \/ SubNote(e) \/ SubNoteLost(e) \/ Redeliver(e)
    \/ SubRecover \/ SubRecoverFails \/ SubParentCrash \/ SubExecutorCrash
    \/ \E h \in SubHandler :
          \/ SubSlot(h) \/ SubInspect(h) \/ SubExecutorOperate(h) \/ SubExecutorConfirm(h)
          \/ SubExecute(h) \/ SubExecuted(h) \/ SubDisconnect(h)

SubSpec == SubInit /\ [][SubNext]_subVars

-----------------------------------------------------------------------------
SubTypeOK ==
    /\ subMode \in {"local", "external"} /\ indexed \in BOOLEAN /\ recovering \in BOOLEAN
    /\ hostTask \in [SubExec -> SubTerminal \cup {"none", "queued", "running"}]
    /\ record \in [SubThread -> [status : SubTerminal \cup SubOpen \cup {"none", "interrupted"},
                                 of : SubExec \cup {0}]]
    /\ \A e \in SubExec : parent[e].exec = e
    /\ bodies \in [SubExec -> Nat] /\ unseen \subseteq SubExec

\* The body of a child is started at most once, however often its task is
\* delivered, whatever replies are lost and wherever the executor stops: a
\* claim refused because somebody else runs the task is "confirmed" by the
\* status that one has caused, so the coalescing of deliveries and the
\* refusal of running tasks carry this (subagent_executor.go: "at-most-once
\* within a process and never replays a task already observed as running").
SubRunsOnce == \A e \in SubExec : bodies[e] <= 1

\* A record that names an outcome names the one the host has for the task it
\* refers to; an outcome that could not be confirmed is "interrupted".
SubRecordTruthful ==
    \A c \in SubThread :
        record[c].status \in SubTerminal => hostTask[record[c].of] = record[c].status

\* Once a restarted parent has recovered its registry no record shows a child
\* as open that nobody in this process runs any more, and its task is not
\* left open either, unless an observation of that child was lost.
SubNoGhost ==
    subMode = "local" /\ ~recovering =>
        \A c \in OpenRecords :
            LET e == record[c].of IN parent[e].pc \notin {"done", "lost"} \/ e \in unseen

\* A child the parent waits for settles, although the executor may stop and
\* replies may be lost: the wait ends with an outcome (or with the parent).
SubWaitEnds ==
    \A e \in SubExec : parent[e].pc = "await" ~> parent[e].pc \in {"done", "lost"}

\* A child runs once at most, and what list_subagents shows of it is so: an
\* outcome is the host's, and an open child is one somebody still runs.
SubSound == SubRunsOnce /\ SubRecordTruthful /\ SubNoGhost
=============================================================================
