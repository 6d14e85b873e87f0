--------------------------- MODULE ScheduledTurns ---------------------------
(***************************************************************************)
(* The scheduled turns of one worker (channels/aether/scheduled_turns.go). *)
(* The worker converges the schedules kept by Aether to the declarations   *)
(* of its config file, Aether turns due occurrences into tasks, and        *)
(* HandleAssignment, called for a delivery or by the recovery at startup,  *)
(* turns a queued task into a turn in the inbox of the channel.  The turn  *)
(* claims the task, publishes its final event and completes the task.      *)
(*                                                                         *)
(* A disabled declaration is an absent one: both remove the schedule and   *)
(* neither has the digest of an earlier task.  Other turns than scheduled  *)
(* ones are left out of the inbox.                                         *)
(***************************************************************************)
EXTENDS Integers, Sequences, FiniteSets, FiniteSetsExt

CONSTANTS
    Sched,           \* ids of declarations, in the order of their names
    SchedVersion,    \* what a declaration may say; its digest
    SchedTask,       \* tasks Aether may create
    SchedCallback,   \* deliveries that may be handled at the same time
    InboxCapacity,   \* inboxBuffer
    SchedEdits,      \* bound: changes of the config file
    SchedBefore,     \* the config file at the beginning
    SchedTroubles,   \* of {"fault", "crash"}: calls without an answer, crashes
    MaxSchedTroubles,\* bound: their number
    SchedDeliveries  \* bound: deliveries of one task

Off == "off"
Digest == SchedVersion \cup {Off}
Startup == "startup"
SchedHandler == SchedCallback \cup {Startup}
NoHandler == [pc |-> "idle", task |-> 0]
NoUpdate == [phase |-> "idle", todo |-> {}, stale |-> {}]

ASSUME SchedAssumption == SchedBefore \in [Sched -> Digest] /\ InboxCapacity \in Nat

VARIABLES
    configured,     \* [Sched -> Digest]: the config file
    schedules,      \* [Sched -> Digest]: the schedules Aether holds
    tasks,          \* [SchedTask -> [status, of, digest]]: the tasks Aether holds
    registrations,  \* [Sched -> Digest]: what the executor accepts
    applied,        \* [Sched -> Digest]: the file as it was last applied
    update,         \* the reconciliation under scheduleReconcileMu
    worker,         \* "down", "enabling", "recovering" or "serving"
    found,          \* queued tasks RecoverQueued has still to look at
    seen,           \* tasks the executor has taken
    bound,          \* executionBindings
    inbox,          \* Channel.tasks
    handlers,       \* [SchedHandler -> frame of HandleAssignment]
    turns,          \* [SchedTask -> "none", "running", "resumed" or "final"]
    delivered,     \* ghost: deliveries of each task
    begun,          \* ghost: how often the turn of each task began
    valid,          \* ghost: tasks whose declaration was accepted since they were taken
    rejected,       \* ghost: tasks the executor has failed
    schedEdits, schedTroubles

atAether == <<schedules, tasks, delivered>>
updating == <<registrations, applied, update>>
executing == <<seen, bound, inbox, handlers>>
schedGhosts == <<begun, valid, rejected>>
schedBounds == <<schedEdits, schedTroubles>>
schedVars == <<configured, atAether, updating, worker, found, executing, turns, schedGhosts,
               schedBounds>>

NoTaskYet == [status |-> "none", of |-> 0, digest |-> Off]
AllOff == [s \in Sched |-> Off]

SchedInit ==
    /\ configured = SchedBefore /\ schedules = configured
    /\ registrations = AllOff /\ applied = AllOff /\ update = NoUpdate
    /\ tasks = [t \in SchedTask |-> NoTaskYet]
    /\ worker = "down" /\ found = {}
    /\ seen = {} /\ bound = {} /\ inbox = <<>>
    /\ handlers = [h \in SchedHandler |-> NoHandler]
    /\ turns = [t \in SchedTask |-> "none"]
    /\ delivered = [t \in SchedTask |-> 0]
    /\ begun = [t \in SchedTask |-> 0] /\ valid = {} /\ rejected = {}
    /\ schedEdits = 0 /\ schedTroubles = 0

Up == worker # "down"
Serving == worker = "serving"
Enabled(declared) == {s \in Sched : declared[s] # Off}
Accepts(declared, t) == declared[tasks[t].of] = tasks[t].digest
Trouble(kind) ==
    /\ kind \in SchedTroubles /\ schedTroubles < MaxSchedTroubles
    /\ schedTroubles' = schedTroubles + 1
NoAnswer == Trouble("fault")

\* An operation on a task, as Aether allows it.
Operation(t, from, to) == tasks' = IF tasks[t].status \in from
                                   THEN [tasks EXCEPT ![t].status = to] ELSE tasks

\* The process is gone, and with it all it remembers.
Gone ==
    /\ worker' = "down" /\ found' = {}
    /\ registrations' = AllOff /\ applied' = AllOff /\ update' = NoUpdate
    /\ seen' = {} /\ bound' = {} /\ inbox' = <<>>
    /\ handlers' = [h \in SchedHandler |-> NoHandler]
    /\ turns' = [t \in SchedTask |-> "none"]
    /\ valid' = {}

-----------------------------------------------------------------------------
(* Aether and the config file. *)

SchedEdit ==
    /\ schedEdits < SchedEdits /\ schedEdits' = schedEdits + 1
    /\ \E s \in Sched, d \in Digest : configured' = [configured EXCEPT ![s] = d]
    /\ configured' # configured
    /\ UNCHANGED <<atAether, updating, worker, found, executing, turns, schedGhosts,
                   schedTroubles>>

SchedFire(s, t) ==
    /\ schedules[s] # Off
    /\ tasks[t].status = "none" /\ \A u \in SchedTask : u < t => tasks[u].status # "none"
    /\ tasks' = [tasks EXCEPT ![t] = [status |-> "queued", of |-> s, digest |-> schedules[s]]]
    /\ UNCHANGED <<configured, schedules, delivered, updating, worker, found, executing, turns,
                   schedGhosts, schedBounds>>

-----------------------------------------------------------------------------
(* ReplaceRegistrations and the reconciliation that follows it. *)

\* Mutant: only what this process has accepted before is looked for.
OwnStale(declared) == Enabled(registrations)

StaleOf(declared) == Enabled(schedules)

Replace(declared) ==
    /\ registrations' = declared /\ UNCHANGED applied
    /\ update' = [phase |-> "list", todo |-> {}, stale |-> {}]
    /\ valid' = valid \cup {t \in seen : Accepts(declared, t)}

SchedStart ==
    /\ worker = "down" /\ worker' = "enabling"
    /\ Replace(configured)
    /\ UNCHANGED <<configured, atAether, found, executing, turns, begun, rejected, schedBounds>>

\* The watcher sees a file that is not the one last applied.  (A file that
\* says again what was last applied is not looked at, though an update of the
\* executor may have failed in between.)
SchedReload ==
    /\ worker \in {"recovering", "serving"} /\ update = NoUpdate
    /\ configured # applied
    /\ Replace(configured)
    /\ UNCHANGED <<configured, atAether, worker, found, executing, turns, begun, rejected,
                   schedBounds>>

SchedList ==
    /\ update.phase = "list"
    /\ update' = [phase |-> "write", todo |-> Enabled(registrations),
                  stale |-> StaleOf(registrations)]
    /\ UNCHANGED <<configured, atAether, registrations, applied, worker, found, executing, turns,
                   schedGhosts, schedBounds>>

\* Declarations are written in their order, then stale schedules deleted.
NextWrite == Min(IF update.todo # {} THEN update.todo ELSE update.stale)
Written == [schedules EXCEPT ![NextWrite] = registrations[NextWrite]]

SchedWrite ==
    /\ update.phase = "write" /\ update.todo \cup update.stale # {}
    /\ schedules' = Written
    /\ update' = [update EXCEPT !.todo = @ \ {NextWrite}, !.stale = @ \ {NextWrite}]
    /\ UNCHANGED <<configured, tasks, delivered, registrations, applied, worker, found,
                   executing, turns, schedGhosts, schedBounds>>

\* Mutant: the query ends after its first page.
FirstPage == {t \in SchedTask : t = 1 /\ tasks[t].status = "queued"}

\* The tasks a query of the recovery lists.
Listed == {t \in SchedTask : tasks[t].status = "queued"}

\* An enabling worker goes on to its recovery; one that is up was told by
\* its watcher.
SchedUpdated ==
    /\ update.phase = "write" /\ update.todo \cup update.stale = {}
    /\ update' = NoUpdate /\ applied' = registrations
    /\ IF worker = "enabling"
       THEN /\ worker' = "recovering"
            /\ found' = Listed
       ELSE UNCHANGED <<worker, found>>
    /\ UNCHANGED <<configured, atAether, registrations, executing, turns, schedGhosts,
                   schedBounds>>

\* A call fails, with its effect or without: the update ends there, and an
\* enabling worker exits.
SchedUpdateFails ==
    /\ update # NoUpdate /\ NoAnswer
    /\ \/ UNCHANGED schedules
       \/ update.phase = "write" /\ update.todo \cup update.stale # {} /\ schedules' = Written
    /\ IF worker = "enabling"
       THEN Gone
       ELSE /\ update' = NoUpdate
            /\ UNCHANGED <<registrations, applied, worker, found, executing, turns, valid>>
    /\ UNCHANGED <<configured, tasks, delivered, begun, rejected, schedEdits>>

-----------------------------------------------------------------------------
(* HandleAssignment, for a delivery or for the recovery. *)

AtStage(h, pc) == handlers[h].pc = pc
TaskOf(h) == handlers[h].task
Goes(h, pc) == handlers' = [handlers EXCEPT ![h].pc = pc]
Leaves(h) == handlers' = [handlers EXCEPT ![h] = NoHandler]

\* The recovery fails with the assignment, and the startup with the recovery.
LeavesInError(h) ==
    IF h = Startup
    THEN Gone
    ELSE Leaves(h) /\ UNCHANGED <<updating, worker, found, seen, bound, inbox, turns, valid>>

\* markSeen
TakeUnless(h, t) ==
    IF t \in seen
    THEN UNCHANGED <<seen, handlers, valid>>
    ELSE /\ seen' = seen \cup {t}
         /\ handlers' = [handlers EXCEPT ![h] = [pc |-> "inspect", task |-> t]]
         /\ valid' = IF Accepts(registrations, t) THEN valid \cup {t} ELSE valid \ {t}

SchedDeliver(h, t) ==
    /\ Up /\ h # Startup /\ AtStage(h, "idle")
    /\ tasks[t].status # "none" /\ delivered[t] < SchedDeliveries
    /\ delivered' = [delivered EXCEPT ![t] = @ + 1]
    /\ TakeUnless(h, t)
    /\ UNCHANGED <<configured, schedules, tasks, updating, worker, found, bound, inbox, turns,
                   begun, rejected, schedBounds>>

\* RecoverQueued: the payload is made from the declaration, or the task
\* rejected and the startup given up.
SchedRecover(t) ==
    /\ t \in found /\ AtStage(Startup, "idle") /\ t = Min(found)
    /\ IF Accepts(registrations, t)
       THEN /\ found' = found \ {t} /\ TakeUnless(Startup, t)
            /\ UNCHANGED <<tasks, updating, worker, bound, inbox, turns, rejected>>
       ELSE /\ Operation(t, {"queued", "running"}, "failed") /\ rejected' = rejected \cup {t}
            /\ Gone
    /\ UNCHANGED <<configured, schedules, delivered, begun, schedBounds>>

\* Mutant: a running task is not what was expected.
NextStageStrict(t) ==
    CASE tasks[t].status = "queued"  -> "check"
      [] tasks[t].status = "running" -> "reject"
      [] OTHER                       -> "idle"

\* What HandleAssignment does next with a task in this state.
NextStage(t) == IF tasks[t].status = "queued" THEN "check" ELSE "idle"

SchedInspect(h) ==
    /\ AtStage(h, "inspect")
    /\ IF NextStage(TaskOf(h)) = "idle" THEN Leaves(h) ELSE Goes(h, NextStage(TaskOf(h)))
    /\ UNCHANGED <<configured, atAether, updating, worker, found, seen, bound, inbox, turns,
                   schedGhosts, schedBounds>>

\* The task state is not answered: the task may be taken again.
SchedInspectFails(h) ==
    /\ AtStage(h, "inspect") /\ NoAnswer
    /\ IF h = Startup
       THEN Gone
       ELSE /\ Leaves(h) /\ seen' = seen \ {TaskOf(h)}
            /\ UNCHANGED <<updating, worker, found, bound, inbox, turns, valid>>
    /\ UNCHANGED <<configured, atAether, begun, rejected, schedEdits>>

\* The declaration of the task is the accepted one, or the task is rejected.
SchedCheck(h) ==
    /\ AtStage(h, "check")
    /\ Goes(h, IF Accepts(registrations, TaskOf(h)) THEN "bind" ELSE "reject")
    /\ UNCHANGED <<configured, atAether, updating, worker, found, seen, bound, inbox, turns,
                   schedGhosts, schedBounds>>

\* EnqueueBoundTurn: the binding first, then the inbox, which may be full.
SchedBind(h) ==
    /\ AtStage(h, "bind")
    /\ IF TaskOf(h) \in bound
       THEN Goes(h, "reject") /\ UNCHANGED bound
       ELSE Goes(h, "send") /\ bound' = bound \cup {TaskOf(h)}
    /\ UNCHANGED <<configured, atAether, updating, worker, found, seen, inbox, turns,
                   schedGhosts, schedBounds>>

SchedSend(h) ==
    /\ AtStage(h, "send") /\ Len(inbox) < InboxCapacity
    /\ inbox' = Append(inbox, TaskOf(h)) /\ Leaves(h)
    /\ UNCHANGED <<configured, atAether, updating, worker, found, seen, bound, turns,
                   schedGhosts, schedBounds>>

\* reject: FailTask, which may go unanswered; the task stays taken.
SchedReject(h) ==
    /\ AtStage(h, "reject")
    /\ \/ /\ Operation(TaskOf(h), {"queued", "running"}, "failed")
          /\ rejected' = rejected \cup {TaskOf(h)} /\ UNCHANGED schedTroubles
       \/ NoAnswer /\ UNCHANGED <<tasks, rejected>>
    /\ LeavesInError(h)
    /\ UNCHANGED <<configured, schedules, delivered, begun, schedEdits>>

\* Startup is over once every queued task is in the inbox.
SchedServe ==
    /\ worker = "recovering" /\ found = {} /\ AtStage(Startup, "idle")
    /\ worker' = "serving"
    /\ UNCHANGED <<configured, atAether, updating, found, executing, turns, schedGhosts,
                   schedBounds>>

-----------------------------------------------------------------------------
(* The turns: the run loop, the task lifecycle around a turn, and the turns *)
(* that are resumed after a restart.                                        *)

\* A turn that cannot claim its task does not begin.
SchedFetch ==
    /\ Serving /\ inbox # <<>> /\ inbox' = Tail(inbox)
    /\ LET t == Head(inbox)
       IN  \/ /\ Operation(t, {"queued"}, "running")
              /\ IF tasks[t].status = "queued"
                 THEN turns' = [turns EXCEPT ![t] = "running"] /\ begun' = [begun EXCEPT ![t] = @ + 1]
                 ELSE UNCHANGED <<turns, begun>>
              /\ UNCHANGED schedTroubles
           \/ NoAnswer /\ UNCHANGED <<tasks, turns, begun>>
    /\ UNCHANGED <<configured, schedules, delivered, updating, worker, found, seen, bound,
                   handlers, valid, rejected, schedEdits>>

\* PublishEvent of the final message, or a turn that ends without one.
SchedFinal(t) ==
    /\ turns[t] \in {"running", "resumed"} /\ turns' = [turns EXCEPT ![t] = "final"]
    /\ \/ bound' = bound \ {t} /\ seen' = seen \ {t}
       \/ UNCHANGED seen /\ bound' = IF turns[t] = "resumed" THEN bound \ {t} ELSE bound
    /\ UNCHANGED <<configured, atAether, updating, worker, found, inbox, handlers, schedGhosts,
                   schedBounds>>

SchedComplete(t) ==
    /\ turns[t] = "final" /\ turns' = [turns EXCEPT ![t] = "none"]
    /\ \E outcome \in {"completed", "failed"} : Operation(t, {"queued", "running"}, outcome)
    /\ UNCHANGED <<configured, schedules, delivered, updating, worker, found, executing,
                   schedGhosts, schedBounds>>

\* recoverAetherTurn, for a turn whose record is still active: resumed under
\* the declaration it was started from, or failed.
SchedResume(t) ==
    /\ Serving /\ tasks[t].status = "running" /\ turns[t] = "none"
    /\ IF Accepts(registrations, t) /\ t \notin bound
       THEN /\ bound' = bound \cup {t} /\ turns' = [turns EXCEPT ![t] = "resumed"]
            /\ UNCHANGED tasks
       ELSE Operation(t, {"running"}, "failed") /\ UNCHANGED <<bound, turns>>
    /\ UNCHANGED <<configured, schedules, delivered, updating, worker, found, seen, inbox,
                   handlers, schedGhosts, schedBounds>>

SchedCrash ==
    /\ Up /\ Trouble("crash")
    /\ Gone
    /\ UNCHANGED <<configured, atAether, begun, rejected, schedEdits>>

-----------------------------------------------------------------------------
SchedHandle(h) ==
    SchedInspect(h) \/ SchedCheck(h) \/ SchedBind(h) \/ SchedSend(h) \/ SchedReject(h)

\* What the worker and its supervisor do without being asked.
SchedWork ==
    \/ SchedStart \/ SchedReload \/ SchedList \/ SchedWrite \/ SchedUpdated
    \/ SchedServe \/ SchedFetch \/ (\E t \in SchedTask : SchedRecover(t))

\* Aether delivers a task to a worker that is there.
SchedDelivery(t) == delivered[t] = 0 /\ \E h \in SchedCallback : SchedDeliver(h, t)

SchedNext ==
    \/ SchedEdit \/ SchedUpdateFails \/ SchedCrash \/ SchedWork
    \/ \E s \in Sched, t \in SchedTask : SchedFire(s, t)
    \/ \E h \in SchedHandler : SchedHandle(h) \/ SchedInspectFails(h)
    \/ \E h \in SchedHandler, t \in SchedTask : SchedDeliver(h, t)
    \/ \E t \in SchedTask : SchedFinal(t) \/ SchedComplete(t) \/ SchedResume(t)

SchedSpec == SchedInit /\ [][SchedNext]_schedVars

-----------------------------------------------------------------------------
(* Properties. *)

SchedTypeOK ==
    /\ configured \in [Sched -> Digest] /\ registrations \in [Sched -> Digest]
    /\ tasks \in [SchedTask -> [status : {"none", "queued", "running", "completed", "failed"},
                                of : Sched \cup {0}, digest : Digest]]
    /\ handlers \in [SchedHandler -> [pc : {"idle", "inspect", "check", "bind", "send", "reject"},
                                      task : SchedTask \cup {0}]]
    /\ found \cup seen \cup bound \subseteq SchedTask /\ Len(inbox) <= InboxCapacity

\* Across deliveries, redeliveries, recoveries and restarts the turn of a
\* task begins once at most, never from a declaration that was not accepted
\* at any time since the task was taken, and never for a task the executor
\* has failed (HandleAssignment, RecoverQueued, reject).
SchedTurnsSound ==
    \A t \in SchedTask :
        /\ begun[t] <= 1
        /\ turns[t] = "running" => t \in valid
        /\ t \in rejected => begun[t] = 0

\* An update that succeeded left Aether with exactly the declarations it was
\* given, whatever updates and processes before it left behind
\* (reconcileScheduledTurnDefinitionsFor).
SchedConverged ==
    Up /\ update = NoUpdate /\ applied = registrations => schedules = registrations

\* Scheduled turns begin as declared, and Aether has the declarations.
SchedSound == SchedTurnsSound /\ SchedConverged

\* A queued task leaves the queue: the worker comes back and takes it
\* (RecoverQueued, HandleAssignment).
SchedQueueMoves ==
    \A t \in SchedTask : tasks[t].status = "queued" ~> tasks[t].status # "queued"
=============================================================================
